------------------------ MODULE SessionManagerProofs ------------------------
(***************************************************************************)
(* Proofs about SessionManager, for every set of identifiers and routes,   *)
(* every limit and any lock wait.  The inductive invariant IInv says that  *)
(* the table is well derived; the lemmas show that deleting a cascade and  *)
(* adding a contained child both keep it so.                               *)
(***************************************************************************)
EXTENDS SessionManager, TLAPS

-----------------------------------------------------------------------------
(* The cascade *)

\* deleteCascadeLocked selects table entries only, and each root it finds.
LEMMA CascadeWithinTable ==
  ASSUME NEW table, NEW roots
  PROVE  /\ Cascade(table, roots) \subseteq DOMAIN table
         /\ roots \cap DOMAIN table \subseteq Cascade(table, roots)
BY DEF Cascade

\* An entry whose parent is selected is selected.
LEMMA CascadeClosed ==
  ASSUME NEW table, NEW roots, NEW s \in DOMAIN table,
         table[s].parent \in Cascade(table, roots)
  PROVE  s \in Cascade(table, roots)
BY DEF Cascade, ClosedUnderChildren

\* Nothing is selected beyond a closed set that holds the roots.
LEMMA CascadeLeast ==
  ASSUME NEW table, NEW roots, NEW D \in SUBSET (DOMAIN table \cup roots),
         roots \subseteq D, ClosedUnderChildren(table, D)
  PROVE  Cascade(table, roots) \subseteq D
BY DEF Cascade

\* Deleting a cascade leaves the table well derived.
LEMMA CascadeKeepsWellDerived ==
  ASSUME NEW table, NEW roots, WellDerived(table),
         NoParent \notin DOMAIN table
  PROVE  WellDerived(Without(table, Cascade(table, roots)))
<1> DEFINE kept == DOMAIN table \ Cascade(table, roots)
           left == Without(table, Cascade(table, roots))
<1>1. /\ DOMAIN left = kept
      /\ \A s \in kept : left[s] = table[s]
  BY DEF Without, Restrict
<1>2. \A s \in kept : table[s].parent \in kept \cup {NoParent}
  BY CascadeClosed DEF WellDerived, ParentsPresent
<1> HIDE DEF left
<1>3. ParentsPresent(left)
  BY <1>1, <1>2 DEF ParentsPresent
<1>4. ChildrenContained(left)
  <2> SUFFICES ASSUME NEW s \in kept, table[s].parent # NoParent
               PROVE  LET parent == table[table[s].parent]
                      IN  /\ table[s].expires <= parent.expires
                          /\ table[s].routes \subseteq parent.routes
                          /\ table[s].endpoint = parent.endpoint
                          /\ table[s].interactive => parent.interactive
    BY <1>1, <1>2 DEF ChildrenContained
  <2>1. QED
    BY DEF WellDerived, ChildrenContained
<1>5. Rooted(left)
  BY <1>1 DEF WellDerived, Rooted
<1>6. QED
  BY <1>3, <1>4, <1>5 DEF WellDerived, left

\* Sweeping every entry expired at t deletes only entries expired at t, since
\* no child outlives its parent.
LEMMA SweepIsExact ==
  ASSUME NEW table, NEW t \in Int, WellDerived(table),
         NoParent \notin DOMAIN table,
         \A s \in DOMAIN table : table[s].expires \in Int
  PROVE  Cascade(table, ExpiredAt(table, t)) = ExpiredAt(table, t)
<1> DEFINE expired == ExpiredAt(table, t)
<1>1. expired \subseteq DOMAIN table
  BY DEF ExpiredAt
<1>2. ClosedUnderChildren(table, expired)
  <2> SUFFICES ASSUME NEW s \in DOMAIN table, table[s].parent \in expired
               PROVE  s \in expired
    BY DEF ClosedUnderChildren
  <2>1. table[s].parent # NoParent /\ table[s].parent \in DOMAIN table
    BY <1>1
  <2>2. table[s].expires <= table[table[s].parent].expires
    BY <2>1 DEF WellDerived, ChildrenContained
  <2>3. QED
    BY <2>1, <2>2 DEF ExpiredAt
<1>3. Cascade(table, expired) \subseteq expired
  BY <1>2, CascadeLeast
<1>4. QED
  BY <1>1, <1>3, CascadeWithinTable

\* Adding a fresh entry whose parent is NoParent or contains it leaves the
\* table well derived.
LEMMA ExtensionKeepsWellDerived ==
  ASSUME NEW table, NEW table2, NEW id, WellDerived(table),
         NoParent \notin DOMAIN table, id # NoParent, id \notin DOMAIN table,
         DOMAIN table2 = DOMAIN table \cup {id},
         \A s \in DOMAIN table : table2[s] = table[s],
         table2[id].parent \in DOMAIN table \cup {NoParent},
         table2[id].parent # NoParent =>
           LET parent == table[table2[id].parent]
           IN  /\ table2[id].expires <= parent.expires
               /\ table2[id].routes \subseteq parent.routes
               /\ table2[id].endpoint = parent.endpoint
               /\ table2[id].interactive => parent.interactive
  PROVE  WellDerived(table2)
<1>1. ParentsPresent(table2)
  BY DEF WellDerived, ParentsPresent
<1>2. ChildrenContained(table2)
  <2> SUFFICES ASSUME NEW s \in DOMAIN table2, table2[s].parent # NoParent
               PROVE  LET parent == table2[table2[s].parent]
                      IN  /\ table2[s].expires <= parent.expires
                          /\ table2[s].routes \subseteq parent.routes
                          /\ table2[s].endpoint = parent.endpoint
                          /\ table2[s].interactive => parent.interactive
    BY DEF ChildrenContained
  <2>1. CASE s = id
    BY <2>1
  <2>2. CASE s # id
    <3>1. s \in DOMAIN table /\ table2[s] = table[s]
      BY <2>2
    <3>2. table[s].parent \in DOMAIN table
      BY <3>1 DEF WellDerived, ParentsPresent
    <3>3. QED
      BY <3>1, <3>2 DEF WellDerived, ChildrenContained
  <2>3. QED
    BY <2>1, <2>2
<1>3. Rooted(table2)
  <2> SUFFICES ASSUME NEW S \in SUBSET DOMAIN table2, S # {}
               PROVE  \E s \in S : table2[s].parent \notin S
    BY DEF Rooted
  <2>1. CASE S \subseteq {id}
    <3>1. id \in S /\ table2[id].parent # id
      BY <2>1
    <3>2. QED
      BY <2>1, <3>1
  <2>2. CASE ~(S \subseteq {id})
    <3>1. S \ {id} # {} /\ S \ {id} \in SUBSET DOMAIN table
      BY <2>2
    <3>2. PICK s \in S \ {id} : table[s].parent \notin S \ {id}
      BY <3>1 DEF WellDerived, Rooted
    <3>3. s \in DOMAIN table /\ table[s].parent # id
      BY <3>1 DEF WellDerived, ParentsPresent
    <3>4. QED
      BY <3>2, <3>3
  <2>3. QED
    BY <2>1, <2>2
<1>4. QED
  BY <1>1, <1>2, <1>3 DEF WellDerived

-----------------------------------------------------------------------------
(* The steps *)

\* Restricting a typed table keeps it typed.
LEMMA WithoutTyped ==
  ASSUME NEW table, table \in [DOMAIN table -> Session], NEW gone
  PROVE  LET left == Without(table, gone)
         IN  /\ DOMAIN left = DOMAIN table \ gone
             /\ left \in [DOMAIN left -> Session]
             /\ \A s \in DOMAIN left : left[s] = table[s]
BY DEF Without, Restrict

\* Every deletion of the manager is a cascade, and keeps IInv.
LEMMA RevokePreserves ==
  ASSUME IInv, NEW roots, Revoke(roots)
  PROVE  IInv'
<1> DEFINE gone == Cascade(sessions, roots)
<1>1. /\ sessions' = Without(sessions, gone)
      /\ cancelled' = cancelled \cup gone
      /\ now' = now /\ issued' = issued
  BY DEF Revoke
<1>2. gone \subseteq Live
  BY CascadeWithinTable DEF Live
<1> HIDE DEF gone
<1>3. /\ Live' = Live \ gone
      /\ sessions' \in [Live' -> Session]
  BY <1>1, WithoutTyped DEF IInv, TypeOK, Live
<1>4. TypeOK'
  BY <1>1, <1>2, <1>3 DEF IInv, TypeOK
<1>5. RevocationIsComplete'
  BY <1>1, <1>2, <1>3 DEF IInv, TypeOK, RevocationIsComplete
<1>6. WellDerived(sessions')
  BY <1>1, CascadeKeepsWellDerived, ParentAssumption
     DEF gone, IInv, TypeOK, Live
<1>7. QED
  BY <1>4, <1>5, <1>6 DEF IInv

\* Create sweeps, then adds a child contained in its parent.
LEMMA CreatePreserves ==
  ASSUME IInv,
         NEW id \in SessionIds, NEW parent \in SessionIds \cup {NoParent},
         NEW endpoint \in Endpoints, NEW routes \in SUBSET Routes,
         NEW t \in Int, NEW ttl \in Int,
         NEW interactive \in BOOLEAN, NEW clamp \in BOOLEAN,
         Create(id, parent, endpoint, routes, t, ttl, interactive, clamp)
  PROVE  IInv'
<1> DEFINE gone == Cascade(sessions, ExpiredAt(sessions, t))
           swept == Without(sessions, gone)
           new == [parent      |-> parent,
                   endpoint    |-> endpoint,
                   routes      |-> routes,
                   expires     |-> Expiry(swept, parent, t, ttl, clamp),
                   interactive |-> interactive]
<1>1. /\ id \notin issued
      /\ Admissible(swept, parent, endpoint, routes, t, ttl, interactive, clamp)
      /\ sessions' = [s \in DOMAIN swept \cup {id} |->
                        IF s = id THEN new ELSE swept[s]]
      /\ cancelled' = cancelled \cup (Live \ DOMAIN swept)
      /\ issued' = issued \cup {id}
      /\ now' = now
  BY DEF Create, SweptAt
<1>2. gone \subseteq Live
  BY CascadeWithinTable DEF Live
<1>3. WellDerived(swept)
  BY CascadeKeepsWellDerived, ParentAssumption DEF IInv, TypeOK, Live
<1> HIDE DEF gone
<1>4. /\ DOMAIN swept = Live \ gone
      /\ swept \in [DOMAIN swept -> Session]
  BY WithoutTyped DEF IInv, TypeOK, Live
<1> HIDE DEF swept
<1>5. parent # NoParent => parent \in DOMAIN swept
  BY <1>1 DEF Admissible
<1>6. Expiry(swept, parent, t, ttl, clamp) \in Int
  BY <1>4, <1>5 DEF Expiry, Session
<1>7. new \in Session
  BY <1>6 DEF Session
<1>8. parent # NoParent =>
        /\ Expiry(swept, parent, t, ttl, clamp) <= swept[parent].expires
        /\ routes \subseteq swept[parent].routes
        /\ endpoint = swept[parent].endpoint
        /\ interactive => swept[parent].interactive
  BY <1>1, <1>4, <1>5 DEF Admissible, Expiry, Session
<1> HIDE DEF new
<1>9. /\ Live' = (Live \ gone) \cup {id}
      /\ sessions' \in [Live' -> Session]
  BY <1>1, <1>4, <1>7 DEF Live
<1>10. TypeOK'
  BY <1>1, <1>2, <1>4, <1>9 DEF IInv, TypeOK
<1>11. RevocationIsComplete'
  BY <1>1, <1>2, <1>4, <1>9 DEF IInv, TypeOK, RevocationIsComplete
<1>12. WellDerived(sessions')
  <2>1. NoParent \notin DOMAIN swept /\ id # NoParent /\ id \notin DOMAIN swept
    BY <1>1, <1>4, ParentAssumption DEF IInv, TypeOK
  <2>2. /\ DOMAIN sessions' = DOMAIN swept \cup {id}
        /\ \A s \in DOMAIN swept : sessions'[s] = swept[s]
        /\ sessions'[id] = new
    BY <1>1, <2>1
  <2>3. /\ new.parent = parent /\ new.routes = routes
        /\ new.endpoint = endpoint /\ new.interactive = interactive
        /\ new.expires = Expiry(swept, parent, t, ttl, clamp)
    BY DEF new
  <2>4. QED
    BY <1>3, <1>5, <1>8, <2>1, <2>2, <2>3, ExtensionKeepsWellDerived
<1>13. QED
  BY <1>10, <1>11, <1>12 DEF IInv

LEMMA NextPreserves ==
  ASSUME IInv, [Next]_vars
  PROVE  IInv'
<1>1. ASSUME NEW id \in SessionIds, NEW parent \in SessionIds \cup {NoParent},
             NEW endpoint \in Endpoints, NEW routes \in SUBSET Routes,
             NEW t \in ClockReads, NEW ttl \in 1 .. MaxTTL,
             NEW interactive \in BOOLEAN, NEW clamp \in BOOLEAN,
             Create(id, parent, endpoint, routes, t, ttl, interactive, clamp)
      PROVE  IInv'
  BY <1>1, CreatePreserves DEF ClockReads
<1>2. ASSUME NEW t \in ClockReads, CreateRefused(t)
      PROVE  IInv'
  BY <1>2, RevokePreserves DEF CreateRefused
<1>3. ASSUME NEW s \in SessionIds, AuthorizeRoute(s) \/ ContainsRoute(s)
      PROVE  IInv'
  <2>1. CASE UNCHANGED vars
    BY <2>1 DEF vars, IInv, TypeOK, RevocationIsComplete, Live
  <2>2. CASE Revoke({s})
    BY <2>2, RevokePreserves
  <2>3. QED
    BY <1>3, <2>1, <2>2 DEF AuthorizeRoute, ContainsRoute
<1>4. ASSUME NEW s \in SessionIds, Delete(s)
      PROVE  IInv'
  BY <1>4, RevokePreserves DEF Delete
<1>5. ASSUME NEW targets \in SUBSET Routes, DeleteRoutes(targets)
      PROVE  IInv'
  BY <1>5, RevokePreserves DEF DeleteRoutes
<1>6. CASE DeleteAll
  BY <1>6, RevokePreserves DEF DeleteAll
<1>7. ASSUME NEW s \in SessionIds, NEW route \in Routes,
             DeleteChildAuthorized(s, route)
      PROVE  IInv'
  BY <1>7, RevokePreserves DEF DeleteChildAuthorized
<1>8. CASE PruneExpired \/ List
  BY <1>8, RevokePreserves DEF PruneExpired, List
<1>9. CASE Close
  <2>1. /\ Live' = {} /\ sessions' \in [Live' -> Session]
    BY <1>9 DEF Close, Without, Restrict, Live
  <2>2. TypeOK' /\ RevocationIsComplete'
    BY <1>9, <2>1 DEF Close, IInv, TypeOK, RevocationIsComplete
  <2>3. WellDerived(sessions')
    BY <2>1 DEF WellDerived, ParentsPresent, ChildrenContained, Rooted, Live
  <2>4. QED
    BY <2>2, <2>3 DEF IInv
<1>10. CASE Tick
  BY <1>10, LimitsAssumption
     DEF Tick, IInv, TypeOK, RevocationIsComplete, Live
<1>11. CASE UNCHANGED vars
  BY <1>11 DEF vars, IInv, TypeOK, RevocationIsComplete, Live
<1>12. QED
  BY <1>1, <1>2, <1>3, <1>4, <1>5, <1>6, <1>7, <1>8, <1>9, <1>10, <1>11
     DEF Next

-----------------------------------------------------------------------------
(* The theorems *)

\* The table is well typed, complete in its revocations and well derived in
\* every reachable state.
THEOREM InductiveInvariant == Spec => []IInv
<1>1. Init => IInv
  BY LimitsAssumption
     DEF Init, IInv, TypeOK, RevocationIsComplete, WellDerived, ParentsPresent,
         ChildrenContained, Rooted, Live
<1>2. IInv /\ [Next]_vars => IInv'
  BY NextPreserves
<1>3. QED
  BY <1>1, <1>2, PTL DEF Spec

\* Type correctness of the session table.
THEOREM TypeCorrect == Spec => []TypeOK
<1>1. IInv => TypeOK
  BY DEF IInv
<1>2. QED
  BY <1>1, InductiveInvariant, PTL

\* A nested session never holds authority its parent lacks: create's checks,
\* the expiry clamp and the cascade keep AuthorizeRoute's answers contained.
THEOREM AuthorityContainment == Spec => []AuthorityFlowsFromParent
<1>1. IInv => AuthorityFlowsFromParent
  <2> SUFFICES ASSUME IInv, NEW s \in Live, NEW route \in Routes,
                      Authorizes(s, route), sessions[s].parent # NoParent
               PROVE  LET parent == sessions[s].parent
                      IN  /\ Authorizes(parent, route)
                          /\ sessions[s].endpoint = sessions[parent].endpoint
                          /\ sessions[s].interactive =>
                               sessions[parent].interactive
    BY DEF AuthorityFlowsFromParent
  <2>1. sessions[s].parent \in Live
    BY DEF IInv, WellDerived, ParentsPresent, Live
  <2>2. /\ sessions[s].expires \in Int
        /\ sessions[sessions[s].parent].expires \in Int
        /\ now \in Int
    BY <2>1 DEF IInv, TypeOK, Session
  <2>3. QED
    BY <2>1, <2>2
       DEF IInv, WellDerived, ChildrenContained, Authorizes, Live
<1>2. QED
  BY <1>1, InductiveInvariant, PTL

\* Every path that removes a session cancels its context and wipes it.
THEOREM RevocationComplete == Spec => []RevocationIsComplete
<1>1. IInv => RevocationIsComplete
  BY DEF IInv
<1>2. QED
  BY <1>1, InductiveInvariant, PTL

\* Whatever List returns is a forest that registry.CallTree accepts.
THEOREM CallTreeTotal == Spec => []ListedSessionsFormATree
<1>1. IInv => ListedSessionsFormATree
  <2> SUFFICES ASSUME IInv
               PROVE  CallTreeAccepts(Listed)
    BY DEF ListedSessionsFormATree
  <2>1. \A s \in Listed : sessions[s].parent \in Listed \cup {NoParent}
    <3> SUFFICES ASSUME NEW s \in Listed, sessions[s].parent # NoParent
                 PROVE  sessions[s].parent \in Listed
      OBVIOUS
    <3>1. s \in Live /\ sessions[s].parent \in Live
      BY DEF Listed, IInv, WellDerived, ParentsPresent, Live
    <3>2. sessions[s].expires <= sessions[sessions[s].parent].expires
      BY <3>1 DEF IInv, WellDerived, ChildrenContained, Live
    <3>3. /\ sessions[s].expires \in Int
          /\ sessions[sessions[s].parent].expires \in Int
          /\ now \in Int
      BY <3>1 DEF IInv, TypeOK, Session
    <3>4. QED
      BY <3>1, <3>2, <3>3 DEF Listed
  <2>2. \A S \in SUBSET Listed :
          S # {} => \E s \in S : sessions[s].parent \notin S
    BY DEF Listed, IInv, WellDerived, Rooted, Live
  <2>3. QED
    BY <2>1, <2>2 DEF CallTreeAccepts
<1>2. QED
  BY <1>1, InductiveInvariant, PTL

\* A sweep, by the ticker, by List or before a creation, only ever removes
\* sessions that have expired themselves.
THEOREM SweepsAreExact == Spec => SweepSparesUnexpired
<1>1. ASSUME IInv, [Next]_vars, issued' # issued \/ PruneExpired,
             NEW s \in Live \ Live'
      PROVE  sessions[s].expires <= now
  <2>1. \A t \in Int : Cascade(sessions, ExpiredAt(sessions, t))
                         = ExpiredAt(sessions, t)
    BY <1>1, SweepIsExact, ParentAssumption
       DEF IInv, TypeOK, Session, Live
  <2>2. CASE PruneExpired
    <3>1. s \in Cascade(sessions, ExpiredAt(sessions, now))
      BY <1>1, <2>2 DEF PruneExpired, Revoke, Without, Restrict, Live
    <3>2. now \in Int
      BY <1>1 DEF IInv, TypeOK
    <3>3. s \in ExpiredAt(sessions, now)
      BY <2>1, <3>1, <3>2
    <3>4. QED
      BY <3>3 DEF ExpiredAt
  <2>3. CASE issued' # issued
    <3>1. PICK id \in SessionIds, parent \in SessionIds \cup {NoParent},
               endpoint \in Endpoints, routes \in SUBSET Routes,
               t \in ClockReads, ttl \in 1 .. MaxTTL,
               interactive \in BOOLEAN, clamp \in BOOLEAN :
            Create(id, parent, endpoint, routes, t, ttl, interactive, clamp)
      BY <1>1, <2>3
         DEF Next, vars, Revoke, CreateRefused, AuthorizeRoute, ContainsRoute,
             Delete, DeleteRoutes, DeleteAll, DeleteChildAuthorized,
             PruneExpired, List, Close, Tick
    <3>2. t \in Int /\ t <= now /\ now \in Int
      BY <1>1 DEF ClockReads, IInv, TypeOK
    <3>3. s \in Cascade(sessions, ExpiredAt(sessions, t))
      BY <1>1, <3>1 DEF Create, SweptAt, Without, Restrict, Live
    <3>4. sessions[s].expires <= t /\ sessions[s].expires \in Int
      BY <1>1, <2>1, <3>2, <3>3 DEF ExpiredAt, IInv, TypeOK, Session
    <3>5. QED
      BY <3>2, <3>4
  <2>4. QED
    BY <1>1, <2>2, <2>3
<1>2. IInv /\ [Next]_vars =>
        [(issued' # issued \/ PruneExpired) =>
           \A s \in Live \ Live' : sessions[s].expires <= now]_vars
  BY <1>1
<1>3. QED
  BY <1>2, InductiveInvariant, PTL DEF Spec, SweepSparesUnexpired

=============================================================================
