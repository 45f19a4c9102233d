--------------------------- MODULE SessionManager ---------------------------
(***************************************************************************)
(* The protection session table of internal/session/manager.go.            *)
(*                                                                         *)
(* A session is a bounded capability: it names the routes it may use, the  *)
(* instant it expires and, for a nested agent, the parent it was derived   *)
(* from.  The manager promises that authority only shrinks on the way from *)
(* a parent to a child and that whatever ends a session ends everything    *)
(* derived from it.  Every exported method of Manager holds m.mu from      *)
(* before its first read of the table to its return, so each is one action *)
(* here, with one exception: create reads the clock before it locks, and   *)
(* the lock may be granted up to MaxLockWait ticks later.                  *)
(*                                                                         *)
(* Identifiers and route tokens are 128 and 256 bits of crypto/rand: a new *)
(* session takes an identifier that was never issued before, and a token   *)
(* is matched by naming the session and route it was minted for.           *)
(***************************************************************************)
EXTENDS Integers, FiniteSets, Functions

CONSTANTS
  SessionIds,   \* the identifiers crypto/rand may produce
  NoParent,     \* ParentSessionID = ""
  Routes,       \* syntactically valid route identifiers
  Endpoints,    \* Core endpoints a caller may name
  MaxSessions,  \* Limits.MaxSessions
  MaxTTL,       \* Limits.MaxTTL, in ticks
  MaxLockWait,  \* bound: ticks between create's clock read and its lock
  MaxTime       \* bound: the clock stops here

ASSUME ParentAssumption == NoParent \notin SessionIds
ASSUME LimitsAssumption == /\ MaxSessions \in Nat \ {0}
                           /\ MaxTTL \in Nat \ {0}
                           /\ MaxLockWait \in Nat
                           /\ MaxTime \in Nat

VARIABLES
  now,       \* the clock m.now() reads
  sessions,  \* m.sessions: a function from the live identifiers
  issued,    \* identifiers handed out so far
  cancelled  \* sessions whose context is cancelled and whose secrets are wiped

vars == <<now, sessions, issued, cancelled>>

\* domain.ProtectionSession with the fields the manager decides on.
Session == [parent      : SessionIds \cup {NoParent},
            endpoint    : Endpoints,
            routes      : SUBSET Routes,
            expires     : Int,
            interactive : BOOLEAN]

Live == DOMAIN sessions

-----------------------------------------------------------------------------
(* The cascade *)

\* D holds, with a session, every session derived from it.
ClosedUnderChildren(table, D) ==
  \A s \in DOMAIN table : table[s].parent \in D => s \in D

\* Faulty variant: nested sessions stay.
CascadeShallow(table, roots) == DOMAIN table \cap roots

\* What deleteCascadeLocked selects: the least set of entries that holds the
\* roots and is closed under children.
Cascade(table, roots) ==
  {s \in DOMAIN table :
     \A D \in SUBSET (DOMAIN table \cup roots) :
       roots \subseteq D /\ ClosedUnderChildren(table, D) => s \in D}

Without(table, gone) == Restrict(table, DOMAIN table \ gone)

\* Entries for which ExpiresAt.After(t) is false.
ExpiredAt(table, t) == {s \in DOMAIN table : table[s].expires <= t}

\* Faulty variant: only the roots of a cascade are cancelled.
RevokeUncancelled(roots) ==
  LET gone == Cascade(sessions, roots)
  IN  /\ sessions' = Without(sessions, gone)
      /\ cancelled' = cancelled \cup (gone \cap roots)
      /\ UNCHANGED <<now, issued>>

\* Faulty variant: sessions leave the table and keep their contexts.
RevokeSilently(roots) ==
  /\ sessions' = Without(sessions, Cascade(sessions, roots))
  /\ UNCHANGED <<now, issued, cancelled>>

\* The table with the roots and their descendants cancelled, wiped, deleted.
Revoke(roots) ==
  LET gone == Cascade(sessions, roots)
  IN  /\ sessions' = Without(sessions, gone)
      /\ cancelled' = cancelled \cup gone
      /\ UNCHANGED <<now, issued>>

-----------------------------------------------------------------------------
(* Creation *)

\* The table create decides on once every expired entry has been swept.
SweptAt(t) == Without(sessions, Cascade(sessions, ExpiredAt(sessions, t)))

\* A child may not outlive its parent unless the caller asked for clamping.
Expiry(table, parent, t, ttl, clamp) ==
  IF parent # NoParent /\ clamp /\ t + ttl > table[parent].expires
  THEN table[parent].expires
  ELSE t + ttl

\* Faulty variant: a child may ask for more time than its parent has.
AdmissibleAnyExpiry(table, parent, endpoint, routes, t, ttl, interactive, clamp) ==
  /\ Cardinality(DOMAIN table) < MaxSessions
  /\ parent # NoParent =>
       /\ parent \in DOMAIN table
       /\ endpoint = table[parent].endpoint
       /\ routes \subseteq table[parent].routes
       /\ interactive => table[parent].interactive

\* The conditions create checks after the sweep, in the code's order.
Admissible(table, parent, endpoint, routes, t, ttl, interactive, clamp) ==
  /\ Cardinality(DOMAIN table) < MaxSessions
  /\ parent # NoParent =>
       /\ parent \in DOMAIN table
       /\ clamp \/ t + ttl <= table[parent].expires
       /\ endpoint = table[parent].endpoint
       /\ routes \subseteq table[parent].routes
       /\ interactive => table[parent].interactive

Create(id, parent, endpoint, routes, t, ttl, interactive, clamp) ==
  LET swept == SweptAt(t)
  IN  /\ routes # {}
      /\ id \notin issued
      /\ clamp => parent # NoParent /\ ~interactive
      /\ Admissible(swept, parent, endpoint, routes, t, ttl, interactive, clamp)
      /\ sessions' =
           [s \in DOMAIN swept \cup {id} |->
              IF s = id
              THEN [parent      |-> parent,
                    endpoint    |-> endpoint,
                    routes      |-> routes,
                    expires     |-> Expiry(swept, parent, t, ttl, clamp),
                    interactive |-> interactive]
              ELSE swept[s]]
      /\ cancelled' = cancelled \cup (Live \ DOMAIN swept)
      /\ issued' = issued \cup {id}
      /\ UNCHANGED now

\* A refused creation (capacity, parent, routes, endpoint, interaction, no
\* randomness) has still swept the table.
CreateRefused(t) ==
  /\ Revoke(ExpiredAt(sessions, t))

-----------------------------------------------------------------------------
(* Lookups that sweep the session they find expired *)

Expired(s) == s \in Live /\ sessions[s].expires <= now

\* What AuthorizeRoute answers for the token minted for (s, route).
Authorizes(s, route) ==
  s \in Live /\ sessions[s].expires > now /\ route \in sessions[s].routes

AuthorizeRoute(s) ==
  \/ Expired(s) /\ Revoke({s})
  \/ ~Expired(s) /\ UNCHANGED vars

ContainsRoute(s) == AuthorizeRoute(s)

-----------------------------------------------------------------------------
(* Revocation *)

Delete(s) ==
  /\ s \in Live
  /\ Revoke({s})

\* Sessions using a revoked route, with their descendants.
DeleteRoutes(targets) ==
  Revoke({s \in Live : sessions[s].routes \cap targets # {}})

DeleteAll == Revoke(Live)

\* A nested process gives up its own single-route child session.
DeleteChildAuthorized(s, route) ==
  /\ s \in Live
  /\ \/ Expired(s)
     \/ sessions[s].parent # NoParent /\ sessions[s].routes = {route}
  /\ Revoke({s})

PruneExpired == Revoke(ExpiredAt(sessions, now))

\* What List returns: the walk appends every entry it finds unexpired.
Listed == {s \in Live : sessions[s].expires > now}

\* List, as the session list and the call tree ask for it, sweeps the expired
\* entries it meets on the walk.
List == Revoke(ExpiredAt(sessions, now))

\* Close cancels and wipes every entry; the manager itself stays usable.
Close ==
  /\ sessions' = Without(sessions, Live)
  /\ cancelled' = cancelled \cup Live
  /\ UNCHANGED <<now, issued>>

-----------------------------------------------------------------------------

Tick ==
  /\ now < MaxTime
  /\ now' = now + 1
  /\ UNCHANGED <<sessions, issued, cancelled>>

Init ==
  /\ now = 0
  /\ sessions = [s \in {} |-> s]
  /\ issued = {}
  /\ cancelled = {}

ClockReads == {t \in 0 .. now : t + MaxLockWait >= now}

Next ==
  \/ \E id \in SessionIds, parent \in SessionIds \cup {NoParent},
        endpoint \in Endpoints, routes \in SUBSET Routes, t \in ClockReads,
        ttl \in 1 .. MaxTTL, interactive \in BOOLEAN, clamp \in BOOLEAN :
       Create(id, parent, endpoint, routes, t, ttl, interactive, clamp)
  \/ \E t \in ClockReads : CreateRefused(t)
  \/ \E s \in SessionIds : AuthorizeRoute(s)
  \/ \E s \in SessionIds : ContainsRoute(s)
  \/ \E s \in SessionIds : Delete(s)
  \/ \E targets \in SUBSET Routes : DeleteRoutes(targets)
  \/ DeleteAll
  \/ \E s \in SessionIds, route \in Routes : DeleteChildAuthorized(s, route)
  \/ PruneExpired
  \/ List
  \/ Close
  \/ Tick

Spec == Init /\ [][Next]_vars

-----------------------------------------------------------------------------
(* Properties *)

\* The table maps issued identifiers to well-formed sessions.
TypeOK ==
  /\ now \in 0 .. MaxTime
  /\ issued \subseteq SessionIds
  /\ cancelled \subseteq issued
  /\ Live \subseteq issued
  /\ sessions \in [Live -> Session]

\* At every instant a nested session can do no more than the session it was
\* derived from: whatever AuthorizeRoute would grant the child it would grant
\* the parent, at the same endpoint and, for interaction, with the parent's
\* consent.  It takes the checks of create, the cascade of every deletion and
\* the expiry order together.
AuthorityFlowsFromParent ==
  \A s \in Live, route \in Routes :
    LET parent == sessions[s].parent
    IN  Authorizes(s, route) /\ parent # NoParent =>
          /\ Authorizes(parent, route)
          /\ sessions[s].endpoint = sessions[parent].endpoint
          /\ sessions[s].interactive => sessions[parent].interactive

\* Whichever method removed it, a session that left the table had its context
\* cancelled and its secrets wiped, and one that is in the table did not.
RevocationIsComplete == cancelled = issued \ Live

\* registry.CallTree over a set of nodes: every parent is known and no node
\* is its own ancestor (a set without a root would hold a cycle).
CallTreeAccepts(nodes) ==
  /\ \A s \in nodes : sessions[s].parent \in nodes \cup {NoParent}
  /\ \A S \in SUBSET nodes :
       S # {} => \E s \in S : sessions[s].parent \notin S

\* The sessions List returns are always a forest CallTree accepts: the call
\* tree view cannot fail on an unknown parent or a cycle, whatever was revoked
\* or expired in between.
ListedSessionsFormATree == CallTreeAccepts(Listed)

\* The inductive invariant behind the two properties above: in the table,
\* parents are present, children are contained in their parents, and no set of
\* entries is without a root.
ParentsPresent(table) ==
  \A s \in DOMAIN table : table[s].parent \in DOMAIN table \cup {NoParent}

ChildrenContained(table) ==
  \A s \in DOMAIN table :
    table[s].parent # NoParent =>
      LET parent == table[table[s].parent]
      IN  /\ table[s].expires <= parent.expires
          /\ table[s].routes \subseteq parent.routes
          /\ table[s].endpoint = parent.endpoint
          /\ table[s].interactive => parent.interactive

Rooted(table) ==
  \A S \in SUBSET DOMAIN table :
    S # {} => \E s \in S : table[s].parent \notin S

WellDerived(table) ==
  ParentsPresent(table) /\ ChildrenContained(table) /\ Rooted(table)

\* What every step of the manager preserves.
IInv == TypeOK /\ RevocationIsComplete /\ WellDerived(sessions)

\* Sweeping (before a creation, by the ticker, by List) removes descendants
\* unconditionally, yet never a session that has not itself expired.
SweepSparesUnexpired ==
  [][(issued' # issued \/ PruneExpired) =>
       \A s \in Live \ Live' : sessions[s].expires <= now]_vars

=============================================================================
