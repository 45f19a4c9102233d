------------------------ MODULE CoreRevocationProofs ------------------------
(***************************************************************************)
(* Proofs about Registry, and about CoreRevocation, which drives it: their *)
(* inductive invariants, what they say of requests in flight, and the      *)
(* refinement of RouteCapability.                                          *)
(*                                                                         *)
(* For the registry, route sets are reasoned about through a membership    *)
(* predicate; each step is summarised by which routes it withdraws, which  *)
(* it exposes and which it queues, and one lemma derives the invariant     *)
(* from that.                                                              *)
(*                                                                         *)
(* For the core, a step is described by three facts: the registry moves    *)
(* by one of its own operations, the sessions only advance (nothing that   *)
(* was issued changes, deletions cancel), and whoever relied on a route    *)
(* may go on or has lost the sessions it relied on.  Goroutines that do    *)
(* not move stay on track for that reason alone; each step then has to     *)
(* account only for the goroutine that takes it.                           *)
(***************************************************************************)
EXTENDS CoreRevocation, FiniteSetTheorems, SequenceTheorems, TLAPS

-----------------------------------------------------------------------------
(* The registry *)

\* r is a route the given entries protect.
ActiveIn(table, r) ==
  /\ r \in Route
  /\ r.agent \in DOMAIN table
  /\ table[r.agent].state = "active"
  /\ r.surface \in table[r.agent].planned
  /\ r.generation = table[r.agent].generation

Entries(table) ==
  DOMAIN table \subseteq Agents /\ table \in [DOMAIN table -> Entry]

\* A step brings no withdrawn route back.
NoneRevived == \A r \in exposed : r \in ActiveRoutes' => r \in ActiveRoutes

-----------------------------------------------------------------------------
(* Membership *)

\* The routes of one entry.
LEMMA RoutesMembership ==
  ASSUME NEW table, Entries(table), NEW a \in Agents, NEW r
  PROVE  r \in RoutesOf(table, a) <=> ActiveIn(table, r) /\ r.agent = a
<1>1. CASE a \in DOMAIN table /\ table[a].state = "active"
  <2>1. /\ table[a].planned \subseteq Surfaces
        /\ table[a].generation \in Generation
    BY <1>1 DEF Entries, Entry
  <2>2. RoutesOf(table, a) =
          {[agent |-> a, surface |-> x, generation |-> table[a].generation] :
             x \in table[a].planned}
    BY <1>1 DEF RoutesOf, PlanRoutes
  <2>3. ASSUME r \in RoutesOf(table, a)
        PROVE  ActiveIn(table, r) /\ r.agent = a
    BY <1>1, <2>1, <2>2, <2>3 DEF ActiveIn, Route
  <2>4. ASSUME ActiveIn(table, r), r.agent = a
        PROVE  r \in RoutesOf(table, a)
    <3>1. r = [agent |-> a, surface |-> r.surface,
               generation |-> table[a].generation]
      BY <2>4 DEF ActiveIn, Route
    <3>2. QED
      BY <2>2, <2>4, <3>1 DEF ActiveIn
  <2>5. QED
    BY <2>3, <2>4
<1>2. CASE ~(a \in DOMAIN table /\ table[a].state = "active")
  BY <1>2 DEF RoutesOf, ActiveIn
<1>3. QED
  BY <1>1, <1>2

\* The routes active now, and those of the lapsed leases.
LEMMA ActiveMembership ==
  ASSUME Entries(entries), NEW r
  PROVE  /\ r \in ActiveRoutes <=> ActiveIn(entries, r)
         /\ r \in LapsedRoutes <=> ActiveIn(entries, r) /\ r.agent \in LapsedAgents
<1>1. LapsedAgents \subseteq Agents
  BY DEF LapsedAgents, Entries
<1>2. \A a \in Agents :
        r \in RoutesOf(entries, a) <=> ActiveIn(entries, r) /\ r.agent = a
  BY RoutesMembership
<1>3. ActiveIn(entries, r) => r.agent \in Agents
  BY DEF ActiveIn, Route
<1>4. QED
  BY <1>1, <1>2, <1>3 DEF ActiveRoutes, LapsedRoutes

\* The same in the next state.
LEMMA ActiveMembershipNext ==
  ASSUME Entries(entries'), NEW r
  PROVE  r \in ActiveRoutes' <=> ActiveIn(entries', r)
<1>1. \A a \in Agents :
        r \in RoutesOf(entries', a) <=> ActiveIn(entries', r) /\ r.agent = a
  BY RoutesMembership
<1>2. ActiveIn(entries', r) => r.agent \in Agents
  BY DEF ActiveIn, Route
<1>3. QED
  BY <1>1, <1>2 DEF ActiveRoutes

-----------------------------------------------------------------------------
(* The queue *)

\* Whatever is queued, nothing foreign enters the queue, and unless the
\* registry gives up everything queued before and now is in it.
LEMMA QueueEffect ==
  ASSUME revokeAll \in BOOLEAN, NEW routes, QueueRevocation(routes)
  PROVE  /\ pending' \subseteq pending \cup routes
         /\ revokeAll' \in BOOLEAN
         /\ ~revokeAll' => ~revokeAll /\ pending' = pending \cup routes
BY DEF QueueRevocation, QueuedPending, Overflows

\* The invariant's clauses about the queue follow from a step's summary: what
\* it withdraws is queued, what it queues is withdrawn, what it activates was
\* never exposed.
LEMMA QueueInvariant ==
  ASSUME IInv, NEW routes,
         QueueRevocation(routes), told' = told,
         routes \subseteq ActiveRoutes, routes \cap ActiveRoutes' = {},
         ActiveRoutes \subseteq ActiveRoutes' \cup routes,
         \A r \in ActiveRoutes' : r \in ActiveRoutes \/ r \notin exposed,
         exposed \subseteq exposed', exposed' \subseteq exposed \cup ActiveRoutes',
         ActiveRoutes' \subseteq exposed'
  PROVE  /\ pending' \subseteq exposed'
         /\ QueueSparesActiveRoutes'
         /\ NoRevocationLost'
         /\ ToldRoutesAreSettled'
<1>1. /\ pending' \subseteq pending \cup routes
      /\ revokeAll' \in BOOLEAN
      /\ ~revokeAll' => ~revokeAll /\ pending' = pending \cup routes
  BY QueueEffect DEF IInv, TypeOK
<1>2. pending' \subseteq exposed'
  BY <1>1 DEF IInv
<1>3. pending' \cap ActiveRoutes' = {}
  BY <1>1 DEF IInv, QueueSparesActiveRoutes
<1>4. ASSUME ~revokeAll'
      PROVE  exposed' \subseteq ActiveRoutes' \cup pending' \cup told'
  BY <1>1, <1>4 DEF IInv, NoRevocationLost
<1>5. told' \subseteq exposed' \ (ActiveRoutes' \cup pending')
  BY <1>1 DEF IInv, ToldRoutesAreSettled
<1>6. QED
  BY <1>2, <1>3, <1>4, <1>5
     DEF QueueSparesActiveRoutes, NoRevocationLost, ToldRoutesAreSettled

-----------------------------------------------------------------------------
(* The steps *)

\* expireLocked keeps the maps typed and tracked, never lowers a generation,
\* and withdraws exactly the routes of the lapsed leases.
LEMMA ExpireEffect ==
  ASSUME IInv
  PROVE  /\ Entries(ExpiredEntries)
         /\ DOMAIN ExpiredEntries = DOMAIN entries
         /\ DOMAIN ExpiredGenerations = DOMAIN generations
         /\ ExpiredGenerations \in [DOMAIN generations -> Generation]
         /\ \A a \in DOMAIN entries :
              ExpiredEntries[a].generation = ExpiredGenerations[a]
         /\ \A a \in DOMAIN generations :
              generations[a] <= ExpiredGenerations[a]
         /\ \A r : ActiveIn(ExpiredEntries, r) <=>
                     ActiveIn(entries, r) /\ r.agent \notin LapsedAgents
<1>1. LapsedAgents \subseteq DOMAIN entries
  BY DEF LapsedAgents
<1>2. DOMAIN entries \subseteq DOMAIN generations
  BY DEF IInv, GenerationsTracked
<1>3. \A a \in DOMAIN entries : entries[a] \in Entry
  BY DEF IInv, TypeOK
<1>4. \A g \in Generation :
        NextGeneration(g) \in Generation /\ g <= NextGeneration(g)
  BY BoundsAssumption DEF NextGeneration, Generation
<1>5. DOMAIN ExpiredEntries = DOMAIN entries
  BY DEF ExpiredEntries
<1>6. \A a \in DOMAIN entries : ExpiredEntries[a] \in Entry
  BY <1>3, <1>4 DEF ExpiredEntries, Entry, NoLease
<1>7. Entries(ExpiredEntries)
  <2>1. ExpiredEntries \in [DOMAIN entries -> Entry]
    BY <1>6 DEF ExpiredEntries
  <2>2. QED
    BY <1>5, <2>1 DEF Entries, IInv, TypeOK
<1>8. DOMAIN ExpiredGenerations = DOMAIN generations
  BY <1>1, <1>2 DEF ExpiredGenerations
<1>9. \A a \in DOMAIN generations :
        /\ ExpiredGenerations[a] \in Generation
        /\ generations[a] <= ExpiredGenerations[a]
  <2> SUFFICES ASSUME NEW a \in DOMAIN generations
               PROVE  /\ ExpiredGenerations[a] \in Generation
                      /\ generations[a] <= ExpiredGenerations[a]
    OBVIOUS
  <2>1. generations[a] \in Generation
    BY DEF IInv, TypeOK
  <2>2. CASE a \in LapsedAgents
    <3>1. ExpiredGenerations[a] = NextGeneration(generations[a])
      BY <1>1, <2>2 DEF ExpiredGenerations, IInv, GenerationsTracked
    <3>2. QED
      BY <1>4, <2>1, <3>1
  <2>3. CASE a \notin LapsedAgents
    BY <2>1, <2>3 DEF ExpiredGenerations, Generation
  <2>4. QED
    BY <2>2, <2>3
<1>10. ExpiredGenerations \in [DOMAIN generations -> Generation]
  <2>1. ExpiredGenerations = [a \in DOMAIN generations |-> ExpiredGenerations[a]]
    BY <1>8 DEF ExpiredGenerations
  <2>2. QED
    BY <1>9, <2>1
<1>11. \A a \in DOMAIN entries :
         ExpiredEntries[a].generation = ExpiredGenerations[a]
  BY <1>2 DEF ExpiredEntries, ExpiredGenerations, IInv, GenerationsTracked
<1>12. \A r : ActiveIn(ExpiredEntries, r) <=>
                ActiveIn(entries, r) /\ r.agent \notin LapsedAgents
  BY <1>5 DEF ExpiredEntries, ActiveIn
<1>13. QED
  BY <1>5, <1>7, <1>8, <1>9, <1>10, <1>11, <1>12

\* A step that expires, then at most renews leases.
LEMMA ExpireLikePreserves ==
  ASSUME IInv, Entries(entries'), DOMAIN entries' = DOMAIN entries,
         \A a \in DOMAIN entries :
           entries'[a].generation = ExpiredEntries[a].generation,
         \A r : ActiveIn(entries', r) <=> ActiveIn(ExpiredEntries, r),
         generations' = ExpiredGenerations,
         QueueRevocation(LapsedRoutes),
         now' = now, exposed' = exposed, told' = told
  PROVE  IInv' /\ NoneRevived
<1>1. \A r : /\ r \in ActiveRoutes <=> ActiveIn(entries, r)
             /\ r \in LapsedRoutes <=>
                  ActiveIn(entries, r) /\ r.agent \in LapsedAgents
             /\ r \in ActiveRoutes' <=>
                  ActiveIn(entries, r) /\ r.agent \notin LapsedAgents
  BY ActiveMembership, ActiveMembershipNext, ExpireEffect
     DEF IInv, TypeOK, Entries
<1>2. /\ pending' \subseteq exposed'
      /\ QueueSparesActiveRoutes'
      /\ NoRevocationLost'
      /\ ToldRoutesAreSettled'
  BY <1>1, QueueInvariant DEF IInv
<1>3. TypeOK'
  <2>1. generations' \in [DOMAIN generations' -> Generation]
    BY ExpireEffect
  <2>2. DOMAIN generations' \subseteq Agents
    BY ExpireEffect DEF IInv, TypeOK
  <2>3. revokeAll' \in BOOLEAN
    BY QueueEffect DEF IInv, TypeOK
  <2>4. QED
    BY <1>2, <2>1, <2>2, <2>3 DEF IInv, TypeOK, Entries
<1>4. GenerationsTracked'
  BY ExpireEffect DEF IInv, GenerationsTracked
<1>5. ExposureTracked'
  <2> SUFFICES ASSUME NEW r \in exposed
               PROVE  /\ r.agent \in DOMAIN generations'
                      /\ r.generation <= generations'[r.agent]
    BY DEF ExposureTracked
  <2>1. /\ r.agent \in DOMAIN generations
        /\ r.generation <= generations[r.agent]
        /\ r.generation \in Int
        /\ generations[r.agent] \in Int
    BY DEF IInv, ExposureTracked, TypeOK, Route, Generation
  <2>2. /\ DOMAIN generations' = DOMAIN generations
        /\ generations[r.agent] <= generations'[r.agent]
        /\ generations'[r.agent] \in Int
    BY <2>1, ExpireEffect DEF Generation
  <2>3. QED
    BY <2>1, <2>2
<1>6. ActiveRoutes' \subseteq exposed'
  BY <1>1 DEF IInv
<1>7. NoneRevived
  BY <1>1 DEF NoneRevived
<1>8. QED
  BY <1>2, <1>3, <1>4, <1>5, <1>6, <1>7 DEF IInv

LEMMA ExpirePreserves ==
  ASSUME IInv, Expire
  PROVE  IInv' /\ NoneRevived
<1>1. entries' = ExpiredEntries
  BY DEF Expire
<1>2. QED
  BY <1>1, ExpireEffect, ExpireLikePreserves DEF Expire

LEMMA HeartbeatPreserves ==
  ASSUME IInv, NEW a \in Agents, NEW generation \in Generation,
         NEW ttl \in 1 .. MaxLease, Heartbeat(a, generation, ttl)
  PROVE  IInv' /\ NoneRevived
<1>1. CASE Renewable(a, generation)
  <2>1. /\ entries' = [ExpiredEntries EXCEPT ![a].expires = now + ttl]
        /\ a \in DOMAIN ExpiredEntries
    BY <1>1 DEF Heartbeat, Renewable
  <2> DEFINE table == ExpiredEntries
  <2>2. /\ Entries(table) /\ DOMAIN table = DOMAIN entries
    BY ExpireEffect
  <2> HIDE DEF table
  <2>3. now + ttl \in Nat
    BY BoundsAssumption DEF IInv, TypeOK
  <2>4. table[a] \in Entry
    BY <2>1, <2>2 DEF Entries, table
  <2>5. /\ DOMAIN entries' = DOMAIN table
        /\ entries' = [b \in DOMAIN entries' |-> entries'[b]]
        /\ \A b \in DOMAIN table : b # a => entries'[b] = table[b]
        /\ entries'[a] = [table[a] EXCEPT !.expires = now + ttl]
    BY <2>1 DEF table
  <2>6. /\ entries'[a] \in Entry
        /\ entries'[a].state = table[a].state
        /\ entries'[a].generation = table[a].generation
        /\ entries'[a].planned = table[a].planned
    BY <2>3, <2>4, <2>5 DEF Entry
  <2>7. /\ \A b \in DOMAIN entries : entries'[b].generation = table[b].generation
        /\ \A r : ActiveIn(entries', r) <=> ActiveIn(table, r)
    BY <2>2, <2>5, <2>6 DEF ActiveIn
  <2>8. Entries(entries') /\ DOMAIN entries' = DOMAIN entries
    <3>1. \A b \in DOMAIN entries' : entries'[b] \in Entry
      BY <2>2, <2>5, <2>6 DEF Entries
    <3>2. QED
      BY <2>2, <2>5, <3>1 DEF Entries
  <2>9. QED
    BY <2>7, <2>8, ExpireLikePreserves DEF Heartbeat, table
<1>2. CASE ~Renewable(a, generation)
  BY <1>2, ExpirePreserves DEF Heartbeat, Expire
<1>3. QED
  BY <1>1, <1>2

\* Replace withdraws what lapsed and what it replaces, and its own routes are
\* in a generation no exposed route of the agent has reached.
LEMMA ReplacePreserves ==
  ASSUME IInv, NEW a \in Agents, NEW state \in {"active", "blocked"},
         NEW planned \in SUBSET Surfaces, NEW expires \in Nat,
         HasRoom(a), Replace(a, state, planned, expires)
  PROVE  IInv' /\ NoneRevived
<1> DEFINE generation == LastGeneration(a) + 1
           entry == [state |-> state, generation |-> generation,
                     planned |-> planned, expires |-> expires]
           replaced == LapsedRoutes \cup RoutesOf(ExpiredEntries, a)
           table == ExpiredEntries
           tracked == ExpiredGenerations
<1>1. /\ Entries(table) /\ DOMAIN table = DOMAIN entries
      /\ DOMAIN tracked = DOMAIN generations
      /\ tracked \in [DOMAIN generations -> Generation]
      /\ \A b \in DOMAIN entries : table[b].generation = tracked[b]
      /\ \A b \in DOMAIN generations : generations[b] <= tracked[b]
      /\ \A r : ActiveIn(table, r) <=>
                  ActiveIn(entries, r) /\ r.agent \notin LapsedAgents
  BY ExpireEffect
<1>2. DOMAIN entries \subseteq DOMAIN generations
  BY DEF IInv, GenerationsTracked
<1>3. /\ generation \in Generation
      /\ a \in DOMAIN generations => tracked[a] < generation
  <2>1. LastGeneration(a) # MaxGeneration
    BY DEF HasRoom
  <2>2. CASE a \in DOMAIN generations
    <3>1. tracked[a] \in Generation /\ Tracked(a) = tracked[a]
      BY <1>1, <2>2 DEF Tracked
    <3>2. Current(a) = tracked[a] \/ Current(a) = 0
      BY <1>1 DEF Current
    <3>3. LastGeneration(a) = tracked[a]
      BY <3>1, <3>2 DEF LastGeneration, Generation
    <3>4. QED
      BY <2>1, <3>1, <3>3, BoundsAssumption DEF Generation
  <2>3. CASE a \notin DOMAIN generations
    BY <1>2, <2>1, <2>3, BoundsAssumption
       DEF LastGeneration, Tracked, Current, Generation
  <2>4. QED
    BY <2>2, <2>3
<1>4. /\ entries' = [b \in DOMAIN entries \cup {a} |->
                       IF b = a THEN entry ELSE table[b]]
      /\ generations' = [b \in DOMAIN tracked \cup {a} |->
                           IF b = a THEN generation ELSE tracked[b]]
      /\ QueueRevocation(replaced)
      /\ exposed' = exposed \cup RoutesOf(entries', a)
      /\ now' = now /\ told' = told
  BY DEF Replace
<1>5. entry \in Entry
  BY <1>3 DEF Entry
<1> HIDE DEF generation, table, tracked
<1>6. entry.generation = generation
  OBVIOUS
<1> HIDE DEF entry
<1>7. Entries(entries')
  <2>1. DOMAIN entries' \subseteq Agents
    BY <1>4 DEF IInv, TypeOK
  <2>2. \A b \in DOMAIN entries' : entries'[b] \in Entry
    BY <1>1, <1>4, <1>5 DEF Entries
  <2>3. QED
    BY <1>4, <2>1, <2>2 DEF Entries
<1>8. \A r : /\ r \in ActiveRoutes <=> ActiveIn(entries, r)
             /\ r \in LapsedRoutes <=>
                  ActiveIn(entries, r) /\ r.agent \in LapsedAgents
             /\ r \in ActiveRoutes' <=> ActiveIn(entries', r)
             /\ r \in RoutesOf(table, a) <=> ActiveIn(table, r) /\ r.agent = a
             /\ r \in RoutesOf(entries', a) <=>
                  ActiveIn(entries', r) /\ r.agent = a
  <2>1. Entries(entries)
    BY DEF Entries, IInv, TypeOK
  <2>2. QED
    BY <1>1, <1>7, <2>1, ActiveMembership, ActiveMembershipNext,
       RoutesMembership
<1>9. \A r : r.agent # a => (ActiveIn(entries', r) <=> ActiveIn(table, r))
  BY <1>1, <1>4 DEF ActiveIn
<1>10. \A r : ActiveIn(entries', r) /\ r.agent = a =>
                r \notin exposed /\ r.generation = generation
  <2> SUFFICES ASSUME NEW r, ActiveIn(entries', r), r.agent = a, r \in exposed
               PROVE  FALSE
    BY <1>4, <1>6 DEF ActiveIn
  <2>1. r.generation = generation
    BY <1>4, <1>6 DEF ActiveIn
  <2>2. a \in DOMAIN generations /\ r.generation <= generations[a]
    BY DEF IInv, ExposureTracked
  <2>3. /\ generations[a] \in Int /\ tracked[a] \in Int /\ generation \in Int
        /\ generations[a] <= tracked[a] /\ tracked[a] < generation
    BY <1>1, <1>3, <2>2 DEF IInv, TypeOK, Generation
  <2>4. QED
    BY <2>1, <2>2, <2>3
<1>11. /\ pending' \subseteq exposed'
       /\ QueueSparesActiveRoutes'
       /\ NoRevocationLost'
       /\ ToldRoutesAreSettled'
  <2>1. replaced = LapsedRoutes \cup RoutesOf(table, a)
    BY DEF table
  <2> HIDE DEF replaced
  <2>2. replaced \subseteq ActiveRoutes
    BY <1>1, <1>8, <2>1
  <2>3. replaced \cap ActiveRoutes' = {}
    <3>1. ActiveRoutes \subseteq exposed
      BY DEF IInv
    <3>2. QED
      BY <1>1, <1>8, <1>9, <1>10, <2>1, <2>2, <3>1
  <2>4. ActiveRoutes \subseteq ActiveRoutes' \cup replaced
    BY <1>1, <1>8, <1>9, <2>1
  <2>5. \A r \in ActiveRoutes' : r \in ActiveRoutes \/ r \notin exposed
    BY <1>1, <1>8, <1>9, <1>10
  <2>6. /\ exposed \subseteq exposed'
        /\ exposed' \subseteq exposed \cup ActiveRoutes'
    BY <1>4, <1>8
  <2>7. ActiveRoutes' \subseteq exposed'
    BY <1>1, <1>4, <1>8, <1>9 DEF IInv
  <2>8. QED
    BY <1>4, <2>2, <2>3, <2>4, <2>5, <2>6, <2>7, QueueInvariant
<1>12. ActiveRoutes' \subseteq exposed'
  BY <1>1, <1>4, <1>8, <1>9 DEF IInv
<1>13. TypeOK'
  <2>1. generations' \in [DOMAIN generations' -> Generation]
    BY <1>1, <1>3, <1>4
  <2>2. DOMAIN generations' \subseteq Agents
    BY <1>1, <1>4 DEF IInv, TypeOK
  <2>3. revokeAll' \in BOOLEAN
    BY <1>4, QueueEffect DEF IInv, TypeOK
  <2>4. exposed' \subseteq Route
    BY <1>4, <1>8 DEF ActiveIn, IInv, TypeOK
  <2>5. QED
    BY <1>4, <1>7, <1>11, <2>1, <2>2, <2>3, <2>4 DEF IInv, TypeOK, Entries
<1>14. GenerationsTracked'
  BY <1>1, <1>2, <1>4, <1>6 DEF GenerationsTracked
<1>15. ExposureTracked'
  <2> SUFFICES ASSUME NEW r \in exposed'
               PROVE  /\ r.agent \in DOMAIN generations'
                      /\ r.generation <= generations'[r.agent]
    BY DEF ExposureTracked
  <2>1. CASE r \in exposed
    <3>1. /\ r.agent \in DOMAIN generations
          /\ r.generation <= generations[r.agent]
          /\ r.generation \in Int /\ generations[r.agent] \in Int
      BY <2>1 DEF IInv, ExposureTracked, TypeOK, Route, Generation
    <3>2. /\ generations[r.agent] <= tracked[r.agent]
          /\ tracked[r.agent] \in Int /\ generation \in Int
          /\ r.agent = a => tracked[r.agent] < generation
      BY <1>1, <1>3, <3>1 DEF Generation
    <3>3. /\ r.agent \in DOMAIN generations'
          /\ r.agent = a => generations'[r.agent] = generation
          /\ r.agent # a => generations'[r.agent] = tracked[r.agent]
      BY <1>1, <1>4, <3>1
    <3>4. QED
      BY <3>1, <3>2, <3>3
  <2>2. CASE r \in RoutesOf(entries', a)
    <3>1. r.agent = a /\ r.generation = generation
      BY <1>8, <1>10, <2>2
    <3>2. QED
      BY <1>3, <1>4, <3>1 DEF Generation
  <2>3. QED
    BY <1>4, <2>1, <2>2
<1>16. NoneRevived
  BY <1>1, <1>8, <1>9, <1>10 DEF NoneRevived
<1>17. QED
  BY <1>11, <1>12, <1>13, <1>14, <1>15, <1>16 DEF IInv

\* Remove and RemoveGeneration keep the generation of the agent they forget.
LEMMA DiscardPreserves ==
  ASSUME IInv, NEW a \in Agents, Discard(a)
  PROVE  IInv' /\ NoneRevived
<1> DEFINE routes == RoutesOf(entries, a)
<1>1. /\ entries' = [b \in DOMAIN entries \cap (DOMAIN entries \ {a}) |-> entries[b]]
      /\ QueueRevocation(routes)
      /\ generations' = generations /\ exposed' = exposed
      /\ now' = now /\ told' = told
  BY DEF Discard, Restrict
<1> HIDE DEF routes
<1>2. Entries(entries) /\ Entries(entries')
  <2>1. \A b \in DOMAIN entries : entries[b] \in Entry
    BY DEF IInv, TypeOK
  <2>2. \A b \in DOMAIN entries' : b \in DOMAIN entries /\ entries'[b] = entries[b]
    BY <1>1
  <2>3. entries' \in [DOMAIN entries' -> Entry]
    BY <1>1, <2>1
  <2>4. QED
    BY <2>2, <2>3 DEF Entries, IInv, TypeOK
<1>3. \A r : /\ r \in ActiveRoutes <=> ActiveIn(entries, r)
             /\ r \in ActiveRoutes' <=> ActiveIn(entries', r)
             /\ r \in routes <=> ActiveIn(entries, r) /\ r.agent = a
  BY <1>2, ActiveMembership, ActiveMembershipNext, RoutesMembership DEF routes
<1>4. \A r : ActiveIn(entries', r) <=> ActiveIn(entries, r) /\ r.agent # a
  BY <1>1 DEF ActiveIn
<1>5. /\ pending' \subseteq exposed'
      /\ QueueSparesActiveRoutes'
      /\ NoRevocationLost'
      /\ ToldRoutesAreSettled'
  <2>1. ActiveRoutes \subseteq exposed
    BY DEF IInv
  <2>2. QED
    BY <1>1, <1>3, <1>4, <2>1, QueueInvariant
<1>6. TypeOK'
  <2>1. revokeAll' \in BOOLEAN
    BY <1>1, QueueEffect DEF IInv, TypeOK
  <2>2. QED
    BY <1>1, <1>2, <1>5, <2>1 DEF IInv, TypeOK, Entries
<1>7. GenerationsTracked' /\ ExposureTracked'
  BY <1>1 DEF IInv, GenerationsTracked, ExposureTracked
<1>8. ActiveRoutes' \subseteq exposed' /\ NoneRevived
  BY <1>1, <1>3, <1>4 DEF IInv, NoneRevived
<1>9. QED
  BY <1>5, <1>6, <1>7, <1>8 DEF IInv

\* Every step preserves the invariant and revives no route.
LEMMA NextPreserves ==
  ASSUME IInv, [Next]_vars
  PROVE  IInv' /\ NoneRevived
<1>1. ASSUME NEW a \in Agents, NEW outcome \in {"invalid", "gap", "protected"},
             NEW planned \in SUBSET Surfaces, NEW ttl \in 0 .. MaxLease,
             Reconcile(a, outcome, planned, ttl)
      PROVE  IInv' /\ NoneRevived
  <2>1. CASE Refused(a)
    BY <2>1, ExpirePreserves DEF Refused
  <2>2. ASSUME NEW state \in {"active", "blocked"}, NEW surfaces \in SUBSET Surfaces,
               NEW expires \in Nat, HasRoom(a),
               Replace(a, state, surfaces, expires)
        PROVE  IInv' /\ NoneRevived
    BY <2>2, ReplacePreserves
  <2>3. NoLease \in Nat /\ now + ttl \in Nat
    BY BoundsAssumption DEF NoLease, IInv, TypeOK
  <2>4. (IF ttl > 0 THEN now + ttl ELSE NoLease) \in Nat
    BY <2>3
  <2>5. {} \in SUBSET Surfaces
    OBVIOUS
  <2>6. QED
    BY <1>1, <2>1, <2>2, <2>3, <2>4, <2>5 DEF Reconcile
<1>2. ASSUME NEW a \in Agents, Block(a)
      PROVE  IInv' /\ NoneRevived
  <2>1. CASE Refused(a)
    BY <2>1, ExpirePreserves DEF Refused
  <2>2. CASE HasRoom(a) /\ Replace(a, "blocked", {}, NoLease)
    BY <2>2, ReplacePreserves DEF NoLease
  <2>3. QED
    BY <1>2, <2>1, <2>2 DEF Block
<1>3. ASSUME NEW a \in Agents, NEW generation \in Generation, NEW ttl \in 1 .. MaxLease,
             Heartbeat(a, generation, ttl)
      PROVE  IInv' /\ NoneRevived
  BY <1>3, HeartbeatPreserves
<1>4. ASSUME NEW a \in Agents, Remove(a)
      PROVE  IInv' /\ NoneRevived
  BY <1>4, DiscardPreserves DEF Remove
<1>5. ASSUME NEW a \in Agents, NEW generation \in Generation,
             RemoveGeneration(a, generation)
      PROVE  IInv' /\ NoneRevived
  BY <1>5, DiscardPreserves DEF RemoveGeneration
<1>6. CASE Get \/ List
  BY <1>6, ExpirePreserves DEF Get, List
<1>7. CASE DrainRouteRevocations
  <2>1. /\ entries' = entries /\ generations' = generations
        /\ exposed' = exposed /\ now' = now /\ pending' = {} /\ ~revokeAll'
        /\ revokeAll' \in BOOLEAN
        /\ told' = told \cup (DrainedRoutes \ ActiveRoutes)
    BY <1>7 DEF DrainRouteRevocations
  <2>2. ActiveRoutes' = ActiveRoutes
    BY <2>1 DEF ActiveRoutes
  <2>3. DrainedRoutes \subseteq exposed
    BY DEF DrainedRoutes, IInv
  <2>4. exposed \subseteq ActiveRoutes \cup told'
    BY <2>1 DEF DrainedRoutes, IInv, NoRevocationLost
  <2>5. TypeOK'
    BY <2>1, <2>3 DEF IInv, TypeOK
  <2>6. ToldRoutesAreSettled'
    <3>1. told' \cap ActiveRoutes' = {} /\ told' \subseteq exposed'
      BY <2>1, <2>2, <2>3 DEF IInv, ToldRoutesAreSettled
    <3>2. QED
      BY <2>1, <3>1 DEF ToldRoutesAreSettled
  <2>7. QED
    BY <2>1, <2>2, <2>4, <2>5, <2>6
       DEF IInv, NoneRevived, NoRevocationLost, QueueSparesActiveRoutes,
           GenerationsTracked, ExposureTracked
<1>8. CASE Tick \/ UNCHANGED vars
  <2>1. /\ UNCHANGED <<entries, generations, pending, revokeAll, exposed, told>>
        /\ now' \in Nat
    BY <1>8 DEF Tick, vars, IInv, TypeOK
  <2>2. ActiveRoutes' = ActiveRoutes
    BY <2>1 DEF ActiveRoutes
  <2>3. QED
    BY <2>1, <2>2
       DEF IInv, TypeOK, NoneRevived, NoRevocationLost, QueueSparesActiveRoutes,
           ToldRoutesAreSettled, GenerationsTracked, ExposureTracked
<1>9. QED
  BY <1>1, <1>2, <1>3, <1>4, <1>5, <1>6, <1>7, <1>8 DEF Next

-----------------------------------------------------------------------------
(* The theorems *)

\* An empty registry satisfies it.
LEMMA InitEstablishes ==
  ASSUME Init
  PROVE  IInv
<1>1. DOMAIN entries = {} /\ DOMAIN generations = {}
  BY DEF Init
<1>2. entries \in [{} -> Entry] /\ generations \in [{} -> Generation]
  BY <1>1 DEF Init
<1>3. ActiveRoutes = {}
  BY <1>1 DEF ActiveRoutes, RoutesOf
<1>4. QED
  BY <1>1, <1>2, <1>3
     DEF Init, IInv, TypeOK, NoRevocationLost, QueueSparesActiveRoutes,
         ToldRoutesAreSettled, GenerationsTracked, ExposureTracked

\* The strengthened invariant holds of every reachable state.
THEOREM InductiveInvariant == Spec => []IInv
<1>1. IInv /\ [Next]_vars => IInv'
  BY NextPreserves
<1>2. QED
  BY <1>1, InitEstablishes, PTL DEF Spec

\* registry.go's maps keep their types.
THEOREM TypeCorrect == Spec => []TypeOK
<1>1. IInv => TypeOK
  BY DEF IInv
<1>2. QED
  BY <1>1, InductiveInvariant, PTL

\* Fail closed: expiry, replacement, block, removal and queue overflow never
\* lose a route that has to be revoked.
THEOREM RevocationsFailClosed == Spec => []NoRevocationLost
<1>1. IInv => NoRevocationLost
  BY DEF IInv
<1>2. QED
  BY <1>1, InductiveInvariant, PTL

\* What the queue names is never protected: a drain cannot cut the sessions of
\* a newer registration.
THEOREM QueueIsStale == Spec => []QueueSparesActiveRoutes
<1>1. IInv => QueueSparesActiveRoutes
  BY DEF IInv
<1>2. QED
  BY <1>1, InductiveInvariant, PTL

\* Route identifiers are never reused: a withdrawn route stays withdrawn.
THEOREM RoutesNeverRevive == Spec => WithdrawnRoutesStayWithdrawn
<1>1. IInv /\ [Next]_vars =>
        [\A r \in exposed : r \in ActiveRoutes' => r \in ActiveRoutes]_vars
  BY NextPreserves DEF NoneRevived
<1>2. QED
  BY <1>1, InductiveInvariant, PTL DEF Spec, WithdrawnRoutesStayWithdrawn

-----------------------------------------------------------------------------
(* Room for tracked agents *)

\* The registry never tracks more identities than it has room for.
TrackedWithinRoom ==
  /\ IsFiniteSet(DOMAIN generations)
  /\ Cardinality(DOMAIN generations) <= MaxEntries

\* Only an agent with room is added to the tracked ones.
LEMMA TrackedStaysWithinRoom ==
  ASSUME IInv, TrackedWithinRoom, [Next]_vars
  PROVE  TrackedWithinRoom'
<1>1. DOMAIN ExpiredGenerations = DOMAIN generations
  BY ExpireEffect
<1>2. ASSUME NEW a \in Agents, NEW state, NEW planned, NEW expires,
             HasRoom(a), Replace(a, state, planned, expires)
      PROVE  TrackedWithinRoom'
  <2>1. DOMAIN generations' = DOMAIN generations \cup {a}
    BY <1>1, <1>2 DEF Replace
  <2>2. CASE a \in DOMAIN generations
    <3>1. DOMAIN generations' = DOMAIN generations
      BY <2>1, <2>2
    <3>2. QED
      BY <3>1 DEF TrackedWithinRoom
  <2>3. CASE a \notin DOMAIN generations
    <3>1. Cardinality(DOMAIN generations) < MaxEntries
      BY <1>2, <2>3 DEF HasRoom
    <3>2. /\ IsFiniteSet(DOMAIN generations \cup {a})
          /\ Cardinality(DOMAIN generations \cup {a})
               = Cardinality(DOMAIN generations) + 1
      BY <2>3, FS_AddElement DEF TrackedWithinRoom
    <3>3. Cardinality(DOMAIN generations) \in Nat
      BY FS_CardinalityType DEF TrackedWithinRoom
    <3>4. QED
      BY <2>1, <3>1, <3>2, <3>3, BoundsAssumption DEF TrackedWithinRoom
  <2>4. QED
    BY <2>2, <2>3
<1>3. ASSUME DOMAIN generations' = DOMAIN generations
      PROVE  TrackedWithinRoom'
  BY <1>3 DEF TrackedWithinRoom
<1>4. Expire => TrackedWithinRoom'
  BY <1>1, <1>3 DEF Expire
<1>5. ASSUME NEW a \in Agents, NEW outcome \in {"invalid", "gap", "protected"},
             NEW planned \in SUBSET Surfaces, NEW ttl \in 0 .. MaxLease,
             Reconcile(a, outcome, planned, ttl)
      PROVE  TrackedWithinRoom'
  BY <1>2, <1>4, <1>5 DEF Reconcile, Refused
<1>6. ASSUME NEW a \in Agents, Block(a)
      PROVE  TrackedWithinRoom'
  BY <1>2, <1>4, <1>6 DEF Block, Refused
<1>7. ASSUME NEW a \in Agents, NEW generation \in Generation,
             NEW ttl \in 1 .. MaxLease, Heartbeat(a, generation, ttl)
      PROVE  TrackedWithinRoom'
  BY <1>1, <1>3, <1>7 DEF Heartbeat
<1>8. ASSUME NEW a \in Agents, Discard(a)
      PROVE  TrackedWithinRoom'
  BY <1>3, <1>8 DEF Discard
<1>9. CASE DrainRouteRevocations \/ Tick \/ UNCHANGED vars
  BY <1>3, <1>9 DEF DrainRouteRevocations, Tick, vars
<1>10. QED
  BY <1>4, <1>5, <1>6, <1>7, <1>8, <1>9
     DEF Next, Get, List, Remove, RemoveGeneration

\* An agent that is tracked but has no entry leaves room for one.
THEOREM TrackedAgentsHaveRoom == Spec => []TrackedAgentsCanReregister
<1>1. Init => TrackedWithinRoom
  <2> SUFFICES ASSUME Init PROVE TrackedWithinRoom
    OBVIOUS
  <2>1. DOMAIN generations = {}
    BY DEF Init
  <2>2. QED
    BY <2>1, FS_EmptySet, BoundsAssumption DEF TrackedWithinRoom
<1>2. IInv /\ TrackedWithinRoom /\ [Next]_vars => TrackedWithinRoom'
  BY TrackedStaysWithinRoom
<1>3. IInv /\ TrackedWithinRoom => TrackedAgentsCanReregister
  <2> SUFFICES ASSUME IInv, TrackedWithinRoom, NEW a \in DOMAIN generations,
                      LastGeneration(a) # MaxGeneration, a \notin DOMAIN entries
               PROVE  Cardinality(DOMAIN entries) < MaxEntries
    BY DEF TrackedAgentsCanReregister, HasRoom
  <2>1. DOMAIN entries \subseteq DOMAIN generations \ {a}
    BY DEF IInv, GenerationsTracked
  <2>2. /\ IsFiniteSet(DOMAIN generations \ {a})
        /\ Cardinality(DOMAIN generations \ {a})
             = Cardinality(DOMAIN generations) - 1
    BY FS_RemoveElement DEF TrackedWithinRoom
  <2>3. /\ Cardinality(DOMAIN entries) <= Cardinality(DOMAIN generations \ {a})
        /\ Cardinality(DOMAIN entries) \in Nat
    BY <2>1, <2>2, FS_Subset, FS_CardinalityType
  <2>4. Cardinality(DOMAIN generations) \in Nat
    BY FS_CardinalityType DEF TrackedWithinRoom
  <2>5. QED
    BY <2>2, <2>3, <2>4, BoundsAssumption DEF TrackedWithinRoom
<1>4. QED
  BY <1>1, <1>2, <1>3, InductiveInvariant, PTL DEF Spec

-----------------------------------------------------------------------------
(* Leases *)

\* No step renews a lease that ran out: expireLocked runs before every renewal
\* and a replacement opens a later generation.
LEMMA LapsedStaysLapsed ==
  ASSUME IInv, [Next]_vars, NEW a \in LapsedAgents,
         a \in DOMAIN entries', entries'[a].state = "active"
  PROVE  \/ entries'[a] = entries[a]
         \/ entries'[a].generation # entries[a].generation
<1>1. /\ a \in DOMAIN entries
      /\ a \in DOMAIN ExpiredEntries
      /\ ExpiredEntries[a].state = "blocked"
  BY DEF LapsedAgents, ExpiredEntries
<1> DEFINE Goal == \/ entries'[a] = entries[a]
                   \/ entries'[a].generation # entries[a].generation
<1>2. ASSUME NEW b \in Agents, NEW state, NEW planned, NEW expires,
             HasRoom(b), Replace(b, state, planned, expires)
      PROVE  Goal
  <2>1. CASE b = a
    <3>1. entries'[a].generation = LastGeneration(a) + 1
      BY <1>2, <2>1 DEF Replace
    <3>2. /\ Current(a) = ExpiredEntries[a].generation
          /\ Tracked(a) = ExpiredGenerations[a]
          /\ ExpiredEntries[a].generation = ExpiredGenerations[a]
          /\ a \in DOMAIN generations
      BY <1>1, ExpireEffect DEF Current, Tracked, IInv, GenerationsTracked
    <3>3. LastGeneration(a) = ExpiredGenerations[a]
      BY <3>2 DEF LastGeneration
    <3>4. /\ entries[a].generation = generations[a]
          /\ generations[a] <= ExpiredGenerations[a]
          /\ generations[a] \in Int /\ ExpiredGenerations[a] \in Int
      BY <1>1, <3>2, ExpireEffect
         DEF IInv, GenerationsTracked, TypeOK, Generation
    <3>5. QED
      BY <3>1, <3>3, <3>4
  <2>2. CASE b # a
    BY <1>1, <1>2, <2>2 DEF Replace
  <2>3. QED
    BY <2>1, <2>2
<1>3. Expire => Goal
  BY <1>1 DEF Expire
<1>4. ASSUME NEW b \in Agents, NEW generation \in Generation,
             NEW ttl \in 1 .. MaxLease, Heartbeat(b, generation, ttl)
      PROVE  Goal
  <2>1. CASE Renewable(b, generation)
    <3>1. b # a
      BY <1>1, <2>1 DEF Renewable
    <3>2. QED
      BY <1>1, <1>4, <2>1, <3>1 DEF Heartbeat
  <2>2. CASE ~Renewable(b, generation)
    BY <1>1, <1>4, <2>2 DEF Heartbeat
  <2>3. QED
    BY <2>1, <2>2
<1>5. ASSUME NEW b \in Agents, Discard(b)
      PROVE  Goal
  BY <1>1, <1>5 DEF Discard, Restrict
<1>6. CASE DrainRouteRevocations \/ Tick \/ UNCHANGED vars
  BY <1>6 DEF DrainRouteRevocations, Tick, vars
<1>7. ASSUME NEW b \in Agents, NEW outcome \in {"invalid", "gap", "protected"},
             NEW planned \in SUBSET Surfaces, NEW ttl \in 0 .. MaxLease,
             Reconcile(b, outcome, planned, ttl)
      PROVE  Goal
  BY <1>2, <1>3, <1>7 DEF Reconcile, Refused
<1>8. ASSUME NEW b \in Agents, Block(b)
      PROVE  Goal
  BY <1>2, <1>3, <1>8 DEF Block, Refused
<1>9. Goal
  BY <1>3, <1>4, <1>5, <1>6, <1>7, <1>8
     DEF Next, Get, List, Remove, RemoveGeneration
<1>10. QED
  BY <1>9

\* A heartbeat cannot bring back a lease that ran out.
THEOREM LapsedLeasesAreOver == Spec => LapsedLeaseStaysLapsed
<1>1. IInv /\ [Next]_vars =>
        [\A a \in LapsedAgents :
           a \in DOMAIN entries' /\ entries'[a].state = "active" =>
             \/ entries'[a] = entries[a]
             \/ entries'[a].generation # entries[a].generation]_vars
  BY LapsedStaysLapsed
<1>2. QED
  BY <1>1, InductiveInvariant, PTL DEF Spec, LapsedLeaseStaysLapsed

-----------------------------------------------------------------------------
(* For the modules that compose the registry with others *)

\* Routes are only ever exposed by becoming active, and told by a drain; only
\* time moves the clock.
HistoryGrows ==
  /\ exposed \subseteq exposed'
  /\ exposed' \subseteq exposed \cup ActiveRoutes'
  /\ told' = told \/ DrainRouteRevocations
  /\ now' = now \/ Tick

LEMMA HistoryEffect ==
  ASSUME [Next]_vars
  PROVE  HistoryGrows
<1>1. ASSUME NEW a \in Agents, NEW state, NEW planned, NEW expires,
             Replace(a, state, planned, expires)
      PROVE  HistoryGrows
  <2>1. /\ exposed' = exposed \cup RoutesOf(entries', a)
        /\ told' = told /\ now' = now
    BY <1>1 DEF Replace
  <2>2. RoutesOf(entries', a) \subseteq ActiveRoutes'
    BY DEF ActiveRoutes
  <2>3. QED
    BY <2>1, <2>2 DEF HistoryGrows
<1>2. ASSUME exposed' = exposed, told' = told \/ DrainRouteRevocations,
             now' = now \/ Tick
      PROVE  HistoryGrows
  BY <1>2 DEF HistoryGrows
<1>3. ASSUME NEW a \in Agents, NEW outcome, NEW planned, NEW ttl,
             Reconcile(a, outcome, planned, ttl)
      PROVE  HistoryGrows
  BY <1>1, <1>2, <1>3 DEF Reconcile, Refused, Expire
<1>4. ASSUME NEW a \in Agents, Block(a)
      PROVE  HistoryGrows
  BY <1>1, <1>2, <1>4 DEF Block, Refused, Expire
<1>5. ASSUME NEW a \in Agents, NEW generation, NEW ttl,
             \/ Heartbeat(a, generation, ttl) \/ Remove(a)
             \/ RemoveGeneration(a, generation)
      PROVE  HistoryGrows
  BY <1>2, <1>5 DEF Heartbeat, Remove, RemoveGeneration, Discard
<1>6. CASE Get \/ List \/ DrainRouteRevocations \/ Tick \/ UNCHANGED vars
  BY <1>2, <1>6 DEF Get, List, Expire, DrainRouteRevocations, Tick, vars
<1>7. QED
  BY <1>3, <1>4, <1>5, <1>6 DEF Next

-----------------------------------------------------------------------------
(* The core that drives it: programs *)


LEMMA NonEmpty ==
  ASSUME NEW s, Len(s) >= 1
  PROVE  s # <<>>
OBVIOUS

\* What a goroutine has left to do shrinks by its head.
LEMMA RestOfSuffix ==
  ASSUME NEW program \in Seq(Steps), NEW k \in 1 .. Len(program),
         NEW todo, todo = SubSeq(program, k, Len(program))
  PROVE  /\ todo \in Seq(Steps)
         /\ todo # <<>>
         /\ Head(todo) = program[k]
         /\ k < Len(program) => Tail(todo) = SubSeq(program, k + 1, Len(program))
         /\ k = Len(program) => Tail(todo) = <<>>
<1>1. Len(program) \in Nat /\ Len(program) \in k .. Len(program)
  OBVIOUS
<1>2. /\ todo \in Seq(Steps)
      /\ Len(todo) = Len(program) - k + 1
  BY <1>1, SubSeqProperties
<1>3. todo # <<>>
  <2>1. Len(todo) >= 1
    BY <1>1, <1>2
  <2>2. QED
    BY <2>1, NonEmpty, Zenon
<1>4. /\ Head(todo) = program[k]
      /\ Tail(todo) = SubSeq(program, k + 1, Len(program))
  BY <1>1, HeadTailOfSubSeq
<1>5. k = Len(program) => Tail(todo) = <<>>
  BY <1>1, <1>4, SubSeqEmpty
<1>6. QED
  BY <1>2, <1>3, <1>4, <1>5

\* The program of a proxied request.
LEMMA ProxySteps ==
  /\ ProxyRequest \in Seq(Steps)
  /\ Len(ProxyRequest) = 6
  /\ ProxyRequest[1] = "list"
  /\ ProxyRequest[2] = "drain"
  /\ ProxyRequest[3] = "revoke"
  /\ ProxyRequest[4] = "slot"
  /\ ProxyRequest[5] = "authorize"
  /\ ProxyRequest[6] = "serve"
BY DEF Apply, RegistryEntries, ProxyRequest, Steps

\* The requests, kind by kind.
LEMMA JobKinds ==
  ASSUME NEW job \in Job
  PROVE  /\ job.kind \in {"listAgents", "getAgent", "registerAgent",
                          "heartbeatAgent", "deleteAgent", "createSession",
                          "createChildSession", "proxy", "cleanup"}
         /\ job.kind \in {"getAgent", "registerAgent", "heartbeatAgent",
                          "deleteAgent"} => job.agent \in Agents
         /\ job.kind = "heartbeatAgent" => job.generation \in Generation
         /\ job.kind = "deleteAgent" => job.generation \in Generation \cup {0}
         /\ job.kind = "createSession" =>
              \E n \in 1 .. MaxRouteIDs : job.routes \in [1 .. n -> exposed]
         /\ job.kind \in {"createChildSession", "proxy"} =>
              /\ job.session \in issued
              /\ job.routes \in [1 .. 1 -> exposed]
BY DEF Job, Requests

\* The kinds of requests that take a step.
Fits(kind, step) ==
  /\ step \in {"slot", "serve"} => kind = "proxy"
  /\ step = "reconcile" => kind = "registerAgent"
  /\ step = "heartbeat" => kind = "heartbeatAgent"
  /\ step = "remove" => kind = "deleteAgent"
  /\ step = "create" => kind \in {"createSession", "createChildSession"}

\* What every program promises: its steps fit the request, and who drains goes
\* on to revoke.
WellFormedProgram(job, program) ==
  /\ program \in Seq(Steps)
  /\ \A i \in 1 .. Len(program) :
       /\ program[i] = "drain" => i < Len(program) /\ program[i + 1] = "revoke"
       /\ Fits(job.kind, program[i])

LEMMA ConcatWellFormed ==
  ASSUME NEW job, NEW p, NEW q,
         WellFormedProgram(job, p), WellFormedProgram(job, q)
  PROVE  WellFormedProgram(job, p \o q)
<1>1. /\ p \o q \in Seq(Steps)
      /\ Len(p \o q) = Len(p) + Len(q)
      /\ Len(p) \in Nat /\ Len(q) \in Nat
      /\ \A i \in 1 .. Len(p) + Len(q) :
           (p \o q)[i] = IF i <= Len(p) THEN p[i] ELSE q[i - Len(p)]
  BY ConcatProperties DEF WellFormedProgram
<1> DEFINE pq == p \o q
<1> HIDE DEF pq
<1>2. ASSUME NEW i \in 1 .. Len(p) + Len(q)
      PROVE  /\ pq[i] = "drain" =>
                  i < Len(p) + Len(q) /\ pq[i + 1] = "revoke"
             /\ Fits(job.kind, pq[i])
  <2>1. CASE i <= Len(p)
    <3>1. i \in 1 .. Len(p) /\ pq[i] = p[i]
      BY <1>1, <2>1 DEF pq
    <3>2. i < Len(p) => pq[i + 1] = p[i + 1]
      BY <1>1, <2>1 DEF pq
    <3>3. QED
      BY <1>1, <3>1, <3>2 DEF WellFormedProgram
  <2>2. CASE i > Len(p)
    <3> DEFINE j == i - Len(p)
    <3>1. j \in 1 .. Len(q) /\ pq[i] = q[j]
      BY <1>1, <2>2 DEF pq
    <3>2. j < Len(q) => i < Len(p) + Len(q) /\ pq[i + 1] = q[j + 1]
      BY <1>1, <2>2 DEF pq
    <3> HIDE DEF j
    <3>3. QED
      BY <3>1, <3>2 DEF WellFormedProgram
  <2>3. QED
    BY <1>1, <2>1, <2>2
<1>3. QED
  BY <1>1, <1>2 DEF WellFormedProgram, pq

LEMMA ProgramsWellFormed ==
  ASSUME NEW job \in Job
  PROVE  /\ WellFormedProgram(job, Program(job))
         /\ Len(Program(job)) >= 1
         /\ job.kind = "proxy" => Program(job) = ProxyRequest
<1> DEFINE WF(p) == WellFormedProgram(job, p) /\ Len(p) >= 1
<1>1. ASSUME NEW step \in Steps \ {"drain"}, Fits(job.kind, step)
      PROVE  WF(<<step>>)
  BY <1>1 DEF WellFormedProgram
<1>2. WF(Apply)
  BY DEF WellFormedProgram, Apply, Steps, Fits
<1>3. job.kind = "proxy" => WF(<<"slot", "authorize", "serve">>)
  BY DEF WellFormedProgram, Steps, Fits
<1>4. ASSUME NEW p, NEW q, WF(p), WF(q)
      PROVE  WF(p \o q)
  BY <1>4, ConcatWellFormed, ConcatProperties DEF WellFormedProgram
<1> HIDE DEF WF
<1>5. /\ WF(<<"list">>) /\ WF(<<"get">>)
      /\ WF(<<"prune">>) /\ WF(<<"authorize">>)
      /\ job.kind = "registerAgent" => WF(<<"reconcile">>)
      /\ job.kind = "heartbeatAgent" => WF(<<"heartbeat">>)
      /\ job.kind = "deleteAgent" => WF(<<"remove">>)
      /\ job.kind \in {"createSession", "createChildSession"} =>
           WF(<<"create">>)
  BY <1>1 DEF Steps, Fits
<1>6. WF(RegistryEntries) /\ WF(RegistryEntry)
  BY <1>2, <1>4, <1>5 DEF RegistryEntries, RegistryEntry
<1>7. WF(Program(job)) /\ (job.kind = "proxy" => Program(job) = ProxyRequest)
  <2>1. CASE job.kind = "proxy"
    BY <1>3, <1>4, <1>6, <2>1 DEF Program, ProxyRequest
  <2>2. CASE job.kind \in {"listAgents", "getAgent", "registerAgent",
                           "heartbeatAgent", "deleteAgent"}
    BY <1>2, <1>4, <1>5, <1>6, <2>2 DEF Program
  <2>3. CASE job.kind \in {"createSession", "createChildSession", "cleanup"}
    BY <1>4, <1>5, <1>6, <2>3 DEF Program, CleanupRound
  <2>4. QED
    BY <2>1, <2>2, <2>3, JobKinds
<1>8. QED
  BY <1>7 DEF WF

-----------------------------------------------------------------------------
(* Steps on the session manager *)

\* Whatever a step does to the sessions, identifiers and cancellations are for
\* good, and an entry that was issued before is as it was or gone.
SessionsAdvance ==
  /\ Ses!TypeOK'
  /\ Ses!RevocationIsComplete'
  /\ issued \subseteq issued'
  /\ cancelled \subseteq cancelled'
  /\ \A s \in issued :
       s \in Ses!Live' => s \in Ses!Live /\ sessions'[s] = sessions[s]

LEMMA SessionsUnchanged ==
  ASSUME CoreTypeOK, Ses!RevocationIsComplete, UNCHANGED managerVars,
         now' \in 0 .. MaxTime
  PROVE  SessionsAdvance
BY DEF SessionsAdvance, managerVars, CoreTypeOK, Ses!TypeOK,
       Ses!RevocationIsComplete, Ses!Live

\* A deletion removes its roots, and nothing it does not cancel.
LEMMA SessionsRevoked ==
  ASSUME CoreTypeOK, Ses!RevocationIsComplete, NEW roots, Ses!Revoke(roots)
  PROVE  /\ SessionsAdvance
         /\ roots \cap Ses!Live' = {}
         /\ Ses!Live' \subseteq Ses!Live
         /\ issued' = issued /\ now' = now
<1> DEFINE gone == Ses!Cascade(sessions, roots)
<1>1. /\ sessions' = Ses!Without(sessions, gone)
      /\ cancelled' = cancelled \cup gone
      /\ now' = now /\ issued' = issued
  BY DEF Ses!Revoke
<1>2. /\ gone \subseteq Ses!Live
      /\ roots \cap Ses!Live \subseteq gone
  BY DEF Ses!Cascade, Ses!Live
<1> HIDE DEF gone
<1>3. /\ Ses!Live' = Ses!Live \ gone
      /\ \A s \in Ses!Live' : sessions'[s] = sessions[s]
      /\ sessions' = [s \in Ses!Live' |-> sessions'[s]]
  BY <1>1 DEF Ses!Without, Ses!Restrict, Ses!Live
<1>4. sessions' \in [Ses!Live' -> Ses!Session]
  BY <1>3 DEF CoreTypeOK, Ses!TypeOK
<1>5. Ses!TypeOK'
  BY <1>1, <1>2, <1>3, <1>4 DEF CoreTypeOK, Ses!TypeOK
<1>6. Ses!RevocationIsComplete'
  BY <1>1, <1>2, <1>3 DEF CoreTypeOK, Ses!TypeOK, Ses!RevocationIsComplete
<1>7. QED
  BY <1>1, <1>2, <1>3, <1>5, <1>6 DEF SessionsAdvance

\* A creation sweeps, then adds an identifier that was never issued.
LEMMA SessionsCreated ==
  ASSUME CoreTypeOK, Ses!RevocationIsComplete,
         NEW id \in SessionIds, NEW parent \in SessionIds \cup {NoParent},
         NEW routes \in SUBSET Route, NEW t \in Int, NEW ttl \in Int,
         NEW clamp \in BOOLEAN,
         Ses!Create(id, parent, Endpoint, routes, t, ttl, FALSE, clamp)
  PROVE  SessionsAdvance /\ now' = now
<1> DEFINE gone == Ses!Cascade(sessions, Ses!ExpiredAt(sessions, t))
           swept == Ses!Without(sessions, gone)
           expires == Ses!Expiry(swept, parent, t, ttl, clamp)
           new == [parent      |-> parent,
                   endpoint    |-> Endpoint,
                   routes      |-> routes,
                   expires     |-> expires,
                   interactive |-> FALSE]
<1>1. /\ id \notin issued
      /\ parent # NoParent => parent \in DOMAIN swept
      /\ sessions' = [s \in DOMAIN swept \cup {id} |->
                        IF s = id THEN new ELSE swept[s]]
      /\ cancelled' = cancelled \cup (Ses!Live \ DOMAIN swept)
      /\ issued' = issued \cup {id}
      /\ now' = now
  BY DEF Ses!Create, Ses!SweptAt, Ses!Admissible
<1>2. gone \subseteq Ses!Live
  BY DEF Ses!Cascade, Ses!Live
<1> HIDE DEF gone
<1>3. /\ DOMAIN swept = Ses!Live \ gone
      /\ \A s \in DOMAIN swept : swept[s] = sessions[s]
      /\ \A s \in DOMAIN swept : swept[s] \in Ses!Session
  BY <1>2 DEF Ses!Without, Ses!Restrict, Ses!Live, CoreTypeOK, Ses!TypeOK
<1> HIDE DEF swept
<1>4. expires \in Int
  BY <1>1, <1>3 DEF Ses!Expiry, Ses!Session
<1> HIDE DEF expires
<1>5. new \in Ses!Session
  BY <1>4 DEF Ses!Session
<1> HIDE DEF new
<1>6. /\ Ses!Live' = (Ses!Live \ gone) \cup {id}
      /\ sessions' \in [Ses!Live' -> Ses!Session]
      /\ \A s \in Ses!Live \ gone : s # id => sessions'[s] = sessions[s]
  BY <1>1, <1>3, <1>5 DEF Ses!Live
<1>7. Ses!TypeOK'
  BY <1>1, <1>2, <1>3, <1>6 DEF CoreTypeOK, Ses!TypeOK
<1>8. Ses!RevocationIsComplete'
  BY <1>1, <1>2, <1>3, <1>6
     DEF CoreTypeOK, Ses!TypeOK, Ses!RevocationIsComplete
<1>9. QED
  BY <1>1, <1>6, <1>7, <1>8 DEF SessionsAdvance, CoreTypeOK, Ses!TypeOK

\* A lookup sweeps the session it finds expired, and nothing else.
LEMMA SessionAuthorized ==
  ASSUME CoreTypeOK, Ses!RevocationIsComplete, NEW s, Ses!AuthorizeRoute(s)
  PROVE  /\ SessionsAdvance /\ now' = now
         /\ Ses!Live' \subseteq Ses!Live
         /\ \A r : Ses!Authorizes(s, r) => UNCHANGED managerVars
<1>1. CASE Ses!Expired(s) /\ Ses!Revoke({s})
  <2>1. \A r : ~Ses!Authorizes(s, r)
    BY <1>1 DEF Ses!Expired, Ses!Authorizes, CoreTypeOK, Ses!TypeOK, Ses!Session
  <2>2. QED
    BY <1>1, <2>1, SessionsRevoked
<1>2. CASE UNCHANGED Ses!vars
  <2>1. UNCHANGED managerVars /\ now' = now
    BY <1>2 DEF Ses!vars, managerVars
  <2>2. now' \in 0 .. MaxTime
    BY <2>1 DEF CoreTypeOK, Ses!TypeOK
  <2>3. QED
    BY <2>1, <2>2, SessionsUnchanged DEF managerVars, Ses!Live
<1>3. QED
  BY <1>1, <1>2 DEF Ses!AuthorizeRoute

-----------------------------------------------------------------------------
(* Goroutines *)

\* A goroutine with a step to take is running a task.
LEMMA BusyTask ==
  ASSUME CoreTypeOK, NEW t \in Threads
  PROVE  /\ t \in Busy => thread[t] \in Task
         /\ \A step : Step(t, step) => t \in Busy
BY DEF CoreTypeOK, Busy, Step, Idle

\* Jobs stay legal requests, since issued and exposed only grow.
LEMMA JobsPersist ==
  ASSUME exposed \subseteq exposed', issued \subseteq issued'
  PROVE  Job \subseteq Job' /\ Task \subseteq Task'
<1>1. \A n : [1 .. n -> exposed] \subseteq [1 .. n -> exposed']
  OBVIOUS
<1>2. Requests \subseteq Requests'
  BY <1>1 DEF Requests
<1>3. Job \subseteq Job'
  BY <1>2 DEF Job
<1>4. QED
  BY <1>3 DEF Task

\* From one step of a program to the next.
LEMMA NextStep ==
  ASSUME NEW job \in Job, NEW todo, IsRestOf(todo, Program(job))
  PROVE  /\ todo \in Seq(Steps) /\ todo # <<>>
         /\ Tail(todo) \in Seq(Steps)
         /\ Tail(todo) # <<>> => IsRestOf(Tail(todo), Program(job))
         /\ Head(todo) = "drain" => Tail(todo) # <<>> /\ Head(Tail(todo)) = "revoke"
         /\ Fits(job.kind, Head(todo))
         /\ job.kind = "proxy" =>
              /\ Head(todo) \in {"list", "drain", "revoke", "slot", "authorize",
                                 "serve"}
              /\ Tail(todo) # <<>> => Head(Tail(todo)) # "list"
              /\ Head(todo) # "serve" => Tail(todo) # <<>>
              /\ Head(todo) = "list" => Head(Tail(todo)) = "drain"
              /\ Head(todo) = "revoke" => Head(Tail(todo)) = "slot"
              /\ Head(todo) = "slot" => Head(Tail(todo)) = "authorize"
              /\ Head(todo) = "authorize" => Head(Tail(todo)) = "serve"
              /\ Head(todo) = "serve" => Tail(todo) = <<>>
<1> DEFINE program == Program(job)
<1>1. WellFormedProgram(job, program)
  BY ProgramsWellFormed
<1>2. PICK k \in 1 .. Len(program) : todo = SubSeq(program, k, Len(program))
  BY DEF IsRestOf
<1>3. program \in Seq(Steps) /\ Len(program) \in Nat
  BY <1>1 DEF WellFormedProgram
<1>4. job.kind = "proxy" => program = ProxyRequest
  BY ProgramsWellFormed
<1>5. /\ todo \in Seq(Steps) /\ todo # <<>> /\ Head(todo) = program[k]
      /\ k < Len(program) => Tail(todo) = SubSeq(program, k + 1, Len(program))
      /\ k = Len(program) => Tail(todo) = <<>>
  BY <1>2, <1>3, RestOfSuffix
<1> HIDE DEF program
<1>6. k < Len(program) =>
        /\ Tail(todo) \in Seq(Steps) /\ Tail(todo) # <<>>
        /\ Head(Tail(todo)) = program[k + 1]
        /\ IsRestOf(Tail(todo), program)
  <2> SUFFICES ASSUME k < Len(program)
               PROVE  /\ Tail(todo) \in Seq(Steps) /\ Tail(todo) # <<>>
                      /\ Head(Tail(todo)) = program[k + 1]
                      /\ IsRestOf(Tail(todo), program)
    OBVIOUS
  <2>1. k + 1 \in 1 .. Len(program)
    BY <1>3
  <2>2. Tail(todo) = SubSeq(program, k + 1, Len(program))
    BY <1>5
  <2>3. QED
    BY <1>3, <2>1, <2>2, RestOfSuffix DEF IsRestOf
<1>7. Tail(todo) \in Seq(Steps)
  BY <1>3, <1>5, <1>6
<1>8. Head(todo) = "drain" => Tail(todo) # <<>> /\ Head(Tail(todo)) = "revoke"
  BY <1>1, <1>5, <1>6 DEF WellFormedProgram
<1>9. Fits(job.kind, Head(todo))
  BY <1>1, <1>5 DEF WellFormedProgram
<1>10. ASSUME job.kind = "proxy"
       PROVE  /\ Head(todo) \in {"list", "drain", "revoke", "slot", "authorize",
                                 "serve"}
              /\ Tail(todo) # <<>> => Head(Tail(todo)) # "list"
              /\ Head(todo) # "serve" => Tail(todo) # <<>>
              /\ Head(todo) = "list" => Head(Tail(todo)) = "drain"
              /\ Head(todo) = "revoke" => Head(Tail(todo)) = "slot"
              /\ Head(todo) = "slot" => Head(Tail(todo)) = "authorize"
              /\ Head(todo) = "authorize" => Head(Tail(todo)) = "serve"
              /\ Head(todo) = "serve" => Tail(todo) = <<>>
  <2> DEFINE head == Head(todo)
             rest == Tail(todo)
             next == Head(rest)
  <2>1. /\ k \in 1 .. 6
        /\ head = ProxyRequest[k]
        /\ k < 6 => rest # <<>> /\ next = ProxyRequest[k + 1]
        /\ k = 6 => rest = <<>>
    BY <1>4, <1>5, <1>6, <1>10, ProxySteps
  <2> HIDE DEF head, rest, next
  <2>2. /\ head \in {"list", "drain", "revoke", "slot", "authorize", "serve"}
        /\ rest # <<>> => next # "list"
        /\ head # "serve" => rest # <<>>
        /\ head = "list" => next = "drain"
        /\ head = "revoke" => next = "slot"
        /\ head = "slot" => next = "authorize"
        /\ head = "authorize" => next = "serve"
        /\ head = "serve" => rest = <<>>
    <3>1. k \in {1, 2, 3, 4, 5, 6}
      BY <2>1
    <3>2. QED
      BY <2>1, <3>1, ProxySteps
  <2>3. QED
    BY <2>2 DEF head, rest, next
<1>11. program = Program(job)
  BY DEF program
<1>12. IsRestOf(Tail(todo), Program(job)) \/ Tail(todo) = <<>>
  BY <1>3, <1>5, <1>6, <1>11
<1>13. todo \in Seq(Steps) /\ todo # <<>>
  BY <1>5
<1>14. QED
  BY <1>7, <1>8, <1>9, <1>10, <1>12, <1>13, Zenon

\* What Proceed leaves behind.
LEMMA Proceeding ==
  ASSUME CoreTypeOK, NEW t \in Threads, NEW next \in Task,
         NEW todo \in Seq(Steps), Proceed(t, next, todo)
  PROVE  /\ \A u \in Threads : u # t => thread'[u] = thread[u]
         /\ thread' \in [Threads -> Task \cup {Idle}]
         /\ todo = <<>> => thread'[t] = Idle
         /\ todo # <<>> => /\ thread'[t] \in Task
                           /\ thread'[t].todo = todo
                           /\ thread'[t].job = next.job
                           /\ thread'[t].left = next.left
                           /\ thread'[t].found = next.found
                           /\ thread'[t].haul = next.haul
                           /\ thread'[t].deadline = next.deadline
<1> DEFINE new == [next EXCEPT !.todo = todo]
<1>1. /\ new \in Task /\ new.todo = todo /\ new.job = next.job
      /\ new.left = next.left /\ new.found = next.found
      /\ new.haul = next.haul /\ new.deadline = next.deadline
  BY DEF Task
<1>2. thread' = [thread EXCEPT ![t] = IF todo = <<>> THEN Idle ELSE new]
  BY DEF Proceed
<1> HIDE DEF new
<1>3. QED
  BY <1>1, <1>2 DEF CoreTypeOK

-----------------------------------------------------------------------------
(* Staying on track *)

\* Whoever relied on a route may go on, unless its sessions are gone.
StillCleared ==
  \A r \in exposed :
    Cleared(r) =>
      Cleared(r)' \/ \A s \in issued \cap Ses!Live' : r \notin sessions'[s].routes

\* A goroutine that does not move stays on track.
LEMMA OthersStayOnTrack ==
  ASSUME CoreTypeOK, SessionsAdvance, told \subseteq told', StillCleared,
         NEW u \in Busy, OnTrack(u), thread'[u] = thread[u]
  PROVE  OnTrack(u)'
<1>1. thread[u] \in Task /\ thread[u].job \in Job
  BY BusyTask DEF Busy, Task
<1>2. /\ IsRestOf(thread[u].todo, Program(thread[u].job))'
      /\ HaulInHand(u)'
  BY DEF OnTrack, HaulInHand, Step
<1>3. ASSUME thread[u].job.kind = "proxy"
      PROVE  ProxyLookup(u)'
  <2>1. /\ thread[u].job.session \in issued
        /\ thread[u].job.routes[1] \in exposed
    BY <1>1, <1>3, JobKinds
  <2>2. ProxyLookup(u)
    BY <1>3 DEF OnTrack
  <2>3. QED
    BY <2>1, <2>2 DEF ProxyLookup, Step, StillCleared, SessionsAdvance
<1>4. ASSUME Step(u, "serve")
      PROVE  ServesUnderSession(u)'
  <2>1. ServesUnderSession(u)
    BY <1>4 DEF OnTrack
  <2>2. QED
    BY <2>1 DEF ServesUnderSession, SessionsAdvance, CoreTypeOK, Ses!TypeOK,
                Ses!RevocationIsComplete
<1>5. QED
  BY <1>2, <1>3, <1>4 DEF OnTrack, Step

\* A step hands out only routes that were not told to anybody before.
HaulsFresh == \A r : BeingRevoked(r)' => BeingRevoked(r) \/ r \notin told

NoNewTraffic == \A u \in Threads : \A r : InFlight(u, r)' => InFlight(u, r)

\* What every step does, once it has been seen to keep the goroutines on track.
Summary ==
  /\ CoreIInv'
  /\ HaulsFresh
  /\ NoNewTraffic

\* What surrounds the goroutines in a step.
Surroundings ==
  /\ IInv' /\ SessionsAdvance /\ StillCleared
  /\ exposed \subseteq exposed' /\ told \subseteq told'
  /\ now' \in Int /\ now <= now'

\* One goroutine moves.
LEMMA OneMoves ==
  ASSUME CoreIInv, Surroundings, NEW t \in Threads,
         \A u \in Threads : u # t => thread'[u] = thread[u],
         thread' \in [Threads -> Task \cup {Idle}],
         thread'[t] # Idle =>
           /\ OnTrack(t)'
           /\ \A r \in thread'[t].haul.routes : BeingRevoked(r) \/ r \notin told
  PROVE  /\ CoreIInv'
         /\ HaulsFresh
         /\ ~Step(t, "serve")' => NoNewTraffic
<1>1. Task \subseteq Task'
  BY JobsPersist DEF Surroundings, SessionsAdvance
<1>2. CoreTypeOK'
  BY <1>1 DEF CoreTypeOK, IInv, Surroundings, SessionsAdvance
<1>3. ASSUME NEW u \in Busy', u # t
      PROVE  OnTrack(u)'
  <2>1. u \in Busy /\ thread'[u] = thread[u]
    BY <1>3 DEF Busy
  <2>2. QED
    BY <2>1, OthersStayOnTrack DEF CoreIInv, Surroundings
<1>4. CoreIInv'
  BY <1>2, <1>3 DEF CoreIInv, Surroundings, SessionsAdvance, Busy
<1>5. HaulsFresh
  BY DEF HaulsFresh, BeingRevoked
<1>6. ASSUME ~Step(t, "serve")', NEW u \in Threads, NEW r, InFlight(u, r)'
      PROVE  InFlight(u, r)
  <2>1. thread'[u] = thread[u]
    BY <1>6 DEF InFlight
  <2>2. thread[u] \in Task
    BY <1>6, <2>1, BusyTask DEF CoreIInv, InFlight, Step
  <2>3. thread[u].deadline \in Int /\ now \in Int
    BY <2>2 DEF Task, CoreIInv, CoreTypeOK, Ses!TypeOK
  <2>4. QED
    BY <1>6, <2>1, <2>3 DEF InFlight, Step, Surroundings, SessionsAdvance
<1>7. QED
  BY <1>4, <1>5, <1>6 DEF NoNewTraffic

\* Nobody moves.
LEMMA NobodyMoves ==
  ASSUME CoreIInv, Surroundings, thread' = thread
  PROVE  Summary
<1>1. Task \subseteq Task'
  BY JobsPersist DEF Surroundings, SessionsAdvance
<1>2. CoreTypeOK'
  BY <1>1 DEF CoreIInv, CoreTypeOK, IInv, Surroundings, SessionsAdvance
<1>3. \A u \in Busy' : OnTrack(u)'
  BY OthersStayOnTrack DEF CoreIInv, Busy, Surroundings
<1>4. CoreIInv'
  BY <1>2, <1>3 DEF CoreIInv, Surroundings, SessionsAdvance
<1>5. HaulsFresh
  BY DEF HaulsFresh, BeingRevoked
<1>6. ASSUME NEW u \in Threads, NEW r, InFlight(u, r)'
      PROVE  InFlight(u, r)
  <2>1. thread[u] \in Task
    BY <1>6, BusyTask DEF CoreIInv, InFlight, Step
  <2>2. thread[u].deadline \in Int /\ now \in Int
    BY <2>1 DEF Task, CoreIInv, CoreTypeOK, Ses!TypeOK
  <2>3. QED
    BY <1>6, <2>2 DEF InFlight, Step, Surroundings, SessionsAdvance
<1>7. QED
  BY <1>4, <1>5, <1>6 DEF NoNewTraffic, Summary

\* What was drained stays in hand when its holders do not move.
LEMMA HaulsKept ==
  ASSUME NEW t \in Threads, thread[t] = Idle \/ thread[t].haul = NoHaul,
         \A u \in Threads : u # t => thread'[u] = thread[u],
         NEW r, BeingRevoked(r)
  PROVE  BeingRevoked(r)'
<1>1. PICK u \in Threads : thread[u] # Idle /\ r \in thread[u].haul.routes
  BY DEF BeingRevoked
<1>2. u # t
  BY <1>1 DEF NoHaul
<1>3. QED
  BY <1>1, <1>2 DEF BeingRevoked

HaulsStay == \A r : BeingRevoked(r) => BeingRevoked(r)'

\* A route withdrawn by a step other than a drain was never told to anybody.
LEMMA ClearedUnlessDrained ==
  ASSUME IInv, told' = told, HaulsStay
  PROVE  StillCleared
<1>1. \A r \in ActiveRoutes : r \notin told
  BY DEF IInv, ToldRoutesAreSettled
<1>2. QED
  BY <1>1 DEF StillCleared, Cleared, HaulsStay

\* What the registry does in a step that leaves the sessions alone.
LEMMA RegistrySurroundings ==
  ASSUME CoreIInv, [Next]_vars, UNCHANGED managerVars
  PROVE  /\ HistoryGrows /\ NoneRevived
         /\ StillCleared => Surroundings
         /\ \/ told' = told /\ (HaulsStay => StillCleared)
            \/ DrainRouteRevocations
<1>1. IInv' /\ NoneRevived /\ HistoryGrows
  BY NextPreserves, HistoryEffect DEF CoreIInv
<1>2. now' \in 0 .. MaxTime /\ now <= now' /\ now' \in Int
  BY <1>1, BoundsAssumption
     DEF HistoryGrows, Tick, CoreIInv, CoreTypeOK, Ses!TypeOK
<1>3. SessionsAdvance
  BY <1>2, SessionsUnchanged DEF CoreIInv
<1>4. told \subseteq told'
  BY <1>1 DEF HistoryGrows, DrainRouteRevocations
<1>5. QED
  BY <1>1, <1>2, <1>3, <1>4, ClearedUnlessDrained
     DEF Surroundings, HistoryGrows, CoreIInv, HaulsStay

\* What the sessions do in a step that leaves the registry alone.
LEMMA SessionSurroundings ==
  ASSUME CoreIInv, SessionsAdvance, UNCHANGED <<now, registryVars>>
  PROVE  /\ [Next]_vars
         /\ StillCleared => Surroundings
         /\ HaulsStay => StillCleared
<1>1. [Next]_vars
  BY DEF vars, registryVars
<1>2. IInv'
  BY <1>1, NextPreserves DEF CoreIInv
<1>3. /\ told' = told /\ exposed' = exposed
      /\ now' \in Int /\ now <= now'
  BY DEF registryVars, CoreIInv, CoreTypeOK, Ses!TypeOK
<1>4. QED
  BY <1>1, <1>2, <1>3, ClearedUnlessDrained
     DEF Surroundings, CoreIInv, HaulsStay

-----------------------------------------------------------------------------
(* The steps of a goroutine *)

\* Where a goroutine that takes a step comes from.
LEMMA StepFacts ==
  ASSUME CoreIInv, NEW t \in Threads, NEW x, Step(t, x)
  PROVE  /\ t \in Busy /\ thread[t] \in Task /\ thread[t].job \in Job
         /\ OnTrack(t)
         /\ Rest(t) \in Seq(Steps)
         /\ Rest(t) # <<>> => IsRestOf(Rest(t), Program(thread[t].job))
         /\ x = "drain" => Rest(t) # <<>> /\ Head(Rest(t)) = "revoke"
         /\ Fits(thread[t].job.kind, x)
         /\ thread[t].job.kind # "proxy" /\ Rest(t) # <<>> => Head(Rest(t)) # "serve"
         /\ thread[t].job.kind = "proxy" =>
              /\ x \in {"list", "drain", "revoke", "slot", "authorize", "serve"}
              /\ Rest(t) # <<>> => Head(Rest(t)) # "list"
              /\ x # "serve" => Rest(t) # <<>>
              /\ x = "list" => Head(Rest(t)) = "drain"
              /\ x = "revoke" => Head(Rest(t)) = "slot"
              /\ x = "slot" => Head(Rest(t)) = "authorize"
              /\ x = "authorize" => Head(Rest(t)) = "serve"
              /\ x = "serve" => Rest(t) = <<>>
         /\ x # "revoke" => thread[t].haul = NoHaul
<1>1. t \in Busy /\ thread[t] \in Task /\ thread[t].job \in Job /\ OnTrack(t)
  BY BusyTask DEF CoreIInv, Task
<1>2. IsRestOf(thread[t].todo, Program(thread[t].job))
  BY <1>1 DEF OnTrack
<1>3. Head(thread[t].todo) = x /\ Rest(t) = Tail(thread[t].todo)
  BY DEF Step, Rest
<1>4. Rest(t) # <<>> => IsRestOf(Rest(t), Program(thread[t].job))
  BY <1>1, <1>2, <1>3, NextStep
<1>5. thread[t].job.kind # "proxy" /\ Rest(t) # <<>> => Head(Rest(t)) # "serve"
  BY <1>1, <1>4, NextStep DEF Fits
<1>6. x # "revoke" => thread[t].haul = NoHaul
  BY <1>1, <1>3 DEF OnTrack, HaulInHand, Step
<1>7. /\ Rest(t) \in Seq(Steps)
      /\ x = "drain" => Rest(t) # <<>> /\ Head(Rest(t)) = "revoke"
      /\ Fits(thread[t].job.kind, x)
      /\ thread[t].job.kind = "proxy" =>
           /\ x \in {"list", "drain", "revoke", "slot", "authorize", "serve"}
           /\ Rest(t) # <<>> => Head(Rest(t)) # "list"
           /\ x # "serve" => Rest(t) # <<>>
           /\ x = "list" => Head(Rest(t)) = "drain"
           /\ x = "revoke" => Head(Rest(t)) = "slot"
           /\ x = "slot" => Head(Rest(t)) = "authorize"
           /\ x = "authorize" => Head(Rest(t)) = "serve"
           /\ x = "serve" => Rest(t) = <<>>
  <2> DEFINE job == thread[t].job
             todo == thread[t].todo
             rest == Tail(todo)
  <2>1. job \in Job /\ IsRestOf(todo, Program(job))
    BY <1>1, <1>2
  <2>2. Head(todo) = x /\ Rest(t) = rest
    BY <1>3
  <2> HIDE DEF job, todo
  <2>3. /\ rest \in Seq(Steps)
        /\ x = "drain" => rest # <<>> /\ Head(rest) = "revoke"
        /\ Fits(job.kind, x)
        /\ job.kind = "proxy" =>
             /\ x \in {"list", "drain", "revoke", "slot", "authorize", "serve"}
             /\ rest # <<>> => Head(rest) # "list"
             /\ x # "serve" => rest # <<>>
             /\ x = "list" => Head(rest) = "drain"
             /\ x = "revoke" => Head(rest) = "slot"
             /\ x = "slot" => Head(rest) = "authorize"
             /\ x = "authorize" => Head(rest) = "serve"
             /\ x = "serve" => rest = <<>>
    BY <2>1, <2>2, NextStep
  <2>4. QED
    BY <2>2, <2>3 DEF job
<1>8. QED
  BY <1>1, <1>4, <1>5, <1>6, <1>7

LEMMA FunctionsAreSequences ==
  ASSUME NEW S, NEW n \in Nat, NEW s \in [1 .. n -> S]
  PROVE  s \in Seq(S) /\ Len(s) = n
<1>1. s \in Seq(S)
  BY SeqDef
<1>2. QED
  BY <1>1, LenProperties

\* The route of a request that names one.
LEMMA OneRoute ==
  ASSUME NEW routes \in [1 .. 1 -> exposed]
  PROVE  /\ routes # <<>> /\ routes[1] \in exposed
         /\ Head(routes) = routes[1] /\ Tail(routes) = <<>>
         /\ routes = <<routes[1]>>
<1> DEFINE n == 1
<1>1. /\ routes \in Seq(exposed) /\ Len(routes) = 1
      /\ routes[1] \in exposed
  <2>1. n \in Nat /\ routes \in [1 .. n -> exposed] /\ routes[1] \in exposed
    OBVIOUS
  <2>2. routes \in Seq(exposed) /\ Len(routes) = n
    <3> HIDE DEF n
    <3>1. QED
      BY <2>1, FunctionsAreSequences
  <2>3. QED
    BY <2>1, <2>2
<1>2. routes # <<>>
  BY <1>1, NonEmpty, 1 >= 1, Zenon
<1>3. /\ Tail(routes) \in Seq(exposed)
      /\ Len(Tail(routes)) = 0
      /\ Head(routes) = routes[1]
  BY <1>1, <1>2, HeadTailProperties
<1>4. Tail(routes) = <<>>
  BY <1>3, EmptySeq
<1>5. routes = <<routes[1]>>
  BY <1>1, SeqEqual
<1>6. QED
  BY <1>1, <1>2, <1>3, <1>4, <1>5

\* Away from the proxy, and between two applications of the queue, there is
\* nothing to lose.
LEMMA NonProxyMoves ==
  ASSUME CoreIInv, NEW t \in Threads, NEW x, Step(t, x),
         x \notin {"drain", "revoke"}, thread[t].job.kind # "proxy",
         NEW next \in Task, next.job = thread[t].job,
         next.haul = thread[t].haul,
         Proceed(t, next, Rest(t))
  PROVE  HaulsStay /\ (Surroundings => Summary)
<1>1. /\ OnTrack(t) /\ Rest(t) \in Seq(Steps)
      /\ Rest(t) # <<>> => IsRestOf(Rest(t), Program(thread[t].job))
      /\ Rest(t) # <<>> => Head(Rest(t)) # "serve"
      /\ thread[t].haul = NoHaul
  BY StepFacts
<1>2. /\ \A u \in Threads : u # t => thread'[u] = thread[u]
      /\ thread' \in [Threads -> Task \cup {Idle}]
      /\ Rest(t) = <<>> => thread'[t] = Idle
      /\ Rest(t) # <<>> => /\ thread'[t].todo = Rest(t)
                           /\ thread'[t].job = thread[t].job
                           /\ thread'[t].haul = NoHaul
  BY <1>1, Proceeding DEF CoreIInv
<1>3. HaulsStay
  BY <1>1, <1>2, HaulsKept DEF HaulsStay
<1>4. ~Step(t, "serve")'
  BY <1>1, <1>2 DEF Step, Idle
<1>5. thread'[t] # Idle => OnTrack(t)' /\ thread'[t].haul.routes = {}
  BY <1>1, <1>2, <1>4 DEF OnTrack, HaulInHand, NoHaul
<1>6. Surroundings => Summary
  BY <1>2, <1>4, <1>5, OneMoves DEF Summary
<1>7. QED
  BY <1>3, <1>6

\* A proxied request that goes on with what it knows.
LEMMA ProxyMoves ==
  ASSUME CoreIInv, NEW t \in Threads, NEW x, Step(t, x),
         x \in {"list", "slot", "serve"}, thread[t].job.kind = "proxy",
         NEW next \in Task, next.job = thread[t].job,
         next.haul = thread[t].haul,
         NEW todo, todo = Rest(t) \/ (todo = <<>> /\ x # "list"),
         Proceed(t, next, todo),
         x = "list" =>
           /\ next.left = <<>>
           /\ next.found => thread[t].job.routes[1] \in ActiveRoutes',
         x = "slot" => next = thread[t]
  PROVE  HaulsStay /\ (Surroundings => Summary)
<1>1. /\ OnTrack(t) /\ Rest(t) \in Seq(Steps)
      /\ Rest(t) # <<>> => IsRestOf(Rest(t), Program(thread[t].job))
      /\ Rest(t) # <<>> => Head(Rest(t)) # "list"
      /\ x # "serve" => Rest(t) # <<>>
      /\ x = "list" => Head(Rest(t)) = "drain"
      /\ x = "slot" => Head(Rest(t)) = "authorize"
      /\ x = "serve" => Rest(t) = <<>>
      /\ thread[t].haul = NoHaul
      /\ thread[t].job \in Job
  BY StepFacts
<1>2. todo \in Seq(Steps) /\ (todo # <<>> => todo = Rest(t) /\ x \in {"list", "slot"})
  <2>1. CASE todo = <<>>
    BY <2>1
  <2>2. CASE todo = Rest(t)
    BY <1>1, <2>2
  <2>3. QED
    BY <2>1, <2>2
<1>3. /\ \A u \in Threads : u # t => thread'[u] = thread[u]
      /\ thread' \in [Threads -> Task \cup {Idle}]
      /\ todo = <<>> => thread'[t] = Idle
      /\ todo # <<>> => /\ thread'[t].todo = todo
                        /\ thread'[t].job = thread[t].job
                        /\ thread'[t].left = next.left
                        /\ thread'[t].found = next.found
                        /\ thread'[t].haul = NoHaul
  BY <1>1, <1>2, Proceeding DEF CoreIInv
<1>4. HaulsStay
  BY <1>1, <1>3, HaulsKept DEF HaulsStay
<1>5. ~Step(t, "serve")'
  BY <1>1, <1>2, <1>3 DEF Step, Idle
<1>6. ASSUME Surroundings, thread'[t] # Idle
      PROVE  OnTrack(t)' /\ thread'[t].haul.routes = {}
  <2>1. todo # <<>> /\ todo = Rest(t) /\ x \in {"list", "slot"}
    BY <1>2, <1>3, <1>6
  <2>2. ProxyLookup(t)
    BY <1>1 DEF OnTrack
  <2>3. ProxyLookup(t)'
    <3>1. CASE x = "list"
      <4>1. ~Step(t, "list")' /\ ~Step(t, "slot")' /\ ~Step(t, "authorize")'
        BY <1>1, <1>3, <2>1, <3>1 DEF Step
      <4>2. thread'[t].left = <<>>
        BY <1>3, <2>1, <3>1
      <4>3. thread'[t].found => Cleared(thread[t].job.routes[1])'
        BY <1>3, <2>1, <3>1 DEF Cleared
      <4>4. QED
        BY <1>3, <1>5, <2>1, <4>1, <4>2, <4>3 DEF ProxyLookup
    <3>2. CASE x = "slot"
      <4>1. /\ ~Step(t, "list")' /\ ~Step(t, "list")
            /\ thread'[t].left = thread[t].left
            /\ thread'[t].found = thread[t].found
            /\ thread[t].found /\ thread[t].left = <<>>
        BY <1>1, <1>3, <2>1, <2>2, <3>2 DEF Step, ProxyLookup
      <4>2. /\ thread[t].job.session \in issued
            /\ thread[t].job.routes[1] \in exposed
        BY <1>1, JobKinds
      <4>3. QED
        BY <1>3, <1>6, <2>1, <2>2, <4>1, <4>2
           DEF ProxyLookup, Surroundings, StillCleared, SessionsAdvance
    <3>3. QED
      BY <2>1, <3>1, <3>2
  <2>4. QED
    BY <1>1, <1>3, <1>5, <2>1, <2>3 DEF OnTrack, HaulInHand, NoHaul
<1>7. Surroundings => Summary
  BY <1>3, <1>5, <1>6, OneMoves DEF Summary
<1>8. QED
  BY <1>4, <1>7

-----------------------------------------------------------------------------
(* The steps on the registry *)

\* What every step but a granted authorization does.
Kept == [Next]_vars /\ Summary

LEMMA RegistryMoves ==
  ASSUME CoreIInv, [Next]_vars, UNCHANGED managerVars, told' = told
  PROVE  HaulsStay => Surroundings
BY RegistrySurroundings, ClearedUnlessDrained DEF CoreIInv

LEMMA ListKeeps ==
  ASSUME CoreIInv, NEW t \in Threads, ListEntries(t)
  PROVE  Kept
<1> DEFINE job == thread[t].job
           left == thread[t].left
           next == IF left = <<>> THEN thread[t]
                   ELSE [thread[t] EXCEPT
                           !.left = Tail(left),
                           !.found = @ /\ Head(left) \in ActiveRoutes']
<1>1. /\ Step(t, "list") /\ List /\ UNCHANGED managerVars
      /\ Proceed(t, next, Rest(t))
  BY DEF ListEntries, OnRegistry
<1>2. [Next]_vars /\ told' = told
  BY <1>1 DEF Next, List, Expire
<1>3. /\ thread[t] \in Task /\ job \in Job /\ OnTrack(t)
      /\ left \in Seq(Route)
  BY <1>1, StepFacts DEF Task
<1>4. left # <<>> => Tail(left) \in Seq(Route)
  BY <1>3, HeadTailProperties
<1>5. next \in Task /\ next.job = job /\ next.haul = thread[t].haul
  BY <1>3, <1>4 DEF Task
<1>6. CASE job.kind # "proxy"
  <2> HIDE DEF next
  <2>1. HaulsStay /\ (Surroundings => Summary)
    BY <1>1, <1>5, <1>6, NonProxyMoves
  <2>2. QED
    BY <1>1, <1>2, <2>1, RegistryMoves DEF Kept
<1>7. CASE job.kind = "proxy"
  <2>1. ProxyLookup(t) /\ job.routes \in [1 .. 1 -> exposed]
    BY <1>3, <1>7, JobKinds DEF OnTrack
  <2>2. left = job.routes
    BY <1>1, <2>1 DEF ProxyLookup
  <2>3. left # <<>> /\ Tail(left) = <<>> /\ Head(left) = job.routes[1]
    BY <2>1, <2>2, OneRoute
  <2>4. /\ next.left = <<>>
        /\ next.found => job.routes[1] \in ActiveRoutes'
    BY <1>3, <2>3 DEF Task
  <2> HIDE DEF next
  <2>5. HaulsStay /\ (Surroundings => Summary)
    BY <1>1, <1>5, <1>7, <2>4, ProxyMoves
  <2>6. QED
    BY <1>1, <1>2, <2>5, RegistryMoves DEF Kept
<1>8. QED
  BY <1>6, <1>7

\* A handler's call on the registry that is neither a listing nor a drain.
LEMMA RegistryCallKeeps ==
  ASSUME CoreIInv, NEW t \in Threads,
         NEW x \in {"get", "reconcile", "heartbeat", "remove"}, Step(t, x),
         [Next]_vars, UNCHANGED managerVars, told' = told,
         NEW found \in BOOLEAN, NEW next,
         next = thread[t] \/ next = [thread[t] EXCEPT !.found = found],
         Proceed(t, next, Rest(t))
  PROVE  Kept
<1>1. thread[t] \in Task /\ thread[t].job.kind # "proxy"
  BY StepFacts
<1>2. /\ next \in Task /\ next.job = thread[t].job
      /\ next.haul = thread[t].haul
  BY <1>1 DEF Task
<1>3. HaulsStay /\ (Surroundings => Summary)
  BY <1>1, <1>2, NonProxyMoves
<1>4. QED
  BY <1>3, RegistryMoves DEF Kept

LEMMA GetKeeps ==
  ASSUME CoreIInv, NEW t \in Threads, GetEntry(t)
  PROVE  Kept
<1> DEFINE job == thread[t].job
           found == \/ job.generation = 0
                    \/ /\ job.agent \in DOMAIN entries'
                       /\ entries'[job.agent].generation = job.generation
<1>1. /\ Step(t, "get") /\ Get /\ UNCHANGED managerVars
      /\ Proceed(t, [thread[t] EXCEPT !.found = found], Rest(t))
  BY DEF GetEntry, OnRegistry
<1>2. [Next]_vars /\ told' = told
  BY <1>1 DEF Next, Get, Expire
<1>3. found \in BOOLEAN
  OBVIOUS
<1> HIDE DEF found
<1>4. QED
  BY <1>1, <1>2, <1>3, RegistryCallKeeps

LEMMA RegisterKeeps ==
  ASSUME CoreIInv, NEW t \in Threads, RegisterAgent(t)
  PROVE  Kept
<1>1. /\ Step(t, "reconcile") /\ UNCHANGED managerVars
      /\ Proceed(t, thread[t], Rest(t))
  BY DEF RegisterAgent, OnRegistry
<1>2. thread[t].job \in Job /\ thread[t].job.kind = "registerAgent"
  BY <1>1, StepFacts DEF Fits
<1>3. thread[t].job.agent \in Agents
  BY <1>2, JobKinds
<1>4. [Next]_vars /\ told' = told
  <2>1. CASE Undecodable
    BY <2>1 DEF Undecodable, registryVars, vars
  <2>2. CASE \E outcome \in {"invalid", "gap", "protected"},
                planned \in SUBSET Surfaces, ttl \in 0 .. MaxLease :
               Reconcile(thread[t].job.agent, outcome, planned, ttl)
    BY <1>3, <2>2 DEF Next, Reconcile, Replace, Refused, Expire
  <2>3. QED
    BY <2>1, <2>2 DEF RegisterAgent
<1>5. QED
  BY <1>1, <1>4, RegistryCallKeeps

LEMMA HeartbeatKeeps ==
  ASSUME CoreIInv, NEW t \in Threads, HeartbeatAgent(t)
  PROVE  Kept
<1>1. /\ Step(t, "heartbeat") /\ UNCHANGED managerVars
      /\ Proceed(t, thread[t], Rest(t))
  BY DEF HeartbeatAgent, OnRegistry
<1>2. thread[t].job \in Job /\ thread[t].job.kind = "heartbeatAgent"
  BY <1>1, StepFacts DEF Fits
<1>3. thread[t].job.agent \in Agents /\ thread[t].job.generation \in Generation
  BY <1>2, JobKinds
<1>4. [Next]_vars /\ told' = told
  <2>1. CASE Undecodable
    BY <2>1 DEF Undecodable, registryVars, vars
  <2>2. CASE \E ttl \in 1 .. MaxLease :
               Heartbeat(thread[t].job.agent, thread[t].job.generation, ttl)
    BY <1>3, <2>2 DEF Next, Heartbeat
  <2>3. QED
    BY <2>1, <2>2 DEF HeartbeatAgent
<1>5. QED
  BY <1>1, <1>4, RegistryCallKeeps

LEMMA RemoveKeeps ==
  ASSUME CoreIInv, NEW t \in Threads, RemoveAgent(t)
  PROVE  Kept
<1> DEFINE job == thread[t].job
           found == thread[t].found /\ Holds(job.agent, job.generation)
<1>1. /\ Step(t, "remove") /\ UNCHANGED managerVars
      /\ \/ RemoveEntry(job.agent, job.generation)
         \/ UNCHANGED <<now, registryVars>>
      /\ thread[t] \in Task
  BY StepFacts DEF RemoveAgent, OnRegistry
<1>2. Proceed(t, [thread[t] EXCEPT !.found = found], Rest(t))
  BY <1>1 DEF RemoveAgent, Task
<1>3. job \in Job /\ job.kind = "deleteAgent"
  BY <1>1, StepFacts DEF Fits
<1>4. job.agent \in Agents /\ job.generation \in Generation \cup {0}
  BY <1>3, JobKinds
<1>5. [Next]_vars /\ told' = told
  <2>1. CASE UNCHANGED <<now, registryVars>>
    BY <2>1 DEF registryVars, vars
  <2>2. CASE Remove(job.agent)
    BY <1>4, <2>2 DEF Next, Remove, Discard
  <2>3. CASE job.generation # 0 /\ RemoveGeneration(job.agent, job.generation)
    <3>1. job.generation \in Generation
      BY <1>4, <2>3
    <3>2. QED
      BY <1>4, <2>3, <3>1 DEF Next, RemoveGeneration, Discard
  <2>4. QED
    BY <1>1, <2>1, <2>2, <2>3 DEF RemoveEntry
<1>6. found \in BOOLEAN
  BY <1>1 DEF Task
<1> HIDE DEF found
<1>7. QED
  BY <1>1, <1>2, <1>5, <1>6, RegistryCallKeeps

\* What a drain returns was told to nobody before.
LEMMA DrainKeeps ==
  ASSUME CoreIInv, NEW t \in Threads, Drain(t)
  PROVE  Kept
<1> DEFINE drained == IF revokeAll THEN told' \ told ELSE pending
           haul == [all |-> revokeAll, routes |-> drained]
           next == [thread[t] EXCEPT !.haul = haul]
<1>1. /\ Step(t, "drain") /\ DrainRouteRevocations /\ UNCHANGED managerVars
      /\ Proceed(t, next, Rest(t))
  BY DEF Drain, OnRegistry
<1>2. [Next]_vars
  BY <1>1 DEF Next
<1>3. /\ thread[t] \in Task /\ thread[t].job \in Job /\ OnTrack(t)
      /\ Rest(t) \in Seq(Steps)
      /\ Rest(t) # <<>> /\ Head(Rest(t)) = "revoke"
      /\ IsRestOf(Rest(t), Program(thread[t].job))
      /\ thread[t].haul = NoHaul
  BY <1>1, StepFacts
<1>4. drained = told' \ told /\ told' \subseteq Route /\ drained \subseteq Route
  <2>1. /\ pending \subseteq exposed
        /\ pending \cap ActiveRoutes = {} /\ pending \cap told = {}
        /\ revokeAll \in BOOLEAN /\ exposed \subseteq Route
        /\ told \subseteq Route
    BY DEF CoreIInv, IInv, TypeOK, ToldRoutesAreSettled, QueueSparesActiveRoutes
  <2>2. told' = told \cup ((IF revokeAll THEN exposed ELSE pending) \ ActiveRoutes)
    BY <1>1 DEF DrainRouteRevocations, DrainedRoutes
  <2>3. QED
    BY <2>1, <2>2
<1>5. next \in Task /\ next.job = thread[t].job /\ next.haul = haul
      /\ next.left = thread[t].left /\ next.found = thread[t].found
  BY <1>3, <1>4 DEF Task, CoreIInv, IInv, TypeOK
<1> HIDE DEF next, drained
<1>6. /\ \A u \in Threads : u # t => thread'[u] = thread[u]
      /\ thread' \in [Threads -> Task \cup {Idle}]
      /\ thread'[t] \in Task
      /\ thread'[t].todo = Rest(t)
      /\ thread'[t].job = thread[t].job
      /\ thread'[t].left = thread[t].left
      /\ thread'[t].found = thread[t].found
      /\ thread'[t].haul = haul
  BY <1>1, <1>3, <1>5, Proceeding DEF CoreIInv
<1>7. /\ thread'[t] # Idle /\ ~Step(t, "serve")' /\ Step(t, "revoke")'
      /\ ~Step(t, "list")' /\ ~Step(t, "slot")' /\ ~Step(t, "authorize")'
  BY <1>3, <1>6 DEF Step, Idle
<1>8. HaulsStay
  BY <1>3, <1>6, HaulsKept DEF HaulsStay
<1>9. StillCleared
  <2>1. SUFFICES ASSUME NEW r \in exposed, Cleared(r)
                 PROVE  Cleared(r)'
    BY DEF StillCleared
  <2>2. CASE r \in ActiveRoutes
    <3>1. ActiveRoutes' = ActiveRoutes
      BY <1>1 DEF DrainRouteRevocations, ActiveRoutes, RoutesOf, PlanRoutes
    <3>2. QED
      BY <2>2, <3>1 DEF Cleared
  <2>3. CASE r \notin told
    <3>1. r \in told' => r \in thread'[t].haul.routes
      BY <1>4, <1>6, <2>3
    <3>2. QED
      BY <1>7, <3>1 DEF Cleared, BeingRevoked
  <2>4. CASE BeingRevoked(r)
    BY <1>8, <2>4 DEF HaulsStay, Cleared
  <2>5. QED
    BY <2>1, <2>2, <2>3, <2>4 DEF Cleared
<1>10. Surroundings
  BY <1>1, <1>2, <1>9, RegistrySurroundings
<1>11. OnTrack(t)'
  <2>1. HaulInHand(t)'
    BY <1>4, <1>6, <1>7 DEF HaulInHand
  <2>2. ASSUME thread[t].job.kind = "proxy"
        PROVE  ProxyLookup(t)'
    <3>1. /\ thread[t].job.session \in issued
          /\ thread[t].job.routes[1] \in exposed
      BY <1>3, <2>2, JobKinds
    <3>2. ProxyLookup(t) /\ ~Step(t, "list")
      BY <1>1, <1>3, <2>2 DEF OnTrack, Step
    <3>3. QED
      BY <1>6, <1>7, <1>9, <1>10, <3>1, <3>2
         DEF ProxyLookup, StillCleared, Surroundings, SessionsAdvance
  <2>3. QED
    BY <1>3, <1>6, <1>7, <2>1, <2>2 DEF OnTrack
<1>12. \A r \in thread'[t].haul.routes : r \notin told
  BY <1>4, <1>6
<1>13. Summary
  BY <1>6, <1>7, <1>10, <1>11, <1>12, OneMoves DEF Summary
<1>14. QED
  BY <1>2, <1>13 DEF Kept

-----------------------------------------------------------------------------
(* The steps on the session manager *)

\* The sessions that can use a drained route are gone before its holder
\* forgets it.
LEMMA HaulDeleted ==
  ASSUME CoreIInv, NEW t \in Threads, thread[t] \in Task,
         DeleteHaul(thread[t].haul)
  PROVE  /\ SessionsAdvance /\ now' = now
         /\ \A r \in thread[t].haul.routes :
              \A s \in Ses!Live' : r \notin sessions'[s].routes
<1> DEFINE haul == thread[t].haul
<1>1. CASE haul.all
  <2>1. Ses!Revoke(Ses!Live)
    BY <1>1 DEF DeleteHaul, Ses!DeleteAll
  <2>2. SessionsAdvance /\ now' = now /\ Ses!Live' = {}
    BY <2>1, SessionsRevoked DEF CoreIInv
  <2>3. QED
    BY <2>2
<1>2. CASE ~haul.all
  <2> DEFINE roots == {s \in Ses!Live : sessions[s].routes \cap haul.routes # {}}
  <2>1. Ses!Revoke(roots)
    BY <1>2 DEF DeleteHaul, Ses!DeleteRoutes
  <2>2. /\ SessionsAdvance /\ now' = now
        /\ roots \cap Ses!Live' = {} /\ Ses!Live' \subseteq Ses!Live
    BY <2>1, SessionsRevoked DEF CoreIInv
  <2>3. \A s \in Ses!Live' : s \in issued /\ sessions'[s] = sessions[s]
    BY <2>2 DEF SessionsAdvance, CoreIInv, CoreTypeOK, Ses!TypeOK
  <2>4. QED
    BY <2>2, <2>3
<1>3. QED
  BY <1>1, <1>2

\* A program is what is left of it at its start.
LEMMA WholeProgram ==
  ASSUME NEW job \in Job
  PROVE  /\ Program(job) \in Seq(Steps) /\ Program(job) # <<>>
         /\ IsRestOf(Program(job), Program(job))
         /\ job.kind # "proxy" => Head(Program(job)) # "serve"
         /\ job.kind = "proxy" => Head(Program(job)) = "list"
<1> DEFINE program == Program(job)
<1>1. /\ WellFormedProgram(job, program) /\ Len(program) >= 1
      /\ job.kind = "proxy" => program = ProxyRequest
  BY ProgramsWellFormed
<1> HIDE DEF program
<1>2. program \in Seq(Steps) /\ Len(program) \in Nat
  BY <1>1 DEF WellFormedProgram
<1>3. program # <<>>
  BY <1>1, NonEmpty
<1>4. SubSeq(program, 1, Len(program)) = program
  BY <1>2, SubSeqFull
<1>5. IsRestOf(program, program)
  BY <1>1, <1>2, <1>4 DEF IsRestOf
<1>6. Head(program) = program[1] /\ 1 \in 1 .. Len(program)
  BY <1>1, <1>2, <1>3
<1>7. job.kind # "proxy" => Head(program) # "serve"
  BY <1>1, <1>6 DEF WellFormedProgram, Fits
<1>8. job.kind = "proxy" => Head(program) = "list"
  BY <1>1, <1>6, ProxySteps
<1>9. QED
  BY <1>2, <1>3, <1>5, <1>7, <1>8 DEF program

LEMMA RevokeKeeps ==
  ASSUME CoreIInv, NEW t \in Threads, Revoke(t)
  PROVE  Kept
<1> DEFINE job == thread[t].job
           next == [thread[t] EXCEPT !.haul = NoHaul]
           todo == CASE ~thread[t].found /\ job.kind # "deleteAgent" -> <<>>
                     [] thread[t].found /\ thread[t].left # <<>> -> Program(job)
                     [] OTHER -> Rest(t)
<1>1. /\ Step(t, "revoke") /\ DeleteHaul(thread[t].haul)
      /\ UNCHANGED registryVars /\ Proceed(t, next, todo)
  BY DEF Revoke, OnManager
<1>2. /\ t \in Busy /\ thread[t] \in Task /\ job \in Job /\ OnTrack(t)
      /\ Rest(t) \in Seq(Steps)
      /\ Rest(t) # <<>> => IsRestOf(Rest(t), Program(job))
      /\ job.kind # "proxy" /\ Rest(t) # <<>> => Head(Rest(t)) # "serve"
      /\ job.kind = "proxy" => Head(Rest(t)) = "slot"
  BY <1>1, StepFacts
<1>3. /\ SessionsAdvance /\ now' = now
      /\ \A r \in thread[t].haul.routes :
           \A s \in Ses!Live' : r \notin sessions'[s].routes
  BY <1>1, <1>2, HaulDeleted
<1>4. job.kind = "proxy" => ProxyLookup(t) /\ thread[t].left = <<>>
  BY <1>1, <1>2 DEF OnTrack, ProxyLookup, Step
<1>5. /\ todo \in Seq(Steps)
      /\ todo # <<>> => IsRestOf(todo, Program(job)) /\ Head(todo) # "serve"
      /\ job.kind = "proxy" /\ todo # <<>> => thread[t].found /\ Head(todo) = "slot"
  <2>1. CASE ~thread[t].found /\ job.kind # "deleteAgent"
    <3>1. todo = <<>> /\ <<>> \in Seq(Steps)
      BY <2>1
    <3> HIDE DEF todo
    <3>2. QED
      BY <3>1
  <2>2. CASE thread[t].found /\ thread[t].left # <<>>
    <3>1. todo = Program(job) /\ job.kind # "proxy"
      BY <1>4, <2>2
    <3>2. QED
      BY <1>2, <3>1, WholeProgram
  <2>3. CASE /\ ~(~thread[t].found /\ job.kind # "deleteAgent")
             /\ ~(thread[t].found /\ thread[t].left # <<>>)
    <3>1. todo = Rest(t)
      BY <2>3
    <3>2. job.kind = "proxy" => thread[t].found
      BY <1>2, <2>3 DEF Task
    <3>3. QED
      BY <1>2, <3>1, <3>2
  <2>4. QED
    BY <2>1, <2>2, <2>3
<1>6. /\ next \in Task /\ next.job = job /\ next.haul = NoHaul
      /\ next.left = thread[t].left /\ next.found = thread[t].found
  BY <1>2 DEF Task, NoHaul
<1> HIDE DEF next, todo
<1>7. /\ \A u \in Threads : u # t => thread'[u] = thread[u]
      /\ thread' \in [Threads -> Task \cup {Idle}]
      /\ todo = <<>> => thread'[t] = Idle
      /\ todo # <<>> => /\ thread'[t].todo = todo
                        /\ thread'[t].job = job
                        /\ thread'[t].left = thread[t].left
                        /\ thread'[t].found = thread[t].found
                        /\ thread'[t].haul = NoHaul
  BY <1>1, <1>5, <1>6, Proceeding DEF CoreIInv
<1>8. ~Step(t, "serve")'
  BY <1>5, <1>7 DEF Step, Idle
<1>9. StillCleared
  <2>1. SUFFICES ASSUME NEW r \in exposed, Cleared(r)
                 PROVE  \/ Cleared(r)'
                        \/ \A s \in issued \cap Ses!Live' : r \notin sessions'[s].routes
    BY DEF StillCleared
  <2>2. CASE r \in ActiveRoutes \/ r \notin told
    <3>1. told' = told /\ ActiveRoutes' = ActiveRoutes
      BY <1>1 DEF registryVars, ActiveRoutes, RoutesOf, PlanRoutes
    <3>2. QED
      BY <2>2, <3>1 DEF Cleared
  <2>3. CASE BeingRevoked(r)
    <3>1. PICK u \in Threads : thread[u] # Idle /\ r \in thread[u].haul.routes
      BY <2>3 DEF BeingRevoked
    <3>2. CASE u = t
      BY <1>3, <3>1, <3>2
    <3>3. CASE u # t
      BY <1>7, <3>1, <3>3 DEF Cleared, BeingRevoked
    <3>4. QED
      BY <3>2, <3>3
  <2>4. QED
    BY <2>1, <2>2, <2>3 DEF Cleared
<1>10. [Next]_vars /\ Surroundings
  BY <1>1, <1>3, <1>9, SessionSurroundings
<1>11. ASSUME thread'[t] # Idle
       PROVE  OnTrack(t)' /\ thread'[t].haul.routes = {}
  <2>1. todo # <<>>
    BY <1>7, <1>11
  <2>2. HaulInHand(t)' /\ thread'[t].haul.routes = {}
    BY <1>7, <2>1 DEF HaulInHand, NoHaul
  <2>3. ASSUME job.kind = "proxy"
        PROVE  ProxyLookup(t)'
    <3>1. job.session \in issued /\ job.routes[1] \in exposed
      BY <1>2, <2>3, JobKinds
    <3>2. ProxyLookup(t) /\ ~Step(t, "list") /\ thread[t].left = <<>>
      BY <1>1, <1>4, <2>3 DEF Step
    <3>3. thread[t].found /\ Head(todo) = "slot"
      BY <1>5, <2>1, <2>3
    <3>4. ASSUME job.session \in Ses!Live',
                 job.routes[1] \in sessions'[job.session].routes
          PROVE  Cleared(job.routes[1])'
      <4>1. Cleared(job.routes[1])
        BY <1>3, <3>1, <3>2, <3>3, <3>4 DEF ProxyLookup, SessionsAdvance
      <4>2. QED
        BY <1>7, <1>9, <2>1, <3>1, <3>4, <4>1 DEF StillCleared
    <3>5. QED
      BY <1>7, <2>1, <3>2, <3>3, <3>4 DEF ProxyLookup, Step
  <2>4. QED
    BY <1>5, <1>7, <1>8, <2>1, <2>2, <2>3 DEF OnTrack
<1>12. Summary
  BY <1>7, <1>8, <1>10, <1>11, OneMoves DEF Summary
<1>13. QED
  BY <1>10, <1>12 DEF Kept

\* A handler's call on the session manager outside the proxy.
LEMMA ManagerCallKeeps ==
  ASSUME CoreIInv, NEW t \in Threads,
         NEW x \in {"create", "authorize", "prune"}, Step(t, x),
         thread[t].job.kind # "proxy",
         SessionsAdvance, now' = now, UNCHANGED registryVars,
         NEW next \in Task, next.job = thread[t].job,
         next.haul = thread[t].haul, Proceed(t, next, Rest(t))
  PROVE  Kept
<1>1. HaulsStay /\ (Surroundings => Summary)
  BY NonProxyMoves
<1>2. [Next]_vars /\ Surroundings
  BY <1>1, SessionSurroundings
<1>3. QED
  BY <1>1, <1>2 DEF Kept

LEMMA CreateKeeps ==
  ASSUME CoreIInv, NEW t \in Threads, Create(t)
  PROVE  Kept
<1> DEFINE job == thread[t].job
<1>1. /\ Step(t, "create") /\ UNCHANGED registryVars
      /\ Proceed(t, thread[t], Rest(t))
  BY DEF Create, OnManager
<1>2. /\ thread[t] \in Task /\ job \in Job
      /\ job.kind \in {"createSession", "createChildSession"}
  BY <1>1, StepFacts DEF Fits
<1>3. Parents(job) \subseteq SessionIds \cup {NoParent}
  BY <1>2, JobKinds DEF Parents, CoreIInv, CoreTypeOK, Ses!TypeOK
<1>4. Range(job.routes) \in SUBSET Route
  <2>1. \E n : job.routes \in [1 .. n -> exposed]
    BY <1>2, JobKinds
  <2>2. exposed \subseteq Route
    BY DEF CoreIInv, IInv, TypeOK
  <2>3. QED
    BY <2>1, <2>2 DEF Range
<1>5. PICK at \in Ses!ClockReads :
        \/ \E id \in SessionIds, parent \in Parents(job),
              ttl \in 1 .. MaxTTL, clamp \in BOOLEAN :
             Ses!Create(id, parent, Endpoint, Range(job.routes),
                        at, ttl, FALSE, clamp)
        \/ Ses!CreateRefused(at)
        \/ UNCHANGED <<now, managerVars>>
  BY DEF Create
<1>6. at \in Int
  BY DEF Ses!ClockReads
<1>7. SessionsAdvance /\ now' = now
  <2>1. ASSUME NEW id \in SessionIds, NEW parent \in Parents(job),
               NEW ttl \in 1 .. MaxTTL, NEW clamp \in BOOLEAN,
               Ses!Create(id, parent, Endpoint, Range(job.routes),
                          at, ttl, FALSE, clamp)
        PROVE  SessionsAdvance /\ now' = now
    <3>1. ttl \in Int /\ parent \in SessionIds \cup {NoParent}
      BY <1>3
    <3>2. QED
      BY <1>4, <1>6, <2>1, <3>1, SessionsCreated DEF CoreIInv
  <2>2. CASE Ses!CreateRefused(at)
    BY <2>2, SessionsRevoked DEF Ses!CreateRefused, CoreIInv
  <2>3. CASE UNCHANGED <<now, managerVars>>
    <3>1. now' \in 0 .. MaxTime
      BY <2>3 DEF CoreIInv, CoreTypeOK, Ses!TypeOK
    <3>2. QED
      BY <2>3, <3>1, SessionsUnchanged DEF CoreIInv
  <2>4. QED
    BY <1>5, <2>1, <2>2, <2>3
<1>8. QED
  BY <1>1, <1>2, <1>7, ManagerCallKeeps

LEMMA PruneKeeps ==
  ASSUME CoreIInv, NEW t \in Threads, Prune(t)
  PROVE  Kept
<1>1. /\ Step(t, "prune") /\ Ses!PruneExpired /\ UNCHANGED registryVars
      /\ Proceed(t, thread[t], Rest(t))
  BY DEF Prune, OnManager
<1>2. thread[t] \in Task /\ thread[t].job.kind # "proxy"
  BY <1>1, StepFacts
<1>3. SessionsAdvance /\ now' = now
  BY <1>1, SessionsRevoked DEF Ses!PruneExpired, CoreIInv
<1>4. QED
  BY <1>1, <1>2, <1>3, ManagerCallKeeps

\* A proxied request starts: its session lives, and its route is protected or
\* has still to be revoked.
Starts(t, r) ==
  /\ UNCHANGED <<now, registryVars, managerVars>>
  /\ r \in exposed /\ Cleared(r)
  /\ \A q : BeingRevoked(q)' <=> BeingRevoked(q)
  /\ \A u \in Threads : \A q : InFlight(u, q)' <=> InFlight(u, q) \/ (u = t /\ q = r)

LEMMA AuthorizeKeeps ==
  ASSUME CoreIInv, NEW t \in Threads, Authorize(t)
  PROVE  Kept \/ (CoreIInv' /\ Starts(t, thread[t].job.routes[1]))
<1> DEFINE job == thread[t].job
           session == job.session
           granted == Ses!Authorizes(session, job.routes[1])
           deadline == IF granted /\ job.kind = "proxy"
                       THEN sessions[session].expires ELSE 0
           next == [thread[t] EXCEPT !.found = granted, !.deadline = deadline]
<1>1. /\ Step(t, "authorize") /\ Ses!AuthorizeRoute(session)
      /\ UNCHANGED registryVars
      /\ Proceed(t, next, IF granted \/ job.kind # "proxy" THEN Rest(t) ELSE <<>>)
  BY DEF Authorize, OnManager
<1>2. /\ thread[t] \in Task /\ job \in Job /\ OnTrack(t)
      /\ Rest(t) \in Seq(Steps)
      /\ Rest(t) # <<>> => IsRestOf(Rest(t), Program(job))
      /\ job.kind = "proxy" => Rest(t) # <<>> /\ Head(Rest(t)) = "serve"
      /\ thread[t].haul = NoHaul
  BY <1>1, StepFacts
<1>3. /\ SessionsAdvance /\ now' = now
      /\ granted => UNCHANGED managerVars
  BY <1>1, SessionAuthorized DEF CoreIInv
<1>4. granted \in BOOLEAN /\ deadline \in Int
  BY DEF Ses!Authorizes, CoreIInv, CoreTypeOK, Ses!TypeOK, Ses!Session
<1> HIDE DEF granted, deadline
<1>5. /\ next \in Task /\ next.job = job /\ next.haul = NoHaul
      /\ next.left = thread[t].left /\ next.found = granted
      /\ next.deadline = deadline
  BY <1>2, <1>4 DEF Task
<1> HIDE DEF next
<1>6. CASE job.kind # "proxy"
  <2>1. Proceed(t, next, Rest(t))
    BY <1>1, <1>6
  <2>2. Kept
    BY <1>1, <1>2, <1>3, <1>5, <1>6, <2>1, ManagerCallKeeps
  <2>3. QED
    BY <2>2
<1>7. CASE job.kind = "proxy" /\ ~granted
  <2>1. Proceed(t, next, <<>>) /\ <<>> \in Seq(Steps)
    BY <1>1, <1>7
  <2>2. /\ \A u \in Threads : u # t => thread'[u] = thread[u]
        /\ thread' \in [Threads -> Task \cup {Idle}]
        /\ thread'[t] = Idle
    BY <1>5, <2>1, Proceeding DEF CoreIInv
  <2>3. HaulsStay /\ ~Step(t, "serve")'
    BY <1>2, <2>2, HaulsKept DEF HaulsStay, Step, Idle
  <2>4. [Next]_vars /\ Surroundings
    BY <1>1, <1>3, <2>3, SessionSurroundings
  <2>5. Summary
    BY <2>2, <2>3, <2>4, OneMoves DEF Summary
  <2>6. QED
    BY <2>4, <2>5 DEF Kept
<1>8. CASE job.kind = "proxy" /\ granted
  <2> DEFINE r == job.routes[1]
  <2>1. Proceed(t, next, Rest(t))
    BY <1>1, <1>8
  <2>2. /\ job.session \in issued /\ r \in exposed
        /\ job.routes = <<r>>
    BY <1>2, <1>8, JobKinds, OneRoute
  <2>3. ProxyLookup(t) /\ thread[t].left = <<>> /\ thread[t].found
    BY <1>1, <1>2, <1>8 DEF OnTrack, ProxyLookup, Step
  <2>4. /\ session \in Ses!Live /\ now < sessions[session].expires
        /\ r \in sessions[session].routes
        /\ deadline = sessions[session].expires
    <3>1. sessions[session].expires > now <=> now < sessions[session].expires
      OBVIOUS
    <3>2. QED
      BY <1>8, <3>1 DEF granted, deadline, Ses!Authorizes
  <2>5. Cleared(r)
    BY <1>1, <2>3, <2>4 DEF ProxyLookup, Step
  <2>6. UNCHANGED <<now, registryVars, managerVars>>
    BY <1>1, <1>3, <1>8
  <2>7. /\ \A u \in Threads : u # t => thread'[u] = thread[u]
        /\ thread' \in [Threads -> Task \cup {Idle}]
        /\ thread'[t].todo = Rest(t) /\ thread'[t].job = job
        /\ thread'[t].left = <<>> /\ thread'[t].found
        /\ thread'[t].haul = NoHaul /\ thread'[t].deadline = deadline
        /\ thread'[t] # Idle
    <3>1. thread'[t] \in Task /\ thread'[t] # Idle
      BY <1>2, <1>5, <1>8, <2>1, Proceeding DEF CoreIInv, Idle
    <3>2. QED
      BY <1>2, <1>5, <1>8, <2>1, <2>3, <3>1, Proceeding DEF CoreIInv
  <2>8. /\ Step(t, "serve")' /\ ~Step(t, "list")' /\ ~Step(t, "revoke")'
        /\ ~Step(t, "serve")
    BY <1>1, <1>2, <1>8, <2>7 DEF Step
  <2>9. HaulsStay
    BY <1>2, <2>7, HaulsKept DEF HaulsStay
  <2>10. Surroundings
    BY <1>1, <1>3, <2>9, SessionSurroundings
  <2>11. ActiveRoutes' = ActiveRoutes /\ told' = told
    BY <2>6 DEF registryVars, ActiveRoutes, RoutesOf, PlanRoutes
  <2>12. OnTrack(t)'
    <3>1. HaulInHand(t)'
      BY <2>7 DEF HaulInHand, NoHaul
    <3>2. (r \in ActiveRoutes \/ r \notin told \/ BeingRevoked(r))'
      BY <2>5, <2>7, <2>9, <2>11 DEF Cleared, HaulsStay
    <3>3. ProxyLookup(t)'
      BY <2>7, <2>8, <3>2 DEF ProxyLookup, Cleared
    <3>4. ServesUnderSession(t)'
      BY <2>4, <2>6, <2>7 DEF ServesUnderSession, managerVars, Ses!Live
    <3>5. QED
      BY <1>2, <1>8, <2>7, <3>1, <3>3, <3>4 DEF OnTrack
  <2>13. CoreIInv' /\ HaulsFresh
    BY <2>7, <2>10, <2>12, OneMoves DEF NoHaul
  <2>14. ASSUME NEW q
         PROVE  BeingRevoked(q)' <=> BeingRevoked(q)
    BY <1>2, <2>7, <2>9 DEF BeingRevoked, NoHaul, HaulsStay
  <2>15. ASSUME NEW u \in Threads, NEW q
         PROVE  InFlight(u, q)' <=> InFlight(u, q) \/ (u = t /\ q = r)
    <3>1. CASE u # t
      BY <2>6, <2>7, <3>1 DEF InFlight, Step, managerVars
    <3>2. CASE u = t
      <4>1. ~InFlight(t, q)
        BY <2>8 DEF InFlight
      <4>2. session \notin cancelled
        BY <2>4 DEF CoreIInv, Ses!RevocationIsComplete
      <4>3. InFlight(t, q)' <=> job.routes = <<q>>
        BY <2>4, <2>6, <2>7, <2>8, <4>2 DEF InFlight, managerVars
      <4>4. QED
        BY <2>2, <3>2, <4>1, <4>3
    <3>3. QED
      BY <3>1, <3>2
  <2>16. Starts(t, r)
    BY <2>2, <2>5, <2>6, <2>14, <2>15 DEF Starts
  <2>17. QED
    BY <2>13, <2>16
<1>9. QED
  BY <1>4, <1>6, <1>7, <1>8

-----------------------------------------------------------------------------
(* The other steps *)

LEMMA NothingChanges ==
  ASSUME CoreIInv, UNCHANGED <<now, registryVars, managerVars>>, HaulsStay
  PROVE  [Next]_vars /\ Surroundings
<1>1. now' \in 0 .. MaxTime
  BY DEF CoreIInv, CoreTypeOK, Ses!TypeOK
<1>2. SessionsAdvance
  BY <1>1, SessionsUnchanged DEF CoreIInv
<1>3. QED
  BY <1>2, SessionSurroundings

LEMMA TakeSlotKeeps ==
  ASSUME CoreIInv, NEW t \in Threads, TakeSlot(t)
  PROVE  Kept
<1> DEFINE todo == IF Cardinality({u \in Threads : HoldsSlot(u)}) < MaxConcurrent
                   THEN Rest(t) ELSE <<>>
<1>1. /\ Step(t, "slot") /\ Proceed(t, thread[t], todo)
      /\ UNCHANGED <<now, registryVars, managerVars>>
  BY DEF TakeSlot
<1>2. todo = Rest(t) \/ todo = <<>>
  OBVIOUS
<1> HIDE DEF todo
<1>3. thread[t] \in Task /\ thread[t].job.kind = "proxy"
  BY <1>1, StepFacts DEF Fits
<1>4. HaulsStay /\ (Surroundings => Summary)
  BY <1>1, <1>2, <1>3, ProxyMoves
<1>5. QED
  BY <1>1, <1>4, NothingChanges DEF Kept

LEMMA RespondKeeps ==
  ASSUME CoreIInv, NEW t \in Threads, Respond(t)
  PROVE  Kept
<1>1. /\ Step(t, "serve") /\ Proceed(t, thread[t], Rest(t))
      /\ UNCHANGED <<now, registryVars, managerVars>>
  BY DEF Respond
<1>2. thread[t] \in Task /\ thread[t].job.kind = "proxy"
  BY <1>1, StepFacts DEF Fits
<1>3. HaulsStay /\ (Surroundings => Summary)
  BY <1>1, <1>2, ProxyMoves
<1>4. QED
  BY <1>1, <1>3, NothingChanges DEF Kept

\* The routes a request names.
LEMMA BeginTask ==
  ASSUME CoreIInv, NEW job \in Job
  PROVE  /\ Begin(job) \in Task
         /\ job.kind = "proxy" => Begin(job).left = job.routes
<1> DEFINE left == IF "routes" \in DOMAIN job THEN job.routes ELSE <<>>
<1>1. exposed \subseteq Route
  BY DEF CoreIInv, IInv, TypeOK
<1>2. left \in Seq(Route)
  <2>1. CASE job.kind \notin {"createSession", "createChildSession", "proxy"}
    <3>1. "routes" \notin DOMAIN job
      BY <2>1 DEF Job, Requests
    <3>2. QED
      BY <3>1
  <2>2. CASE job.kind \in {"createSession", "createChildSession", "proxy"}
    <3>1. PICK n \in Nat : job.routes \in [1 .. n -> exposed]
      <4>1. CASE job.kind = "createSession"
        <5>1. PICK n \in 1 .. MaxRouteIDs : job.routes \in [1 .. n -> exposed]
          BY <4>1, JobKinds
        <5>2. n \in Nat
          BY CoreLimitsAssumption
        <5>3. QED
          BY <5>1, <5>2
      <4>2. CASE job.kind # "createSession"
        <5>1. job.routes \in [1 .. 1 -> exposed]
          BY <2>2, <4>2, JobKinds
        <5>2. QED
          BY <5>1
      <4>3. QED
        BY <4>1, <4>2
    <3>2. job.routes \in Seq(exposed)
      BY <3>1, FunctionsAreSequences
    <3>3. job.routes \in Seq(Route)
      BY <1>1, <3>2, SeqMonotonic
    <3>4. QED
      BY <3>3
  <2>3. QED
    BY <2>1, <2>2
<1>3. job.kind = "proxy" => left = job.routes
  BY DEF Job, Requests
<1> HIDE DEF left
<1>4. Program(job) \in Seq(Steps)
  BY WholeProgram
<1>5. Begin(job) = [job |-> job, todo |-> Program(job), left |-> left,
                    found |-> TRUE, haul |-> NoHaul, deadline |-> 0]
  BY DEF Begin, left
<1>6. QED
  BY <1>2, <1>3, <1>4, <1>5 DEF Task, NoHaul

LEMMA AcceptKeeps ==
  ASSUME CoreIInv, NEW t \in Threads, Accept(t)
  PROVE  Kept
<1>1. PICK job \in Job : thread' = [thread EXCEPT ![t] = Begin(job)]
  BY DEF Accept, Job
<1>2. thread[t] = Idle /\ UNCHANGED <<now, registryVars, managerVars>>
  BY DEF Accept
<1>3. /\ Begin(job) \in Task
      /\ job.kind = "proxy" => Begin(job).left = job.routes
  BY BeginTask
<1>4. /\ Begin(job).job = job /\ Begin(job).todo = Program(job)
      /\ Begin(job).haul = NoHaul
  BY DEF Begin
<1>5. /\ \A u \in Threads : u # t => thread'[u] = thread[u]
      /\ thread' \in [Threads -> Task \cup {Idle}]
      /\ thread'[t] = Begin(job)
  BY <1>1, <1>3 DEF CoreIInv, CoreTypeOK
<1>6. /\ Program(job) # <<>> /\ IsRestOf(Program(job), Program(job))
      /\ job.kind # "proxy" => Head(Program(job)) # "serve"
      /\ job.kind = "proxy" => Head(Program(job)) = "list"
  BY WholeProgram
<1>7. /\ ~Step(t, "serve")'
      /\ job.kind = "proxy" => Step(t, "list")'
  BY <1>4, <1>5, <1>6 DEF Step
<1>8. HaulsStay
  BY <1>2, <1>5, HaulsKept DEF HaulsStay
<1>9. OnTrack(t)' /\ thread'[t].haul.routes = {}
  <2>1. HaulInHand(t)'
    BY <1>4, <1>5 DEF HaulInHand, NoHaul
  <2>2. job.kind = "proxy" => ProxyLookup(t)'
    BY <1>3, <1>4, <1>5, <1>7 DEF ProxyLookup, Step
  <2>3. QED
    BY <1>4, <1>5, <1>6, <1>7, <2>1, <2>2 DEF OnTrack, NoHaul
<1>10. [Next]_vars /\ Surroundings
  BY <1>2, <1>8, NothingChanges
<1>11. QED
  BY <1>5, <1>7, <1>9, <1>10, OneMoves DEF Summary, Kept

\* The steps that move no goroutine.
LEMMA IdleStepKeeps ==
  ASSUME CoreIInv,
         MonitorCheck \/ ManageSessions \/ TimePasses \/ UNCHANGED coreVars
  PROVE  Kept
<1>1. thread' = thread
  BY DEF MonitorCheck, ManageSessions, TimePasses, coreVars
<1>2. HaulsStay
  BY <1>1 DEF HaulsStay, BeingRevoked
<1>3. [Next]_vars /\ Surroundings
  <2>1. CASE MonitorCheck
    <3>1. UNCHANGED managerVars
      BY <2>1 DEF MonitorCheck
    <3>2. PICK agent \in Managed :
            \/ Block(agent)
            \/ \E outcome \in {"invalid", "gap", "protected"},
                  planned \in SUBSET Surfaces :
                 Reconcile(agent, outcome, planned, 0)
      BY <2>1 DEF MonitorCheck
    <3>3. agent \in Agents /\ 0 \in 0 .. MaxLease
      BY ManagedAssumption, BoundsAssumption
    <3>4. Next
      <4>1. CASE Block(agent)
        BY <3>3, <4>1 DEF Next
      <4>2. ASSUME NEW outcome \in {"invalid", "gap", "protected"},
                   NEW planned \in SUBSET Surfaces,
                   Reconcile(agent, outcome, planned, 0)
            PROVE  Next
        BY <3>3, <4>2 DEF Next
      <4>3. QED
        BY <3>2, <4>1, <4>2
    <3>5. told' = told
      BY <3>2 DEF Block, Reconcile, Replace, Refused, Expire
    <3>6. QED
      BY <1>2, <3>1, <3>4, <3>5, RegistryMoves
  <2>2. CASE ManageSessions
    <3>1. PICK roots : Ses!Revoke(roots)
      BY <2>2 DEF ManageSessions, Ses!Delete, Ses!DeleteChildAuthorized, Ses!List
    <3>2. UNCHANGED registryVars
      BY <2>2 DEF ManageSessions, OnManager
    <3>3. SessionsAdvance /\ now' = now
      BY <3>1, SessionsRevoked DEF CoreIInv
    <3>4. QED
      BY <1>2, <3>2, <3>3, SessionSurroundings
  <2>3. CASE TimePasses
    <3>1. Next /\ told' = told /\ UNCHANGED managerVars
      BY <2>3 DEF TimePasses, Tick, Next
    <3>2. QED
      BY <1>2, <3>1, RegistryMoves
  <2>4. CASE UNCHANGED coreVars
    BY <1>2, <2>4, NothingChanges DEF coreVars
  <2>5. QED
    BY <2>1, <2>2, <2>3, <2>4
<1>4. QED
  BY <1>1, <1>3, NobodyMoves DEF Kept

\* What every step does.
LEMMA CoreStep ==
  ASSUME CoreIInv, [CoreNext]_coreVars
  PROVE  /\ CoreIInv'
         /\ Kept \/ \E t \in Threads : \E r : Starts(t, r)
<1>1. ASSUME NEW t \in Threads, Run(t)
      PROVE  CoreIInv' /\ (Kept \/ \E u \in Threads : \E r : Starts(u, r))
  BY <1>1, ListKeeps, GetKeeps, RegisterKeeps, HeartbeatKeeps, RemoveKeeps,
     DrainKeeps, RevokeKeeps, CreateKeeps, AuthorizeKeeps, PruneKeeps,
     TakeSlotKeeps
     DEF Run, Kept, Summary
<1>2. ASSUME NEW t \in Threads, Accept(t) \/ Respond(t)
      PROVE  CoreIInv' /\ Kept
  BY <1>2, AcceptKeeps, RespondKeeps DEF Kept, Summary
<1>3. ASSUME MonitorCheck \/ ManageSessions \/ TimePasses \/ UNCHANGED coreVars
      PROVE  CoreIInv' /\ Kept
  BY <1>3, IdleStepKeeps DEF Kept, Summary
<1>4. QED
  BY <1>1, <1>2, <1>3 DEF CoreNext

-----------------------------------------------------------------------------
(* The theorems *)

LEMMA InitialState ==
  ASSUME CoreInit
  PROVE  CoreIInv
<1>1. IInv
  BY InitEstablishes DEF CoreInit
<1>2. Ses!TypeOK /\ Ses!RevocationIsComplete
  BY BoundsAssumption
     DEF CoreInit, Ses!Init, Ses!TypeOK, Ses!RevocationIsComplete, Ses!Live
<1>3. thread = [t \in Threads |-> Idle]
  BY DEF CoreInit
<1>4. CoreTypeOK
  BY <1>1, <1>2, <1>3 DEF CoreTypeOK, IInv
<1>5. Busy = {}
  BY <1>3 DEF Busy
<1>6. QED
  BY <1>1, <1>2, <1>4, <1>5 DEF CoreIInv

\* Every step of the core keeps both tables, and every goroutine on track.
THEOREM CoreInductiveInvariant == CoreSpec => []CoreIInv
<1>1. CoreIInv /\ [CoreNext]_coreVars => CoreIInv'
  BY CoreStep
<1>2. QED
  BY <1>1, InitialState, PTL DEF CoreSpec

\* Handlers, cleanup and monitor drive the registry through its own operations
\* only: whatever holds of every behaviour of Registry holds in the core.
THEOREM CoreDrivesRegistry == CoreSpec => Spec
<1>1. CoreInit => Init
  BY DEF CoreInit
<1>2. CoreIInv /\ [CoreNext]_coreVars => [Next]_vars
  <2> SUFFICES ASSUME CoreIInv, [CoreNext]_coreVars, ~Kept
               PROVE  [Next]_vars
    BY DEF Kept
  <2>1. UNCHANGED <<now, registryVars>>
    BY CoreStep DEF Starts
  <2>2. QED
    BY <2>1 DEF registryVars, vars
<1>3. QED
  BY <1>1, <1>2, CoreInductiveInvariant, PTL DEF CoreSpec, Spec

\* No path forgets to cancel: the session that authorized what is in flight
\* lives and still names the route.
THEOREM TrafficAlwaysAuthorized == CoreSpec => []TrafficIsAuthorized
<1>1. CoreIInv => TrafficIsAuthorized
  <2> SUFFICES ASSUME CoreIInv, NEW t \in Threads, NEW route, InFlight(t, route)
               PROVE  Ses!Authorizes(thread[t].job.session, route)
    BY DEF TrafficIsAuthorized
  <2>1. t \in Busy /\ Step(t, "serve")
    BY BusyTask DEF InFlight, CoreIInv
  <2>2. ServesUnderSession(t)
    BY <2>1 DEF CoreIInv, OnTrack
  <2>3. /\ thread[t].job.session \notin cancelled
        /\ now < thread[t].deadline /\ thread[t].job.routes[1] = route
    BY DEF InFlight
  <2>4. QED
    BY <2>2, <2>3 DEF ServesUnderSession, Ses!Authorizes
<1>2. QED
  BY <1>1, CoreInductiveInvariant, PTL

\* Whoever is served follows a route that is protected or still has to be
\* revoked.
TrafficIsCleared ==
  \A t \in Threads : \A r : InFlight(t, r) => r \in exposed /\ Cleared(r)

LEMMA TrafficCleared == CoreIInv => TrafficIsCleared
<1> SUFFICES ASSUME CoreIInv, NEW t \in Threads, NEW r, InFlight(t, r)
             PROVE  r \in exposed /\ Cleared(r)
  BY DEF TrafficIsCleared
<1>1. /\ t \in Busy /\ Step(t, "serve") /\ thread[t].job \in Job
      /\ thread[t].job.routes = <<r>>
      /\ thread[t].job.session \notin cancelled
  BY BusyTask DEF InFlight, CoreIInv, Task
<1>2. OnTrack(t) /\ thread[t].job.kind = "proxy"
  BY <1>1, StepFacts DEF Fits
<1>3. /\ ProxyLookup(t) /\ ServesUnderSession(t)
      /\ thread[t].job.routes[1] = r
  BY <1>1, <1>2 DEF OnTrack
<1>4. r \in exposed
  BY <1>1, <1>2, <1>3, JobKinds
<1>5. ~Step(t, "list") /\ thread[t].found
  BY <1>1, <1>3 DEF ProxyLookup, Step
<1>6. QED
  BY <1>1, <1>3, <1>4, <1>5 DEF ProxyLookup, ServesUnderSession

LEMMA TrafficClearedNext == CoreIInv' => TrafficIsCleared'
BY TrafficCleared, PTL

\* Once a route's revocation has been settled nothing is in flight on it.
THEOREM SettledRoutesAreQuiet == CoreSpec => []SettledRoutesCarryNoTraffic
<1>1. CoreIInv => SettledRoutesCarryNoTraffic
  <2> SUFFICES ASSUME CoreIInv, NEW t \in Threads, NEW route \in exposed,
                      InFlight(t, route), route \notin ActiveRoutes
               PROVE  revokeAll \/ route \in pending \/ BeingRevoked(route)
    BY DEF SettledRoutesCarryNoTraffic
  <2>1. Cleared(route)
    BY TrafficCleared DEF TrafficIsCleared
  <2>2. NoRevocationLost
    BY DEF CoreIInv, IInv
  <2>3. QED
    BY <2>1, <2>2 DEF Cleared, NoRevocationLost
<1>2. QED
  BY <1>1, CoreInductiveInvariant, PTL

-----------------------------------------------------------------------------
(* The refinement *)

\* A route never goes back a phase: it is not born again, only a registration
\* opens it, and what was settled is not drained again.
LEMMA PhasesAdvance ==
  ASSUME CoreIInv, CoreIInv', Kept, NEW r \in Route
  PROVE  Capability!Advances(Phase(r), Phase(r)')
<1>1. /\ NoneRevived /\ HistoryGrows
      /\ HaulsFresh
  BY NextPreserves, HistoryEffect DEF CoreIInv, Kept, Summary
<1>2. /\ ActiveRoutes \subseteq exposed /\ ActiveRoutes' \subseteq exposed'
      /\ told \subseteq exposed \ ActiveRoutes
      /\ told' \subseteq exposed' \ ActiveRoutes'
      /\ exposed \subseteq exposed' /\ exposed' \subseteq exposed \cup ActiveRoutes'
  BY <1>1 DEF CoreIInv, IInv, ToldRoutesAreSettled, HistoryGrows
<1>3. /\ told \subseteq told'
      /\ r \in told' /\ r \notin told => r \notin ActiveRoutes
  BY <1>1 DEF HistoryGrows, DrainRouteRevocations
<1>4. r \in ActiveRoutes' => r \in ActiveRoutes \/ r \notin exposed
  BY <1>1 DEF NoneRevived
<1>5. BeingRevoked(r)' => BeingRevoked(r) \/ r \notin told
  BY <1>1 DEF HaulsFresh
<1>6. Phase(r) = IF r \notin exposed THEN "unborn"
                 ELSE IF r \in ActiveRoutes THEN "open"
                 ELSE IF r \in told /\ ~BeingRevoked(r) THEN "closed" ELSE "closing"
  BY <1>2 DEF Phase
<1>7. Phase(r)' = IF r \notin exposed' THEN "unborn"
                  ELSE IF r \in ActiveRoutes' THEN "open"
                  ELSE IF r \in told' /\ ~BeingRevoked(r)' THEN "closed" ELSE "closing"
  BY <1>2 DEF Phase
<1>8. QED
  BY <1>2, <1>3, <1>4, <1>5, <1>6, <1>7 DEF Capability!Advances

\* What is in flight on a route ends before the route is closed.
LEMMA ClosedIsQuiet ==
  ASSUME CoreIInv', NEW t \in Threads, NEW r, InFlight(t, r)'
  PROVE  Phase(r)' # "closed"
<1>1. (r \in exposed /\ Cleared(r))'
  BY TrafficClearedNext DEF TrafficIsCleared
<1>2. (ActiveRoutes \subseteq exposed)'
  BY DEF CoreIInv, IInv
<1>3. QED
  BY <1>1, <1>2 DEF Phase, Cleared

\* A step of the core is a change of phases or the start of a request.
LEMMA CapabilityStep ==
  ASSUME CoreIInv, [CoreNext]_coreVars
  PROVE  [Capability!Next]_Capability!vars
<1> DEFINE phase == [route \in Route |-> Phase(route)]
           traffic == {p \in Threads \X Route : InFlight(p[1], p[2])}
<1>1. CoreIInv'
  BY CoreStep
<1>2. ASSUME NEW r \in Route
      PROVE  /\ phase[r] = Phase(r) /\ phase'[r] = Phase(r)'
             /\ Phase(r) \in Capability!Phases /\ Phase(r)' \in Capability!Phases
  BY DEF Phase, Capability!Phases
<1>3. CASE Kept
  <2>1. phase' \in [Route -> Capability!Phases]
    BY <1>2
  <2>2. \A r \in Route : Capability!Advances(phase[r], phase'[r])
    BY <1>1, <1>2, <1>3, PhasesAdvance
  <2>3. traffic' \in SUBSET traffic
    BY <1>3 DEF Kept, Summary, NoNewTraffic
  <2>4. \A p \in traffic' : phase'[p[2]] # "closed"
    BY <1>1, <1>2, ClosedIsQuiet
  <2>5. Capability!Change
    BY <2>1, <2>2, <2>3, <2>4 DEF Capability!Change
  <2>6. QED
    BY <2>5 DEF Capability!Next
<1>4. ASSUME NEW t \in Threads, NEW r, Starts(t, r)
      PROVE  Capability!Next
  <2>1. r \in Route
    BY <1>4 DEF Starts, CoreIInv, IInv, TypeOK
  <2>2. ActiveRoutes' = ActiveRoutes /\ exposed' = exposed /\ told' = told
    BY <1>4 DEF Starts, registryVars, ActiveRoutes, RoutesOf, PlanRoutes
  <2>3. phase' = phase
    <3>1. \A q \in Route : Phase(q)' = Phase(q)
      BY <1>4, <2>2 DEF Starts, Phase
    <3>2. QED
      BY <3>1
  <2>4. phase[r] \in {"open", "closing"}
    BY <1>4, <2>1 DEF Starts, Phase, Cleared
  <2>5. traffic' = traffic \cup {<<t, r>>}
    BY <1>4, <2>1 DEF Starts
  <2>6. QED
    BY <2>1, <2>3, <2>4, <2>5 DEF Capability!Next, Capability!Begin
<1>5. QED
  BY <1>3, <1>4, CoreStep

\* The core implements route capabilities.
THEOREM CoreImplementsCapabilities == CoreSpec => ImplementsRouteCapability
<1>1. CoreInit => Capability!Init
  <2> SUFFICES ASSUME CoreInit PROVE Capability!Init
    OBVIOUS
  <2>1. exposed = {} /\ \A t \in Threads : thread[t] = Idle
    BY DEF CoreInit, Init
  <2>2. \A r \in Route : Phase(r) = "unborn"
    BY <2>1, InitialState DEF Phase, CoreIInv, IInv
  <2>3. \A t \in Threads : \A r : ~InFlight(t, r)
    BY <2>1 DEF InFlight, Step, Idle
  <2>4. QED
    BY <2>2, <2>3 DEF Capability!Init
<1>2. CoreIInv /\ [CoreNext]_coreVars => [Capability!Next]_Capability!vars
  BY CapabilityStep
<1>3. QED
  BY <1>1, <1>2, CoreInductiveInvariant, PTL DEF CoreSpec, ImplementsRouteCapability

=============================================================================
