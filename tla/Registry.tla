------------------------------ MODULE Registry ------------------------------
(***************************************************************************)
(* The integration registry of internal/registry/registry.go.              *)
(*                                                                         *)
(* An agent is registered with a manifest; while its entry is active the   *)
(* routes of its plan are protected capabilities.  Each (re)registration,  *)
(* block or lease expiry opens a new generation and route identifiers      *)
(* carry the generation they were planned in, so a route dies with the     *)
(* generation that created it.  Routes of an entry that stops being active *)
(* are queued until a caller drains them and revokes their sessions; the   *)
(* queue is bounded and, when it overflows, asks for every session to be   *)
(* revoked instead.  Every exported method holds r.mu throughout (only     *)
(* planner.Build, a pure function, runs before the lock): one action each. *)
(*                                                                         *)
(* A manifest is abstracted to what planner.Build makes of it: "invalid"   *)
(* (Build fails, the agent id is known), "gap" (a required surface is      *)
(* neither protected nor local) or "protected"; with the surfaces that get *)
(* a route.                                                                *)
(***************************************************************************)
EXTENDS Integers, FiniteSets, Functions

CONSTANTS
  Agents,        \* agent identifiers
  Surfaces,      \* surface identifiers of a manifest
  MaxEntries,    \* maxRegistryEntries
  MaxPending,    \* maxPendingRouteRevocations
  MaxGeneration, \* ^uint64(0)
  MaxLease,      \* bound: longest lease, in ticks
  MaxTime        \* bound: the clock stops here

ASSUME BoundsAssumption == /\ MaxEntries \in Nat \ {0}
                           /\ MaxPending \in Nat
                           /\ MaxGeneration \in Nat \ {0}
                           /\ MaxLease \in Nat \ {0}
                           /\ MaxTime \in Nat

VARIABLES
  now,         \* the clock r.now() reads
  entries,     \* r.entries
  generations, \* r.generations: survives the removal of an entry
  pending,     \* r.pendingRouteRevocations
  revokeAll,   \* r.revokeAllSessions
  exposed,     \* history: every route that was ever active
  told         \* history: withdrawn routes some drain told its caller to revoke

vars == <<now, entries, generations, pending, revokeAll, exposed, told>>

Generation == 1 .. MaxGeneration
Route == [agent : Agents, surface : Surfaces, generation : Generation]

NoLease == 0    \* ExpiresAt.IsZero(): the registration is not leased

Entry == [state : {"active", "blocked"}, generation : Generation,
          planned : SUBSET Surfaces, expires : Nat]

\* bindPlanGeneration: the routes of a plan, suffixed with its generation.
PlanRoutes(a, entry) ==
  {[agent |-> a, surface |-> x, generation |-> entry.generation] :
     x \in entry.planned}

\* The routes an entry protects: none unless it is active.
RoutesOf(table, a) ==
  IF a \in DOMAIN table /\ table[a].state = "active"
  THEN PlanRoutes(a, table[a])
  ELSE {}

ActiveRoutes == UNION {RoutesOf(entries, a) : a \in Agents}

-----------------------------------------------------------------------------
(* The revocation queue *)

\* queueEntryRevocationLocked, for all the entries one method invalidates: it
\* adds their routes or, when the bounded queue cannot take them, empties it
\* and asks for every session to be revoked.
Overflows(queue, routes) == Cardinality(queue \cup routes) > MaxPending

QueuedPending(routes) ==
  CASE revokeAll                                  -> pending
    [] ~revokeAll /\ Overflows(pending, routes)   -> {}
    [] ~revokeAll /\ ~Overflows(pending, routes)  -> pending \cup routes

\* Faulty variant: an overflow drops what the queue held.
QueueRevocationDropping(routes) ==
  pending' = QueuedPending(routes) /\ UNCHANGED revokeAll

QueueRevocation(routes) ==
  /\ pending' = QueuedPending(routes)
  /\ revokeAll' = (revokeAll \/ Overflows(pending, routes))

-----------------------------------------------------------------------------
(* Leases *)

Lapsed(entry) ==
  entry.state = "active" /\ entry.expires # NoLease /\ entry.expires <= now

LapsedAgents == {a \in DOMAIN entries : Lapsed(entries[a])}

\* expireLocked: a lapsed entry is blocked in a new generation, without a plan.
NextGeneration(g) == IF g = MaxGeneration THEN g ELSE g + 1

ExpiredEntries ==
  [a \in DOMAIN entries |->
     IF a \in LapsedAgents
     THEN [state      |-> "blocked",
           generation |-> NextGeneration(entries[a].generation),
           planned    |-> {},
           expires    |-> NoLease]
     ELSE entries[a]]

ExpiredGenerations ==
  [a \in DOMAIN generations \cup LapsedAgents |->
     IF a \in LapsedAgents
     THEN NextGeneration(entries[a].generation)
     ELSE generations[a]]

LapsedRoutes == UNION {RoutesOf(entries, a) : a \in LapsedAgents}

\* expireLocked alone, as Get and List run it.
Expire ==
  /\ entries' = ExpiredEntries
  /\ generations' = ExpiredGenerations
  /\ QueueRevocation(LapsedRoutes)
  /\ UNCHANGED <<now, exposed, told>>

Get == Expire
List == Expire

-----------------------------------------------------------------------------
(* Replacing an entry *)

\* The last generation of a: the tracked one or, were it higher, the entry's.
Tracked(a) == IF a \in DOMAIN generations THEN ExpiredGenerations[a] ELSE 0
Current(a) == IF a \in DOMAIN entries THEN ExpiredEntries[a].generation ELSE 0
LastGeneration(a) == IF Current(a) > Tracked(a) THEN Current(a) ELSE Tracked(a)

\* Faulty variant: no limit on tracked identities.
HasRoomForEntry(a) ==
  /\ a \in DOMAIN entries \/ Cardinality(DOMAIN entries) < MaxEntries
  /\ LastGeneration(a) # MaxGeneration

\* The capacity and exhaustion checks of reconcile and Block.
HasRoom(a) ==
  /\ a \in DOMAIN entries \/ Cardinality(DOMAIN entries) < MaxEntries
  /\ a \in DOMAIN generations \/ Cardinality(DOMAIN generations) < MaxEntries
  /\ LastGeneration(a) # MaxGeneration

\* Install entry as the next generation of a, queueing what it replaces.
Replace(a, state, planned, expires) ==
  LET generation == LastGeneration(a) + 1
      entry == [state |-> state, generation |-> generation,
                planned |-> planned, expires |-> expires]
      replaced == LapsedRoutes \cup RoutesOf(ExpiredEntries, a)
      table == [b \in DOMAIN entries \cup {a} |->
                  IF b = a THEN entry ELSE ExpiredEntries[b]]
  IN  /\ entries' = table
      /\ generations' = [b \in DOMAIN ExpiredGenerations \cup {a} |->
                           IF b = a THEN generation ELSE ExpiredGenerations[b]]
      /\ QueueRevocation(replaced)
      /\ exposed' = exposed \cup RoutesOf(table, a)
      /\ UNCHANGED <<now, told>>

\* reconcile with no room left: an error, after expireLocked.
Refused(a) == ~HasRoom(a) /\ Expire

\* Reconcile (ttl = 0) and ReconcileLeased (ttl > 0) of a manifest.
Reconcile(a, outcome, planned, ttl) ==
  \/ /\ HasRoom(a)
     /\ \/ /\ outcome = "invalid"
           /\ Replace(a, "blocked", {}, NoLease)
        \/ /\ outcome = "gap"
           /\ Replace(a, "blocked", planned, NoLease)
        \/ /\ outcome = "protected"
           /\ Replace(a, "active", planned,
                      IF ttl > 0 THEN now + ttl ELSE NoLease)
  \/ Refused(a)

\* Block: the snapshot monitor found the agent's configuration unusable.
Block(a) ==
  \/ HasRoom(a) /\ Replace(a, "blocked", {}, NoLease)
  \/ Refused(a)

\* Heartbeat renews an active lease of the generation it names.
Renewable(a, generation) ==
  /\ a \in DOMAIN ExpiredEntries
  /\ ExpiredEntries[a].state = "active"
  /\ ExpiredEntries[a].expires # NoLease
  /\ ExpiredEntries[a].generation = generation

\* Faulty variant: a lease is renewed before lapsed ones are swept.
HeartbeatUnswept(a, generation, ttl) ==
  /\ a \in DOMAIN entries
  /\ entries[a].state = "active"
  /\ entries[a].expires # NoLease
  /\ entries[a].generation = generation
  /\ entries' = [entries EXCEPT ![a].expires = now + ttl]
  /\ UNCHANGED <<now, generations, pending, revokeAll, exposed, told>>

Heartbeat(a, generation, ttl) ==
  /\ entries' = IF Renewable(a, generation)
                THEN [ExpiredEntries EXCEPT ![a].expires = now + ttl]
                ELSE ExpiredEntries
  /\ generations' = ExpiredGenerations
  /\ QueueRevocation(LapsedRoutes)
  /\ UNCHANGED <<now, exposed, told>>

\* Faulty variant: a removal forgets the generation it ended.
DiscardForgetting(a) ==
  /\ entries' = Restrict(entries, DOMAIN entries \ {a})
  /\ generations' = Restrict(generations, DOMAIN generations \ {a})
  /\ QueueRevocation(RoutesOf(entries, a))
  /\ UNCHANGED <<now, exposed, told>>

\* Remove and RemoveGeneration do not expire first.
Discard(a) ==
  /\ entries' = Restrict(entries, DOMAIN entries \ {a})
  /\ QueueRevocation(RoutesOf(entries, a))
  /\ UNCHANGED <<now, generations, exposed, told>>

Remove(a) == Discard(a)

RemoveGeneration(a, generation) ==
  /\ a \in DOMAIN entries
  /\ entries[a].generation = generation
  /\ Discard(a)

-----------------------------------------------------------------------------
(* Draining *)

\* What DrainRouteRevocations returns: all of them when revokeAll is set.
DrainedRoutes == IF revokeAll THEN exposed ELSE pending

\* A drain settles a route only once the route is withdrawn.
DrainRouteRevocations ==
  /\ told' = told \cup (DrainedRoutes \ ActiveRoutes)
  /\ pending' = {}
  /\ revokeAll' = FALSE
  /\ UNCHANGED <<now, entries, generations, exposed>>

-----------------------------------------------------------------------------

Tick ==
  /\ now < MaxTime
  /\ now' = now + 1
  /\ UNCHANGED <<entries, generations, pending, revokeAll, exposed, told>>

\* No lease ends at 0, which stands for the zero time: its ttl is positive.
Init ==
  /\ now = 0
  /\ entries = [a \in {} |-> a]
  /\ generations = [a \in {} |-> a]
  /\ pending = {}
  /\ revokeAll = FALSE
  /\ exposed = {}
  /\ told = {}

Next ==
  \/ \E a \in Agents, outcome \in {"invalid", "gap", "protected"},
        planned \in SUBSET Surfaces, ttl \in 0 .. MaxLease :
       Reconcile(a, outcome, planned, ttl)
  \/ \E a \in Agents : Block(a)
  \/ \E a \in Agents, generation \in Generation, ttl \in 1 .. MaxLease :
       Heartbeat(a, generation, ttl)
  \/ \E a \in Agents : Remove(a)
  \/ \E a \in Agents, generation \in Generation : RemoveGeneration(a, generation)
  \/ Get
  \/ List
  \/ DrainRouteRevocations
  \/ Tick

Spec == Init /\ [][Next]_vars

-----------------------------------------------------------------------------
(* Properties *)

\* The registry's maps hold what their Go types say.
TypeOK ==
  /\ now \in Nat
  /\ DOMAIN entries \subseteq Agents
  /\ entries \in [DOMAIN entries -> Entry]
  /\ DOMAIN generations \subseteq Agents
  /\ generations \in [DOMAIN generations -> Generation]
  /\ pending \subseteq Route
  /\ revokeAll \in BOOLEAN
  /\ exposed \subseteq Route
  /\ told \subseteq Route

\* Fail closed: a route that was ever active and is not active any more is in
\* the queue, or has been handed to a caller to revoke, or the registry asks
\* for everything to be revoked.  No expiry, replacement, block, removal or
\* queue overflow loses one.
NoRevocationLost ==
  revokeAll \/ exposed \subseteq ActiveRoutes \cup pending \cup told

\* The queue never names a route that is protected now: draining it cannot
\* cut the sessions of the registration that replaced the revoked one.
QueueSparesActiveRoutes == pending \cap ActiveRoutes = {}

\* A route identifier names one generation of one agent for good: once it has
\* been withdrawn no later registration can bring it back, even after the
\* agent was removed or the generation counter ran out.
WithdrawnRoutesStayWithdrawn ==
  [][\A r \in exposed : r \in ActiveRoutes' => r \in ActiveRoutes]_vars

\* An agent the registry already tracks can always be registered again while
\* it has generations left, however many other agents came and went: removed
\* entries never take the room of a tracked one.
TrackedAgentsCanReregister ==
  \A a \in DOMAIN generations : LastGeneration(a) # MaxGeneration => HasRoom(a)

\* A lease that ran out cannot be renewed: from then on its generation can
\* only be lapsed, blocked or gone.
LapsedLeaseStaysLapsed ==
  [][\A a \in LapsedAgents :
       a \in DOMAIN entries' /\ entries'[a].state = "active" =>
         \/ entries'[a] = entries[a]
         \/ entries'[a].generation # entries[a].generation]_vars

\* The inductive invariant: an entry is in the generation tracked for its
\* agent, no route was ever exposed in a later one, and a route some caller
\* was told to revoke is neither protected nor queued again.
GenerationsTracked ==
  \A a \in DOMAIN entries :
    /\ a \in DOMAIN generations
    /\ entries[a].generation = generations[a]

ExposureTracked ==
  \A r \in exposed : /\ r.agent \in DOMAIN generations
                     /\ r.generation <= generations[r.agent]

ToldRoutesAreSettled == told \subseteq exposed \ (ActiveRoutes \cup pending)

IInv ==
  /\ TypeOK
  /\ GenerationsTracked
  /\ ExposureTracked
  /\ ActiveRoutes \subseteq exposed
  /\ pending \subseteq exposed
  /\ QueueSparesActiveRoutes
  /\ NoRevocationLost
  /\ ToldRoutesAreSettled

=============================================================================
