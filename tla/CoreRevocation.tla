--------------------------- MODULE CoreRevocation ---------------------------
(***************************************************************************)
(* The core server of internal/core between its two tables: the registry   *)
(* of integrations and the session manager.                                *)
(*                                                                         *)
(* A registration that ends withdraws its routes from the registry, and    *)
(* every session that may use them has to go too, with the requests it has *)
(* in flight.  Nothing holds both locks: whoever changed or read the       *)
(* registry drains its queue of withdrawn routes, unlocks, and only then   *)
(* deletes their sessions.  A handler is therefore a program of small      *)
(* steps, one per locked call, interleaved with those of every other       *)
(* handler, of the background cleanup and of the managed-integration       *)
(* monitor.                                                                *)
(***************************************************************************)
EXTENDS Registry, Sequences

CONSTANTS
  SessionIds, NoParent, MaxSessions, MaxTTL, MaxLockWait,   \* of SessionManager
  Endpoint,       \* s.Endpoint()
  Workers,        \* goroutines serving HTTP requests
  Cleanup,        \* the goroutine of the cleanup ticker
  Managed,        \* agents followed by a registry.Monitor
  MaxRouteIDs,    \* session.DefaultMaxRoutes
  MaxConcurrent,  \* cap(s.proxySlots)
  Kinds           \* bound: the requests clients send

ASSUME ThreadAssumption == Cleanup \notin Workers
ASSUME ManagedAssumption == Managed \subseteq Agents
ASSUME CoreLimitsAssumption == /\ MaxConcurrent \in Nat \ {0}
                               /\ MaxRouteIDs \in Nat \ {0}

VARIABLES
  sessions, issued, cancelled,  \* s.manager
  thread                        \* what each goroutine is doing

Ses == INSTANCE SessionManager WITH Routes <- Route, Endpoints <- {Endpoint}

registryVars == <<entries, generations, pending, revokeAll, exposed, told>>
managerVars == <<sessions, issued, cancelled>>
coreVars == <<now, registryVars, managerVars, thread>>

Threads == Workers \cup {Cleanup}

-----------------------------------------------------------------------------
(* Programs *)

\* The locked calls a handler is made of, and what surrounds them.
Steps == {"list", "get", "reconcile", "heartbeat", "remove", "drain",
          "revoke", "create", "authorize", "prune", "slot", "serve"}

\* A goroutine runs the steps of its todo for its job.
Idle == [job |-> [kind |-> "idle"], todo |-> <<>>]

Step(t, step) ==
  thread[t].todo # <<>> /\ Head(thread[t].todo) = step

\* Faulty variant: the sessions are deleted before the queue is drained.
ApplySwapped == <<"revoke", "drain">>

\* applyRegistryRevocations, registryEntries, registryEntry.
Apply == <<"drain", "revoke">>
RegistryEntries == <<"list">> \o Apply
RegistryEntry == <<"get">> \o Apply

\* Faulty variants: the ticker forgets the registry, does not sweep lapsed
\* leases, does not prune expired sessions.
CleanupRoundBlind == <<"prune">>
CleanupRoundUnswept == Apply \o <<"prune">>
CleanupRoundUnpruned == RegistryEntries

\* A round of the cleanup ticker.
CleanupRound == RegistryEntries \o <<"prune">>

\* Faulty variant: a session is trusted without a look at the registry.
ProxyRequestTrusting == <<"slot", "authorize", "serve">>

\* proxyHandler: the route must be registered, then a slot, then the session.
ProxyRequest == RegistryEntries \o <<"slot", "authorize", "serve">>

\* The locked calls of each handler, in order.
Program(job) ==
  CASE job.kind = "listAgents"         -> RegistryEntries
    [] job.kind = "getAgent"           -> RegistryEntry
    [] job.kind = "registerAgent"      -> <<"reconcile">> \o Apply
    [] job.kind = "heartbeatAgent"     -> <<"heartbeat">> \o Apply
    [] job.kind = "deleteAgent"        -> RegistryEntry \o <<"remove">> \o Apply
    [] job.kind = "createSession"      -> RegistryEntries \o <<"create">>
    [] job.kind = "createChildSession" ->
         <<"authorize">> \o RegistryEntries \o <<"create">>
    [] job.kind = "proxy"              -> ProxyRequest
    [] job.kind = "cleanup"            -> CleanupRound

\* The requests a client can send: capabilities name issued sessions and
\* routes that existed.
Requests ==
  {job \in
     [kind : {"listAgents"}]
     \cup [kind : {"getAgent"}, agent : Agents, generation : {0}]
     \cup [kind : {"registerAgent"}, agent : Agents]
     \cup [kind : {"heartbeatAgent"}, agent : Agents,
           generation : Generation]
     \cup [kind : {"deleteAgent"}, agent : Agents,
           generation : Generation \cup {0}]
     \cup [kind : {"createSession"},
           routes : UNION {[1 .. n -> exposed] : n \in 1 .. MaxRouteIDs}]
     \cup [kind : {"createChildSession", "proxy"}, session : issued,
           routes : [1 .. 1 -> exposed]] :
     job.kind \in Kinds}

\* found: what was looked up so far was there.  left: routes still to look up.
\* haul: what the last drain returned.  deadline: of the request's context.
NoHaul == [all |-> FALSE, routes |-> {}]

Begin(job) ==
  [job      |-> job,
   todo     |-> Program(job),
   left     |-> IF "routes" \in DOMAIN job THEN job.routes ELSE <<>>,
   found    |-> TRUE,
   haul     |-> NoHaul,
   deadline |-> 0]

Accept(t) ==
  /\ thread[t] = Idle
  /\ \E job \in IF t = Cleanup THEN {[kind |-> "cleanup"]} ELSE Requests :
       thread' = [thread EXCEPT ![t] = Begin(job)]
  /\ UNCHANGED <<now, registryVars, managerVars>>

\* Go on with todo, or return from the handler when there is none.
Proceed(t, next, todo) ==
  thread' = [thread EXCEPT
               ![t] = IF todo = <<>> THEN Idle ELSE [next EXCEPT !.todo = todo]]

Rest(t) == Tail(thread[t].todo)

-----------------------------------------------------------------------------
(* Steps on the registry *)

OnRegistry == UNCHANGED managerVars

\* registry.List; the handler looks for its next route in the snapshot.
ListEntries(t) ==
  /\ Step(t, "list")
  /\ List
  /\ LET left == thread[t].left
     IN  Proceed(t,
           IF left = <<>> THEN thread[t]
           ELSE [thread[t] EXCEPT
                   !.left = Tail(left),
                   !.found = @ /\ Head(left) \in ActiveRoutes'],
           Rest(t))
  /\ OnRegistry

\* registry.Get; deleteAgent compares the generation it was given.
GetEntry(t) ==
  /\ Step(t, "get")
  /\ Get
  /\ LET job == thread[t].job
     IN  Proceed(t,
           [thread[t] EXCEPT
              !.found = \/ job.generation = 0
                        \/ /\ job.agent \in DOMAIN entries'
                           /\ entries'[job.agent].generation = job.generation],
           Rest(t))
  /\ OnRegistry

\* A request that does not decode leaves the registry alone; the deferred
\* applyRegistryRevocations runs all the same.
Undecodable == UNCHANGED <<now, registryVars>>

RegisterAgent(t) ==
  /\ Step(t, "reconcile")
  /\ \/ \E outcome \in {"invalid", "gap", "protected"},
           planned \in SUBSET Surfaces, ttl \in 0 .. MaxLease :
          Reconcile(thread[t].job.agent, outcome, planned, ttl)
     \/ Undecodable
  /\ Proceed(t, thread[t], Rest(t))
  /\ OnRegistry

HeartbeatAgent(t) ==
  /\ Step(t, "heartbeat")
  /\ \/ \E ttl \in 1 .. MaxLease :
          Heartbeat(thread[t].job.agent, thread[t].job.generation, ttl)
     \/ Undecodable
  /\ Proceed(t, thread[t], Rest(t))
  /\ OnRegistry

Holds(agent, generation) ==
  generation # 0 =>
    /\ agent \in DOMAIN entries
    /\ entries[agent].generation = generation

\* What deleteAgent removes: the entry, or only the generation it names, if
\* the registry still holds it.
RemoveEntry(agent, generation) ==
  \/ generation = 0 /\ Remove(agent)
  \/ generation # 0 /\ RemoveGeneration(agent, generation)
  \/ ~Holds(agent, generation) /\ UNCHANGED <<now, registryVars>>

\* The rest of deleteAgent: STALE_INTEGRATION_GENERATION changes nothing.
RemoveAgent(t) ==
  /\ Step(t, "remove")
  /\ LET job == thread[t].job
     IN  /\ \/ thread[t].found /\ RemoveEntry(job.agent, job.generation)
            \/ ~thread[t].found /\ UNCHANGED <<now, registryVars>>
         /\ Proceed(t,
              [thread[t] EXCEPT !.found = @ /\ Holds(job.agent, job.generation)],
              Rest(t))
  /\ OnRegistry

\* registry.DrainRouteRevocations: from here on only this goroutine knows.
\* (Told to revoke all, it holds the withdrawn routes nobody drained before.)
Drain(t) ==
  /\ Step(t, "drain")
  /\ DrainRouteRevocations
  /\ Proceed(t,
       [thread[t] EXCEPT
          !.haul = [all    |-> revokeAll,
                    routes |-> IF revokeAll THEN told' \ told ELSE pending]],
       Rest(t))
  /\ OnRegistry

\* The monitor applies a changed or unreadable snapshot; it drains nothing.
MonitorCheck ==
  /\ \E agent \in Managed :
       \/ Block(agent)
       \/ \E outcome \in {"invalid", "gap", "protected"},
             planned \in SUBSET Surfaces :
            Reconcile(agent, outcome, planned, 0)
  /\ UNCHANGED <<managerVars, thread>>

-----------------------------------------------------------------------------
(* Steps on the session manager *)

OnManager == UNCHANGED registryVars

\* Delete the sessions of the drained routes.  A handler whose route was not
\* found in the snapshot returns here (deleteAgent still has its deferred
\* call); createSession goes on to its next route.
DeleteHaul(haul) ==
  IF haul.all THEN Ses!DeleteAll ELSE Ses!DeleteRoutes(haul.routes)

Revoke(t) ==
  /\ Step(t, "revoke")
  /\ DeleteHaul(thread[t].haul)
  /\ Proceed(t, [thread[t] EXCEPT !.haul = NoHaul],
       CASE ~thread[t].found /\ thread[t].job.kind # "deleteAgent" -> <<>>
         [] thread[t].found /\ thread[t].left # <<>> -> Program(thread[t].job)
         [] OTHER -> Rest(t))
  /\ OnManager

\* createSession and createChildSession: the routes were found, some time ago.
\* createChildSession decodes its body only now.
Parents(job) ==
  IF job.kind = "createChildSession"
  THEN {job.session}
  ELSE issued \cup {NoParent}

Create(t) ==
  /\ Step(t, "create")
  /\ \E at \in Ses!ClockReads :
       \/ \E id \in SessionIds, parent \in Parents(thread[t].job),
             ttl \in 1 .. MaxTTL, clamp \in BOOLEAN :
            /\ clamp => thread[t].job.kind = "createChildSession"
            /\ Ses!Create(id, parent, Endpoint, Range(thread[t].job.routes),
                          at, ttl, FALSE, clamp)
       \/ Ses!CreateRefused(at)
       \/ /\ thread[t].job.kind = "createChildSession"
          /\ UNCHANGED <<now, managerVars>>
  /\ Proceed(t, thread[t], Rest(t))
  /\ OnManager

\* AuthorizeRoute.  The proxy refuses at once, and otherwise serves under the
\* session's context and deadline; createChildSession reads the registry first.
Authorize(t) ==
  /\ Step(t, "authorize")
  /\ LET session == thread[t].job.session
         proxied == thread[t].job.kind = "proxy"
         granted == Ses!Authorizes(session, thread[t].job.routes[1])
     IN  /\ Ses!AuthorizeRoute(session)
         /\ Proceed(t,
              [thread[t] EXCEPT
                 !.found = granted,
                 !.deadline = IF granted /\ proxied
                              THEN sessions[session].expires ELSE 0],
              IF granted \/ ~proxied THEN Rest(t) ELSE <<>>)
  /\ OnManager

Prune(t) ==
  /\ Step(t, "prune")
  /\ Ses!PruneExpired
  /\ Proceed(t, thread[t], Rest(t))
  /\ OnManager

\* The handlers of one locked call on the manager.
ManageSessions ==
  /\ \/ \E s \in issued : Ses!Delete(s)
     \/ \E s \in issued, route \in exposed : Ses!DeleteChildAuthorized(s, route)
     \/ Ses!List
  /\ UNCHANGED thread
  /\ OnManager

-----------------------------------------------------------------------------
(* Steps of a proxied request *)

HoldsSlot(t) ==
  /\ thread[t].job.kind = "proxy"
  /\ Step(t, "authorize") \/ Step(t, "serve")

\* Take a slot without waiting, or answer CONCURRENCY_LIMIT.
TakeSlot(t) ==
  /\ Step(t, "slot")
  /\ Proceed(t, thread[t],
       IF Cardinality({u \in Threads : HoldsSlot(u)}) < MaxConcurrent
       THEN Rest(t) ELSE <<>>)
  /\ UNCHANGED <<now, registryVars, managerVars>>

\* The response is complete, or the request's context ended it.
Respond(t) ==
  /\ Step(t, "serve")
  /\ Proceed(t, thread[t], Rest(t))
  /\ UNCHANGED <<now, registryVars, managerVars>>

-----------------------------------------------------------------------------

TimePasses ==
  /\ Tick
  /\ UNCHANGED <<managerVars, thread>>

CoreInit ==
  /\ Init
  /\ Ses!Init
  /\ thread = [t \in Threads |-> Idle]

\* Steps that only wait for a lock; a response may take arbitrarily long.
Run(t) ==
  \/ ListEntries(t)
  \/ GetEntry(t)
  \/ RegisterAgent(t)
  \/ HeartbeatAgent(t)
  \/ RemoveAgent(t)
  \/ Drain(t)
  \/ Revoke(t)
  \/ Create(t)
  \/ Authorize(t)
  \/ Prune(t)
  \/ TakeSlot(t)

CoreNext ==
  \/ \E t \in Threads : Accept(t)
  \/ \E t \in Threads : Run(t)
  \/ \E t \in Threads : Respond(t)
  \/ MonitorCheck
  \/ ManageSessions
  \/ TimePasses

CoreSpec == CoreInit /\ [][CoreNext]_coreVars

\* Goroutines keep running and Go's mutexes are starvation free; the ticker
\* keeps firing.  No client, provider or clock is assumed to make progress.
Fairness ==
  /\ \A t \in Threads : WF_coreVars(Run(t))
  /\ WF_coreVars(Accept(Cleanup))

CoreFairSpec == CoreSpec /\ Fairness

-----------------------------------------------------------------------------
(* Properties *)

\* A request is in flight on a route until its context ends: its session was
\* cancelled, or its deadline (the session's expiry) passed.
InFlight(t, route) ==
  /\ Step(t, "serve")
  /\ thread[t].job.routes = <<route>>
  /\ thread[t].job.session \notin cancelled
  /\ now < thread[t].deadline

\* The core's tables hold what their Go types say, and a goroutine that is not
\* idle has a job, what is left of its program, and the fields of Begin.
Job == Requests \cup {[kind |-> "cleanup"]}

Task ==
  [job      : Job,
   todo     : Seq(Steps),
   left     : Seq(Route),
   found    : BOOLEAN,
   haul     : [all : BOOLEAN, routes : SUBSET Route],
   deadline : Int]

CoreTypeOK ==
  /\ TypeOK
  /\ Ses!TypeOK
  /\ thread \in [Threads -> Task \cup {Idle}]

\* Whatever is in flight is covered by a live session that still authorizes
\* it: no path forgets to cancel, whichever handler removed the session.
TrafficIsAuthorized ==
  \A t \in Threads, route \in exposed :
    InFlight(t, route) => Ses!Authorizes(thread[t].job.session, route)

\* A goroutine that drained the route has not deleted its sessions yet.
BeingRevoked(route) ==
  \E t \in Threads : thread[t] # Idle /\ route \in thread[t].haul.routes

\* Traffic on a route means that the route is protected, or that its
\* revocation is still queued or in some goroutine's hands.  Once it has been
\* settled nothing is in flight on it, even though a session created late may
\* name it.
SettledRoutesCarryNoTraffic ==
  \A t \in Threads, route \in exposed :
    InFlight(t, route) =>
      \/ route \in ActiveRoutes
      \/ revokeAll \/ route \in pending \/ BeingRevoked(route)

\* The life of a route, as RouteCapability sees it.
Phase(route) ==
  CASE route \notin exposed             -> "unborn"
    [] route \in ActiveRoutes       -> "open"
    [] /\ route \in exposed \ ActiveRoutes
       /\ route \in told /\ ~BeingRevoked(route)
                                        -> "closed"
    [] OTHER                            -> "closing"

Capability ==
  INSTANCE RouteCapability
    WITH Routes  <- Route,
         phase   <- [route \in Route |-> Phase(route)],
         traffic <- {p \in Threads \X Route : InFlight(p[1], p[2])}

\* The core implements route capabilities: a route never goes back a phase,
\* requests start only on a route that is not closed, and closing it ends what
\* is in flight.
ImplementsRouteCapability == Capability!Init /\ [][Capability!Next]_Capability!vars

\* And, left to itself, it closes every route that is closing.
ClosesRoutes == Capability!Closing

\* A route whose registration ended, or whose lease ran out, stops carrying
\* traffic for good, with no help from any client.
Protected(route) ==
  route \in ActiveRoutes /\ route.agent \notin LapsedAgents

WithdrawnTrafficStops ==
  \A route \in Route :
    (route \in exposed /\ ~Protected(route)) ~>
      [](\A t \in Threads : ~InFlight(t, route))

\* The background cleanup revokes an idle session that expired.
ExpiredSessionsAreRevoked ==
  \A s \in SessionIds : Ses!Expired(s) ~> s \in cancelled

\* The test of deleteAgent: by the time the removal is acknowledged, requests
\* in flight on the removed generation have been cancelled.
RemovalCancelsBeforeReply ==
  [][\A t \in Threads :
       /\ thread[t] # Idle /\ thread'[t] = Idle
       /\ thread[t].job.kind = "deleteAgent"
       /\ thread[t].found
       /\ thread[t].job.generation # 0
       => \A u \in Threads, route \in exposed :
            /\ route.agent = thread[t].job.agent
            /\ route.generation = thread[t].job.generation
            => ~InFlight(u, route)']_coreVars

-----------------------------------------------------------------------------
(* The inductive invariant *)

Busy == {t \in Threads : thread[t] # Idle}

\* What a goroutine has left to do is a suffix of its program.
IsRestOf(todo, program) ==
  \E k \in 1 .. Len(program) : todo = SubSeq(program, k, Len(program))

\* A drained route is on its way to the session manager, in the hands of a
\* goroutine about to revoke it.
HaulInHand(t) ==
  /\ thread[t].haul.routes \subseteq told
  /\ thread[t].haul # NoHaul => Step(t, "revoke")

\* Whoever follows the route may rely on it: it is protected, or somebody has
\* still to revoke it.
Cleared(route) ==
  route \in ActiveRoutes \/ route \notin told \/ BeingRevoked(route)

\* A proxied request names one route; past the registry it goes on only if the
\* route was found, and then any live session with that route is to be trusted.
ProxyLookup(t) ==
  LET session == thread[t].job.session
      route == thread[t].job.routes[1]
  IN  /\ thread[t].left = IF Step(t, "list") THEN thread[t].job.routes ELSE <<>>
      /\ (Step(t, "slot") \/ Step(t, "authorize") \/ Step(t, "serve")) =>
           thread[t].found
      /\ (/\ ~Step(t, "list") /\ thread[t].found
          /\ session \in Ses!Live
          /\ route \in sessions[session].routes) =>
           Cleared(route)

\* A request is served under the session it was authorized for, while it lives.
ServesUnderSession(t) ==
  LET session == thread[t].job.session
  IN  \/ session \in cancelled
      \/ /\ session \in Ses!Live
         /\ thread[t].job.routes[1] \in sessions[session].routes
         /\ thread[t].deadline = sessions[session].expires

OnTrack(t) ==
  /\ IsRestOf(thread[t].todo, Program(thread[t].job))
  /\ HaulInHand(t)
  /\ thread[t].job.kind = "proxy" => ProxyLookup(t)
  /\ Step(t, "serve") => ServesUnderSession(t)

CoreIInv ==
  /\ CoreTypeOK
  /\ IInv
  /\ Ses!RevocationIsComplete
  /\ \A t \in Busy : OnTrack(t)

=============================================================================
