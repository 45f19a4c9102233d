------------------------------ MODULE CoreCalls ------------------------------
(***************************************************************************)
(* The core as its clients see it: the management calls with which a         *)
(* launcher (cmd/veil) or an embedding program (sdk/native, sdk/attach)      *)
(* leases one integration, opens and revokes sessions on its routes, keeps   *)
(* the lease alive and gives it back.                                        *)
(*                                                                         *)
(* A call takes effect at one instant, as CoreRevocation shows it does for   *)
(* whoever has the answer.  What the client gets is another matter: the core *)
(* may refuse, the call may fail before it is served, or its answer may be   *)
(* lost after it was.                                                        *)
(***************************************************************************)
EXTENDS Naturals, FiniteSets, FiniteSetsExt

CONSTANTS
  Clients,        \* who calls; all of them for the same agent
  MaxGeneration,  \* bound on the registrations of a behaviour
  MaxSessions,    \* bound on the sessions one client opens
  MaxFailures     \* bound on the calls that fail although the core accepts them

ASSUME CallsAssumption ==
  MaxGeneration \in Nat /\ MaxSessions \in Nat \ {0} /\ MaxFailures \in Nat

VARIABLES
  up,          \* the core the clients found is running
  last,        \* the last generation it issued for the agent
  registered,  \* the generation in force, or 0
  fresh,       \* the lease has been renewed since its time was last looked at
  open,        \* sessions on the routes of that generation whose time is not over
  expired,     \* those whose time is
  failures     \* failed calls of each client

coreVars == <<up, last, registered, fresh, open, expired, failures>>

SessionIds == Clients \X (1..MaxSessions)
Nobody == 0
NoSession == 0

\* How a call ends when the core accepts it, and when it does not.  An answer the
\* client does not understand (its version, its size, its JSON) is as good as lost.
Outcomes == {"done", "failed", "lost", "refused"}
TookEffect(o) == o \in {"done", "lost"}

Ends(c, accepted, o) ==
  /\ o = "refused" <=> ~(up /\ accepted)
  /\ o \in {"failed", "lost"} => MapThenSumSet(LAMBDA d : failures[d], Clients) < MaxFailures
  /\ failures' = IF o \in {"failed", "lost"} THEN [failures EXCEPT ![c] = @ + 1] ELSE failures

\* POST /v1/agents/leases: the next generation replaces the one in force, whose
\* sessions are revoked.
CallRegister(c, o) ==
  /\ last < MaxGeneration
  /\ Ends(c, TRUE, o)
  /\ IF TookEffect(o)
       THEN last' = last + 1 /\ registered' = last' /\ fresh' = TRUE /\ open' = {} /\ expired' = {}
       ELSE UNCHANGED <<last, registered, fresh, open, expired>>
  /\ UNCHANGED up

\* POST /v1/sessions, or .../children for a nested one: the routes it names are
\* those of a generation in force, and a parent's capability is still good.  The
\* client deletes a session that is not the one it asked for: to it the call failed,
\* or was lost when the deletion fails too.
CallCreateSession(c, accepted, k, o) ==
  /\ Ends(c, accepted, o)
  /\ open' = IF TookEffect(o) THEN open \cup {<<c, k>>} ELSE open
  /\ UNCHANGED <<up, last, registered, fresh, expired>>

\* DELETE /v1/sessions/{id}: an unknown session is an error, and so is one whose
\* time is over once the core has swept it; the sessions nested in it go with it.
CallDeleteSession(c, k, inner, o) ==
  /\ \E known \in BOOLEAN :
       /\ <<c, k>> \in open => known
       /\ known => <<c, k>> \in open \cup expired
       /\ Ends(c, known, o)
  /\ open' = IF TookEffect(o) THEN open \ {<<c, i>> : i \in {k} \cup inner} ELSE open
  /\ UNCHANGED <<up, last, registered, fresh, expired>>

\* POST /v1/agents/{id}/heartbeat renews the generation it names and no other.
CallHeartbeat(c, generation, o) ==
  /\ Ends(c, registered = generation, o)
  /\ fresh' = (TookEffect(o) \/ fresh)
  /\ UNCHANGED <<up, last, registered, open, expired>>

\* Faulty variant: whatever is in force is removed.
CallRemoveAny(c, generation, o) ==
  /\ Ends(c, registered # Nobody, o)
  /\ IF TookEffect(o)
       THEN registered' = Nobody /\ open' = {} /\ expired' = {}
       ELSE UNCHANGED <<registered, open, expired>>
  /\ UNCHANGED <<up, last, fresh>>

\* DELETE /v1/agents/{id}?generation=: a newer generation is spared.
CallRemove(c, generation, o) ==
  /\ Ends(c, registered = generation, o)
  /\ IF TookEffect(o)
       THEN registered' = Nobody /\ open' = {} /\ expired' = {}
       ELSE UNCHANGED <<registered, open, expired>>
  /\ UNCHANGED <<up, last, fresh>>

\* The client does not get round to calling.
NoCall == UNCHANGED coreVars

\* The lease's time passes: half of it, and the other half.
TimePasses ==
  /\ registered # Nobody /\ fresh
  /\ fresh' = FALSE
  /\ UNCHANGED <<up, last, registered, open, expired, failures>>

\* The core's ticker finds the lease over.
LeaseLapses ==
  /\ registered # Nobody /\ ~fresh
  /\ registered' = Nobody /\ open' = {} /\ expired' = {}
  /\ UNCHANGED <<up, last, fresh, failures>>

\* A client's sessions have reached the end of their time to live: from then on
\* they authorize nothing, swept or not.
SessionsExpire(c, ks) ==
  /\ open' = open \ {<<c, k>> : k \in ks}
  /\ expired' = expired \cup {<<c, k>> : k \in ks}
  /\ UNCHANGED <<up, last, registered, fresh, failures>>

\* The core stops.  The next one listens on a port of its own.
CoreStops ==
  /\ up
  /\ up' = FALSE /\ registered' = Nobody /\ open' = {} /\ expired' = {}
  /\ UNCHANGED <<last, fresh, failures>>

CoreInit ==
  /\ up = TRUE /\ last = 0 /\ registered = Nobody /\ fresh = FALSE /\ open = {} /\ expired = {}
  /\ failures = [c \in Clients |-> 0]

CoreType ==
  /\ up \in BOOLEAN /\ fresh \in BOOLEAN
  /\ last \in 0..MaxGeneration /\ registered \in 0..last
  /\ open \subseteq SessionIds /\ expired \subseteq SessionIds
  /\ failures \in [Clients -> 0..MaxFailures]

CoreNext == TimePasses \/ LeaseLapses \/ CoreStops
=============================================================================
