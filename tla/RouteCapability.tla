--------------------------- MODULE RouteCapability ---------------------------
(***************************************************************************)
(* What the core promises about the routes it protects, without a word on  *)
(* registries, queues, sessions or handlers: a route is opened by a        *)
(* registration, starts closing when the registration ends, and is closed  *)
(* a while later.  Requests start on it until it is closed; from then on   *)
(* nothing is in flight on it, ever.  CoreRevocation implements this.      *)
(***************************************************************************)
CONSTANTS Routes, Threads

VARIABLES
  phase,   \* of each route
  traffic  \* requests in flight: pairs of a thread and a route

vars == <<phase, traffic>>

Phases == {"unborn", "open", "closing", "closed"}

Init ==
  /\ phase = [r \in Routes |-> "unborn"]
  /\ traffic = {}

Advances(from, to) ==
  \/ from = to
  \/ <<from, to>> \in {<<"unborn", "open">>, <<"open", "closing">>,
                       <<"closing", "closed">>}

\* Routes move on together (a registration replaces another, one revocation
\* closes many), and a closed route takes its traffic with it.
Change ==
  /\ phase' \in [Routes -> Phases]
  /\ \A r \in Routes : Advances(phase[r], phase'[r])
  /\ traffic' \in SUBSET traffic
  /\ \A p \in traffic' : phase'[p[2]] # "closed"

Begin(t, r) ==
  /\ phase[r] \in {"open", "closing"}
  /\ traffic' = traffic \cup {<<t, r>>}
  /\ UNCHANGED phase

Next ==
  \/ Change
  \/ \E t \in Threads, r \in Routes : Begin(t, r)

\* A closing route is eventually closed.
Closing == \A r \in Routes : phase[r] = "closing" ~> phase[r] = "closed"

Spec == Init /\ [][Next]_vars /\ Closing

TypeOK ==
  /\ phase \in [Routes -> Phases]
  /\ traffic \subseteq Threads \X Routes

\* Nothing is in flight on a closed route.
ClosedRoutesAreQuiet == \A p \in traffic : phase[p[2]] # "closed"

=============================================================================
