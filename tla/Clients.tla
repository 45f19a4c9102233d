------------------------------- MODULE Clients -------------------------------
(***************************************************************************)
(* The clients of one core that compete for one agent: launchers, attached   *)
(* controllers and lease maintainers, each of which replaces the one before  *)
(* it, loses its lease when it is late, and cleans up after itself.          *)
(***************************************************************************)
EXTENDS Launch, Attach

\* A client is one or the other.
ASSUME ClientsAssumption ==
  Clients = Launchers \cup Holders /\ Launchers \cap Holders = {}

vars == <<coreVars, launchVars, attachVars>>

Init == CoreInit /\ LaunchInit /\ AttachInit

Next ==
  \/ LaunchNext /\ UNCHANGED attachVars
  \/ AttachNext /\ UNCHANGED launchVars
  \/ CoreNext /\ UNCHANGED <<launchVars, attachVars>>

Spec == Init /\ [][Next]_vars

\* The clients and the core's clock go on.  A client makes finitely many of these
\* steps, so that fairness to all of them together is fairness to each.
Progress ==
  \/ (\E l \in Launchers : LaunchProgress(l)) /\ UNCHANGED attachVars
  \/ (\E c \in Holders : AttachProgress(c)) /\ UNCHANGED launchVars
LeaseTime == (TimePasses \/ LeaseLapses) /\ UNCHANGED <<launchVars, attachVars>>
Fairness == WF_vars(Progress) /\ WF_vars(LeaseTime)
FairSpec == Spec /\ Fairness

TypeOK == CoreType /\ LaunchType /\ AttachType

Where(c) == IF c \in Launchers THEN launch[c].at ELSE hold[c].at
GenerationOf(c) == IF c \in Launchers THEN launch[c].generation ELSE hold[c].generation
SessionsOf(c) == {s \in open : s[1] = c}

-----------------------------------------------------------------------------
(* Properties *)

\* A client that has returned has no session open on the core unless two of its
\* calls failed: each session is revoked by itself and again by the removal of
\* the registration, on every path of runProtected and Controller.Run, those
\* through a failed rotation and a lost answer included.
OneFailureLeavesNothingOpen ==
  \A c \in Clients : Where(c) = "done" /\ failures[c] < 2 => SessionsOf(c) = {}

\* While a controller's registration is in force and neither Apply nor Restore has
\* failed, the session its target is routed through is open, unless a rotation that
\* came late let its time run out: rotation and cleanup, those through lost and
\* refused calls included, revoke a session only after the target has left it.
OnlyTimeEndsAuthority ==
  \A c \in Holders \ spoilt :
    up /\ registered = hold[c].generation /\ target[c] # NoSession =>
      <<c, target[c]>> \in open \cup expired

\* When the launcher gives its authority back, its child has ended and so have
\* the goroutines that renew the lease and report what the child connects to:
\* none of them acts for a session that is gone.
NothingOutlivesTheLaunch ==
  \A l \in Launchers : launch[l].at \in {"cleaning", "revoking", "removing", "done"} =>
    child[l].root # "alive" /\ Quiet(l)

\* The generation in force goes only by a newer registration, by its owner's
\* removal, with its lease, or with the core: no late cleanup takes it from the
\* client that has replaced it.
CleanupSparesSuccessor ==
  [][registered # Nobody /\ registered' # registered =>
       \/ registered' > registered \/ ~up' \/ ~fresh
       \/ \E c \in Clients : Where(c) = "removing" /\ GenerationOf(c) = registered]_vars

\* When the lease is no longer renewed, whoever replaced the launcher or whatever
\* the core answered, or when the child is no longer watched, the root of its
\* group is stopped.
Unguarded(l) == guard[l].lease = "ended" \/ guard[l].egress \in {"reporting", "ended"}
LostProtectionStopsTheRoot ==
  \A l \in Launchers : Unguarded(l) ~> child[l].root # "alive" \/ launch[l].at = "dead"

\* ADR 0005: on an unplanned connection or a failed observation the isolated
\* process group is terminated.
CancelledGroupsDie ==
  \A l \in Launchers : Cancelled(l) /\ GroupAlive(l) /\ launch[l].at # "dead"
                       ~> ~GroupAlive(l) \/ launch[l].at = "dead"

-----------------------------------------------------------------------------
(* The inductive invariant *)

Typed ==
  /\ up \in BOOLEAN /\ last \in 0..MaxGeneration /\ registered \in 0..last
  /\ open \subseteq Clients \X Nat /\ expired \subseteq Clients \X Nat
  /\ failures \in [Clients -> Nat]
  /\ LaunchType /\ AttachType

\* Sessions are those of the client whose generation is in force.
SessionsAreRegistered ==
  /\ up \/ open = {}
  /\ \A s \in open : registered # Nobody /\ registered = GenerationOf(s[1])

\* The sessions a client still knows of and is going to revoke.
Kept(c) ==
  IF c \in Launchers
  THEN IF launch[c].at \in {"created", "starting", "started", "waiting", "abandoning", "joining", "cleaning", "revoking"}
       THEN {OwnSession, NestedSession} ELSE {}
  ELSE {k \in {hold[c].current, hold[c].next} :
          /\ Attaches(c)
          /\ \/ hold[c].at \in {"rotating", "retiring", "dropping"}
             \/ hold[c].at \in {"applying", "running", "restoring", "revoking"} /\ k = hold[c].current}

\* A session nobody will revoke is the trace of a call that failed, and after the
\* removal of the registration, of two.
Accounted(c) ==
  Where(c) # "dead" /\ (\E s \in SessionsOf(c) : s[2] \notin Kept(c)) =>
    failures[c] >= IF Where(c) = "done" THEN 2 ELSE 1

Numbered(c) ==
  /\ GenerationOf(c) <= last
  /\ Where(c) = "start" => GenerationOf(c) = 0
  /\ Where(c) \notin {"start", "done"} => GenerationOf(c) > 0

\* The launcher's goroutines and its child live between its preparation and the join.
Sheltered(l) ==
  /\ child[l].root = "alive" => launch[l].at \in {"started", "waiting", "abandoning", "dead"}
  /\ launch[l].at \in {"start", "registered", "created", "cleaning", "revoking", "removing", "done"} => Quiet(l)

\* A nested session comes from the launcher's own and goes with it.
Nests(l) ==
  /\ SessionsOf(l) \subseteq {<<l, OwnSession>>, <<l, NestedSession>>}
  /\ <<l, NestedSession>> \in open => <<l, OwnSession>> \in open

\* What a controller keeps is open while its registration is in force, or its time
\* is over.
Covered(c) ==
  up /\ registered = hold[c].generation => \A k \in Kept(c) : <<c, k>> \in open \cup expired

Maintains(c) ==
  ~Attaches(c) => hold[c].current = NoSession /\ hold[c].at \in {"start", "registered", "running", "removing", "done", "dead"}

\* Sessions are numbered as they are opened.
Rotates(c) == hold[c].at \in {"rotating", "retiring", "dropping"} => hold[c].next = hold[c].current + 1

\* Where the target is while Apply and Restore have done what they were asked.
Routed(c) ==
  CASE hold[c].at \in {"start", "registered", "applying", "revoking", "removing", "done"} -> target[c] = NoSession
    [] hold[c].at \in {"running", "rotating", "restoring"} -> target[c] = hold[c].current
    [] hold[c].at = "retiring" -> target[c] = hold[c].next
    [] hold[c].at = "dropping" -> FALSE
    [] OTHER -> up /\ registered = hold[c].generation /\ target[c] # NoSession => <<c, target[c]>> \in open \cup expired

ClientInv(c) ==
  /\ Accounted(c) /\ Numbered(c)
  /\ c \in Launchers => Sheltered(c) /\ Nests(c)
  /\ c \in Holders => Covered(c) /\ Maintains(c) /\ Rotates(c) /\ (c \notin spoilt => Routed(c))

ClientsInv ==
  /\ Typed /\ SessionsAreRegistered
  /\ \A c \in Clients : ClientInv(c)
=============================================================================
