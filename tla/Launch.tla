-------------------------------- MODULE Launch --------------------------------
(***************************************************************************)
(* `veil launch`: runProtected of cmd/veil/launch.go with the goroutine that *)
(* keeps the lease alive, the one that watches the child's connections, the  *)
(* child's process group and os/exec, which owns it; and runNestedProtected, *)
(* the launch an agent starts from inside its own group.                     *)
(*                                                                         *)
(* The group is its root process and members the root left behind, which may *)
(* or may not hold on to the output pipe Wait reads to its end.  A nested    *)
(* launcher is a member of its parent's group; its agent has another group.  *)
(***************************************************************************)
EXTENDS CoreCalls

CONSTANTS
  Launchers,  \* `veil launch` processes
  Members,    \* what a member of a group may be: "piped", "detached"
  Nested      \* those of them whose agent may run a nested launch

ASSUME LaunchAssumption ==
  Launchers \subseteq Clients /\ Nested \subseteq Launchers /\ Members \subseteq {"piped", "detached"}

VARIABLES
  launch,  \* runProtected of each launcher and what it has obtained
  child,   \* its process group, and os/exec's view of it
  guard,   \* its two goroutines
  nested   \* the nested launch inside its group

launchVars == <<launch, child, guard, nested>>

\* A nested launch's session is the launcher's second.
OwnSession == 1
NestedSession == 2

\* A launcher that never comes is done from the beginning.
LaunchInit ==
  /\ launch \in [Launchers -> [at : {"start", "done"}, generation : {0}]]
  /\ child = [l \in Launchers |-> [root |-> "none", members |-> {}, bound |-> FALSE]]
  /\ guard = [l \in Launchers |-> [cancelled |-> FALSE, done |-> FALSE, lease |-> "none", egress |-> "none"]]
  /\ nested = [l \in Launchers |-> [at |-> "none", group |-> FALSE]]

At(l, where) == launch[l].at = where
Moves(l, where) == launch' = [launch EXCEPT ![l].at = where]

\* The context of the child and of the goroutines.
Cancelled(l) == guard[l].cancelled
CancelChild(l) == guard' = [guard EXCEPT ![l].cancelled = TRUE]

GroupAlive(l) == child[l].root = "alive" \/ child[l].members # {}

\* A SIGKILL to the group.  A nested launcher dies without its cleanup.
Killed(l) == [child[l] EXCEPT !.root = "exited", !.members = {}]
KillsNested(l) == nested' =
  IF nested[l].at \in {"none", "done"} THEN nested ELSE [nested EXCEPT ![l].at = "killed"]

-----------------------------------------------------------------------------
(* Obtaining authority *)

\* Nothing was obtained and nothing is undone when the registration fails.
Register(l) ==
  /\ At(l, "start")
  /\ \E o \in Outcomes :
       /\ CallRegister(l, o)
       /\ launch' = IF o = "done"
            THEN [launch EXCEPT ![l].at = "registered", ![l].generation = last']
            ELSE [launch EXCEPT ![l].at = "done"]
  /\ UNCHANGED <<child, guard, nested>>

\* Not every surface of the agent is protected, there are several routes, or the
\* context is over.
RefusePlan(l) ==
  /\ At(l, "registered") /\ Moves(l, "removing")
  /\ NoCall /\ UNCHANGED <<child, guard, nested>>

CreateSession(l) ==
  /\ At(l, "registered")
  /\ \E o \in Outcomes :
       /\ CallCreateSession(l, registered = launch[l].generation, OwnSession, o)
       /\ launch' = IF o = "done"
            THEN [launch EXCEPT ![l].at = "created"]
            ELSE [launch EXCEPT ![l].at = "removing"]
  /\ UNCHANGED <<child, guard, nested>>

\* The credentials do not fit the routes, the temporary home cannot be made, or
\* the context is over.
PrepareFails(l) ==
  /\ At(l, "created") /\ Moves(l, "revoking")
  /\ NoCall /\ UNCHANGED <<child, guard, nested>>

\* The home is made and the lease goroutine starts.
Prepare(l) ==
  /\ At(l, "created")
  /\ Moves(l, "starting")
  /\ guard' = [guard EXCEPT ![l].lease = "ticking"]
  /\ NoCall /\ UNCHANGED <<child, nested>>

-----------------------------------------------------------------------------
(* The child *)

\* The program cannot be started, the desktop application cannot be stopped,
\* or the context is already over.
StartFails(l) ==
  /\ At(l, "starting") /\ Moves(l, "joining")
  /\ CancelChild(l)
  /\ NoCall /\ UNCHANGED <<child, nested>>

Start(l) ==
  /\ At(l, "starting") /\ ~Cancelled(l) /\ Moves(l, "started")
  /\ child' = [child EXCEPT ![l] = [root |-> "alive", members |-> {}, bound |-> TRUE]]
  /\ NoCall /\ UNCHANGED <<guard, nested>>

Watch(l) ==
  /\ At(l, "started") /\ Moves(l, "waiting")
  /\ guard' = [guard EXCEPT ![l].egress = "watching"]
  /\ NoCall /\ UNCHANGED <<child, nested>>

WatchFailsToStart(l) ==
  /\ At(l, "started") /\ Moves(l, "abandoning")
  /\ CancelChild(l)
  /\ NoCall /\ UNCHANGED <<child, nested>>

\* The agent starts processes that may outlive it.
Fork(l) ==
  /\ child[l].root = "alive"
  /\ \E p \in Members : child' = [child EXCEPT ![l].members = @ \cup {p}]
  /\ NoCall /\ UNCHANGED <<launch, guard, nested>>

RootExits(l) ==
  /\ child[l].root = "alive"
  /\ child' = [child EXCEPT ![l].root = "exited"]
  /\ NoCall /\ UNCHANGED <<launch, guard, nested>>

MemberExits(l) ==
  /\ \E p \in child[l].members : child' = [child EXCEPT ![l].members = @ \ {p}]
  /\ NoCall /\ UNCHANGED <<launch, guard, nested>>

\* os/exec kills the group when the context ends, until Wait has the root's
\* exit: bound says its goroutine still looks at the context.
KillGroup(l) ==
  /\ child[l].bound /\ Cancelled(l)
  /\ child' = [child EXCEPT ![l] = [Killed(l) EXCEPT !.bound = FALSE]]
  /\ KillsNested(l)
  /\ NoCall /\ UNCHANGED <<launch, guard>>

\* Wait has the exit and stops the goroutine that looks at the context.
Reap(l) ==
  /\ launch[l].at \in {"waiting", "abandoning"}
  /\ child[l].root = "exited" /\ child[l].bound
  /\ child' = [child EXCEPT ![l].bound = FALSE]
  /\ NoCall /\ UNCHANGED <<launch, guard, nested>>

\* Wait returns at the end of the output; what is left of the group is killed.
WaitReturns(l) ==
  /\ At(l, "waiting") /\ child[l].root = "exited" /\ ~child[l].bound
  /\ "piped" \notin child[l].members
  /\ child' = [child EXCEPT ![l] = Killed(l)]
  /\ KillsNested(l)
  /\ guard' = [guard EXCEPT ![l].done = TRUE, ![l].cancelled = TRUE]
  /\ Moves(l, "joining")
  /\ NoCall

\* Without a watch, nothing is killed after Wait.
AbandonedWaitReturns(l) ==
  /\ At(l, "abandoning") /\ child[l].root = "exited" /\ ~child[l].bound
  /\ "piped" \notin child[l].members
  /\ Moves(l, "joining")
  /\ NoCall /\ UNCHANGED <<child, guard, nested>>

-----------------------------------------------------------------------------
(* The goroutines beside it *)

LeaseTicks(l) == guard[l].lease = "ticking"

RenewLease(l) ==
  /\ LeaseTicks(l) /\ ~Cancelled(l)
  /\ CallHeartbeat(l, launch[l].generation, "done")
  /\ UNCHANGED launchVars

\* Faulty variant: the lease is lost and the child runs on.
LoseLeaseQuietly(l) ==
  /\ LeaseTicks(l)
  /\ \/ \E o \in Outcomes \ {"done"} : CallHeartbeat(l, launch[l].generation, o)
     \/ Cancelled(l) /\ NoCall
  /\ guard' = [guard EXCEPT ![l].lease = "ended"]
  /\ UNCHANGED <<launch, child, nested>>

\* The renewal fails, on its own or because the context ends around it: the
\* child's context ends.
LoseLease(l) ==
  /\ LeaseTicks(l)
  /\ \/ \E o \in Outcomes \ {"done"} : CallHeartbeat(l, launch[l].generation, o)
     \/ Cancelled(l) /\ NoCall
  /\ guard' = [guard EXCEPT ![l].lease = "ended", ![l].cancelled = TRUE]
  /\ UNCHANGED <<launch, child, nested>>

StopLease(l) ==
  /\ LeaseTicks(l) /\ Cancelled(l)
  /\ guard' = [guard EXCEPT ![l].lease = "ended"]
  /\ NoCall /\ UNCHANGED <<launch, child, nested>>

\* A connection that goes past the core: the child's context ends first, and
\* then the core is told.
ObserveEgress(l) ==
  /\ guard[l].egress = "watching" /\ child[l].root = "alive" /\ ~Cancelled(l)
  /\ guard' = [guard EXCEPT ![l].egress = "reporting", ![l].cancelled = TRUE]
  /\ NoCall /\ UNCHANGED <<launch, child, nested>>

\* POST /v1/egress-events is answered or not; the watch is over.
ReportEgress(l) ==
  /\ guard[l].egress = "reporting"
  /\ guard' = [guard EXCEPT ![l].egress = "ended"]
  /\ NoCall /\ UNCHANGED <<launch, child, nested>>

\* The processes cannot be observed, nor at a second try when they changed during
\* the first; one reason is that the root is gone.
ObservationFails(l) ==
  /\ guard[l].egress = "watching" /\ ~Cancelled(l)
  /\ guard' = [guard EXCEPT ![l].egress = "grace"]
  /\ NoCall /\ UNCHANGED <<launch, child, nested>>

\* The launcher has a moment to notice the exit; after it, the context ends.
GraceEnds(l) ==
  /\ guard[l].egress = "grace"
  /\ \E noticed \in BOOLEAN :
       /\ noticed => guard[l].done
       /\ guard' = [guard EXCEPT ![l].egress = "ended", ![l].cancelled = @ \/ ~noticed]
  /\ NoCall /\ UNCHANGED <<launch, child, nested>>

StopWatch(l) ==
  /\ guard[l].egress = "watching" /\ Cancelled(l)
  /\ guard' = [guard EXCEPT ![l].egress = "ended"]
  /\ NoCall /\ UNCHANGED <<launch, child, nested>>

-----------------------------------------------------------------------------
(* Giving authority back: the deferred calls, last first *)

Quiet(l) == guard[l].lease \in {"none", "ended"} /\ guard[l].egress \in {"none", "ended"}

\* Faulty variant: it waits for the lease's only.
JoinLeaseOnly(l) ==
  /\ At(l, "joining") /\ guard[l].lease = "ended"
  /\ Moves(l, "cleaning")
  /\ NoCall /\ UNCHANGED <<child, guard, nested>>

\* The launcher waits for both goroutines.
Join(l) ==
  /\ At(l, "joining") /\ Quiet(l)
  /\ Moves(l, "cleaning")
  /\ NoCall /\ UNCHANGED <<child, guard, nested>>

\* The temporary home is removed; an error is only reported.
CleanHome(l) ==
  /\ At(l, "cleaning") /\ Moves(l, "revoking")
  /\ NoCall /\ UNCHANGED <<child, guard, nested>>

DeleteSession(l) ==
  /\ At(l, "revoking") /\ Moves(l, "removing")
  /\ \E o \in Outcomes : CallDeleteSession(l, OwnSession, {NestedSession}, o)
  /\ UNCHANGED <<child, guard, nested>>

Remove(l) ==
  /\ At(l, "removing") /\ Moves(l, "done")
  /\ \E o \in Outcomes : CallRemove(l, launch[l].generation, o)
  /\ UNCHANGED <<child, guard, nested>>

\* A launcher's session lives for a day and is not renewed; a nested one lives no
\* longer than that.
LaunchedSessionsExpire(l) ==
  /\ <<l, OwnSession>> \in open
  /\ SessionsExpire(l, {OwnSession, NestedSession})
  /\ UNCHANGED launchVars

\* Interrupted by a signal once the lease is kept; before that, the call or the
\* preparation at hand fails.  The calls that undo have their own context.
Interrupt(l) ==
  /\ launch[l].at \in {"starting", "started", "waiting"} /\ ~Cancelled(l)
  /\ CancelChild(l)
  /\ NoCall /\ UNCHANGED <<launch, child, nested>>

\* The launcher itself is killed: its child lives on.
Dies(l) ==
  /\ launch[l].at \notin {"start", "done", "dead"}
  /\ Moves(l, "dead")
  /\ child' = [child EXCEPT ![l].bound = FALSE]
  /\ guard' = [guard EXCEPT ![l].lease = "none", ![l].egress = "none"]
  /\ NoCall /\ UNCHANGED nested

-----------------------------------------------------------------------------
(* A nested launch *)

\* POST .../children with the parent's capability; the child has one route of the
\* parent's, or the call failed.
CreateChild(l, o) == CallCreateSession(l, <<l, OwnSession>> \in open, NestedSession, o)

\* The agent runs it with its own capability, whose session must be open.
NestedCreates(l) ==
  /\ l \in Nested /\ child[l].root = "alive" /\ nested[l].at = "none"
  /\ \E o \in Outcomes :
       /\ CreateChild(l, o)
       /\ nested' = [nested EXCEPT ![l].at = IF o = "done" THEN "created" ELSE "done"]
  /\ UNCHANGED <<launch, child, guard>>

NestedStarts(l) ==
  /\ nested[l].at = "created"
  /\ \/ nested' = [nested EXCEPT ![l] = [at |-> "running", group |-> TRUE]]
     \/ nested' = [nested EXCEPT ![l].at = "deleting"]
  /\ NoCall /\ UNCHANGED <<launch, child, guard>>

\* Its agent ends by itself; whatever is left of that group is killed.
NestedEnds(l) ==
  /\ nested[l].group
  /\ nested' = [nested EXCEPT ![l] =
       [at |-> IF @.at = "running" THEN "deleting" ELSE @.at, group |-> FALSE]]
  /\ NoCall /\ UNCHANGED <<launch, child, guard>>

\* A nested session is deleted with the capability it gave.
NestedDeletes(l) ==
  /\ nested[l].at = "deleting"
  /\ \E o \in Outcomes : CallDeleteSession(l, NestedSession, {}, o)
  /\ nested' = [nested EXCEPT ![l].at = "done"]
  /\ UNCHANGED <<launch, child, guard>>

-----------------------------------------------------------------------------
Launcher(l) ==
  \/ Register(l) \/ RefusePlan(l) \/ CreateSession(l) \/ Prepare(l) \/ PrepareFails(l)
  \/ Start(l) \/ StartFails(l) \/ Watch(l) \/ WatchFailsToStart(l)
  \/ Reap(l) \/ WaitReturns(l) \/ AbandonedWaitReturns(l)
  \/ Join(l) \/ CleanHome(l) \/ DeleteSession(l) \/ Remove(l)

Lease(l) == RenewLease(l) \/ LoseLease(l) \/ StopLease(l)
Egress(l) == ObserveEgress(l) \/ ReportEgress(l) \/ ObservationFails(l) \/ GraceEnds(l) \/ StopWatch(l)
Agent(l) == Fork(l) \/ RootExits(l) \/ MemberExits(l)
NestedLaunch(l) == NestedCreates(l) \/ NestedStarts(l) \/ NestedEnds(l) \/ NestedDeletes(l)

LaunchNext ==
  \E l \in Launchers :
    \/ Launcher(l) \/ KillGroup(l) \/ Lease(l) \/ Egress(l) \/ Agent(l) \/ NestedLaunch(l)
    \/ Interrupt(l) \/ Dies(l) \/ LaunchedSessionsExpire(l)

\* What the launcher, its goroutines and the system that delivers the kill must
\* get round to.  What the agent and its processes do is their own affair, and no
\* call needs to fail.
LaunchProgress(l) ==
  \/ Launcher(l) \/ KillGroup(l) \/ StopLease(l)
  \/ LoseLease(l) /\ ~(up /\ registered = launch[l].generation)
  \/ ReportEgress(l) \/ GraceEnds(l) \/ StopWatch(l)

LaunchType ==
  /\ launch \in [Launchers -> [at : {"start", "registered", "created", "starting", "started", "waiting",
                                     "abandoning", "joining", "cleaning", "revoking", "removing", "done", "dead"},
                               generation : 0..MaxGeneration]]
  /\ child \in [Launchers -> [root : {"none", "alive", "exited"}, members : SUBSET Members, bound : BOOLEAN]]
  /\ guard \in [Launchers -> [cancelled : BOOLEAN, done : BOOLEAN, lease : {"none", "ticking", "ended"},
                              egress : {"none", "watching", "reporting", "grace", "ended"}]]
  /\ nested \in [Launchers -> [at : {"none", "created", "running", "deleting", "done", "killed"}, group : BOOLEAN]]
=============================================================================
