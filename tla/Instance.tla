------------------------------ MODULE Instance ------------------------------
(***************************************************************************)
(* Cores as processes: `veil serve` from the lock to its release, the file  *)
(* core.json by which clients find the core that serves, and the desktop    *)
(* application that looks for a core, starts one and starts it again.       *)
(*                                                                         *)
(* Processes are named after the random identity each core takes, which     *)
(* stands for its port as well; files that name a core that ended name      *)
(* Gone from then on.  At most MaxFaults times a process is killed, a file     *)
(* operation or a probe fails, a deadline passes, the machine goes down or  *)
(* somebody else's core takes the port of a core that is gone.              *)
(***************************************************************************)
EXTENDS Integers, FiniteSets

CONSTANTS
  Cores,
  NoCore,
  Gone,              \* a core that is no more
  MaxFaults          \* bound: faults of any kind

ASSUME NoCoreAssumption == Cores # {} /\ NoCore \notin Cores /\ Gone \notin Cores

VARIABLES
  phase,             \* how far serve() is in each process
  lock,              \* the process that holds core.lock
  ours,              \* processes whose admin token the desktop knows
  stateFile,         \* the core that core.json names
  stateImages,       \* what a power failure may leave of it
  foreign,           \* somebody else's core has the port on file
  faults,            \* faults so far
  desktop,           \* the step of the desktop's supervisor
  child,             \* CoreRuntime.child
  spawned,           \* the child that start_core has not stored yet
  token              \* CoreRuntime.token is set

fileVars == <<stateFile, stateImages, foreign>>
coreVars == <<phase, lock, ours>>
desktopVars == <<desktop, child, spawned, token>>
instanceVars == <<coreVars, fileVars, faults, desktopVars>>

Fault == faults < MaxFaults /\ faults' = faults + 1

\* The listener is open from Start to Close.
Answers(c) == c \in Cores /\ phase[c] \in {"listening", "written", "serving"}

SomebodyAnswers == Answers(stateFile) \/ foreign

MoveTo(c, step) == phase' = [phase EXCEPT ![c] = step]

\* What a file names once the processes of dead are gone.
Named(d, dead) == IF d \in dead THEN Gone ELSE d

\* The processes end; the system releases the lock, the file stays.
End(dead) ==
  /\ phase' = [c \in Cores |-> IF c \in dead THEN "none" ELSE phase[c]]
  /\ lock' = IF lock \in dead THEN NoCore ELSE lock
  /\ ours' = ours \ dead
  /\ stateFile' = Named(stateFile, dead)
  /\ stateImages' = {Named(d, dead) : d \in stateImages}

-----------------------------------------------------------------------------
(* serve *)

\* Which free name a process takes does not matter.
Free == {c \in Cores : phase[c] = "none"} \ {child, spawned}

Run(c) ==
  /\ Free # {} /\ c = (CHOOSE d \in Free : TRUE)
  /\ MoveTo(c, "locking")
  /\ UNCHANGED <<lock, fileVars>>

\* instance.Acquire: at once or not at all.
Acquire(c) ==
  /\ phase[c] = "locking"
  /\ IF lock = NoCore
     THEN lock' = c /\ MoveTo(c, "clearing") /\ UNCHANGED <<ours, stateFile, stateImages>>
     ELSE End({c})
  /\ UNCHANGED <<foreign, faults>>

\* os.Remove; a file that is not there is not synced either.
FileRemoved ==
  /\ stateFile' = NoCore
  /\ stateImages' = IF stateFile = NoCore THEN stateImages ELSE {NoCore}
  /\ foreign' = FALSE

\* It is there still, or it is gone and that is not on disk.
FileNotRemoved ==
  /\ stateFile' \in {stateFile, NoCore}
  /\ stateImages' = stateImages \cup {stateFile'}
  /\ foreign' = (foreign /\ stateFile' = stateFile)

\* RemoveState before anything else: whatever a dead core left.
Clear(c) ==
  /\ phase[c] = "clearing"
  /\ \/ FileRemoved /\ MoveTo(c, "configuring") /\ UNCHANGED faults
     \/ FileNotRemoved /\ MoveTo(c, "unlocking") /\ Fault
  /\ UNCHANGED <<lock, ours>>

\* The stores are opened; the listener is bound by Start.
Configured(c) ==
  /\ phase[c] = "configuring"
  /\ MoveTo(c, "listening")
  /\ UNCHANGED <<lock, ours, fileVars>>

ConfigureFails(c) ==
  /\ phase[c] = "configuring"
  /\ MoveTo(c, "unlocking")
  /\ UNCHANGED <<lock, ours, fileVars>>

\* WriteState up to the rename; before it a failure leaves no trace.
WriteState(c) ==
  /\ phase[c] = "listening"
  /\ \/ /\ stateFile' = c /\ stateImages' = stateImages \cup {c} /\ foreign' = FALSE
        /\ MoveTo(c, "written")
        /\ UNCHANGED faults
     \/ MoveTo(c, "unlocking") /\ UNCHANGED fileVars /\ Fault
  /\ UNCHANGED <<lock, ours>>

\* The directory is synced.  If that fails the core closes and goes, and the
\* file stays: its removal is deferred only now.
SyncState(c) ==
  /\ phase[c] = "written"
  /\ \/ stateImages' = {stateFile} /\ MoveTo(c, "serving") /\ UNCHANGED faults
     \/ UNCHANGED stateImages /\ MoveTo(c, "unlocking") /\ Fault
  /\ UNCHANGED <<stateFile, foreign, lock, ours>>

\* SIGTERM or an interrupt.
Interrupt(c) ==
  /\ phase[c] = "serving"
  /\ MoveTo(c, "closing")
  /\ UNCHANGED <<lock, ours, fileVars>>

\* Faulty variant: the lock is released when the server is closed.
CloseServerAndUnlock(c) ==
  /\ phase[c] = "closing"
  /\ MoveTo(c, "removing")
  /\ lock' = NoCore
  /\ UNCHANGED <<ours, fileVars, faults>>

\* Server.Close; the listener is closed already.
CloseServer(c) ==
  /\ phase[c] = "closing"
  /\ MoveTo(c, "removing")
  /\ UNCHANGED <<lock, ours, fileVars, faults>>

\* The deferred RemoveState, before the deferred release of the lock.
RemoveState(c) ==
  /\ phase[c] = "removing"
  /\ \/ FileRemoved /\ UNCHANGED faults
     \/ FileNotRemoved /\ Fault
  /\ MoveTo(c, "unlocking")
  /\ UNCHANGED <<lock, ours>>

Unlock(c) ==
  /\ phase[c] = "unlocking"
  /\ End({c})
  /\ UNCHANGED <<foreign, faults>>

-----------------------------------------------------------------------------
(* What happens to processes *)

Kill(c) ==
  /\ phase[c] # "none" /\ End({c}) /\ Fault
  /\ UNCHANGED <<foreign, desktopVars>>

\* The user starts a core in a shell, with the desktop's token or another.
StartInShell(c) ==
  /\ Cardinality(Free) > 1 /\ Run(c)
  /\ ours' \in {ours \cup {c}, ours \ {c}}
  /\ UNCHANGED <<faults, desktopVars>>

TakePort ==
  /\ stateFile # NoCore /\ ~Answers(stateFile) /\ ~foreign
  /\ foreign' = TRUE
  /\ Fault
  /\ UNCHANGED <<coreVars, stateFile, stateImages, desktopVars>>

LeavePort ==
  /\ foreign /\ foreign' = FALSE
  /\ UNCHANGED <<coreVars, stateFile, stateImages, faults, desktopVars>>

-----------------------------------------------------------------------------
(* The desktop application *)

\* The core a client finds: the one core.json names, if it answers with the
\* identity that stands there.
Discovered == IF Answers(stateFile) THEN stateFile ELSE NoCore

\* probe: the same, and two requests with the token.
Reachable == Discovered \in ours

ProbeSucceeds == Reachable /\ UNCHANGED faults
ProbeFails == (~Reachable /\ UNCHANGED faults) \/ (Reachable /\ Fault)

OpenDesktop ==
  /\ desktop = "closed"
  /\ desktop' = "starting"
  /\ UNCHANGED <<coreVars, fileVars, faults, child, spawned, token>>

\* start_core, the first probe: a core is there, and CoreRuntime.child is
\* overwritten whether or not that core is the child.
Probe ==
  /\ desktop = "starting"
  /\ \/ ProbeSucceeds /\ token' = TRUE /\ child' = NoCore /\ desktop' = "sleeping"
     \/ ProbeFails /\ desktop' = "checking" /\ UNCHANGED <<token, child>>
  /\ UNCHANGED <<coreVars, fileVars, spawned>>

\* Somebody answers at the endpoint on file: the desktop has no rights there.
GiveWay ==
  /\ desktop = "checking" /\ SomebodyAnswers
  /\ desktop' = "sleeping"
  /\ UNCHANGED <<coreVars, fileVars, faults, child, spawned, token>>

\* Nobody answers: the previous child is killed and waited for.
StopPrevious ==
  /\ desktop = "checking" /\ ~SomebodyAnswers
  /\ End({child} \cap Cores)
  /\ child' = NoCore
  /\ desktop' = "spawning"
  /\ UNCHANGED <<foreign, faults, spawned, token>>

Spawn ==
  /\ desktop = "spawning"
  /\ \E c \in Cores : Run(c) /\ spawned' = c /\ ours' = ours \cup {c}
  /\ desktop' = "waiting"
  /\ UNCHANGED <<faults, child, token>>

\* Every 80 ms: a core is there (the child or another one), the child has
\* ended, or 30 seconds are over.
Wait ==
  /\ desktop = "waiting"
  /\ desktop' = "sleeping" /\ spawned' = NoCore
  /\ \/ ProbeSucceeds /\ token' = TRUE /\ child' = spawned /\ UNCHANGED <<coreVars, stateFile, stateImages>>
     \/ ProbeFails /\ phase[spawned] = "none" /\ UNCHANGED <<coreVars, stateFile, stateImages, child, token>>
     \/ ~Reachable /\ phase[spawned] # "none" /\ End({spawned}) /\ Fault /\ UNCHANGED <<child, token>>
  /\ UNCHANGED foreign

\* Faulty variant: the monitor waits for a first success of start_core.
MonitorGivingUp ==
  /\ desktop = "sleeping" /\ token
  /\ ProbeFails /\ desktop' = "starting"
  /\ UNCHANGED <<coreVars, fileVars, child, spawned, token>>

\* monitor_core, every 3 seconds: start_core if it never succeeded or the probe
\* fails.
Monitor ==
  /\ desktop = "sleeping"
  /\ IF token THEN ProbeFails ELSE UNCHANGED faults
  /\ desktop' = "starting"
  /\ UNCHANGED <<coreVars, fileVars, child, spawned, token>>

\* Quitting stops the child that is stored, not one that start_core waits for.
Quit ==
  /\ desktop # "closed"
  /\ End({child} \cap Cores)
  /\ desktop' = "closed" /\ child' = NoCore /\ spawned' = NoCore /\ token' = FALSE
  /\ UNCHANGED <<foreign, faults>>

DesktopStep == Probe \/ GiveWay \/ StopPrevious \/ Spawn \/ Wait \/ Monitor

-----------------------------------------------------------------------------

InstanceInit ==
  /\ phase = [c \in Cores |-> "none"] /\ lock = NoCore /\ ours = {}
  /\ stateFile = NoCore /\ stateImages = {NoCore} /\ foreign = FALSE
  /\ faults = 0
  /\ desktop = "closed" /\ child = NoCore /\ spawned = NoCore /\ token = FALSE

\* The steps of serve, but for the configuration.
ServeStep(c) ==
  Acquire(c) \/ Clear(c) \/ WriteState(c) \/ SyncState(c)
    \/ CloseServer(c) \/ RemoveState(c) \/ Unlock(c)

\* The core that serves is the one that clients find through core.json: no other
\* process, on its way up or down, removes or replaces the file
\* (serve.go:38-50, 125-143).
ServingCoreIsDiscoverable == \A c \in Cores : phase[c] = "serving" => Discovered = c

\* The desktop has a core: it answers, takes the desktop's token, and the desktop
\* knows (core_supervisor.rs:303-399).
Supplied == Reachable /\ token

\* At the endpoint on file answers a core whose token the desktop does not have.
AnotherAnswers == foreign \/ Discovered \in Cores \ ours
=============================================================================
