----------------------------- MODULE CoreProcess -----------------------------
(***************************************************************************)
(* Processes that come and go and what they leave: cores and the desktop    *)
(* (Instance), whose start needs logs that can be read (LocalLogs) and      *)
(* whose end loses the browsers' sessions (BrowserAuth).                    *)
(*                                                                         *)
(* A behaviour exercises one part, its workload, chosen at the start; the   *)
(* others rest.  Cores start, fail, are killed and lose power in all.       *)
(***************************************************************************)
EXTENDS Instance, LocalLogs, BrowserAuth

VARIABLE workload     \* "desktop", "browsers", or one of Logs

vars == <<instanceVars, logVars, browserVars, workload>>

Serving == \E c \in Cores : phase[c] = "serving"

-----------------------------------------------------------------------------
(* Steps of a core that other parts take part in *)

\* The stores are opened one after the other; what cannot be read, or a
\* listener that cannot be bound, ends the start.
Configure(c) ==
  /\ \/ Configured(c) /\ OpenLogs /\ UNCHANGED faults
     \/ ConfigureFails(c) /\ OpeningFails
        /\ IF LogsOpen THEN Fault ELSE UNCHANGED faults
     \/ ConfigureFails(c) /\ Fault /\ UNCHANGED logVars
  /\ UNCHANGED <<desktopVars, browserVars, workload>>

Serve(c) ==
  /\ ServeStep(c)
  /\ UNCHANGED <<desktopVars, logVars, browserVars, workload>>

\* Requests under way when a process ends are gone with its memory.
LoseMemory ==
  IF \E c \in Cores : phase[c] \in {"serving", "closing"} /\ phase'[c] = "none"
  THEN LogsAbandoned /\ ForgetBrowsers
  ELSE UNCHANGED <<logVars, browserVars>>

Killed(c) == Kill(c) /\ LoseMemory /\ UNCHANGED workload

\* An interrupt; Shutdown lets the requests under way finish first.
Interrupted(c) ==
  /\ Interrupt(c) /\ UNCHANGED <<faults, desktopVars>>
  /\ \A l \in Logs : LogAt(l, "idle")
  /\ ForgetBrowsers
  /\ UNCHANGED <<logVars, workload>>

\* The machine goes down and comes up again: no process is left.
PowerFails ==
  /\ phase' = [c \in Cores |-> "none"] /\ lock' = NoCore /\ ours' = {} /\ Fault
  /\ \E d \in stateImages : stateFile' = Named(d, Cores) /\ stateImages' = {stateFile'}
  /\ foreign' = FALSE
  /\ desktop' = "closed" /\ child' = NoCore /\ spawned' = NoCore /\ token' = FALSE
  /\ LogsAfterPowerFailure /\ ForgetBrowsers
  /\ UNCHANGED workload

-----------------------------------------------------------------------------
(* The desktop, and the requests a serving core answers *)

Desktop ==
  /\ DesktopStep /\ LoseMemory
  /\ UNCHANGED workload

Environment ==
  /\ workload = "desktop"
  /\ \/ OpenDesktop \/ Quit \/ TakePort \/ LeavePort
     \/ \E c \in Cores : StartInShell(c)
  /\ LoseMemory
  /\ UNCHANGED workload

\* Elsewhere a start is one step, since only its end can be seen.
Boot ==
  /\ workload # "desktop" /\ lock = NoCore
  /\ LET c == CHOOSE d \in Cores : TRUE
     IN /\ MoveTo(c, "serving") /\ lock' = c /\ stateFile' = c /\ stateImages' = {c}
        /\ OpenLogs
  /\ UNCHANGED <<ours, foreign, faults, desktopVars, browserVars, workload>>

BootFails ==
  /\ workload # "desktop" /\ lock = NoCore
  /\ OpeningFails
  /\ UNCHANGED <<instanceVars, browserVars, workload>>

\* Beside the desktop one audit record is written, its end in one step.
RecordOnce ==
  \/ issued = 0 /\ AppendRecord("audit", 1)
  \/ LogAt("audit", "opened") /\ WriteHalf("audit")
  \/ /\ LogAt("audit", "half") /\ Stop("audit")
     /\ LET whole == Append(Front(log["audit"]), writing["audit"].record)
        IN /\ log' = [log EXCEPT !["audit"] = whole]
           /\ logImages' = [logImages EXCEPT !["audit"] = {whole}]
           /\ recorded' = [recorded EXCEPT !["audit"] = {whole[1].id}]
     /\ UNCHANGED <<issued, expired, tracing, settings>>

Record ==
  /\ Serving
  /\ \/ \E l \in Logs \cap {workload} : LogStep(l)
     \/ workload = "desktop" /\ RecordOnce
  /\ UNCHANGED <<instanceVars, browserVars, workload>>

Browse ==
  /\ Serving /\ workload = "browsers"
  /\ Tick \/ \E b \in Browsers : BrowserStep(b)
  /\ UNCHANGED <<instanceVars, logVars, workload>>

RecordsAge ==
  /\ workload \in Logs /\ Expire
  /\ UNCHANGED <<instanceVars, browserVars, workload>>

Init ==
  /\ InstanceInit /\ LogsInit /\ BrowserInit
  /\ workload \in {"desktop", "browsers"} \cup Logs

Next ==
  \/ \E c \in Cores : Serve(c) \/ Configure(c) \/ Killed(c) \/ Interrupted(c)
  \/ PowerFails \/ Boot \/ BootFails \/ Desktop \/ Environment
  \/ Record \/ Browse \/ RecordsAge

Spec == Init /\ [][Next]_vars

\* Processes run, the desktop's thread runs, an operation on a log ends.
Fairness ==
  /\ \A c \in Cores : WF_vars(Serve(c) \/ Configure(c))
  /\ WF_vars(Desktop)

FairSpec == Spec /\ Fairness

-----------------------------------------------------------------------------
(* Properties *)

TypeOK ==
  /\ lock \in Cores \cup {NoCore} /\ stateFile \in stateImages
  /\ stateImages \subseteq Cores \cup {NoCore, Gone}
  /\ \A c \in Cores : phase[c] \notin {"none", "locking"} <=> lock = c
  /\ BrowserTypeOK

\* A desktop that stays open gets a core, one it has the token of and noticed,
\* whatever happened before, be it a failed first start, a probe that failed while
\* its own core was up, an orphan it does not own or a file left by a dead core,
\* unless a core that is not its own answers at the endpoint on file, a log is
\* torn, or somebody interrupts the cores that serve over and over.
OpenDesktopsGetACore ==
  <>[][\A c \in Cores : ~Interrupted(c)]_vars
    => (desktop # "closed" ~> (Supplied \/ desktop = "closed" \/ AnotherAnswers \/ Torn))

-----------------------------------------------------------------------------
(* The inductive invariant of the logs in a core *)

\* No record is under way but in a core that serves.
QuietUnlessServing == Serving \/ \A l \in Logs : LogAt(l, "idle")

\* Beside the desktop the audit log has one record at most.
DesktopRecordsOnce ==
  workload = "desktop" =>
    /\ issued = 0 => logImages["audit"] = {<<>>} /\ LogAt("audit", "idle")
    /\ LogAt("audit", "opened") => log["audit"] = <<>>
    /\ LogAt("audit", "half") => Len(log["audit"]) = 1

CoreLogsInv == LogsInv /\ QuietUnlessServing /\ DesktopRecordsOnce

=============================================================================
