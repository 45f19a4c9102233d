--------------------------- MODULE ScannerControl ---------------------------
(***************************************************************************)
(* What the core does with the artifacts and the policy: the handlers of    *)
(* policy_artifacts.go under scannerMu and policyMu, over the rule store    *)
(* (ArtifactStore), the model store's pointer and the policy file, and the  *)
(* configuration of a new core from what the last one left.                 *)
(*                                                                         *)
(* The scanner in memory is built from the active rule pack and the loaded  *)
(* model; a handler builds it first, switches the pointer, then puts the    *)
(* scanner in place.  A refused switch may have changed the disk.           *)
(***************************************************************************)
EXTENDS ArtifactStore

CONSTANTS
  Handlers,        \* goroutines that serve management requests
  Models,          \* installed semantic models
  NoModel,
  Policies,
  DefaultPolicy,   \* policy.DefaultDocument
  NoPolicy         \* no policy file yet

ASSUME ControlAssumption ==
  NoModel \notin Models /\ DefaultPolicy \in Policies /\ NoPolicy \notin Policies

VARIABLES
  up,              \* the core serves
  task,            \* what each goroutine is doing
  scanner,         \* Server.scanner: the rules and the model it was built from
  semantic,        \* Server.semantic
  modelFile,       \* the model store's pointer
  policy,          \* Server.policy
  policyFile,      \* the policy on file
  policyImages,    \* what a crash may leave of the policy file
  agreed,          \* the policy last acknowledged (history)
  raced            \* a model was switched under a rule deactivation (history)

artifactVars == <<images, op, chosen, kept>>
policyVars == <<policy, policyFile, policyImages, agreed>>
scannerVars == <<scanner, semantic, modelFile, raced>>
controlVars == <<artifactVars, up, task, scannerVars, policyVars>>

Resting == [step |-> "resting"]
Does(h, step) == task[h].step = step
Rest(h) == task' = [task EXCEPT ![h] = Resting]

\* scannerMu: switches hold it, removals share it.
Holding == {"built", "switching", "switched", "removing"}
ScannerUnlocked == \A h \in Handlers : task[h].step \notin Holding

PolicyUnlocked == \A h \in Handlers : ~Does(h, "saving")

-----------------------------------------------------------------------------
(* Rule packs *)

\* A scanner is built for the version with the model in memory.
Build(h, step, v) ==
  task' = [task EXCEPT ![h] =
             [step |-> step, version |-> v, model |-> semantic, overtaken |-> FALSE]]

\* Faulty variant: without scannerMu.
ActivateRulePackUnlocked(h) ==
  /\ Does(h, "resting")
  /\ \E v \in Versions : At("idle") /\ Opens(v) /\ Build(h, "built", v)
  /\ UNCHANGED <<artifactVars, up, scannerVars, policyVars>>

\* activateRulePack up to the switch: lock, open the version, build a scanner.
ActivateRulePack(h) ==
  /\ Does(h, "resting") /\ ScannerUnlocked
  /\ \E v \in Versions : At("idle") /\ Opens(v) /\ Build(h, "built", v)
  /\ UNCHANGED <<artifactVars, up, scannerVars, policyVars>>

\* ruleStore.Activate replaces the pointer, or fails before it does.
SwitchRules(h) ==
  /\ Does(h, "built")
  /\ \/ /\ Activate(task[h].version)
        /\ task' = [task EXCEPT ![h].step = "switching"]
     \/ UNCHANGED artifactVars /\ Rest(h)
  /\ UNCHANGED <<up, scannerVars, policyVars>>

\* deactivateRulePack builds its scanner before it takes the lock.
DeactivateRulePack(h) ==
  /\ Does(h, "resting")
  /\ Build(h, "read", NoVersion)
  /\ UNCHANGED <<artifactVars, up, scannerVars, policyVars>>

\* ruleStore.Deactivate: nothing to do without a pointer.
DropRules(h) ==
  /\ Does(h, "read") /\ ScannerUnlocked
  /\ \/ /\ Deactivate
        /\ task' = [task EXCEPT ![h].step = "switching"]
     \/ /\ At("idle") /\ disk.active = NoVersion
        /\ task' = [task EXCEPT ![h].step = "switched"]
        /\ UNCHANGED artifactVars
     \/ UNCHANGED artifactVars /\ Rest(h)
  /\ UNCHANGED <<up, scannerVars, policyVars>>

\* The store has switched, or the handler fails and leaves the old scanner
\* with the new pointer.
Switched(h) ==
  /\ Does(h, "switching")
  /\ \/ Sync /\ task' = [task EXCEPT ![h].step = "switched"]
     \/ SyncFails /\ Rest(h)
  /\ UNCHANGED <<up, scannerVars, policyVars>>

\* The scanner is replaced; it is as good as the model it was built with.
ReplaceScanner(h) ==
  /\ Does(h, "switched")
  /\ scanner' = [rules |-> task[h].version, model |-> task[h].model]
  /\ raced' = task[h].overtaken
  /\ Rest(h)
  /\ UNCHANGED <<artifactVars, up, semantic, modelFile, policyVars>>

\* installRulePack takes no lock of the core, removeRulePack shares scannerMu.
InstallRulePack(h) ==
  /\ \/ Does(h, "resting") /\ \E v \in Versions : Stage(v)
        /\ task' = [task EXCEPT ![h] = [step |-> "installing"]]
     \/ Does(h, "installing") /\ Publish /\ UNCHANGED task
     \/ Does(h, "installing") /\ (StagingFails \/ (At("published") /\ (Sync \/ SyncFails)))
        /\ Rest(h)
  /\ UNCHANGED <<up, scannerVars, policyVars>>

RemoveRulePack(h) ==
  /\ \/ Does(h, "resting") /\ ScannerUnlocked /\ (\E v \in Versions : RemoveFiles(v))
        /\ task' = [task EXCEPT ![h] = [step |-> "removing"]]
     \/ Does(h, "removing") /\ RemoveDirectory /\ UNCHANGED task
     \/ Does(h, "removing") /\ (RemovalFails \/ (At("removed") /\ (Sync \/ SyncFails)))
        /\ Rest(h)
  /\ UNCHANGED <<up, scannerVars, policyVars>>

-----------------------------------------------------------------------------
(* Models *)

\* buildScannerLocked: with the rule pack the pointer names, if it opens.
RulesToBuild == At("idle") /\ (disk.active # NoVersion => Opens(disk.active))

\* A rule deactivation that has built its scanner does not see the new model.
Overtake ==
  task' = [h \in Handlers |->
             IF Does(h, "read") THEN [task[h] EXCEPT !.overtaken = TRUE] ELSE task[h]]

\* The pointer is switched, perhaps by a switch that is refused after its
\* rename; the model and a scanner built with it are put in place.
PutModel ==
  /\ RulesToBuild
  /\ \E m \in Models \cup {NoModel} :
       /\ modelFile' = m
       /\ \/ /\ semantic' = m
             /\ scanner' = [rules |-> disk.active, model |-> m]
             /\ raced' = FALSE
             /\ Overtake
          \/ UNCHANGED <<semantic, scanner, raced, task>>
  /\ UNCHANGED <<artifactVars, up, policyVars>>

\* activateModel and deactivateModel, under scannerMu to the end.
SwitchModel == up /\ ScannerUnlocked /\ PutModel

-----------------------------------------------------------------------------
(* The policy *)

\* updatePolicy under policyMu: the file is replaced with a rename.
UpdatePolicy(h) ==
  /\ Does(h, "resting") /\ PolicyUnlocked
  /\ \E p \in Policies :
       /\ policyFile' = p /\ policyImages' = policyImages \cup {p}
       /\ task' = [task EXCEPT ![h] = [step |-> "saving"]]
  /\ agreed' = Unknown
  /\ UNCHANGED <<artifactVars, up, scannerVars, policy>>

\* Faulty variant: syncPolicyDirectory is left out.
SavePolicyUnsynced(h) ==
  /\ Does(h, "saving")
  /\ policy' = policyFile /\ agreed' = policyFile
  /\ Rest(h)
  /\ UNCHANGED <<artifactVars, up, scannerVars, policyFile, policyImages>>

\* The directory is synced and the engine follows, or a failed save
\* leaves the old engine with the new file.
SavePolicy(h) ==
  /\ Does(h, "saving")
  /\ \/ /\ policyImages' = {policyFile} /\ policyFile' = policyFile
        /\ policy' = policyFile /\ agreed' = policyFile
     \/ UNCHANGED policyVars
  /\ Rest(h)
  /\ UNCHANGED <<artifactVars, up, scannerVars>>

-----------------------------------------------------------------------------
(* The life of a core *)

\* WithPolicyStore: the policy on file, and the default only if there is none.
ConfigurePolicy ==
  IF policyFile = NoPolicy
  THEN /\ policyFile' = DefaultPolicy /\ policyImages' = {DefaultPolicy}
       /\ policy' = DefaultPolicy /\ agreed' = DefaultPolicy
  ELSE policy' = policyFile /\ UNCHANGED <<policyFile, policyImages, agreed>>

\* serve: WithPolicyStore, WithRuleStore, WithModelStore, WithSemanticRuntime.
StartCore ==
  /\ ~up /\ RulesToBuild
  /\ ConfigurePolicy
  /\ semantic' = modelFile
  /\ scanner' = [rules |-> disk.active, model |-> modelFile]
  /\ raced' = FALSE
  /\ up' = TRUE
  /\ UNCHANGED <<artifactVars, task, modelFile>>

\* The process is killed, or the machine goes down.
CoreDies ==
  /\ up
  /\ Crash
  /\ \E p \in policyImages : policyFile' = p /\ policyImages' = {p}
  /\ up' = FALSE
  /\ task' = [h \in Handlers |-> Resting]
  /\ UNCHANGED <<scannerVars, policy, agreed>>

ControlInit ==
  /\ Init
  /\ up = FALSE
  /\ task = [h \in Handlers |-> Resting]
  /\ scanner = [rules |-> NoVersion, model |-> NoModel]
  /\ semantic = NoModel /\ modelFile = NoModel /\ raced = FALSE
  /\ policy = DefaultPolicy
  /\ policyFile = NoPolicy /\ policyImages = {NoPolicy} /\ agreed = NoPolicy

HandlerStep(h) ==
  \/ ActivateRulePack(h) \/ SwitchRules(h)
  \/ DeactivateRulePack(h) \/ DropRules(h)
  \/ Switched(h) \/ ReplaceScanner(h)
  \/ InstallRulePack(h) \/ RemoveRulePack(h)
  \/ UpdatePolicy(h) \/ SavePolicy(h)

ControlNext ==
  \/ up /\ \E h \in Handlers : HandlerStep(h)
  \/ SwitchModel
  \/ StartCore \/ CoreDies

ControlSpec == ControlInit /\ [][ControlNext]_controlVars

-----------------------------------------------------------------------------
(* Properties *)

\* Types, and every goroutine agrees with the store's operation about who runs it.
ControlTypeOK ==
  /\ TypeOK
  /\ scanner \in [rules : Versions \cup {NoVersion}, model : Models \cup {NoModel}]
  /\ policy \in Policies
  /\ (~At("idle") =>
       \E h \in Handlers : task[h].step \in {"switching", "installing", "removing"})

\* When no switch is under way, requests are scanned with the rules the store
\* acknowledged last: no concurrent handler, no switch of the model, no failure
\* and no restart leaves others in place.
ScannerRunsTheChosenRules ==
  up /\ ScannerUnlocked /\ chosen # Unknown => scanner.rules = chosen

\* Requests are scanned with the model the core reports as active, unless a
\* rule deactivation that read the model before it took the lock was overtaken.
ScannerUsesTheLoadedModel == up => (scanner.model = semantic \/ raced)

\* The scanner that requests run through is the one the rule pack and the model
\* that were chosen last ask for.
ScannerFollowsItsChoices == ScannerRunsTheChosenRules /\ ScannerUsesTheLoadedModel

\* An acknowledged policy is in force and survives every crash, until the next
\* update begins.
AcknowledgedPolicyIsInForce ==
  agreed # Unknown =>
    /\ up => policy = agreed
    /\ policyImages = {agreed}

-----------------------------------------------------------------------------
(* The inductive invariant *)

Switching == {"read", "built", "switching", "switched"}

Task ==
  {Resting}
  \cup [step : {"installing", "removing", "saving"}]
  \cup [step : Switching, version : Versions \cup {NoVersion},
        model : Models \cup {NoModel}, overtaken : BOOLEAN]

Tasks ==
  /\ task \in [Handlers -> Task]
  /\ ~up => \A h \in Handlers : task[h] = Resting
  /\ \A h \in Handlers :
       /\ Does(h, "read") => task[h].version = NoVersion
       /\ Does(h, "built") => task[h].version \in Versions

\* One goroutine holds scannerMu, and the store's operation is that of the one
\* goroutine that waits for it.
Holders == {h \in Handlers : task[h].step \in Holding}

Operating == {"switching", "installing", "removing"}
Operators == {h \in Handlers : task[h].step \in Operating}

Exclusion ==
  /\ \A g, h \in Holders : g = h
  /\ \A g, h \in Operators : g = h
  /\ At("idle") => Operators = {}
  /\ \A h \in Handlers :
       /\ Does(h, "switching") => At("switched") /\ op.version = task[h].version
       /\ Does(h, "installing") => op.step \in {"staging", "published"}
       /\ Does(h, "removing") => op.step \in {"removing", "removed"}

\* Whoever has switched the store is about to put the scanner for it in place.
RulesFollow ==
  up /\ chosen # Unknown =>
    /\ \A h \in Handlers : Does(h, "switched") => task[h].version = chosen
    /\ scanner.rules = chosen \/ \E h \in Handlers : Does(h, "switched")

\* A scanner that is being built has the model in memory, or was overtaken.
ModelsFollow ==
  /\ \A h \in Handlers :
       task[h].step \in Switching => task[h].model = semantic \/ task[h].overtaken
  /\ ScannerUsesTheLoadedModel

PolicyFollows ==
  /\ policyFile \in policyImages
  /\ AcknowledgedPolicyIsInForce

\* The parts of ControlSpec that the store's specification does not know.
ControlIInv ==
  /\ IInv
  /\ modelFile \in Models \cup {NoModel} /\ semantic \in Models \cup {NoModel}
  /\ up \in BOOLEAN /\ raced \in BOOLEAN
  /\ Tasks
  /\ Exclusion
  /\ RulesFollow
  /\ ModelsFollow
  /\ PolicyFollows

=============================================================================
