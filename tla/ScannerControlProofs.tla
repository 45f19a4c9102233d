------------------------- MODULE ScannerControlProofs -------------------------
(***************************************************************************)
(* For any number of handlers, versions, models and policies: what requests *)
(* are scanned with, and the policy in force, are what was chosen last.     *)
(*                                                                         *)
(* First the store by itself, for any set of versions, any capacity and any *)
(* number of unsynced changes: what a crash leaves behind always starts, and *)
(* what was acknowledged is still there.                                    *)
(*                                                                         *)
(* Its invariant carries over, because the handlers change the store by its *)
(* operations only.  On top of it comes what holds the handlers together:   *)
(* one holder of scannerMu, one goroutine behind the store's operation, and *)
(* what a goroutine that has switched the store still owes the scanner.     *)
(***************************************************************************)
EXTENDS ScannerControl, TLAPS

-----------------------------------------------------------------------------
(* The store *)

\* Every image of the store after a change is an old one or the new one.
LEMMA ChangeEffect ==
  ASSUME images \in Seq(Image), Len(images) >= 1, NEW image \in Image, Change(image)
  PROVE  /\ images' \in Seq(Image) /\ Len(images') >= 1
         /\ disk' = image
         /\ \A i \in DOMAIN images' : images'[i] = image \/ \E j \in DOMAIN images : images'[i] = images[j]
  BY DEF Change, disk

\* The current image is one of those a crash may leave.
LEMMA DiskIsAnImage ==
  ASSUME images \in Seq(Image), Len(images) >= 1
  PROVE  disk \in Image /\ Len(images) \in DOMAIN images
  BY DEF disk

\* After a crash or a sync one of the images is all there is.
LEMMA OnlyImage ==
  ASSUME NEW image \in Image, images' = <<image>>
  PROVE  /\ images' \in Seq(Image) /\ Len(images') = 1
         /\ disk' = image
         /\ \A i \in DOMAIN images' : images'[i] = image
  BY DEF disk

-----------------------------------------------------------------------------

LEMMA InitInv == Init => IInv
<1> SUFFICES ASSUME Init PROVE IInv
  OBVIOUS
<1>1. Empty \in Image
  BY DEF Empty, Image
<1>2. /\ images \in Seq(Image) /\ Len(images) = 1
      /\ \A i \in DOMAIN images : images[i] = Empty
  BY <1>1 DEF Init
<1>3. Typed
  BY <1>2 DEF Init, Typed, Idle
<1>4. StepsAgree
  BY DEF Init, StepsAgree, At, Idle
<1>5. /\ RestartFindsTheActiveVersion
      /\ AcknowledgedChoiceSurvives
      /\ AcknowledgedVersionsAreKept
  BY <1>2 DEF Init, RestartFindsTheActiveVersion, AcknowledgedChoiceSurvives,
     AcknowledgedVersionsAreKept, Empty
<1>6. QED
  BY <1>3, <1>4, <1>5 DEF IInv

\* What one image must satisfy, given what was acknowledged.
Sound(image, choice, versions) ==
  /\ image.active # NoVersion => image.dirs[image.active] = "whole"
  /\ choice # Unknown => image.active = choice
  /\ \A v \in versions : image.dirs[v] = "whole"

\* The three safety properties say that every image is sound.
LEMMA SoundImages ==
  (/\ RestartFindsTheActiveVersion
   /\ AcknowledgedChoiceSurvives
   /\ AcknowledgedVersionsAreKept)
  <=> \A i \in DOMAIN images : Sound(images[i], chosen, kept)
  BY DEF Sound, RestartFindsTheActiveVersion, AcknowledgedChoiceSurvives,
     AcknowledgedVersionsAreKept

\* A change keeps every image sound if the new image is sound and no more is
\* expected of the old ones.
LEMMA ChangeKeepsSound ==
  ASSUME images \in Seq(Image), Len(images) >= 1, NEW image \in Image, Change(image),
         \A i \in DOMAIN images : Sound(images[i], chosen', kept'),
         Sound(image, chosen', kept')
  PROVE  \A i \in DOMAIN images' : Sound(images'[i], chosen', kept')
  BY ChangeEffect

\* So if every image is sound after a step, the properties hold after it.
LEMMA SoundNext ==
  ASSUME \A i \in DOMAIN images' : Sound(images'[i], chosen', kept')
  PROVE  /\ RestartFindsTheActiveVersion'
         /\ AcknowledgedChoiceSurvives'
         /\ AcknowledgedVersionsAreKept'
  BY DEF Sound, RestartFindsTheActiveVersion, AcknowledgedChoiceSurvives,
     AcknowledgedVersionsAreKept

\* What a proof about one step starts from.
LEMMA Before ==
  ASSUME IInv
  PROVE  /\ images \in Seq(Image) /\ Len(images) >= 1
         /\ disk \in Image /\ Len(images) \in DOMAIN images
         /\ Sound(disk, chosen, kept)
         /\ \A i \in DOMAIN images : Sound(images[i], chosen, kept)
  BY DiskIsAnImage, SoundImages DEF IInv, Typed, disk

-----------------------------------------------------------------------------

LEMMA StageStep ==
  ASSUME IInv, NEW v \in Versions, Stage(v)
  PROVE  IInv'
<1> DEFINE new == [disk EXCEPT !.litter = @ + 1]
<1>1. new \in Image /\ Sound(new, chosen, kept)
  BY Before DEF Image, Sound
<1>2. /\ images' \in Seq(Image) /\ Len(images') >= 1 /\ disk' = new
      /\ \A i \in DOMAIN images' : Sound(images'[i], chosen', kept')
  BY Before, <1>1, ChangeEffect, ChangeKeepsSound DEF Stage
<1>3. Typed' /\ StepsAgree'
  BY Before, <1>2 DEF Stage, IInv, Typed, StepsAgree, Start, At, Idle, Image
<1>4. QED
  BY <1>2, <1>3, SoundNext DEF IInv

LEMMA PublishStep ==
  ASSUME IInv, Publish
  PROVE  IInv'
<1> DEFINE new == [disk EXCEPT !.dirs[op.version] = "whole", !.litter = @ - 1]
<1>1. op.version \in Versions /\ disk.litter > 0 /\ kept \subseteq Versions
  BY DEF Publish, At, IInv, Typed, StepsAgree
<1>2. new \in Image /\ Sound(new, chosen, kept) /\ new.dirs[op.version] = "whole"
  <2>1. disk \in Image /\ disk.litter - 1 \in Nat
    BY Before, <1>1 DEF Image
  <2>2. new \in Image
    BY <1>1, <2>1 DEF Image
  <2>3. QED
    BY Before, <1>1, <2>1, <2>2 DEF Image, Sound
<1>3. /\ images' \in Seq(Image) /\ Len(images') >= 1 /\ disk' = new
      /\ \A i \in DOMAIN images' : images'[i] = disk \/ images'[i] = new
  <2> HIDE DEF new
  <2>1. images' = <<disk, new>>
    BY DEF Publish, new
  <2>2. QED
    BY Before, <1>2, <2>1 DEF disk
<1>4. \A i \in DOMAIN images' : Sound(images'[i], chosen', kept')
  BY Before, <1>2, <1>3 DEF Publish
<1>5. op' = [step |-> "published", version |-> op.version] /\ UNCHANGED <<chosen, kept>>
  BY DEF Publish, Start
<1>6. Typed' /\ StepsAgree'
  BY <1>1, <1>2, <1>3, <1>5 DEF IInv, Typed, StepsAgree, At, Idle
<1>7. QED
  BY <1>4, <1>6, SoundNext DEF IInv

LEMMA StagingFailsStep ==
  ASSUME IInv, StagingFails
  PROVE  IInv'
<1> DEFINE new == [disk EXCEPT !.litter = @ - 1]
<1>1. new \in Image /\ Sound(new, chosen, kept)
  <2>1. disk.litter > 0
    BY DEF StagingFails, At, IInv, StepsAgree
  <2>2. disk \in Image /\ disk.litter - 1 \in Nat
    BY Before, <2>1 DEF Image
  <2>3. new \in Image
    BY <2>2 DEF Image
  <2>4. QED
    BY Before, <2>2 DEF Image, Sound
<1>2. op' = Idle /\ UNCHANGED <<chosen, kept>>
  BY DEF StagingFails, Finish
<1>3. /\ images' \in Seq(Image) /\ Len(images') >= 1
      /\ \A i \in DOMAIN images' : Sound(images'[i], chosen', kept')
  <2>1. CASE Change(new)
    BY Before, <1>1, <1>2, <2>1, ChangeEffect, ChangeKeepsSound
  <2>2. CASE UNCHANGED images
    BY Before, <1>2, <2>2
  <2>3. QED
    BY <2>1, <2>2 DEF StagingFails
<1>4. Typed' /\ StepsAgree'
  BY <1>2, <1>3 DEF IInv, Typed, StepsAgree, At, Idle
<1>5. QED
  BY <1>3, <1>4, SoundNext DEF IInv

\* While the pointer is on its way nothing is promised about it.
LEMMA ActivateStep ==
  ASSUME IInv, NEW v \in Versions, Activate(v)
  PROVE  IInv'
<1> DEFINE new == [disk EXCEPT !.active = v]
<1>1. new \in Image /\ Sound(new, Unknown, kept)
  BY Before DEF Activate, Opens, Image, Sound
<1>2. chosen' = Unknown /\ kept' = kept /\ op' = [step |-> "switched", version |-> v]
  BY DEF Activate, Start
<1>3. /\ images' \in Seq(Image) /\ Len(images') >= 1 /\ disk' = new
      /\ \A i \in DOMAIN images' : Sound(images'[i], chosen', kept')
  <2>1. \A i \in DOMAIN images : Sound(images[i], chosen', kept')
    BY Before, <1>2 DEF Sound
  <2>2. QED
    BY Before, <1>1, <1>2, <2>1, ChangeEffect, ChangeKeepsSound DEF Activate
<1>4. Typed' /\ StepsAgree'
  BY Before, <1>2, <1>3 DEF IInv, Typed, StepsAgree, At, Idle, Image
<1>5. QED
  BY <1>3, <1>4, SoundNext DEF IInv

LEMMA DeactivateStep ==
  ASSUME IInv, Deactivate
  PROVE  IInv'
<1> DEFINE new == [disk EXCEPT !.active = NoVersion]
<1>1. new \in Image /\ Sound(new, Unknown, kept)
  BY Before DEF Image, Sound
<1>2. chosen' = Unknown /\ kept' = kept /\ op' = [step |-> "switched", version |-> NoVersion]
  BY DEF Deactivate, Start
<1>3. /\ images' \in Seq(Image) /\ Len(images') >= 1 /\ disk' = new
      /\ \A i \in DOMAIN images' : Sound(images'[i], chosen', kept')
  <2>1. \A i \in DOMAIN images : Sound(images[i], chosen', kept')
    BY Before, <1>2 DEF Sound
  <2>2. QED
    BY Before, <1>1, <1>2, <2>1, ChangeEffect, ChangeKeepsSound DEF Deactivate
<1>4. Typed' /\ StepsAgree'
  BY Before, <1>2, <1>3 DEF IInv, Typed, StepsAgree, At, Idle, Image
<1>5. QED
  BY <1>3, <1>4, SoundNext DEF IInv

\* Only a version that is neither active nor promised any longer loses files.
LEMMA RemoveFilesStep ==
  ASSUME IInv, NEW v \in Versions, RemoveFiles(v)
  PROVE  IInv'
<1> DEFINE new == [disk EXCEPT !.dirs[v] = "torn"]
<1>1. new \in Image /\ Sound(new, chosen, kept \ {v}) /\ new.dirs[v] = "torn"
  BY Before DEF RemoveFiles, Removable, Image, Sound
<1>2. chosen' = chosen /\ kept' = kept \ {v} /\ op' = [step |-> "removing", version |-> v]
  BY DEF RemoveFiles, Start
<1>3. /\ images' \in Seq(Image) /\ Len(images') >= 1 /\ disk' = new
      /\ \A i \in DOMAIN images' : Sound(images'[i], chosen', kept')
  <2>1. \A i \in DOMAIN images : Sound(images[i], chosen', kept')
    BY Before, <1>2 DEF Sound
  <2>2. QED
    BY Before, <1>1, <1>2, <2>1, ChangeEffect, ChangeKeepsSound DEF RemoveFiles
<1>4. Typed' /\ StepsAgree'
  <2> HIDE DEF new
  <2>1. QED
    BY <1>1, <1>2, <1>3 DEF IInv, Typed, StepsAgree, At, Idle
<1>5. QED
  BY <1>3, <1>4, SoundNext DEF IInv

LEMMA RemoveDirectoryStep ==
  ASSUME IInv, RemoveDirectory
  PROVE  IInv'
<1> DEFINE new == [disk EXCEPT !.dirs[op.version] = "absent"]
<1>1. op.version \in Versions /\ disk.dirs[op.version] = "torn" /\ kept \subseteq Versions
  BY DEF RemoveDirectory, At, IInv, Typed, StepsAgree
<1>2. new \in Image /\ Sound(new, chosen, kept)
  BY Before, <1>1 DEF Image, Sound
<1>3. op' = [step |-> "removed", version |-> op.version] /\ UNCHANGED <<chosen, kept>>
  BY DEF RemoveDirectory, Start
<1>4. /\ images' \in Seq(Image) /\ Len(images') >= 1
      /\ \A i \in DOMAIN images' : Sound(images'[i], chosen', kept')
  BY Before, <1>2, <1>3, ChangeEffect, ChangeKeepsSound DEF RemoveDirectory
<1>5. Typed' /\ StepsAgree'
  BY <1>1, <1>3, <1>4 DEF IInv, Typed, StepsAgree, At, Idle
<1>6. QED
  BY <1>4, <1>5, SoundNext DEF IInv

\* An operation that gives up leaves the images and the promises alone.
LEMMA GiveUpStep ==
  ASSUME IInv, RemovalFails \/ SyncFails
  PROVE  IInv'
<1>1. op' = Idle /\ UNCHANGED <<images, chosen, kept>>
  BY DEF RemovalFails, SyncFails, Finish
<1>2. \A i \in DOMAIN images' : Sound(images'[i], chosen', kept')
  BY Before, <1>1
<1>3. Typed' /\ StepsAgree'
  BY <1>1 DEF IInv, Typed, StepsAgree, At, Idle
<1>4. QED
  BY <1>2, <1>3, SoundNext DEF IInv

\* What is acknowledged is what the only image left says.
LEMMA SyncStep ==
  ASSUME IInv, Sync
  PROVE  IInv'
<1>1. images' = <<disk>> /\ op' = Idle
  BY DEF Sync, Finish
<1>2. Sound(disk, chosen', kept')
  BY Before DEF Sync, Acknowledge, IInv, StepsAgree, At, Sound
<1>3. /\ images' \in Seq(Image) /\ Len(images') = 1
      /\ \A i \in DOMAIN images' : Sound(images'[i], chosen', kept')
  BY Before, <1>1, <1>2, OnlyImage
<1>4. /\ chosen' \in Versions \cup {NoVersion, Unknown}
      /\ kept' \subseteq Versions
  BY DEF Sync, Acknowledge, IInv, Typed, At, Idle
<1>5. Typed' /\ StepsAgree'
  BY <1>1, <1>3, <1>4 DEF Typed, StepsAgree, At, Idle
<1>6. QED
  BY <1>3, <1>5, SoundNext DEF IInv

\* Whatever a crash leaves was sound before it.
LEMMA CrashStep ==
  ASSUME IInv, Crash
  PROVE  IInv'
<1>1. PICK i \in DOMAIN images : images' = <<images[i]>>
  BY DEF Crash
<1>2. op' = Idle /\ UNCHANGED <<chosen, kept>>
  BY DEF Crash, Finish
<1>3. images[i] \in Image /\ Sound(images[i], chosen', kept')
  BY Before, <1>2
<1>4. /\ images' \in Seq(Image) /\ Len(images') = 1
      /\ \A j \in DOMAIN images' : Sound(images'[j], chosen', kept')
  BY <1>1, <1>3, OnlyImage
<1>5. Typed' /\ StepsAgree'
  BY <1>2, <1>4 DEF IInv, Typed, StepsAgree, At, Idle
<1>6. QED
  BY <1>4, <1>5, SoundNext DEF IInv

-----------------------------------------------------------------------------

\* IInv is inductive: the images, the steps and the promises stay in agreement.
LEMMA StepInv == IInv /\ [Next]_vars => IInv'
<1> SUFFICES ASSUME IInv, [Next]_vars PROVE IInv'
  OBVIOUS
<1>1. CASE \E v \in Versions : Stage(v) \/ Activate(v) \/ RemoveFiles(v)
  BY <1>1, StageStep, ActivateStep, RemoveFilesStep
<1>2. CASE Publish
  BY <1>2, PublishStep
<1>3. CASE StagingFails
  BY <1>3, StagingFailsStep
<1>4. CASE Deactivate
  BY <1>4, DeactivateStep
<1>5. CASE RemoveDirectory
  BY <1>5, RemoveDirectoryStep
<1>6. CASE RemovalFails \/ SyncFails
  BY <1>6, GiveUpStep
<1>7. CASE Sync
  BY <1>7, SyncStep
<1>8. CASE Crash
  BY <1>8, CrashStep
<1>9. CASE UNCHANGED vars
  BY <1>9 DEF vars, IInv, Typed, StepsAgree, RestartFindsTheActiveVersion,
     AcknowledgedChoiceSurvives, AcknowledgedVersionsAreKept, At, disk
<1>10. QED
  BY <1>1, <1>2, <1>3, <1>4, <1>5, <1>6, <1>7, <1>8, <1>9 DEF Next

\* In every reachable state of the store IInv holds.
THEOREM Invariant == Spec => []IInv
<1>1. Init => IInv
  BY InitInv
<1>2. IInv /\ [Next]_vars => IInv'
  BY StepInv
<1>3. QED
  BY <1>1, <1>2, PTL DEF Spec

\* Whatever operation is under way and whatever a crash loses, startup finds the
\* active version whole (OpenActive, WithRuleStore and WithModelStore).
THEOREM RestartAlwaysSucceeds == Spec => []RestartFindsTheActiveVersion
<1>1. IInv => RestartFindsTheActiveVersion
  BY DEF IInv
<1>2. QED
  BY <1>1, Invariant, PTL

\* An Activate or Deactivate that returned without error is not undone by a crash.
THEOREM ChoicesSurvive == Spec => []AcknowledgedChoiceSurvives
<1>1. IInv => AcknowledgedChoiceSurvives
  BY DEF IInv
<1>2. QED
  BY <1>1, Invariant, PTL

\* An Install that returned without error is not undone by a crash.
THEOREM VersionsSurvive == Spec => []AcknowledgedVersionsAreKept
<1>1. IInv => AcknowledgedVersionsAreKept
  BY DEF IInv
<1>2. QED
  BY <1>1, Invariant, PTL

\* Nothing that an operation acknowledged is undone by a crash.
THEOREM ChangesSurvive == Spec => []AcknowledgedChangesSurvive
<1>1. IInv => AcknowledgedChangesSurvive
  BY DEF IInv, AcknowledgedChangesSurvive
<1>2. QED
  BY <1>1, Invariant, PTL

-----------------------------------------------------------------------------
(* Steps on the store *)

\* The handlers, and the end of a core, change the store by its operations.
LEMMA StoreSteps ==
  ASSUME Tasks, [ControlNext]_controlVars
  PROVE  [Next]_vars
<1>1. ASSUME NEW h \in Handlers, HandlerStep(h)
      PROVE  [Next]_vars
  <2>1. CASE SwitchRules(h)
    <3>1. CASE Activate(task[h].version)
      BY <2>1, <3>1 DEF SwitchRules, Tasks, Next
    <3>2. QED
      BY <2>1, <3>1 DEF SwitchRules, artifactVars, vars
  <2>2. CASE DropRules(h)
    BY <2>2 DEF DropRules, Next, artifactVars, vars
  <2>3. CASE Switched(h)
    BY <2>3 DEF Switched, Next
  <2>4. CASE InstallRulePack(h)
    BY <2>4 DEF InstallRulePack, Next
  <2>5. CASE RemoveRulePack(h)
    BY <2>5 DEF RemoveRulePack, Next
  <2>6. CASE UNCHANGED artifactVars
    BY <2>6 DEF artifactVars, vars
  <2>7. QED
    BY <1>1, <2>1, <2>2, <2>3, <2>4, <2>5, <2>6
       DEF HandlerStep, ActivateRulePack, DeactivateRulePack, ReplaceScanner,
           UpdatePolicy, SavePolicy
<1>2. CASE CoreDies
  BY <1>2 DEF CoreDies, Next
<1>3. CASE SwitchModel \/ StartCore \/ UNCHANGED controlVars
  BY <1>3 DEF SwitchModel, PutModel, StartCore, controlVars, artifactVars, vars
<1>4. QED
  BY <1>1, <1>2, <1>3 DEF ControlNext

-----------------------------------------------------------------------------
(* Steps of a handler *)

\* When the store has just one image it is on its disk.
LEMMA ChosenIsActive ==
  ASSUME IInv, chosen # Unknown
  PROVE  disk.active = chosen
BY Before DEF IInv, AcknowledgedChoiceSurvives, disk

\* What a step that leaves scanner, model and policy alone has to show.
LEMMA TaskStep ==
  ASSUME ControlIInv, IInv', NEW h \in Handlers, up, up' = up,
         UNCHANGED scannerVars, UNCHANGED policyVars,
         NEW new \in Task, task' = [task EXCEPT ![h] = new],
         new.step = "read" => new.version = NoVersion,
         new.step = "built" => new.version \in Versions,
         new.step \in Switching => new.model = semantic \/ new.overtaken,
         Exclusion',
         chosen' # Unknown =>
           \/ chosen' = chosen /\ ~Does(h, "switched") /\ new.step # "switched"
           \/ new.step = "switched" /\ new.version = chosen' /\ h \in Holders'
  PROVE  ControlIInv'
<1>1. /\ task' \in [Handlers -> Task]
      /\ task'[h] = new
      /\ \A g \in Handlers : g # h => task'[g] = task[g]
  BY DEF ControlIInv, Tasks
<1>2. Tasks'
  BY <1>1 DEF ControlIInv, Tasks, Does
<1>3. ModelsFollow'
  BY <1>1 DEF ControlIInv, ModelsFollow, ScannerUsesTheLoadedModel, scannerVars
<1>4. PolicyFollows'
  BY DEF ControlIInv, PolicyFollows, AcknowledgedPolicyIsInForce, policyVars
<1>5. RulesFollow'
  <2> SUFFICES ASSUME chosen' # Unknown
               PROVE  /\ \A g \in Handlers : Does(g, "switched")' => task'[g].version = chosen'
                      /\ \/ scanner.rules = chosen'
                         \/ \E g \in Handlers : Does(g, "switched")'
    BY DEF RulesFollow, scannerVars
  <2>1. CASE chosen' = chosen /\ ~Does(h, "switched") /\ new.step # "switched"
    BY <1>1, <2>1 DEF ControlIInv, RulesFollow, Does
  <2>2. CASE new.step = "switched" /\ new.version = chosen' /\ h \in Holders'
    BY <1>1, <2>2 DEF Exclusion, Holders, Does
  <2>3. QED
    BY <2>1, <2>2
<1>6. QED
  BY <1>2, <1>3, <1>4, <1>5 DEF ControlIInv, scannerVars

\* Who may take scannerMu, who may change the store's operation, and what the
\* goroutine behind the operation waits for.
LEMMA ExclusionStep ==
  ASSUME Exclusion, task \in [Handlers -> Task],
         NEW h \in Handlers, NEW new \in Task, task' = [task EXCEPT ![h] = new],
         new.step \in Holding => ScannerUnlocked \/ h \in Holders,
         new.step \in Operating => At("idle") \/ h \in Operators,
         op' = op \/ At("idle") \/ h \in Operators,
         At("idle")' => new.step \notin Operating,
         new.step = "switching" => At("switched")' /\ op'.version = new.version,
         new.step = "installing" => op'.step \in {"staging", "published"},
         new.step = "removing" => op'.step \in {"removing", "removed"}
  PROVE  Exclusion'
<1>1. /\ task'[h] = new
      /\ \A g \in Handlers : g # h => task'[g] = task[g]
  OBVIOUS
<1>2. \A f, g \in Holders' : f = g
  BY <1>1 DEF Exclusion, Holders, ScannerUnlocked
<1>3. At("idle") \/ h \in Operators => \A g \in Handlers : g # h => g \notin Operators
  BY DEF Exclusion
<1>4. \A f, g \in Operators' : f = g
  BY <1>1, <1>3 DEF Exclusion, Operators
<1>5. At("idle")' => Operators' = {}
  BY <1>1, <1>3 DEF Exclusion, Operators, At
<1>6. \A g \in Handlers :
        /\ Does(g, "switching")' => At("switched")' /\ op'.version = task'[g].version
        /\ Does(g, "installing")' => op'.step \in {"staging", "published"}
        /\ Does(g, "removing")' => op'.step \in {"removing", "removed"}
  <2> TAKE g \in Handlers
  <2>1. CASE g = h
    BY <1>1, <2>1 DEF Does
  <2>2. CASE g # h /\ op' = op
    BY <1>1, <2>2 DEF Exclusion, Does, At
  <2>3. CASE g # h /\ g \notin Operators
    BY <1>1, <2>3 DEF Operators, Operating, Does
  <2>4. QED
    BY <1>3, <2>1, <2>2, <2>3
<1>7. QED
  BY <1>2, <1>4, <1>5, <1>6 DEF Exclusion

\* A goroutine in some step has the task of that step.
LEMMA TaskOf ==
  ASSUME task \in [Handlers -> Task], NEW h \in Handlers
  PROVE  /\ task[h] \in Task
         /\ task[h].step \in Switching =>
              /\ task[h].version \in Versions \cup {NoVersion}
              /\ task[h].model \in Models \cup {NoModel}
              /\ task[h].overtaken \in BOOLEAN
              /\ \A step \in Switching :
                   /\ [task[h] EXCEPT !.step = step] \in Task
                   /\ [task[h] EXCEPT !.step = step].step = step
                   /\ [task[h] EXCEPT !.step = step].version = task[h].version
                   /\ [task[h] EXCEPT !.step = step].model = task[h].model
                   /\ [task[h] EXCEPT !.step = step].overtaken = task[h].overtaken
         /\ Resting \in Task /\ Resting.step = "resting"
  BY DEF Task, Switching, Resting

-----------------------------------------------------------------------------
(* Rule packs *)

\* What the invariant says where the step of a handler starts.
LEMMA AtTheStart ==
  ASSUME ControlIInv
  PROVE  /\ IInv /\ Exclusion
         /\ task \in [Handlers -> Task]
         /\ semantic \in Models \cup {NoModel}
  BY DEF ControlIInv, Tasks

LEMMA BuildStep ==
  ASSUME ControlIInv, IInv', NEW h \in Handlers, up,
         ActivateRulePack(h) \/ DeactivateRulePack(h)
  PROVE  ControlIInv'
<1> USE AtTheStart
<1>1. PICK step \in {"built", "read"}, v \in Versions \cup {NoVersion} :
        /\ Does(h, "resting") /\ Build(h, step, v)
        /\ step = "built" => ScannerUnlocked /\ v \in Versions
        /\ step = "read" => v = NoVersion
  BY DEF ActivateRulePack, DeactivateRulePack
<1>2. UNCHANGED <<artifactVars, up, scannerVars, policyVars>>
  BY DEF ActivateRulePack, DeactivateRulePack
<1> DEFINE new == [step |-> step, version |-> v, model |-> semantic, overtaken |-> FALSE]
<1>3. new \in Task /\ task' = [task EXCEPT ![h] = new]
  BY <1>1 DEF Task, Switching, Build
<1>4. /\ new.step = step /\ new.version = v /\ new.model = semantic
      /\ h \notin Operators /\ ~Does(h, "switched")
  BY <1>1 DEF Operators, Operating, Does
<1>5. step \notin Operating /\ (step \in Holding => ScannerUnlocked)
  BY <1>1 DEF Operating, Holding
<1>6. op' = op /\ chosen' = chosen /\ At("idle")' = At("idle")
  BY <1>2 DEF artifactVars, At
<1> HIDE DEF new
<1>7. Exclusion'
  BY <1>1, <1>3, <1>4, <1>5, <1>6, ExclusionStep DEF Operating
<1>8. QED
  BY <1>1, <1>2, <1>3, <1>4, <1>6, <1>7, TaskStep

\* A handler that gives up, or is done with the store, leaves the rest alone.
LEMMA RestStep ==
  ASSUME ControlIInv, IInv', NEW h \in Handlers, up, up' = up, Rest(h),
         UNCHANGED scannerVars, UNCHANGED policyVars,
         ~Does(h, "switched"), chosen' = chosen,
         (op' = op /\ h \notin Operators) \/ h \in Operators
  PROVE  ControlIInv'
<1> USE AtTheStart
<1>1. /\ Resting \in Task /\ Resting.step = "resting"
      /\ Resting.step \notin Operating /\ Resting.step \notin Holding
      /\ Resting.step \notin Switching
  BY DEF Resting, Task, Operating, Holding, Switching
<1>2. Exclusion'
  BY <1>1, ExclusionStep DEF Rest
<1>3. QED
  BY <1>1, <1>2, TaskStep DEF Rest

LEMMA SwitchRulesStep ==
  ASSUME ControlIInv, IInv', NEW h \in Handlers, up, SwitchRules(h)
  PROVE  ControlIInv'
<1> USE AtTheStart
<1>1. /\ Does(h, "built") /\ UNCHANGED <<up, scannerVars, policyVars>>
      /\ h \notin Operators /\ h \in Holders /\ ~Does(h, "switched")
  BY DEF SwitchRules, Operators, Operating, Holders, Holding, Does
<1>2. CASE UNCHANGED artifactVars /\ Rest(h)
  BY <1>1, <1>2, RestStep DEF artifactVars
<1>3. CASE Activate(task[h].version) /\ task' = [task EXCEPT ![h].step = "switching"]
  <2> DEFINE new == [task[h] EXCEPT !.step = "switching"]
  <2>1. /\ new \in Task /\ new.step = "switching" /\ task' = [task EXCEPT ![h] = new]
        /\ new.version = task[h].version /\ new.model = task[h].model
        /\ new.overtaken = task[h].overtaken
    BY <1>1, <1>3, TaskOf DEF Does, Switching
  <2>2. task[h].model = semantic \/ task[h].overtaken
    BY <1>1 DEF ControlIInv, ModelsFollow, Does, Switching
  <2>3. /\ At("idle") /\ ~At("idle")' /\ At("switched")'
        /\ op'.version = task[h].version /\ chosen' = Unknown
    BY <1>3 DEF Activate, Start, At
  <2> HIDE DEF new
  <2>4. Exclusion'
    BY <1>1, <2>1, <2>3, ExclusionStep
  <2>5. QED
    BY <1>1, <2>1, <2>2, <2>3, <2>4, TaskStep
<1>4. QED
  BY <1>2, <1>3 DEF SwitchRules

LEMMA DropRulesStep ==
  ASSUME ControlIInv, IInv', NEW h \in Handlers, up, DropRules(h)
  PROVE  ControlIInv'
<1> USE AtTheStart
<1>1. /\ Does(h, "read") /\ ScannerUnlocked /\ UNCHANGED <<up, scannerVars, policyVars>>
      /\ h \notin Operators /\ ~Does(h, "switched") /\ task[h].version = NoVersion
  BY DEF DropRules, Operators, Operating, Does, ControlIInv, Tasks
<1>2. task[h].model = semantic \/ task[h].overtaken
  BY <1>1 DEF ControlIInv, ModelsFollow, Does, Switching
<1>3. CASE UNCHANGED artifactVars /\ Rest(h)
  BY <1>1, <1>3, RestStep DEF artifactVars
<1>4. CASE Deactivate /\ task' = [task EXCEPT ![h].step = "switching"]
  <2> DEFINE new == [task[h] EXCEPT !.step = "switching"]
  <2>1. /\ new \in Task /\ new.step = "switching" /\ task' = [task EXCEPT ![h] = new]
        /\ new.version = task[h].version /\ new.model = task[h].model
        /\ new.overtaken = task[h].overtaken
    BY <1>1, <1>4, TaskOf DEF Does, Switching
  <2>2. /\ At("idle") /\ ~At("idle")' /\ At("switched")'
        /\ op'.version = NoVersion /\ chosen' = Unknown
    BY <1>4 DEF Deactivate, Start, At
  <2> HIDE DEF new
  <2>3. Exclusion'
    BY <1>1, <2>1, <2>2, ExclusionStep
  <2>4. QED
    BY <1>1, <1>2, <2>1, <2>2, <2>3, TaskStep
<1>5. CASE /\ At("idle") /\ disk.active = NoVersion
           /\ task' = [task EXCEPT ![h].step = "switched"]
           /\ UNCHANGED artifactVars
  <2> DEFINE new == [task[h] EXCEPT !.step = "switched"]
  <2>1. /\ new \in Task /\ new.step = "switched" /\ task' = [task EXCEPT ![h] = new]
        /\ new.version = task[h].version /\ new.model = task[h].model
        /\ new.overtaken = task[h].overtaken
    BY <1>1, <1>5, TaskOf DEF Does, Switching
  <2>2. /\ new.step \notin Operating /\ h \in Holders'
    BY <2>1 DEF Operating, Holders, Holding
  <2>3. op' = op /\ chosen' = chosen /\ (chosen # Unknown => chosen = NoVersion)
    BY <1>5, ChosenIsActive DEF artifactVars
  <2> HIDE DEF new
  <2>4. Exclusion'
    BY <1>1, <1>5, <2>1, <2>2, <2>3, ExclusionStep
  <2>5. QED
    BY <1>1, <1>2, <2>1, <2>2, <2>3, <2>4, TaskStep
<1>6. QED
  BY <1>3, <1>4, <1>5 DEF DropRules

\* The store acknowledges the version of the goroutine that waits for it.
LEMMA SwitchedStep ==
  ASSUME ControlIInv, IInv', NEW h \in Handlers, up, Switched(h)
  PROVE  ControlIInv'
<1> USE AtTheStart
<1>1. /\ Does(h, "switching") /\ UNCHANGED <<up, scannerVars, policyVars>>
      /\ h \in Operators /\ h \in Holders /\ ~Does(h, "switched")
      /\ At("switched") /\ op.version = task[h].version
  BY DEF Switched, Operators, Operating, Holders, Holding, Does, Exclusion
<1>2. CASE SyncFails /\ Rest(h)
  BY <1>1, <1>2, RestStep DEF SyncFails
<1>3. CASE Sync /\ task' = [task EXCEPT ![h].step = "switched"]
  <2> DEFINE new == [task[h] EXCEPT !.step = "switched"]
  <2>1. /\ new \in Task /\ new.step = "switched" /\ task' = [task EXCEPT ![h] = new]
        /\ new.version = task[h].version /\ new.model = task[h].model
        /\ new.overtaken = task[h].overtaken
    BY <1>1, <1>3, TaskOf DEF Does, Switching
  <2>2. /\ new.step \notin Operating /\ h \in Holders'
    BY <2>1 DEF Operating, Holders, Holding
  <2>3. chosen' = task[h].version
    BY <1>1, <1>3 DEF Sync, Acknowledge
  <2>4. task[h].model = semantic \/ task[h].overtaken
    BY <1>1 DEF ControlIInv, ModelsFollow, Does, Switching
  <2> HIDE DEF new
  <2>5. Exclusion'
    BY <1>1, <2>1, <2>2, ExclusionStep
  <2>6. QED
    BY <1>1, <2>1, <2>2, <2>3, <2>4, <2>5, TaskStep
<1>4. QED
  BY <1>2, <1>3 DEF Switched

\* Putting the scanner in place settles what the switch owed.
LEMMA ReplaceScannerStep ==
  ASSUME ControlIInv, IInv', NEW h \in Handlers, up, ReplaceScanner(h)
  PROVE  ControlIInv'
<1> USE AtTheStart
<1>1. /\ Does(h, "switched") /\ Rest(h) /\ h \notin Operators /\ h \in Holders
      /\ scanner' = [rules |-> task[h].version, model |-> task[h].model]
      /\ raced' = task[h].overtaken
      /\ UNCHANGED <<up, semantic, modelFile>> /\ UNCHANGED policyVars
      /\ op' = op /\ chosen' = chosen
  BY DEF ReplaceScanner, artifactVars, Operators, Operating, Holders, Holding, Does
<1>2. /\ task[h].version \in Versions \cup {NoVersion}
      /\ task[h].model \in Models \cup {NoModel}
      /\ task[h].overtaken \in BOOLEAN
  BY <1>1, TaskOf DEF Does, Switching
<1>3. task[h].model = semantic \/ task[h].overtaken
  BY <1>1 DEF ControlIInv, ModelsFollow, Does, Switching
<1>4. /\ Resting \in Task /\ Resting.step = "resting"
      /\ Resting.step \notin Operating /\ Resting.step \notin Holding
      /\ Resting.step \notin Switching
  BY DEF Resting, Task, Operating, Holding, Switching
<1>5. /\ task' \in [Handlers -> Task] /\ task'[h] = Resting
      /\ \A g \in Handlers : g # h => task'[g] = task[g]
  BY <1>1, <1>4 DEF Rest
<1>6. Exclusion'
  BY <1>1, <1>4, ExclusionStep DEF Rest
<1>7. Tasks'
  BY <1>1, <1>4, <1>5 DEF ControlIInv, Tasks, Does
<1>8. ModelsFollow'
  BY <1>1, <1>3, <1>4, <1>5 DEF ControlIInv, ModelsFollow, ScannerUsesTheLoadedModel
<1>9. PolicyFollows'
  BY <1>1 DEF ControlIInv, PolicyFollows, AcknowledgedPolicyIsInForce, policyVars
<1>10. RulesFollow'
  <2>1. \A g \in Handlers : ~Does(g, "switched")'
    BY <1>1, <1>4, <1>5 DEF Exclusion, Holders, Holding, Does
  <2>2. chosen # Unknown => task[h].version = chosen
    BY <1>1 DEF ControlIInv, RulesFollow
  <2>3. QED
    BY <1>1, <2>1, <2>2 DEF RulesFollow
<1>11. QED
  BY <1>1, <1>2, <1>6, <1>7, <1>8, <1>9, <1>10 DEF ControlIInv

\* Neither an installation nor a removal changes the choice.
LEMMA InstallStep ==
  ASSUME ControlIInv, IInv', NEW h \in Handlers, up, InstallRulePack(h)
  PROVE  ControlIInv'
<1> USE AtTheStart
<1>1. UNCHANGED <<up, scannerVars, policyVars>> /\ ~Does(h, "switched")
  BY DEF InstallRulePack, Does
<1>2. ASSUME Does(h, "resting"), NEW v \in Versions, Stage(v),
             task' = [task EXCEPT ![h] = [step |-> "installing"]]
      PROVE  ControlIInv'
  <2> DEFINE new == [step |-> "installing"]
  <2>1. /\ new \in Task /\ new.step = "installing" /\ task' = [task EXCEPT ![h] = new]
        /\ new.step \notin Holding /\ new.step \notin Switching
    BY <1>2 DEF Task, Holding, Switching
  <2>2. /\ At("idle") /\ ~At("idle")' /\ op'.step = "staging" /\ chosen' = chosen
    BY <1>2 DEF Stage, Start, At
  <2> HIDE DEF new
  <2>3. Exclusion'
    BY <2>1, <2>2, ExclusionStep
  <2>4. QED
    BY <1>1, <2>1, <2>2, <2>3, TaskStep
<1>3. CASE Does(h, "installing") /\ Publish /\ UNCHANGED task
  <2>1. /\ task[h] \in Task /\ task' = [task EXCEPT ![h] = task[h]]
        /\ task[h].step = "installing" /\ h \in Operators
        /\ task[h].step \notin Holding /\ task[h].step \notin Switching
    BY <1>3 DEF Does, Operators, Operating, Holding, Switching
  <2>2. ~At("idle")' /\ op'.step = "published" /\ chosen' = chosen
    BY <1>3 DEF Publish, Start, At
  <2>3. Exclusion'
    BY <2>1, <2>2, ExclusionStep
  <2>4. QED
    BY <1>1, <2>1, <2>2, <2>3, TaskStep
<1>4. CASE /\ Does(h, "installing")
           /\ StagingFails \/ (At("published") /\ (Sync \/ SyncFails))
           /\ Rest(h)
  <2>1. h \in Operators
    BY <1>4 DEF Does, Operators, Operating
  <2>2. chosen' = chosen
    BY <1>4 DEF StagingFails, Sync, SyncFails, Acknowledge, At
  <2>3. QED
    BY <1>1, <1>4, <2>1, <2>2, RestStep
<1>5. QED
  BY <1>2, <1>3, <1>4 DEF InstallRulePack

LEMMA RemoveStep ==
  ASSUME ControlIInv, IInv', NEW h \in Handlers, up, RemoveRulePack(h)
  PROVE  ControlIInv'
<1> USE AtTheStart
<1>1. UNCHANGED <<up, scannerVars, policyVars>> /\ ~Does(h, "switched")
  BY DEF RemoveRulePack, Does
<1>2. ASSUME Does(h, "resting"), ScannerUnlocked, NEW v \in Versions, RemoveFiles(v),
             task' = [task EXCEPT ![h] = [step |-> "removing"]]
      PROVE  ControlIInv'
  <2> DEFINE new == [step |-> "removing"]
  <2>1. /\ new \in Task /\ new.step = "removing" /\ task' = [task EXCEPT ![h] = new]
        /\ new.step \notin Switching
    BY <1>2 DEF Task, Switching
  <2>2. /\ At("idle") /\ ~At("idle")' /\ op'.step = "removing" /\ chosen' = chosen
    BY <1>2 DEF RemoveFiles, Start, At
  <2> HIDE DEF new
  <2>3. Exclusion'
    BY <1>2, <2>1, <2>2, ExclusionStep
  <2>4. QED
    BY <1>1, <2>1, <2>2, <2>3, TaskStep
<1>3. CASE Does(h, "removing") /\ RemoveDirectory /\ UNCHANGED task
  <2>1. /\ task[h] \in Task /\ task' = [task EXCEPT ![h] = task[h]]
        /\ task[h].step = "removing" /\ h \in Operators /\ h \in Holders
        /\ task[h].step \notin Switching
    BY <1>3 DEF Does, Operators, Operating, Holders, Holding, Switching
  <2>2. ~At("idle")' /\ op'.step = "removed" /\ chosen' = chosen
    BY <1>3 DEF RemoveDirectory, Start, At
  <2>3. Exclusion'
    BY <2>1, <2>2, ExclusionStep
  <2>4. QED
    BY <1>1, <2>1, <2>2, <2>3, TaskStep
<1>4. CASE /\ Does(h, "removing")
           /\ RemovalFails \/ (At("removed") /\ (Sync \/ SyncFails))
           /\ Rest(h)
  <2>1. h \in Operators
    BY <1>4 DEF Does, Operators, Operating
  <2>2. chosen' = chosen
    BY <1>4 DEF RemovalFails, Sync, SyncFails, Acknowledge, At
  <2>3. QED
    BY <1>1, <1>4, <2>1, <2>2, RestStep
<1>5. QED
  BY <1>2, <1>3, <1>4 DEF RemoveRulePack

-----------------------------------------------------------------------------
(* Models and the policy *)

\* A new model reaches every scanner that is being built, or marks it.
LEMMA SwitchModelStep ==
  ASSUME ControlIInv, IInv', SwitchModel
  PROVE  ControlIInv'
<1> USE AtTheStart
<1>1. /\ up /\ ScannerUnlocked /\ UNCHANGED artifactVars /\ UNCHANGED <<up, policyVars>>
      /\ op' = op /\ chosen' = chosen
  BY DEF SwitchModel, PutModel, artifactVars
<1>2. PICK m \in Models \cup {NoModel} :
        /\ modelFile' = m
        /\ \/ /\ semantic' = m
              /\ scanner' = [rules |-> disk.active, model |-> m]
              /\ raced' = FALSE
              /\ Overtake
           \/ UNCHANGED <<semantic, scanner, raced, task>>
  BY DEF SwitchModel, PutModel
<1>3. PolicyFollows'
  BY <1>1 DEF ControlIInv, PolicyFollows, AcknowledgedPolicyIsInForce, policyVars
<1>4. CASE UNCHANGED <<semantic, scanner, raced, task>>
  <2>1. Tasks'
    BY <1>1, <1>4 DEF ControlIInv, Tasks, Does
  <2>2. Exclusion'
    BY <1>1, <1>4 DEF Exclusion, Holders, Operators, Does, At
  <2>3. RulesFollow' /\ ModelsFollow'
    BY <1>1, <1>4 DEF ControlIInv, RulesFollow, ModelsFollow,
       ScannerUsesTheLoadedModel, Does
  <2>4. QED
    BY <1>1, <1>2, <1>3, <1>4, <2>1, <2>2, <2>3 DEF ControlIInv
<1>5. CASE /\ semantic' = m
           /\ scanner' = [rules |-> disk.active, model |-> m]
           /\ raced' = FALSE
           /\ Overtake
  <2>1. \A h \in Handlers :
          /\ task'[h] \in Task
          /\ task'[h].step = task[h].step
          /\ ~Does(h, "read") => task'[h] = task[h]
          /\ Does(h, "read") => task'[h].version = task[h].version /\ task'[h].overtaken
    <3> TAKE h \in Handlers
    <3>1. CASE Does(h, "read")
      <4>1. task'[h] = [task[h] EXCEPT !.overtaken = TRUE]
        BY <1>5, <3>1 DEF Overtake
      <4>2. task[h] \in [step : Switching, version : Versions \cup {NoVersion},
                         model : Models \cup {NoModel}, overtaken : BOOLEAN]
        BY <3>1 DEF Task, Resting, Does
      <4>3. QED
        BY <3>1, <4>1, <4>2 DEF Task
    <3>2. CASE ~Does(h, "read")
      BY <1>5, <3>2, TaskOf DEF Overtake
    <3>3. QED
      BY <3>1, <3>2
  <2>2. task' \in [Handlers -> Task]
    BY <1>5, <2>1 DEF Overtake
  <2>3. Tasks'
    BY <1>1, <2>1, <2>2 DEF ControlIInv, Tasks, Does
  <2>4. Exclusion'
    <3>1. Holders' = Holders /\ Operators' = Operators
      BY <2>1 DEF Holders, Operators
    <3>2. \A h \in Handlers : Does(h, "switching") => task'[h].version = task[h].version
      BY <2>1 DEF Does
    <3>3. QED
      BY <1>1, <2>1, <3>1, <3>2 DEF Exclusion, Does, At
  <2>5. ModelsFollow'
    <3>1. \A h \in Handlers : task'[h].step \in Switching => Does(h, "read")
      BY <1>1, <2>1 DEF ScannerUnlocked, Holding, Switching, Does
    <3>2. QED
      BY <1>5, <2>1, <3>1 DEF ModelsFollow, ScannerUsesTheLoadedModel
  <2>6. RulesFollow'
    <3>1. \A h \in Handlers : ~Does(h, "switched")'
      BY <1>1, <2>1 DEF ScannerUnlocked, Holding, Does
    <3>2. chosen # Unknown => scanner'.rules = chosen
      BY <1>5, ChosenIsActive
    <3>3. QED
      BY <1>1, <3>1, <3>2 DEF RulesFollow
  <2>7. QED
    BY <1>1, <1>2, <1>3, <1>5, <2>3, <2>4, <2>5, <2>6 DEF ControlIInv
<1>6. QED
  BY <1>2, <1>4, <1>5

\* A policy is agreed only when its file is on the disk and the engine runs it.
LEMMA PolicyStep ==
  ASSUME ControlIInv, IInv', NEW h \in Handlers, up, UpdatePolicy(h) \/ SavePolicy(h)
  PROVE  ControlIInv'
<1> USE AtTheStart
<1>1. /\ up' = up /\ UNCHANGED artifactVars /\ UNCHANGED scannerVars
      /\ op' = op /\ chosen' = chosen /\ ~Does(h, "switched") /\ h \notin Operators
  BY DEF UpdatePolicy, SavePolicy, artifactVars, Operators, Operating, Does
<1>2. PICK new \in {Resting, [step |-> "saving"]} : task' = [task EXCEPT ![h] = new]
  BY DEF UpdatePolicy, SavePolicy, Rest
<1>3. /\ new \in Task /\ new.step \in {"resting", "saving"}
      /\ new.step \notin Operating /\ new.step \notin Holding
      /\ new.step \notin Switching
  BY DEF Task, Resting, Operating, Holding, Switching
<1>4. /\ task' \in [Handlers -> Task] /\ task'[h] = new
      /\ \A g \in Handlers : g # h => task'[g] = task[g]
  BY <1>2, <1>3
<1>5. Exclusion'
  BY <1>1, <1>2, <1>3, ExclusionStep
<1>6. Tasks'
  BY <1>1, <1>3, <1>4 DEF ControlIInv, Tasks, Does
<1>7. ModelsFollow' /\ RulesFollow'
  BY <1>1, <1>3, <1>4 DEF ControlIInv, ModelsFollow, RulesFollow,
     ScannerUsesTheLoadedModel, scannerVars, Does
<1>8. PolicyFollows'
  BY DEF UpdatePolicy, SavePolicy, policyVars, ControlIInv, PolicyFollows,
     AcknowledgedPolicyIsInForce
<1>9. QED
  BY <1>1, <1>5, <1>6, <1>7, <1>8 DEF ControlIInv, scannerVars

-----------------------------------------------------------------------------
(* The life of a core *)

\* A new core configures itself from what the last one left on disk.
LEMMA StartStep ==
  ASSUME ControlIInv, IInv', StartCore
  PROVE  ControlIInv'
<1> USE AtTheStart
<1>1. /\ ~up /\ up' = TRUE /\ UNCHANGED artifactVars /\ UNCHANGED <<task, modelFile>>
      /\ semantic' = modelFile /\ raced' = FALSE
      /\ scanner' = [rules |-> disk.active, model |-> modelFile]
      /\ op' = op /\ chosen' = chosen
  BY DEF StartCore, artifactVars
<1>2. \A h \in Handlers : task[h] = Resting
  BY <1>1 DEF ControlIInv, Tasks
<1>3. Tasks'
  BY <1>1, <1>2 DEF ControlIInv, Tasks, Does
<1>4. Exclusion'
  BY <1>1 DEF Exclusion, Holders, Operators, Does, At
<1>5. \A h \in Handlers : task'[h].step = "resting"
  BY <1>1, <1>2 DEF Resting
<1>6. ModelsFollow'
  BY <1>1, <1>5 DEF ModelsFollow, ScannerUsesTheLoadedModel, Switching
<1>7. RulesFollow'
  BY <1>1, <1>5, ChosenIsActive DEF RulesFollow, Does
<1>8. PolicyFollows'
  BY <1>1 DEF StartCore, ConfigurePolicy, ControlIInv, PolicyFollows,
     AcknowledgedPolicyIsInForce
<1>9. QED
  BY <1>1, <1>3, <1>4, <1>6, <1>7, <1>8 DEF ControlIInv

\* Whatever a core was doing when it died, nothing holds the locks any more.
LEMMA DeathStep ==
  ASSUME ControlIInv, IInv', CoreDies
  PROVE  ControlIInv'
<1> USE AtTheStart
<1>1. /\ up /\ up' = FALSE /\ UNCHANGED scannerVars /\ UNCHANGED <<policy, agreed>>
      /\ task' = [h \in Handlers |-> Resting]
      /\ At("idle")'
  BY DEF CoreDies, Crash, Finish, Idle, At
<1>2. Resting \in Task /\ Resting.step = "resting"
  BY DEF Task, Resting
<1>3. Tasks'
  BY <1>1, <1>2 DEF Tasks, Does
<1>4. Exclusion'
  BY <1>1, <1>2 DEF Exclusion, Holders, Holding, Operators, Operating, Does
<1>5. RulesFollow' /\ ModelsFollow'
  BY <1>1, <1>2 DEF RulesFollow, ModelsFollow, ScannerUsesTheLoadedModel, Switching
<1>6. PolicyFollows'
  BY <1>1 DEF CoreDies, ControlIInv, PolicyFollows, AcknowledgedPolicyIsInForce
<1>7. QED
  BY <1>1, <1>3, <1>4, <1>5, <1>6 DEF ControlIInv, scannerVars

-----------------------------------------------------------------------------
(* The invariant *)

LEMMA ControlInitInv == ControlInit => ControlIInv
<1> SUFFICES ASSUME ControlInit PROVE ControlIInv
  OBVIOUS
<1>1. IInv
  BY InitInv DEF ControlInit
<1>2. Resting \in Task /\ Resting.step = "resting"
  BY DEF Task, Resting
<1>3. \A h \in Handlers : task[h] = Resting
  BY DEF ControlInit
<1>4. Tasks
  BY <1>2, <1>3 DEF ControlInit, Tasks, Does
<1>5. Exclusion
  BY <1>2, <1>3 DEF Exclusion, Holders, Holding, Operators, Operating, Does
<1>6. RulesFollow /\ ModelsFollow
  BY <1>2, <1>3 DEF ControlInit, RulesFollow, ModelsFollow,
     ScannerUsesTheLoadedModel, Switching
<1>7. PolicyFollows
  BY DEF ControlInit, PolicyFollows, AcknowledgedPolicyIsInForce
<1>8. QED
  BY <1>1, <1>4, <1>5, <1>6, <1>7 DEF ControlInit, ControlIInv

LEMMA ControlStepInv ==
  ASSUME ControlIInv, [ControlNext]_controlVars
  PROVE  ControlIInv'
<1>1. IInv'
  BY StoreSteps, StepInv DEF ControlIInv
<1>2. ASSUME up, NEW h \in Handlers, HandlerStep(h)
      PROVE  ControlIInv'
  BY <1>1, <1>2, BuildStep, SwitchRulesStep, DropRulesStep, SwitchedStep,
     ReplaceScannerStep, InstallStep, RemoveStep, PolicyStep DEF HandlerStep
<1>3. CASE SwitchModel
  BY <1>1, <1>3, SwitchModelStep
<1>4. CASE StartCore
  BY <1>1, <1>4, StartStep
<1>5. CASE CoreDies
  BY <1>1, <1>5, DeathStep
<1>6. CASE UNCHANGED controlVars
  BY <1>1, <1>6 DEF controlVars, artifactVars, policyVars, scannerVars, ControlIInv,
     Tasks, Exclusion, Holders, Operators, RulesFollow, ModelsFollow, PolicyFollows,
     ScannerUsesTheLoadedModel, AcknowledgedPolicyIsInForce, Does, At
<1>7. QED
  BY <1>2, <1>3, <1>4, <1>5, <1>6 DEF ControlNext

\* In every behaviour of the handlers, the models and the restarts, the
\* inductive invariant holds.
THEOREM ControlInvariant == ControlSpec => []ControlIInv
<1>1. QED
  BY ControlInitInv, ControlStepInv, PTL DEF ControlSpec

\* Between switches requests are scanned with the rules the store acknowledged
\* last and the model the core reports, however handlers, switches of the model,
\* failures and restarts interleave.
THEOREM ScannerAlwaysFollows == ControlSpec => []ScannerFollowsItsChoices
<1>1. ControlIInv => ScannerFollowsItsChoices
  BY DEF ControlIInv, RulesFollow, ModelsFollow, ScannerFollowsItsChoices,
     ScannerRunsTheChosenRules, ScannerUnlocked, Holding, Does
<1>2. QED
  BY <1>1, ControlInvariant, PTL

\* An acknowledged policy is the one in force, and all that a crash can leave.
THEOREM PolicyAlwaysInForce == ControlSpec => []AcknowledgedPolicyIsInForce
<1>1. ControlIInv => AcknowledgedPolicyIsInForce
  BY DEF ControlIInv, PolicyFollows
<1>2. QED
  BY <1>1, ControlInvariant, PTL

\* The handlers use the store as its specification allows, whatever they do at
\* the same time.
THEOREM StoreServesHandlers == ControlSpec => Spec
<1>1. ControlInit => Init
  BY DEF ControlInit
<1>2. ControlIInv /\ [ControlNext]_controlVars => [Next]_vars
  BY StoreSteps DEF ControlIInv
<1>3. QED
  BY <1>1, <1>2, ControlInvariant, PTL DEF ControlSpec, Spec

\* So under the handlers a restart always finds the active version, and nothing
\* the store acknowledged is lost.
THEOREM HandlersLoseNothing ==
  ControlSpec => [](RestartFindsTheActiveVersion /\ AcknowledgedChangesSurvive)
<1>1. QED
  BY StoreServesHandlers, RestartAlwaysSucceeds, ChangesSurvive, PTL

=============================================================================
