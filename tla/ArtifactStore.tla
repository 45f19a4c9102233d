---------------------------- MODULE ArtifactStore ----------------------------
(***************************************************************************)
(* rulestore.Store, and modelstore.Store which is built the same way: the   *)
(* signed artifacts on disk, one directory a version, and the pointer to    *)
(* the active one.                                                          *)
(*                                                                         *)
(* Every operation holds the store's lock from its first step to its last,  *)
(* so operations do not interleave, but any of them may stop half way: a    *)
(* file operation fails, or the process or the machine goes down.  Renames  *)
(* and removals reach the disk in order but late; a directory that is       *)
(* synced takes everything before it along.                                 *)
(***************************************************************************)
EXTENDS Integers, Sequences, FiniteSets

CONSTANTS
  Versions,
  NoVersion,
  MaxInstalledVersions,   \* maxInstalledVersions
  MaxUnsynced             \* bound: changes that have not reached the disk

ASSUME NoVersionAssumption == NoVersion \notin Versions
ASSUME LimitAssumption == MaxInstalledVersions \in Nat /\ MaxUnsynced \in Nat

VARIABLES
  images,   \* what a crash may leave on disk, the last being what is there now
  op,       \* the operation that holds the lock, and its step
  chosen,   \* the active version last acknowledged (history)
  kept      \* versions whose installation was acknowledged (history)

vars == <<images, op, chosen, kept>>

Unknown == "unknown"     \* an operation that changes the pointer did not finish
Idle == [step |-> "idle"]

\* dirs: of a "torn" version only some files are left.
\* litter: staging directories.
\* active: active.json.
Image ==
  [dirs : [Versions -> {"absent", "whole", "torn"}], litter : Nat,
   active : Versions \cup {NoVersion}]

disk == images[Len(images)]

Change(image) == images' = Append(images, image)
At(step) == op.step = step
Start(step, v) == op' = [step |-> step, version |-> v]
Finish == op' = Idle

-----------------------------------------------------------------------------
(* open and the checks made with it *)

\* open: the signature, the size and the digest match.
Opens(v) == disk.dirs[v] = "whole"

Present(image) == {v \in Versions : image.dirs[v] # "absent"}

\* installedEntryCount counts every entry, litter too.
Entries(image) == Cardinality(Present(image)) + image.litter

-----------------------------------------------------------------------------
(* Install *)

Stage(v) ==
  /\ At("idle") /\ Len(images) <= MaxUnsynced
  /\ disk.dirs[v] = "absent"
  /\ Entries(disk) < MaxInstalledVersions
  /\ Change([disk EXCEPT !.litter = @ + 1])
  /\ Start("staging", v)
  /\ UNCHANGED <<chosen, kept>>

\* The files are written, the staging directory is synced and renamed.
Publish ==
  /\ At("staging")
  /\ images' = <<disk, [disk EXCEPT !.dirs[op.version] = "whole", !.litter = @ - 1]>>
  /\ Start("published", op.version)
  /\ UNCHANGED <<chosen, kept>>

\* The payload is not what the manifest says, or a file operation fails; the
\* staging directory is removed, unless that fails as well.
StagingFails ==
  /\ At("staging")
  /\ \/ Change([disk EXCEPT !.litter = @ - 1])
     \/ UNCHANGED images
  /\ Finish
  /\ UNCHANGED <<chosen, kept>>

-----------------------------------------------------------------------------
(* Activate and Deactivate *)

\* The pointer is replaced with a rename.
Activate(v) ==
  /\ At("idle") /\ Len(images) <= MaxUnsynced
  /\ Opens(v)
  /\ Change([disk EXCEPT !.active = v])
  /\ Start("switched", v)
  /\ chosen' = Unknown
  /\ UNCHANGED kept

\* Without a pointer there is nothing to do and nothing to acknowledge.
Deactivate ==
  /\ At("idle") /\ Len(images) <= MaxUnsynced
  /\ disk.active # NoVersion
  /\ Change([disk EXCEPT !.active = NoVersion])
  /\ Start("switched", NoVersion)
  /\ chosen' = Unknown
  /\ UNCHANGED kept

-----------------------------------------------------------------------------
(* Remove *)

\* Faulty variant: the pointer is not looked at.
RemoveFilesUnchecked(v) ==
  /\ At("idle") /\ Len(images) <= MaxUnsynced
  /\ Opens(v)
  /\ Change([disk EXCEPT !.dirs[v] = "torn"])
  /\ Start("removing", v)
  /\ kept' = kept \ {v}
  /\ UNCHANGED chosen

Removable(v) ==
  /\ Opens(v)
  /\ disk.active # v
  /\ disk.active # NoVersion => Opens(disk.active)

\* The files go one by one, then the directory.
RemoveFiles(v) ==
  /\ At("idle") /\ Len(images) <= MaxUnsynced
  /\ Removable(v)
  /\ Change([disk EXCEPT !.dirs[v] = "torn"])
  /\ Start("removing", v)
  /\ kept' = kept \ {v}
  /\ UNCHANGED chosen

RemoveDirectory ==
  /\ At("removing")
  /\ Change([disk EXCEPT !.dirs[op.version] = "absent"])
  /\ Start("removed", op.version)
  /\ UNCHANGED <<chosen, kept>>

RemovalFails ==
  /\ At("removing")
  /\ Finish
  /\ UNCHANGED <<images, chosen, kept>>

-----------------------------------------------------------------------------
(* The end of an operation *)

Acknowledge ==
  /\ chosen' = IF At("switched") THEN op.version ELSE chosen
  /\ kept' = IF At("published") THEN kept \cup {op.version} ELSE kept

\* Faulty variant: success is reported without syncDirectory.
SyncSkipped ==
  /\ op.step \in {"published", "switched", "removed"}
  /\ UNCHANGED images
  /\ Acknowledge
  /\ Finish

\* syncDirectory, the last step of every operation.
Sync ==
  /\ op.step \in {"published", "switched", "removed"}
  /\ images' = <<disk>>
  /\ Acknowledge
  /\ Finish

\* The operation reports an error although its change is there.
SyncFails ==
  /\ op.step \in {"published", "switched", "removed"}
  /\ Finish
  /\ UNCHANGED <<images, chosen, kept>>

\* The process is killed, which loses nothing that was done, or the machine
\* goes down, which may lose what was not synced.
Crash ==
  /\ \E i \in DOMAIN images : images' = <<images[i]>>
  /\ Finish
  /\ UNCHANGED <<chosen, kept>>

Empty == [dirs |-> [v \in Versions |-> "absent"], litter |-> 0, active |-> NoVersion]

Init ==
  /\ images = <<Empty>>
  /\ op = Idle
  /\ chosen = NoVersion
  /\ kept = {}

Next ==
  \/ \E v \in Versions : Stage(v) \/ Activate(v) \/ RemoveFiles(v)
  \/ Publish \/ StagingFails \/ Deactivate
  \/ RemoveDirectory \/ RemovalFails
  \/ Sync \/ SyncFails \/ Crash

Spec == Init /\ [][Next]_vars

-----------------------------------------------------------------------------
(* Properties *)

\* Types.
Typed ==
  /\ images \in Seq(Image) /\ Len(images) >= 1
  /\ op \in {Idle} \cup [step : {"staging", "published", "switched", "removing", "removed"},
                          version : Versions \cup {NoVersion}]
  /\ op.step \in {"staging", "published", "removing", "removed"} => op.version \in Versions
  /\ chosen \in Versions \cup {NoVersion, Unknown}
  /\ kept \subseteq Versions

\* Types and capacity: entries never exceed the limit beyond which List fails.
TypeOK ==
  /\ Typed
  /\ \A i \in DOMAIN images : Entries(images[i]) <= MaxInstalledVersions

\* Startup opens the active version and fails if it cannot: whatever operation
\* was going on and whatever a crash loses, the pointer leads to a whole version.
RestartFindsTheActiveVersion ==
  \A i \in DOMAIN images :
    images[i].active # NoVersion => images[i].dirs[images[i].active] = "whole"

\* An activation or deactivation that was acknowledged survives every crash,
\* until the pointer is changed again.
AcknowledgedChoiceSurvives ==
  chosen # Unknown => \A i \in DOMAIN images : images[i].active = chosen

\* So does an installed version, until it is removed.
AcknowledgedVersionsAreKept ==
  \A v \in kept, i \in DOMAIN images : images[i].dirs[v] = "whole"

\* Nothing that was acknowledged is lost.
AcknowledgedChangesSurvive == AcknowledgedChoiceSurvives /\ AcknowledgedVersionsAreKept

\* The steps of an operation agree with what is on disk.
StepsAgree ==
  /\ At("staging") => disk.litter > 0
  /\ At("published") => disk.dirs[op.version] = "whole"
  /\ At("switched") => disk.active = op.version
  /\ At("removing") => disk.dirs[op.version] = "torn"

\* The inductive invariant.
IInv ==
  /\ Typed
  /\ StepsAgree
  /\ RestartFindsTheActiveVersion
  /\ AcknowledgedChoiceSurvives
  /\ AcknowledgedVersionsAreKept

=============================================================================
