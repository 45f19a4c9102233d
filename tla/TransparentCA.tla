---------------------------- MODULE TransparentCA ----------------------------
(***************************************************************************)
(* The certificate authority of the transparent mode on Linux: the private   *)
(* CAStore with one directory for each authority and a pointer to the active *)
(* one, the distribution's trust directory with the database a command       *)
(* rebuilds from it, and LinuxCAController, which rotates, reconciles and    *)
(* revokes one after the other in both.                                      *)
(*                                                                         *)
(* Each file operation and each run of the refresh command is a step.  Any   *)
(* of them may fail, and the process may die between any two; a failure that *)
(* comes after the file changed, as when the directory cannot be synced, is  *)
(* one of the outcomes.  Double faults inside CreateCA's own cleanup are not.*)
(***************************************************************************)
EXTENDS Naturals, FiniteSets

CONSTANTS
  CAs,           \* serial numbers; one with no trace left may be drawn again
  None,          \* no authority
  MaxStoredCAs,  \* the limit on entries of the store's directory
  MaxFaults      \* bound on the failures of a behaviour

ASSUME CAAssumption ==
  /\ None \notin CAs /\ MaxStoredCAs \in Nat \ {0} /\ MaxFaults \in Nat

VARIABLES
  material,   \* what each authority's directory holds
  leftovers,  \* staging directories and temporary files of the store
  active,     \* the authority active.json names
  certs,      \* certificates in the trust directory
  database,   \* certificates in the trust database
  work,       \* what the controller is doing, under its mutex
  faults,     \* failures so far
  misled,     \* authorities activated by a call that reported failure (history)
  abandoned   \* candidates whose rollback was reported incomplete (history)

stores == <<material, leftovers, active, certs, database>>
history == <<misled, abandoned>>
vars == <<stores, work, faults, history>>

\* CA.Remove deletes the key, the certificate and the directory in this order.
Remains == [whole |-> "keyless", keyless |-> "empty", empty |-> "none"]

Whole == {c \in CAs : material[c] = "whole"}
Stored == {c \in CAs : material[c] # "none"}

\* Every entry of the store's directory counts, the pointer included.
Entries == Cardinality(Stored) + leftovers + (IF active = None THEN 0 ELSE 1)

\* activeLocked and LoadCAs open what they find and refuse anything else.
ActiveOpens == active # None => active \in Whole
Loads == Entries <= MaxStoredCAs /\ Stored = Whole

Idle == [op |-> "idle", phase |-> "none", step |-> "none", ca |-> None, old |-> None, left |-> {}]

At(step) == work.step = step
GoTo(step) == work' = [work EXCEPT !.step = step]
Return == work' = Idle

Fault == faults < MaxFaults /\ faults' = faults + 1
Sound == UNCHANGED faults

-----------------------------------------------------------------------------
(* Reconcile, and the reconciliation every Rotate begins with *)

Begin(op) ==
  /\ work = Idle /\ ActiveOpens
  /\ work' = [Idle EXCEPT !.op = op, !.phase = "refresh", !.ca = active,
                          !.step = IF active = None THEN "load" ELSE "install"]
  /\ Sound /\ UNCHANGED <<stores, history>>

\* Faulty variant: only authorities that were installed are retired.
LoadInstalled ==
  /\ At("load")
  /\ work' = IF Loads
             THEN [work EXCEPT !.phase = "sweep", !.step = "next", !.left = (Stored \cap certs) \ {active}]
             ELSE Idle
  /\ Sound /\ UNCHANGED <<stores, history>>

Load ==
  /\ At("load")
  /\ work' = IF Loads
             THEN [work EXCEPT !.phase = "sweep", !.step = "next", !.left = Stored \ {active}]
             ELSE Idle
  /\ Sound /\ UNCHANGED <<stores, history>>

RetireNext(c) ==
  /\ At("next") /\ c \in work.left
  /\ work' = [work EXCEPT !.ca = c, !.left = @ \ {c}, !.step = "uninstall"]
  /\ Sound /\ UNCHANGED <<stores, history>>

Reconciled ==
  /\ At("next") /\ work.left = {}
  /\ IF work.op = "rotate" THEN GoTo("create") ELSE Return
  /\ Sound /\ UNCHANGED <<stores, history>>

-----------------------------------------------------------------------------
(* CreateCA *)

\* The count is checked, and the staging directory made and filled.
Stage ==
  /\ At("create")
  /\ IF Entries >= MaxStoredCAs
     THEN Return /\ UNCHANGED leftovers
     ELSE GoTo("publish") /\ leftovers' = leftovers + 1
  /\ Sound /\ UNCHANGED <<material, active, certs, database, history>>

Publish(c) ==
  /\ At("publish")
  /\ c \notin Stored \cup certs \cup database \cup {active}
  /\ material' = [material EXCEPT ![c] = "whole"]
  /\ leftovers' = leftovers - 1
  /\ work' = [work EXCEPT !.phase = "issue", !.step = "install", !.ca = c, !.old = active]
  /\ misled' = misled \ {c} /\ abandoned' = abandoned \ {c}
  /\ Sound /\ UNCHANGED <<active, certs, database>>

PublishFails ==
  /\ At("publish") /\ Fault
  /\ leftovers' = leftovers - 1
  /\ Return
  /\ UNCHANGED <<material, active, certs, database, history>>

-----------------------------------------------------------------------------
(* LinuxTrustStore.Install *)

Installed == GoTo(IF work.phase = "issue" THEN "activate" ELSE "load")

WriteCertificate ==
  /\ At("install")
  /\ GoTo(IF work.ca \in certs THEN "refresh existing" ELSE "refresh new")
  /\ certs' = certs \cup {work.ca}
  /\ Sound /\ UNCHANGED <<material, leftovers, active, database, history>>

WriteCertificateFails ==
  /\ At("install") /\ work.ca \notin certs /\ Fault
  /\ certs' \in {certs, certs \cup {work.ca}}
  /\ Return
  /\ UNCHANGED <<material, leftovers, active, database, history>>

RefreshInstalled ==
  /\ At("refresh existing") \/ At("refresh new")
  /\ database' = certs
  /\ Installed
  /\ Sound /\ UNCHANGED <<material, leftovers, active, certs, history>>

\* A command that fails may have rebuilt the database all the same.
DatabaseAfterFailure == database' \in {database, certs}

RefreshExistingFails ==
  /\ At("refresh existing") /\ Fault /\ DatabaseAfterFailure
  /\ Return
  /\ UNCHANGED <<material, leftovers, active, certs, history>>

\* A certificate that was not there before is taken back; where that fails too,
\* or its directory cannot be synced, the database is not rebuilt.
RefreshNewFails ==
  /\ At("refresh new") /\ Fault /\ DatabaseAfterFailure
  /\ \/ certs' = certs \ {work.ca} /\ GoTo("refresh rollback")
     \/ certs' \in {certs, certs \ {work.ca}} /\ Return
  /\ UNCHANGED <<material, leftovers, active, history>>

RefreshRollback ==
  /\ At("refresh rollback")
  /\ \/ database' = certs /\ Sound
     \/ DatabaseAfterFailure /\ Fault
  /\ Return
  /\ UNCHANGED <<material, leftovers, active, certs, history>>

-----------------------------------------------------------------------------
(* CAStore.Activate *)

\* The previous authority is retired only when the new one is active.
Activate ==
  /\ At("activate")
  /\ active' = work.ca
  /\ work' = IF work.old = None THEN Idle
             ELSE [work EXCEPT !.phase = "supersede", !.step = "uninstall", !.ca = work.old]
  /\ Sound /\ UNCHANGED <<material, leftovers, certs, database, history>>

\* Whether or not the pointer was renamed, the candidate is rolled back.
ActivateFails(renamed) ==
  /\ At("activate") /\ Fault
  /\ active' = IF renamed THEN work.ca ELSE active
  /\ misled' = IF renamed THEN misled \cup {work.ca} ELSE misled
  /\ work' = [work EXCEPT !.phase = "undo", !.step = "uninstall"]
  /\ UNCHANGED <<material, leftovers, certs, database, abandoned>>

-----------------------------------------------------------------------------
(* LinuxTrustStore.Uninstall and CA.Remove: retire, and a candidate's rollback *)

\* The certificate leaves the directory, then the database, then the material goes.
TakeCertificate ==
  /\ At("uninstall")
  /\ GoTo(IF work.ca \in certs THEN "refresh removed" ELSE "refresh missing")
  /\ certs' = certs \ {work.ca}
  /\ Sound /\ UNCHANGED <<material, leftovers, active, database, history>>

RefreshUninstalled ==
  /\ At("refresh removed") \/ At("refresh missing")
  /\ database' = certs
  /\ GoTo("remove")
  /\ Sound /\ UNCHANGED <<material, leftovers, active, certs, history>>

\* A rollback removes the candidate's material all the same, and says so.
UninstallFailed ==
  IF work.phase = "undo"
  THEN GoTo("remove") /\ abandoned' = abandoned \cup {work.ca} /\ UNCHANGED misled
  ELSE Return /\ UNCHANGED history

TakeCertificateFails ==
  /\ At("uninstall") /\ work.ca \in certs /\ Fault
  /\ certs' \in {certs, certs \ {work.ca}}
  /\ UninstallFailed
  /\ UNCHANGED <<material, leftovers, active, database>>

RefreshMissingFails ==
  /\ At("refresh missing") /\ Fault /\ DatabaseAfterFailure
  /\ UninstallFailed
  /\ UNCHANGED <<material, leftovers, active, certs>>

\* The certificate is put back and the database refreshed again, unless writing
\* it fails, before or after the rename.
RefreshRemovedFails ==
  /\ At("refresh removed") /\ Fault /\ DatabaseAfterFailure
  /\ \/ certs' = certs \cup {work.ca} /\ GoTo("refresh restored") /\ UNCHANGED history
     \/ certs' \in {certs, certs \cup {work.ca}} /\ UninstallFailed
  /\ UNCHANGED <<material, leftovers, active>>

RefreshRestored ==
  /\ At("refresh restored")
  /\ \/ database' = certs /\ Sound
     \/ DatabaseAfterFailure /\ Fault
  /\ UninstallFailed
  /\ UNCHANGED <<material, leftovers, active, certs>>

\* One of the three deletions; the last one ends the retirement.
RemoveMaterial ==
  /\ At("remove")
  /\ material' = [material EXCEPT ![work.ca] = Remains[@]]
  /\ IF material[work.ca] # "empty" THEN UNCHANGED work
     ELSE IF work.phase = "sweep" THEN GoTo("next") ELSE Return
  /\ Sound /\ UNCHANGED <<leftovers, active, certs, database, history>>

\* A deletion fails, or the directory is gone and cannot be synced.
RemoveMaterialFails ==
  /\ At("remove") /\ Fault
  /\ \/ UNCHANGED material
     \/ material[work.ca] = "empty" /\ material' = [material EXCEPT ![work.ca] = "none"]
  /\ Return
  /\ UNCHANGED <<leftovers, active, certs, database, history>>

-----------------------------------------------------------------------------
(* Revoke *)

\* Faulty variant: the pointer is left to the retirement, which does not know it.
DeactivateForgotten ==
  /\ work = Idle /\ active # None /\ ActiveOpens
  /\ work' = [Idle EXCEPT !.op = "revoke", !.phase = "revoke", !.step = "uninstall", !.ca = active]
  /\ Sound /\ UNCHANGED <<stores, history>>

\* DeactivateActive, then retire.
Deactivate ==
  /\ work = Idle /\ active # None /\ ActiveOpens
  /\ active' = None
  /\ work' = [Idle EXCEPT !.op = "revoke", !.phase = "revoke", !.step = "uninstall", !.ca = active]
  /\ Sound /\ UNCHANGED <<material, leftovers, certs, database, history>>

\* The pointer is gone, and its directory cannot be synced: nothing is retired.
DeactivateFails ==
  /\ work = Idle /\ active # None /\ ActiveOpens /\ Fault
  /\ active' = None
  /\ UNCHANGED <<material, leftovers, certs, database, work, history>>

-----------------------------------------------------------------------------

\* The process dies; what Activate was writing stays behind.
Crash ==
  /\ work # Idle /\ Fault
  /\ leftovers' \in IF At("activate") THEN {leftovers, leftovers + 1} ELSE {leftovers}
  /\ Return
  /\ UNCHANGED <<material, active, certs, database, history>>

Init ==
  /\ material = [c \in CAs |-> "none"]
  /\ leftovers = 0 /\ active = None /\ certs = {} /\ database = {}
  /\ work = Idle /\ faults = 0
  /\ misled = {} /\ abandoned = {}

\* The controller goes on with what it began.
Progress ==
  \/ Load \/ Reconciled \/ Stage \/ (\E c \in CAs : RetireNext(c) \/ Publish(c))
  \/ WriteCertificate \/ RefreshInstalled \/ RefreshRollback \/ Activate
  \/ TakeCertificate \/ RefreshUninstalled \/ RefreshRestored \/ RemoveMaterial

Failure ==
  \/ PublishFails \/ WriteCertificateFails \/ RefreshExistingFails \/ RefreshNewFails
  \/ (\E renamed \in BOOLEAN : ActivateFails(renamed))
  \/ TakeCertificateFails \/ RefreshMissingFails \/ RefreshRemovedFails \/ RemoveMaterialFails
  \/ DeactivateFails \/ Crash

Next == (\E op \in {"rotate", "reconcile"} : Begin(op)) \/ Deactivate \/ Progress \/ Failure

Spec == Init /\ [][Next]_vars

\* Operations that begin go on, and Reconcile is called again and again.
FairSpec == Spec /\ WF_vars(Progress) /\ SF_vars(Begin("reconcile"))

-----------------------------------------------------------------------------
(* Properties *)

TypeOK ==
  /\ material \in [CAs -> {"none", "whole", "keyless", "empty"}]
  /\ leftovers \in Nat /\ faults \in 0 .. MaxFaults
  /\ active \in CAs \cup {None}
  /\ certs \subseteq CAs /\ database \subseteq CAs
  /\ misled \subseteq CAs /\ abandoned \subseteq CAs

\* Whatever fails and wherever the process dies, the authority that may sign is
\* whole and the system trusts it - unless its activation was reported to have
\* failed, when the rollback takes both away under the pointer.
ActiveCAIsTrusted ==
  active # None /\ active \notin misled =>
    active \in Whole /\ active \in certs /\ active \in database

\* A certificate the system trusts can be found by the next Reconcile, by the
\* whole directory of its authority; one that cannot belongs to a rollback that
\* was reported incomplete.
TrustCanBeRetired ==
  \A c \in certs \cup database : c \in Whole \/ c \in abandoned

\* The system's trust follows the store, in every state of a rotation, a
\* reconciliation or their undoing: the active authority is trusted, and no
\* certificate is trusted that nobody can retire.
TrustFollowsTheStore == ActiveCAIsTrusted /\ TrustCanBeRetired

\* Reconcile's goal: one authority, active and trusted, or none.
Converged ==
  /\ work = Idle
  /\ Whole = Stored /\ Stored \subseteq {active}
  /\ certs = Stored /\ database = Stored
  /\ ActiveOpens

\* States Reconcile refuses or does not see.
Torn ==
  /\ work = Idle
  /\ ~Loads \/ ~ActiveOpens \/ ~(certs \cup database \subseteq Whole)

\* Interrupted and failed rotations converge when Reconcile is called again,
\* whatever failed, unless the store is left in a state it refuses.
ConvergesUnlessTorn == []<>(Converged \/ Torn)

-----------------------------------------------------------------------------
(* The inductive invariant *)

Installing == {"install", "refresh existing", "refresh new", "refresh rollback"}
Retiring == {"uninstall", "refresh removed", "refresh missing", "refresh restored", "remove"}

Works ==
  [op : {"idle", "rotate", "reconcile", "revoke"},
   phase : {"none", "refresh", "sweep", "issue", "supersede", "undo", "revoke"},
   step : {"none", "load", "next", "create", "publish", "activate"} \cup Installing \cup Retiring,
   ca : CAs \cup {None}, old : CAs \cup {None}, left : SUBSET CAs]

\* Where each step may be taken.
Placed ==
  /\ At("load") => work.phase = "refresh"
  /\ work.step \in {"next", "create", "publish"} => work.phase = "sweep"
  /\ work.step \in Installing => work.phase \in {"refresh", "issue"}
  /\ At("activate") => work.phase = "issue"
  /\ work.step \in Retiring => work.phase \in {"sweep", "supersede", "undo", "revoke"}

\* The active authority is installed again, a candidate is installed and takes
\* its place, everybody else is retired.
Refreshing ==
  work.phase = "refresh" =>
    /\ work.ca = active /\ (At("load") \/ active # None)
    /\ At("refresh new") => active \in misled

Issuing ==
  work.phase = "issue" =>
    /\ work.ca \in Whole /\ work.ca # active /\ work.old = active
    /\ ~At("install") => work.ca \in certs \/ At("refresh rollback")
    /\ At("activate") => work.ca \in database

Sweeping ==
  /\ work.phase = "sweep" =>
       /\ work.left \subseteq Stored \ {active}
       /\ work.step \in Retiring => work.ca \notin work.left
  /\ At("publish") => leftovers > 0

\* Until a candidate takes its place the authority the pointer names is whole.
PointerHolds == work.phase \in {"refresh", "sweep", "issue"} => ActiveOpens

\* Material goes when nobody trusts it any more, or its rollback said otherwise.
Retirement ==
  work.step \in Retiring =>
    /\ work.ca \in Stored
    /\ work.ca = active => work.phase = "undo" /\ active \in misled
    /\ At("refresh removed") => work.ca \in Whole \cup abandoned
    /\ At("refresh removed") \/ At("refresh missing") => work.ca \notin certs
    /\ At("remove") => work.ca \notin certs \cup database \/ work.ca \in abandoned

WorkInv ==
  /\ work \in Works
  /\ Placed /\ Refreshing /\ Issuing /\ Sweeping /\ PointerHolds /\ Retirement

TrustInv ==
  /\ TypeOK
  /\ WorkInv
  /\ TrustFollowsTheStore

=============================================================================
