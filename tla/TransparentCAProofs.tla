------------------------- MODULE TransparentCAProofs -------------------------
(***************************************************************************)
(* What the transparent mode's authorities promise, for any number of them:  *)
(* the authority the pointer names is whole and trusted, and whatever is     *)
(* trusted can be retired, after every file operation, failure and crash.    *)
(*                                                                         *)
(* The invariant says what the operation under way may rely on.  Its steps   *)
(* fall into three courses - installing, sweeping, retiring - and a lemma    *)
(* for each says what a step has to establish to stay on its course.         *)
(***************************************************************************)
EXTENDS TransparentCA, TLAPS

Steps == {"none", "load", "next", "create", "publish", "activate"} \cup Installing \cup Retiring

\* A step of the operation under way.
Goes(step) ==
  /\ work' \in Works /\ work'.step = step
  /\ work'.phase = work.phase /\ work'.ca = work.ca
  /\ work'.old = work.old /\ work'.left = work.left

LEMMA GoToStep ==
  ASSUME TrustInv, NEW step \in Steps, GoTo(step)
  PROVE  Goes(step)
  BY DEF TrustInv, WorkInv, Works, Steps, GoTo, Goes

\* Whoever installs or retires has an authority in hand.
LEMMA InHand ==
  ASSUME TrustInv, At("activate") \/ work.step \in Installing \cup Retiring
  PROVE  work.ca \in CAs
<1>1. CASE work.phase = "issue"
  BY <1>1 DEF TrustInv, WorkInv, Issuing, Whole
<1>2. CASE work.phase = "refresh" /\ ~At("load")
  BY <1>2 DEF TrustInv, WorkInv, Refreshing, TypeOK
<1>3. CASE work.step \in Retiring
  BY <1>3 DEF TrustInv, WorkInv, Retirement, Stored
<1>4. QED
  BY <1>1, <1>2, <1>3 DEF TrustInv, WorkInv, Placed, At, Installing

LEMMA FaultsAreBounded ==
  ASSUME TypeOK, Fault \/ Sound
  PROVE  faults' \in 0 .. MaxFaults
  BY CAAssumption DEF TypeOK, Fault, Sound

\* What the five files hold stays typed when their parts do.
LEMMA StaysTyped ==
  ASSUME TypeOK, Fault \/ Sound, material' \in [CAs -> {"none", "whole", "keyless", "empty"}],
         leftovers' \in Nat, active' \in CAs \cup {None},
         certs' \subseteq CAs, database' \subseteq CAs, misled' \subseteq CAs, abandoned' \subseteq CAs
  PROVE  TypeOK'
  BY FaultsAreBounded DEF TypeOK

\* A step that touches neither store nor trust changes nothing about them.
LEMMA TrustStays ==
  ASSUME TrustInv, Fault \/ Sound, UNCHANGED <<material, active, certs, database, history>>,
         leftovers' \in Nat
  PROVE  TypeOK' /\ TrustFollowsTheStore'
<1>1. TypeOK'
  BY StaysTyped DEF TrustInv, TypeOK, history
<1>2. QED
  BY <1>1 DEF TrustInv, TrustFollowsTheStore, ActiveCAIsTrusted, TrustCanBeRetired, Whole, history

-----------------------------------------------------------------------------
(* The courses of an operation *)

\* When an operation ends, the system's trust is all there is to show.
LEMMA Ends ==
  ASSUME Return, TypeOK', TrustFollowsTheStore'
  PROVE  TrustInv'
<1>1. work' = Idle
  BY DEF Return
<1>2. work' \in Works
  BY <1>1 DEF Works, Idle
<1>3. work'.step = "none" /\ work'.phase = "none"
  BY <1>1 DEF Idle
<1>4. Placed' /\ Refreshing' /\ Issuing' /\ Sweeping' /\ PointerHolds' /\ Retirement'
  BY <1>3 DEF Placed, Refreshing, Issuing, Sweeping, PointerHolds, Retirement, At, Installing, Retiring
<1>5. QED
  BY <1>2, <1>4 DEF TrustInv, WorkInv

LEMMA Installs ==
  ASSUME TrustInv, work.step \in Installing,
         NEW step \in {"load", "activate", "refresh existing", "refresh new", "refresh rollback"}, Goes(step),
         UNCHANGED <<material, active, misled>>,
         step = "load" => work.phase = "refresh",
         step = "activate" => work.phase = "issue" /\ work.ca \in database',
         step = "refresh new" /\ work.phase = "refresh" => active \in misled,
         work.phase = "issue" => work.ca \in certs' \/ step = "refresh rollback"
  PROVE  WorkInv'
<1>1. work' \in Works /\ work'.step = step /\ work'.phase = work.phase /\ work'.ca = work.ca /\ work'.old = work.old
  BY DEF Goes
<1>2. work.phase \in {"refresh", "issue"}
  BY DEF TrustInv, WorkInv, Placed
<1>3. step \notin Retiring /\ step \notin {"next", "create", "publish"} /\ step # "install"
  BY DEF Retiring
<1>4. Placed'
  BY <1>1, <1>2, <1>3 DEF Placed, At
<1>5. Refreshing'
  BY <1>1 DEF Refreshing, At, TrustInv, WorkInv, Installing
<1>6. Issuing'
  BY <1>1, <1>3 DEF Issuing, At, Whole, TrustInv, WorkInv
<1>7. Sweeping' /\ Retirement'
  BY <1>1, <1>2, <1>3 DEF Sweeping, Retirement, At
<1>8. PointerHolds'
  BY <1>1 DEF PointerHolds, ActiveOpens, Whole, TrustInv, WorkInv
<1>9. QED
  BY <1>1, <1>4, <1>5, <1>6, <1>7, <1>8 DEF WorkInv

LEMMA Sweeps ==
  ASSUME work' \in Works, work'.phase = "sweep", work'.step \in {"next", "create", "publish"},
         work'.left \subseteq Stored' \ {active'}, ActiveOpens',
         work'.step = "publish" => leftovers' > 0
  PROVE  WorkInv'
<1>1. work'.step \notin Installing \cup Retiring /\ ~At("load")' /\ ~At("activate")'
  BY DEF Installing, Retiring, At
<1>2. Placed' /\ Refreshing' /\ Issuing' /\ Retirement'
  BY <1>1 DEF Placed, Refreshing, Issuing, Retirement
<1>3. Sweeping' /\ PointerHolds'
  BY <1>1 DEF Sweeping, PointerHolds, At
<1>4. QED
  BY <1>2, <1>3 DEF WorkInv

LEMMA Retires ==
  ASSUME work' \in Works, work'.step \in Retiring, Retirement',
         work'.phase \in {"sweep", "supersede", "undo", "revoke"},
         work'.phase = "sweep" =>
           ActiveOpens' /\ work'.left \subseteq Stored' \ {active'} /\ work'.ca \notin work'.left
  PROVE  WorkInv'
<1>1. work'.step \notin Installing /\ work'.step \notin {"load", "next", "create", "publish", "activate"}
  BY DEF Installing, Retiring
<1>2. Placed' /\ Refreshing' /\ Issuing'
  BY <1>1 DEF Placed, Refreshing, Issuing, At
<1>3. Sweeping' /\ PointerHolds'
  BY <1>1 DEF Sweeping, PointerHolds, At
<1>4. QED
  BY <1>2, <1>3 DEF WorkInv

\* A retirement that goes on with the same authority.
LEMMA RetiresOn ==
  ASSUME TrustInv, work.step \in Retiring, NEW step \in Retiring, Goes(step),
         UNCHANGED <<material, active, misled>>,
         step = "refresh removed" => work.ca \in Whole \cup abandoned',
         step \in {"refresh removed", "refresh missing"} => work.ca \notin certs',
         step = "remove" => work.ca \notin certs' \cup database' \/ work.ca \in abandoned'
  PROVE  WorkInv'
<1>1. work' \in Works /\ work'.step = step /\ work'.phase = work.phase /\ work'.ca = work.ca /\ work'.left = work.left
  BY DEF Goes
<1>2. Whole' = Whole /\ Stored' = Stored /\ (ActiveOpens => ActiveOpens')
  BY DEF Whole, Stored, ActiveOpens
<1>3. Retirement'
  BY <1>1, <1>2 DEF Retirement, At, TrustInv, WorkInv
<1>4. work.phase \in {"sweep", "supersede", "undo", "revoke"}
  BY DEF TrustInv, WorkInv, Placed
<1>5. work.phase = "sweep" => ActiveOpens /\ work.left \subseteq Stored \ {active} /\ work.ca \notin work.left
  BY DEF TrustInv, WorkInv, Sweeping, PointerHolds
<1>6. QED
  BY <1>1, <1>2, <1>3, <1>4, <1>5, Retires

\* Uninstall's error paths: a rollback goes on and is remembered, another ends.
LEMMA UninstallFails ==
  ASSUME TrustInv, work.step \in Retiring, UninstallFailed, UNCHANGED <<material, active>>,
         TypeOK', TrustFollowsTheStore'
  PROVE  TrustInv'
<1>1. CASE work.phase = "undo"
  <2>1. GoTo("remove") /\ work.ca \in abandoned' /\ UNCHANGED misled
    BY <1>1 DEF UninstallFailed
  <2>2. Goes("remove")
    BY <2>1, GoToStep DEF Steps, Retiring
  <2>3. WorkInv'
    BY <2>1, <2>2, RetiresOn DEF Retiring
  <2>4. QED
    BY <2>3 DEF TrustInv
<1>2. CASE work.phase # "undo"
  BY <1>2, Ends DEF UninstallFailed
<1>3. QED
  BY <1>1, <1>2

-----------------------------------------------------------------------------
(* Reconcile and CreateCA *)

LEMMA BeginStep ==
  ASSUME TrustInv, NEW op \in {"rotate", "reconcile"}, Begin(op)
  PROVE  TrustInv'
<1>1. TypeOK' /\ TrustFollowsTheStore'
  BY TrustStays DEF Begin, stores, TrustInv, TypeOK
<1>2. /\ work' \in Works /\ work'.phase = "refresh" /\ work'.ca = active
      /\ IF active = None THEN work'.step = "load" ELSE work'.step = "install"
  BY DEF Begin, Idle, Works, Installing, TrustInv, TypeOK
<1>3. work'.step \notin Retiring /\ work'.step \notin {"next", "create", "publish", "activate", "refresh new"}
  BY <1>2 DEF Retiring
<1>4. Placed' /\ Issuing' /\ Sweeping' /\ Retirement'
  BY <1>2, <1>3 DEF Placed, Issuing, Sweeping, Retirement, At
<1>5. Refreshing' /\ PointerHolds'
  BY <1>2, <1>3 DEF Refreshing, PointerHolds, ActiveOpens, Whole, At, Begin, stores
<1>6. QED
  BY <1>1, <1>2, <1>4, <1>5 DEF TrustInv, WorkInv

LEMMA LoadStep ==
  ASSUME TrustInv, Load
  PROVE  TrustInv'
<1>1. TypeOK' /\ TrustFollowsTheStore'
  BY TrustStays DEF Load, stores, TrustInv, TypeOK
<1>2. CASE Loads
  <2>1. Stored \subseteq CAs /\ Stored' = Stored /\ active' = active
    BY DEF Stored, Load, stores
  <2>2. work' = [work EXCEPT !.phase = "sweep", !.step = "next", !.left = Stored \ {active}]
    BY <1>2 DEF Load
  <2>3. work' \in Works /\ work'.phase = "sweep" /\ work'.step = "next" /\ work'.left = Stored \ {active}
    BY <2>1, <2>2 DEF TrustInv, WorkInv, Works
  <2>4. ActiveOpens'
    BY DEF TrustInv, WorkInv, Placed, PointerHolds, ActiveOpens, Whole, Load, stores
  <2>5. WorkInv'
    BY <2>1, <2>3, <2>4, Sweeps
  <2>6. QED
    BY <1>1, <2>5 DEF TrustInv
<1>3. CASE ~Loads
  BY <1>1, <1>3, Ends DEF Load, Return
<1>4. QED
  BY <1>2, <1>3

\* In a sweep the pointer holds and nobody to be retired is the one it names.
LEMMA InASweep ==
  ASSUME TrustInv, work.step \in {"next", "create", "publish"}
  PROVE  work.phase = "sweep" /\ ActiveOpens /\ work.left \subseteq Stored \ {active}
  BY DEF TrustInv, WorkInv, Placed, PointerHolds, Sweeping

LEMMA RetireNextStep ==
  ASSUME TrustInv, NEW c \in CAs, RetireNext(c)
  PROVE  TrustInv'
<1>1. TypeOK' /\ TrustFollowsTheStore'
  BY TrustStays DEF RetireNext, stores, TrustInv, TypeOK
<1>2. work.phase = "sweep" /\ ActiveOpens /\ work.left \subseteq Stored \ {active} /\ c \in work.left
  BY InASweep DEF RetireNext, At
<1>3. Stored' = Stored /\ active' = active /\ ActiveOpens'
  BY <1>2 DEF Stored, ActiveOpens, Whole, RetireNext, stores
<1>4. work' = [work EXCEPT !.ca = c, !.left = @ \ {c}, !.step = "uninstall"]
  BY DEF RetireNext
<1>5. /\ work' \in Works /\ work'.phase = "sweep" /\ work'.step = "uninstall"
      /\ work'.ca = c /\ work'.left = work.left \ {c}
  BY <1>2, <1>4 DEF TrustInv, WorkInv, Works, Retiring
<1>6. Retirement'
  BY <1>2, <1>3, <1>5 DEF Retirement, At
<1>7. WorkInv'
  BY <1>2, <1>3, <1>5, <1>6, Retires DEF Retiring
<1>8. QED
  BY <1>1, <1>7 DEF TrustInv

LEMMA ReconciledStep ==
  ASSUME TrustInv, Reconciled
  PROVE  TrustInv'
<1>1. TypeOK' /\ TrustFollowsTheStore'
  BY TrustStays DEF Reconciled, stores, TrustInv, TypeOK
<1>2. CASE work.op = "rotate"
  <2>1. Goes("create")
    BY <1>2, GoToStep DEF Reconciled, Steps
  <2>2. work.phase = "sweep" /\ ActiveOpens /\ work.left \subseteq Stored \ {active}
    BY InASweep DEF Reconciled, At
  <2>3. Stored' = Stored /\ active' = active /\ ActiveOpens'
    BY <2>2 DEF Stored, ActiveOpens, Whole, Reconciled, stores
  <2>4. WorkInv'
    BY <2>1, <2>2, <2>3, Sweeps DEF Goes
  <2>5. QED
    BY <1>1, <2>4 DEF TrustInv
<1>3. CASE work.op # "rotate"
  BY <1>1, <1>3, Ends DEF Reconciled
<1>4. QED
  BY <1>2, <1>3

LEMMA StageStep ==
  ASSUME TrustInv, Stage
  PROVE  TrustInv'
<1>1. leftovers \in Nat
  BY DEF TrustInv, TypeOK
<1>2. TypeOK' /\ TrustFollowsTheStore'
  BY <1>1, TrustStays DEF Stage
<1>3. CASE Entries >= MaxStoredCAs
  BY <1>2, <1>3, Ends DEF Stage
<1>4. CASE ~(Entries >= MaxStoredCAs)
  <2>1. Goes("publish")
    BY <1>4, GoToStep DEF Stage, Steps
  <2>2. work.phase = "sweep" /\ ActiveOpens /\ work.left \subseteq Stored \ {active}
    BY InASweep DEF Stage, At
  <2>3. Stored' = Stored /\ active' = active /\ ActiveOpens'
    BY <2>2 DEF Stored, ActiveOpens, Whole, Stage
  <2>4. leftovers' > 0
    BY <1>1, <1>4 DEF Stage
  <2>5. WorkInv'
    BY <2>1, <2>2, <2>3, <2>4, Sweeps DEF Goes
  <2>6. QED
    BY <1>2, <2>5 DEF TrustInv
<1>5. QED
  BY <1>3, <1>4

LEMMA PublishStep ==
  ASSUME TrustInv, NEW c \in CAs, Publish(c)
  PROVE  TrustInv'
<1>1. leftovers - 1 \in Nat /\ ActiveOpens
  BY InASweep DEF TrustInv, TypeOK, WorkInv, Sweeping, Publish, At
<1>2. Whole \subseteq Whole' /\ c \in Whole' /\ c # active /\ active' = active
  BY DEF Whole, Stored, Publish, TrustInv, TypeOK
<1>3. TypeOK'
  BY <1>1, StaysTyped DEF TrustInv, TypeOK, Publish
<1>4. TrustFollowsTheStore'
  BY <1>2 DEF TrustInv, TrustFollowsTheStore, ActiveCAIsTrusted, TrustCanBeRetired, Publish
<1>5. work' = [work EXCEPT !.phase = "issue", !.step = "install", !.ca = c, !.old = active]
  BY DEF Publish
<1>6. /\ work' \in Works /\ work'.phase = "issue" /\ work'.step = "install"
      /\ work'.ca = c /\ work'.old = active
  BY <1>5 DEF TrustInv, TypeOK, WorkInv, Works, Installing
<1>7. Placed' /\ Refreshing' /\ Sweeping' /\ Retirement'
  BY <1>6 DEF Placed, Refreshing, Sweeping, Retirement, Installing, Retiring, At
<1>8. Issuing' /\ PointerHolds'
  BY <1>1, <1>2, <1>6 DEF Issuing, PointerHolds, ActiveOpens, At
<1>9. QED
  BY <1>3, <1>4, <1>6, <1>7, <1>8 DEF TrustInv, WorkInv

LEMMA PublishFailsStep ==
  ASSUME TrustInv, PublishFails
  PROVE  TrustInv'
<1>1. leftovers - 1 \in Nat
  BY DEF TrustInv, TypeOK, WorkInv, Sweeping, PublishFails, At
<1>2. QED
  BY <1>1, TrustStays, Ends DEF PublishFails

-----------------------------------------------------------------------------
(* LinuxTrustStore.Install and CAStore.Activate *)

\* More trust is harmless where the authority added is whole.
LEMMA WriteCertificateStep ==
  ASSUME TrustInv, WriteCertificate
  PROVE  TrustInv'
<1>1. work.ca \in CAs /\ work.step \in Installing /\ At("install")
  BY InHand DEF WriteCertificate, At, Installing
<1>2. work.ca \in Whole
  BY <1>1 DEF TrustInv, WorkInv, Placed, Refreshing, Issuing, PointerHolds, ActiveOpens, At
<1>3. certs' = certs \cup {work.ca} /\ UNCHANGED <<material, active, database, history>>
  BY DEF WriteCertificate
<1>4. TypeOK'
  BY <1>1, <1>3, StaysTyped DEF TrustInv, TypeOK, WriteCertificate, history
<1>5. TrustFollowsTheStore'
  BY <1>2, <1>3 DEF TrustInv, TrustFollowsTheStore, ActiveCAIsTrusted, TrustCanBeRetired, Whole, history
<1>6. CASE work.ca \in certs
  <2>1. Goes("refresh existing")
    BY <1>6, GoToStep DEF WriteCertificate, Steps, Installing
  <2>2. WorkInv'
    BY <1>1, <1>3, <2>1, Installs DEF history
  <2>3. QED
    BY <1>4, <1>5, <2>2 DEF TrustInv
<1>7. CASE work.ca \notin certs
  <2>1. Goes("refresh new")
    BY <1>7, GoToStep DEF WriteCertificate, Steps, Installing
  <2>2. work.phase = "refresh" => active \in misled
    BY <1>1, <1>7 DEF TrustInv, WorkInv, Refreshing, TrustFollowsTheStore, ActiveCAIsTrusted, At
  <2>3. WorkInv'
    BY <1>1, <1>3, <2>1, <2>2, Installs DEF history
  <2>4. QED
    BY <1>4, <1>5, <2>3 DEF TrustInv
<1>8. QED
  BY <1>6, <1>7

LEMMA WriteCertificateFailsStep ==
  ASSUME TrustInv, WriteCertificateFails
  PROVE  TrustInv'
<1>1. work.ca \in CAs /\ At("install")
  BY InHand DEF WriteCertificateFails, At, Installing
<1>2. work.ca \in Whole
  BY <1>1 DEF TrustInv, WorkInv, Placed, Refreshing, Issuing, PointerHolds, ActiveOpens, At, Installing
<1>3. certs \subseteq certs' /\ certs' \subseteq certs \cup {work.ca} /\ UNCHANGED <<material, active, database, history>>
  BY DEF WriteCertificateFails
<1>4. TypeOK'
  BY <1>1, <1>3, StaysTyped DEF TrustInv, TypeOK, WriteCertificateFails, history
<1>5. TrustFollowsTheStore'
  BY <1>2, <1>3 DEF TrustInv, TrustFollowsTheStore, ActiveCAIsTrusted, TrustCanBeRetired, Whole, history
<1>6. QED
  BY <1>4, <1>5, Ends DEF WriteCertificateFails

\* A database that is rebuilt, or not, says nothing that the directory does not.
LEMMA Rebuilds ==
  ASSUME TrustInv, Fault \/ Sound, database' \in {database, certs},
         UNCHANGED <<material, leftovers, active, certs, history>>
  PROVE  TypeOK' /\ TrustFollowsTheStore'
<1>1. TypeOK'
  BY StaysTyped DEF TrustInv, TypeOK, history
<1>2. QED
  BY <1>1 DEF TrustInv, TrustFollowsTheStore, ActiveCAIsTrusted, TrustCanBeRetired, Whole, history

LEMMA RefreshInstalledStep ==
  ASSUME TrustInv, RefreshInstalled
  PROVE  TrustInv'
<1>1. TypeOK' /\ TrustFollowsTheStore'
  BY Rebuilds DEF RefreshInstalled
<1>2. work.step \in Installing /\ work.phase \in {"refresh", "issue"}
  BY DEF RefreshInstalled, At, Installing, TrustInv, WorkInv, Placed
<1>3. database' = certs /\ UNCHANGED <<material, active, certs, misled>>
  BY DEF RefreshInstalled, history
<1>4. CASE work.phase = "issue"
  <2>1. Goes("activate")
    BY <1>4, GoToStep DEF RefreshInstalled, Installed, Steps
  <2>2. work.ca \in certs
    BY <1>4 DEF TrustInv, WorkInv, Issuing, RefreshInstalled, At
  <2>3. WorkInv'
    BY <1>2, <1>3, <1>4, <2>1, <2>2, Installs
  <2>4. QED
    BY <1>1, <2>3 DEF TrustInv
<1>5. CASE work.phase = "refresh"
  <2>1. Goes("load")
    BY <1>5, GoToStep DEF RefreshInstalled, Installed, Steps
  <2>2. WorkInv'
    BY <1>2, <1>3, <1>5, <2>1, Installs
  <2>3. QED
    BY <1>1, <2>2 DEF TrustInv
<1>6. QED
  BY <1>2, <1>4, <1>5

LEMMA RefreshExistingFailsStep ==
  ASSUME TrustInv, RefreshExistingFails
  PROVE  TrustInv'
  BY Rebuilds, Ends DEF RefreshExistingFails, DatabaseAfterFailure

\* What is taken back was not trusted before, or is reported by its activation.
LEMMA RefreshNewFailsStep ==
  ASSUME TrustInv, RefreshNewFails
  PROVE  TrustInv'
<1>1. work.ca \in CAs /\ work.step \in Installing /\ work.phase \in {"refresh", "issue"}
  BY InHand DEF RefreshNewFails, At, Installing, TrustInv, WorkInv, Placed
<1>2. /\ certs' \in {certs, certs \ {work.ca}} /\ database' \in {database, certs}
      /\ UNCHANGED <<material, active, history>>
  BY DEF RefreshNewFails, DatabaseAfterFailure
<1>3. TypeOK'
  BY <1>2, StaysTyped DEF TrustInv, TypeOK, RefreshNewFails, history
<1>4. active = work.ca => active \in misled
  BY <1>1 DEF TrustInv, WorkInv, Refreshing, Issuing, RefreshNewFails, At
<1>5. TrustFollowsTheStore'
  BY <1>2, <1>4 DEF TrustInv, TrustFollowsTheStore, ActiveCAIsTrusted, TrustCanBeRetired, Whole, history
<1>6. CASE GoTo("refresh rollback")
  <2>1. Goes("refresh rollback")
    BY <1>6, GoToStep DEF Steps, Installing
  <2>2. WorkInv'
    BY <1>1, <1>2, <2>1, Installs DEF history
  <2>3. QED
    BY <1>3, <1>5, <2>2 DEF TrustInv
<1>7. CASE Return
  BY <1>3, <1>5, <1>7, Ends
<1>8. QED
  BY <1>6, <1>7 DEF RefreshNewFails

LEMMA RefreshRollbackStep ==
  ASSUME TrustInv, RefreshRollback
  PROVE  TrustInv'
  BY Rebuilds, Ends DEF RefreshRollback, DatabaseAfterFailure

LEMMA ActivateStep ==
  ASSUME TrustInv, Activate
  PROVE  TrustInv'
<1>1. work.phase = "issue"
  BY DEF Activate, TrustInv, WorkInv, Placed
<1>2. /\ work.ca \in Whole /\ work.ca \in certs /\ work.ca \in database
      /\ work.ca # active /\ work.old = active /\ ActiveOpens
  BY <1>1 DEF Activate, At, TrustInv, WorkInv, Issuing, PointerHolds
<1>3. active' = work.ca /\ UNCHANGED <<material, certs, database, history>>
  BY DEF Activate
<1>4. TypeOK'
  BY <1>2, <1>3, StaysTyped DEF TrustInv, TypeOK, Whole, Activate, history
<1>5. TrustFollowsTheStore'
  BY <1>2, <1>3 DEF TrustInv, TrustFollowsTheStore, ActiveCAIsTrusted, TrustCanBeRetired, Whole, history
<1>6. CASE work.old = None
  BY <1>4, <1>5, <1>6, Ends DEF Activate, Return
<1>7. CASE work.old # None
  <2>1. work' = [work EXCEPT !.phase = "supersede", !.step = "uninstall", !.ca = work.old]
    BY <1>7 DEF Activate
  <2>2. work' \in Works /\ work'.phase = "supersede" /\ work'.step = "uninstall" /\ work'.ca = active
    BY <1>2, <2>1 DEF TrustInv, WorkInv, Works, Retiring
  <2>3. active \in Stored'
    BY <1>2, <1>3, <1>7 DEF ActiveOpens, Whole, Stored
  <2>4. Retirement'
    BY <1>2, <1>3, <2>2, <2>3 DEF Retirement, At
  <2>5. WorkInv'
    BY <2>2, <2>4, Retires DEF Retiring
  <2>6. QED
    BY <1>4, <1>5, <2>5 DEF TrustInv
<1>8. QED
  BY <1>6, <1>7

LEMMA ActivateFailsStep ==
  ASSUME TrustInv, NEW renamed \in BOOLEAN, ActivateFails(renamed)
  PROVE  TrustInv'
<1>1. work.phase = "issue"
  BY DEF ActivateFails, TrustInv, WorkInv, Placed
<1>2. work.ca \in Whole /\ work.ca \in CAs /\ work.ca # active
  BY <1>1 DEF Whole, TrustInv, WorkInv, Issuing
<1>3. /\ UNCHANGED <<material, certs, database, abandoned>> /\ misled \subseteq misled'
      /\ misled' \subseteq misled \cup {work.ca}
      /\ active' = active \/ (active' = work.ca /\ work.ca \in misled')
  BY DEF ActivateFails
<1>4. TypeOK'
  BY <1>2, <1>3, StaysTyped DEF TrustInv, TypeOK, ActivateFails
<1>5. TrustFollowsTheStore'
  BY <1>3 DEF TrustInv, TrustFollowsTheStore, ActiveCAIsTrusted, TrustCanBeRetired, Whole
<1>6. work' = [work EXCEPT !.phase = "undo", !.step = "uninstall"]
  BY DEF ActivateFails
<1>7. work' \in Works /\ work'.phase = "undo" /\ work'.step = "uninstall" /\ work'.ca = work.ca
  BY <1>6 DEF TrustInv, WorkInv, Works, Retiring
<1>8. work.ca \in Stored'
  BY <1>2, <1>3 DEF Whole, Stored
<1>9. Retirement'
  BY <1>2, <1>3, <1>7, <1>8 DEF Retirement, At
<1>10. WorkInv'
  BY <1>7, <1>9, Retires DEF Retiring
<1>11. QED
  BY <1>4, <1>5, <1>10 DEF TrustInv

-----------------------------------------------------------------------------
(* LinuxTrustStore.Uninstall and CA.Remove *)

LEMMA TakeCertificateStep ==
  ASSUME TrustInv, TakeCertificate
  PROVE  TrustInv'
<1>1. work.ca \in CAs /\ work.step \in Retiring
  BY InHand DEF TakeCertificate, At, Retiring
<1>2. work.ca = active => active \in misled
  BY <1>1 DEF TrustInv, WorkInv, Retirement
<1>3. certs' = certs \ {work.ca} /\ UNCHANGED <<material, active, database, history>>
  BY DEF TakeCertificate
<1>4. TypeOK'
  BY <1>3, StaysTyped DEF TrustInv, TypeOK, TakeCertificate, history
<1>5. TrustFollowsTheStore'
  BY <1>2, <1>3 DEF TrustInv, TrustFollowsTheStore, ActiveCAIsTrusted, TrustCanBeRetired, Whole, history
<1>6. CASE work.ca \in certs
  <2>1. Goes("refresh removed")
    BY <1>6, GoToStep DEF TakeCertificate, Steps, Retiring
  <2>2. work.ca \in Whole \cup abandoned
    BY <1>6 DEF TrustInv, TrustFollowsTheStore, TrustCanBeRetired
  <2>3. WorkInv'
    BY <1>1, <1>3, <2>1, <2>2, RetiresOn DEF Retiring, history
  <2>4. QED
    BY <1>4, <1>5, <2>3 DEF TrustInv
<1>7. CASE work.ca \notin certs
  <2>1. Goes("refresh missing")
    BY <1>7, GoToStep DEF TakeCertificate, Steps, Retiring
  <2>2. WorkInv'
    BY <1>1, <1>3, <2>1, RetiresOn DEF Retiring, history
  <2>3. QED
    BY <1>4, <1>5, <2>2 DEF TrustInv
<1>8. QED
  BY <1>6, <1>7

LEMMA RefreshUninstalledStep ==
  ASSUME TrustInv, RefreshUninstalled
  PROVE  TrustInv'
<1>1. TypeOK' /\ TrustFollowsTheStore'
  BY Rebuilds DEF RefreshUninstalled
<1>2. work.step \in Retiring /\ work.ca \notin certs
  BY DEF RefreshUninstalled, At, Retiring, TrustInv, WorkInv, Retirement
<1>3. Goes("remove")
  BY GoToStep DEF RefreshUninstalled, Steps, Retiring
<1>4. database' = certs /\ UNCHANGED <<material, active, certs, misled>>
  BY DEF RefreshUninstalled, history
<1>5. WorkInv'
  BY <1>2, <1>3, <1>4, RetiresOn DEF Retiring
<1>6. QED
  BY <1>1, <1>5 DEF TrustInv

\* The failures of Uninstall: certificates may be gone or back, and are still
\* those of authorities that can be retired or were reported.
LEMMA TrustOutlivesFailures ==
  ASSUME TrustInv, work.step \in Retiring, Fault \/ Sound,
         database' \in {database, certs}, certs' \in {certs, certs \ {work.ca}, certs \cup {work.ca}},
         work.ca \in certs' => work.ca \in certs \cup Whole \cup abandoned,
         abandoned \subseteq abandoned', abandoned' \subseteq abandoned \cup {work.ca},
         UNCHANGED <<material, leftovers, active, misled>>
  PROVE  TypeOK' /\ TrustFollowsTheStore'
<1>1. work.ca \in CAs /\ (work.ca = active => active \in misled)
  BY InHand DEF TrustInv, WorkInv, Retirement
<1>2. certs' \subseteq CAs /\ database' \subseteq CAs /\ abandoned' \subseteq CAs
  BY <1>1 DEF TrustInv, TypeOK
<1>3. TypeOK'
  BY <1>2, StaysTyped DEF TrustInv, TypeOK
<1>4. ActiveCAIsTrusted'
  BY <1>1 DEF TrustInv, TrustFollowsTheStore, ActiveCAIsTrusted, Whole
<1>5. TrustCanBeRetired'
  BY DEF TrustInv, TrustFollowsTheStore, TrustCanBeRetired, Whole
<1>6. QED
  BY <1>3, <1>4, <1>5 DEF TrustFollowsTheStore

\* What UninstallFailed leaves of the history.
LEMMA Reported ==
  ASSUME UninstallFailed
  PROVE  abandoned \subseteq abandoned' /\ abandoned' \subseteq abandoned \cup {work.ca} /\ UNCHANGED misled
  BY DEF UninstallFailed, history

LEMMA TakeCertificateFailsStep ==
  ASSUME TrustInv, TakeCertificateFails
  PROVE  TrustInv'
<1>1. work.step \in Retiring
  BY DEF TakeCertificateFails, At, Retiring
<1>2. TypeOK' /\ TrustFollowsTheStore'
  BY <1>1, Reported, TrustOutlivesFailures DEF TakeCertificateFails
<1>3. QED
  BY <1>1, <1>2, UninstallFails DEF TakeCertificateFails

LEMMA RefreshMissingFailsStep ==
  ASSUME TrustInv, RefreshMissingFails
  PROVE  TrustInv'
<1>1. work.step \in Retiring
  BY DEF RefreshMissingFails, At, Retiring
<1>2. TypeOK' /\ TrustFollowsTheStore'
  BY <1>1, Reported, TrustOutlivesFailures DEF RefreshMissingFails, DatabaseAfterFailure
<1>3. QED
  BY <1>1, <1>2, UninstallFails DEF RefreshMissingFails

LEMMA RefreshRemovedFailsStep ==
  ASSUME TrustInv, RefreshRemovedFails
  PROVE  TrustInv'
<1>1. work.step \in Retiring /\ work.ca \in Whole \cup abandoned
  BY DEF RefreshRemovedFails, At, Retiring, TrustInv, WorkInv, Retirement
<1>2. /\ database' \in {database, certs} /\ certs' \in {certs, certs \cup {work.ca}}
      /\ UNCHANGED <<material, leftovers, active>> /\ (Fault \/ Sound)
  BY DEF RefreshRemovedFails, DatabaseAfterFailure
<1>3. CASE GoTo("refresh restored") /\ UNCHANGED history
  <2>1. TypeOK' /\ TrustFollowsTheStore'
    BY <1>1, <1>2, <1>3, TrustOutlivesFailures DEF history
  <2>2. Goes("refresh restored")
    BY <1>3, GoToStep DEF Steps, Retiring
  <2>3. WorkInv'
    BY <1>1, <1>2, <1>3, <2>2, RetiresOn DEF Retiring, history
  <2>4. QED
    BY <2>1, <2>3 DEF TrustInv
<1>4. CASE UninstallFailed
  <2>1. TypeOK' /\ TrustFollowsTheStore'
    BY <1>1, <1>2, <1>4, Reported, TrustOutlivesFailures
  <2>2. QED
    BY <1>1, <1>2, <1>4, <2>1, UninstallFails
<1>5. QED
  BY <1>3, <1>4 DEF RefreshRemovedFails

LEMMA RefreshRestoredStep ==
  ASSUME TrustInv, RefreshRestored
  PROVE  TrustInv'
<1>1. work.step \in Retiring
  BY DEF RefreshRestored, At, Retiring
<1>2. TypeOK' /\ TrustFollowsTheStore'
  BY <1>1, Reported, TrustOutlivesFailures DEF RefreshRestored, DatabaseAfterFailure
<1>3. QED
  BY <1>1, <1>2, UninstallFails DEF RefreshRestored

\* Material may go whatever of it is left, once its authority is at "remove".
LEMMA TrustOutlivesMaterial ==
  ASSUME TrustInv, At("remove"), Fault \/ Sound, NEW m \in {"whole", "keyless", "empty", "none"},
         material' = [material EXCEPT ![work.ca] = m],
         UNCHANGED <<leftovers, active, certs, database, history>>
  PROVE  TypeOK' /\ TrustFollowsTheStore'
<1>1. /\ work.ca \in CAs /\ (work.ca = active => active \in misled)
      /\ work.ca \notin certs \cup database \/ work.ca \in abandoned
  BY InHand DEF TrustInv, WorkInv, Retirement, Retiring, At
<1>2. TypeOK'
  BY <1>1, StaysTyped DEF TrustInv, TypeOK, history
<1>3. \A c \in CAs \ {work.ca} : c \in Whole => c \in Whole'
  BY DEF Whole, TrustInv, TypeOK
<1>4. ActiveCAIsTrusted'
  BY <1>1, <1>3 DEF TrustInv, TypeOK, TrustFollowsTheStore, ActiveCAIsTrusted, history
<1>5. TrustCanBeRetired'
  BY <1>1, <1>3 DEF TrustInv, TypeOK, TrustFollowsTheStore, TrustCanBeRetired, history
<1>6. QED
  BY <1>2, <1>4, <1>5 DEF TrustFollowsTheStore

LEMMA RemoveMaterialStep ==
  ASSUME TrustInv, RemoveMaterial
  PROVE  TrustInv'
<1> DEFINE m == Remains[material[work.ca]]
<1>1. work.step \in Retiring /\ work.ca \in CAs /\ At("remove")
  BY InHand DEF RemoveMaterial, At, Retiring
<1>2. material[work.ca] \in {"whole", "keyless", "empty"}
  BY <1>1 DEF TrustInv, TypeOK, WorkInv, Retirement, Stored
<1>3. m \in {"keyless", "empty", "none"} /\ (material[work.ca] # "empty" => m # "none")
  BY <1>2 DEF Remains
<1>4. material' = [material EXCEPT ![work.ca] = m] /\ UNCHANGED <<leftovers, active, certs, database, history>>
  BY DEF RemoveMaterial
<1> HIDE DEF m
<1>5. TypeOK' /\ TrustFollowsTheStore'
  BY <1>1, <1>3, <1>4, TrustOutlivesMaterial DEF RemoveMaterial
<1>6. work.phase = "sweep" =>
        ActiveOpens /\ work.left \subseteq Stored \ {active} /\ work.ca \notin work.left /\ work.ca # active
  BY <1>1 DEF TrustInv, WorkInv, PointerHolds, Sweeping, Retirement
<1>7. work.phase = "sweep" => ActiveOpens' /\ work.left \subseteq Stored' \ {active'}
  BY <1>4, <1>6 DEF ActiveOpens, Whole, Stored, TrustInv, TypeOK
<1>8. CASE material[work.ca] # "empty"
  <2>1. work' = work
    BY <1>8 DEF RemoveMaterial
  <2>2. work.ca \in Stored'
    BY <1>1, <1>3, <1>4, <1>8 DEF Stored, TrustInv, TypeOK
  <2>3. Retirement'
    BY <1>1, <1>4, <2>1, <2>2 DEF Retirement, At, TrustInv, WorkInv, history
  <2>4. WorkInv'
    BY <1>1, <1>6, <1>7, <2>1, <2>3, Retires DEF TrustInv, WorkInv, Placed
  <2>5. QED
    BY <1>5, <2>4 DEF TrustInv
<1>9. CASE material[work.ca] = "empty" /\ work.phase = "sweep"
  <2>1. Goes("next")
    BY <1>9, GoToStep DEF RemoveMaterial, Steps
  <2>2. WorkInv'
    BY <1>7, <1>9, <2>1, Sweeps DEF Goes
  <2>3. QED
    BY <1>5, <2>2 DEF TrustInv
<1>10. CASE material[work.ca] = "empty" /\ work.phase # "sweep"
  BY <1>5, <1>10, Ends DEF RemoveMaterial
<1>11. QED
  BY <1>8, <1>9, <1>10

LEMMA RemoveMaterialFailsStep ==
  ASSUME TrustInv, RemoveMaterialFails
  PROVE  TrustInv'
<1>1. CASE UNCHANGED material
  <2>1. TypeOK' /\ TrustFollowsTheStore'
    BY <1>1, TrustStays DEF RemoveMaterialFails, TrustInv, TypeOK
  <2>2. QED
    BY <2>1, Ends DEF RemoveMaterialFails
<1>2. CASE material' = [material EXCEPT ![work.ca] = "none"]
  <2>1. TypeOK' /\ TrustFollowsTheStore'
    BY <1>2, TrustOutlivesMaterial DEF RemoveMaterialFails
  <2>2. QED
    BY <2>1, Ends DEF RemoveMaterialFails
<1>3. QED
  BY <1>1, <1>2 DEF RemoveMaterialFails

-----------------------------------------------------------------------------
(* Revoke, and the death of the process *)

\* Without a pointer there is nobody the system has to trust.
LEMMA PointerGone ==
  ASSUME TrustInv, Fault \/ Sound, active' = None, UNCHANGED <<material, leftovers, certs, database, history>>
  PROVE  TypeOK' /\ TrustFollowsTheStore'
<1>1. TypeOK'
  BY StaysTyped DEF TrustInv, TypeOK, history
<1>2. QED
  BY <1>1 DEF TrustInv, TrustFollowsTheStore, ActiveCAIsTrusted, TrustCanBeRetired, Whole, history

LEMMA DeactivateStep ==
  ASSUME TrustInv, Deactivate
  PROVE  TrustInv'
<1>1. TypeOK' /\ TrustFollowsTheStore'
  BY PointerGone DEF Deactivate
<1>2. work' \in Works /\ work'.phase = "revoke" /\ work'.step = "uninstall" /\ work'.ca = active
  BY DEF Deactivate, Idle, Works, Retiring, TrustInv, TypeOK
<1>3. active \in Stored' /\ active # active'
  BY DEF Deactivate, ActiveOpens, Whole, Stored
<1>4. Retirement'
  BY <1>2, <1>3 DEF Retirement, At
<1>5. WorkInv'
  BY <1>2, <1>4, Retires DEF Retiring
<1>6. QED
  BY <1>1, <1>5 DEF TrustInv

LEMMA DeactivateFailsStep ==
  ASSUME TrustInv, DeactivateFails
  PROVE  TrustInv'
<1>1. TypeOK' /\ TrustFollowsTheStore'
  BY PointerGone DEF DeactivateFails
<1>2. Return
  BY DEF DeactivateFails, Return
<1>3. QED
  BY <1>1, <1>2, Ends

LEMMA CrashStep ==
  ASSUME TrustInv, Crash
  PROVE  TrustInv'
<1>1. leftovers' \in Nat
  BY DEF Crash, TrustInv, TypeOK
<1>2. QED
  BY <1>1, TrustStays, Ends DEF Crash

-----------------------------------------------------------------------------
(* The theorems *)

LEMMA TrustInvInit == Init => TrustInv
<1> SUFFICES ASSUME Init
             PROVE  TrustInv
  OBVIOUS
<1>1. TypeOK
  BY CAAssumption DEF Init, TypeOK
<1>2. WorkInv
  <2>1. work \in Works /\ work.step = "none" /\ work.phase = "none"
    BY DEF Init, Idle, Works
  <2>2. QED
    BY <2>1 DEF WorkInv, Placed, Refreshing, Issuing, Sweeping, PointerHolds, Retirement, At, Installing, Retiring
<1>3. TrustFollowsTheStore
  BY DEF Init, TrustFollowsTheStore, ActiveCAIsTrusted, TrustCanBeRetired
<1>4. QED
  BY <1>1, <1>2, <1>3 DEF TrustInv

LEMMA TrustInvNext == TrustInv /\ [Next]_vars => TrustInv'
<1> SUFFICES ASSUME TrustInv, [Next]_vars
             PROVE  TrustInv'
  OBVIOUS
<1>1. CASE \E op \in {"rotate", "reconcile"} : Begin(op)
  BY <1>1, BeginStep
<1>2. CASE Deactivate
  BY <1>2, DeactivateStep
<1>3. CASE Progress
  <2>1. CASE Load \/ Reconciled \/ Stage \/ (\E c \in CAs : RetireNext(c) \/ Publish(c))
    BY <2>1, LoadStep, ReconciledStep, StageStep, RetireNextStep, PublishStep
  <2>2. CASE WriteCertificate \/ RefreshInstalled \/ RefreshRollback \/ Activate
    BY <2>2, WriteCertificateStep, RefreshInstalledStep, RefreshRollbackStep, ActivateStep
  <2>3. CASE TakeCertificate \/ RefreshUninstalled \/ RefreshRestored \/ RemoveMaterial
    BY <2>3, TakeCertificateStep, RefreshUninstalledStep, RefreshRestoredStep, RemoveMaterialStep
  <2>4. QED
    BY <1>3, <2>1, <2>2, <2>3 DEF Progress
<1>4. CASE Failure
  <2>1. CASE PublishFails \/ WriteCertificateFails \/ RefreshExistingFails \/ RefreshNewFails
    BY <2>1, PublishFailsStep, WriteCertificateFailsStep, RefreshExistingFailsStep, RefreshNewFailsStep
  <2>2. CASE \E renamed \in BOOLEAN : ActivateFails(renamed)
    BY <2>2, ActivateFailsStep
  <2>3. CASE TakeCertificateFails \/ RefreshMissingFails \/ RefreshRemovedFails \/ RemoveMaterialFails
    BY <2>3, TakeCertificateFailsStep, RefreshMissingFailsStep, RefreshRemovedFailsStep, RemoveMaterialFailsStep
  <2>4. CASE DeactivateFails \/ Crash
    BY <2>4, DeactivateFailsStep, CrashStep
  <2>5. QED
    BY <1>4, <2>1, <2>2, <2>3, <2>4 DEF Failure
<1>5. CASE UNCHANGED vars
  BY <1>5 DEF vars, stores, history, TrustInv, TypeOK, WorkInv, Placed, Refreshing, Issuing, Sweeping,
              PointerHolds, Retirement, At, ActiveOpens, Whole, Stored, TrustFollowsTheStore,
              ActiveCAIsTrusted, TrustCanBeRetired
<1>6. QED
  BY <1>1, <1>2, <1>3, <1>4, <1>5 DEF Next

\* Whatever the controller is in the middle of, it knows what it may rely on:
\* the material of the authority in hand, and what the pointer names.
THEOREM OperationsKeepTheirGround == Spec => []TrustInv
<1>1. QED
  BY TrustInvInit, TrustInvNext, PTL DEF Spec

\* LinuxCAController, LinuxTrustStore and CAStore together: the active authority
\* is whole and trusted, and what the system trusts can be retired, in every
\* state of a rotation, a reconciliation, a revocation or their undoing.
THEOREM TrustAlwaysFollowsTheStore == Spec => []TrustFollowsTheStore
<1>1. TrustInv => TrustFollowsTheStore
  BY DEF TrustInv
<1>2. QED
  BY <1>1, OperationsKeepTheirGround, PTL

=============================================================================
