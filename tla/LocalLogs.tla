------------------------------ MODULE LocalLogs ------------------------------
(***************************************************************************)
(* The files a core records in: the audit log and the developer traces,     *)
(* which are appended to, and the feedback, which is replaced as a whole.   *)
(* Each has a lock that is held from the first to the last step of an       *)
(* operation; a step may fail, the process may be killed, the machine may   *)
(* go down with what is not synced.                                         *)
(*                                                                         *)
(* A record is its number and its size.  A torn record, of which only a     *)
(* part is there, makes the whole log unreadable.  A new file's name is     *)
(* taken to reach the disk with its first sync.                             *)
(***************************************************************************)
EXTENDS Integers, FiniteSets, Sequences, SequencesExt

CONSTANTS
  Sizes,         \* sizes of records
  MaxBytes,      \* maxAuditFileBytes, maxTraceFileBytes, maxFeedbackBytes
  MaxEntries,    \* maxFeedbackEntries
  MaxRecords     \* bound: records ever

ASSUME LogsAssumption ==
  Sizes \subseteq Nat \ {0} /\ {MaxBytes, MaxRecords} \subseteq Nat
  /\ MaxEntries \in Nat \ {0}

Journals == {"audit", "developer"}
Logs == Journals \cup {"feedback"}

VARIABLES
  log,           \* what is in each file
  logImages,     \* what a power failure may leave of it
  writing,       \* the operation that holds each log's lock
  issued,        \* records so far
  expired,       \* records older than the retention
  recorded,      \* acknowledged records nothing entitled the core to drop (history)
  tracing,       \* the developer settings in memory
  settings       \* what the next start may read of them

logVars == <<log, logImages, writing, issued, expired, recorded, tracing, settings>>

Idle == [step |-> "idle"]
LogAt(l, step) == writing[l].step = step
Proceed(l, step) == writing' = [writing EXCEPT ![l].step = step]
Stop(l) == writing' = [writing EXCEPT ![l] = Idle]

\* The size of a log, summed from its first record to its last.
SizeUpTo(c) ==
  LET sum[n \in 0..Len(c)] == IF n = 0 THEN 0 ELSE sum[n-1] + c[n].size IN sum
Bytes(c) == SizeUpTo(c)[Len(c)]
Ids(c) == {c[i].id : i \in DOMAIN c}
Readable(c) == \A i \in DOMAIN c : ~c[i].torn

Put(l, c) ==
  /\ log' = [log EXCEPT ![l] = c]
  /\ logImages' = [logImages EXCEPT ![l] = @ \cup {c}]
Synced(l) == logImages' = [logImages EXCEPT ![l] = {log[l]}] /\ UNCHANGED log

\* A rename puts c in the place of the log.  The records it may do without are
\* given up; whatever else it leaves out is lost.
Replace(l, c, dispensable) ==
  /\ Put(l, c)
  /\ recorded' = [recorded EXCEPT ![l] = @ \ dispensable]

\* The records that do not fit into this many bytes with all that are newer.
Displaced(c, room) ==
  {c[k].id : k \in {j \in DOMAIN c : Bytes(SubSeq(c, j, Len(c))) > room}}

-----------------------------------------------------------------------------
(* The audit log and the developer traces *)

\* Faulty variant: the record to come is not counted.
RoomForAll(size) == MaxBytes

RoomBeside(size) == MaxBytes - size

\* Faulty variant: a log that would be exactly full is cut once more.
NewestBelow(c, size) ==
  LET fits == {k \in 1..(Len(c) + 1) : Bytes(SubSeq(c, k, Len(c))) < RoomBeside(size)}
                \cup {Len(c) + 1}
      first == CHOOSE k \in fits : \A j \in fits : k <= j
  IN SubSeq(c, first, Len(c))

\* The newest records that leave room for one of this size.
Newest(c, size) ==
  LET fits == {k \in 1..(Len(c) + 1) : Bytes(SubSeq(c, k, Len(c))) <= RoomBeside(size)}
      first == CHOOSE k \in fits : \A j \in fits : k <= j
  IN SubSeq(c, first, Len(c))

\* Append up to the write: a log that would be too long is read and compacted;
\* one that cannot be read refuses the record.
AppendRecord(l, size) ==
  /\ l \in Journals /\ LogAt(l, "idle") /\ issued < MaxRecords
  /\ l = "developer" => tracing
  /\ size <= MaxBytes
  /\ LET record == [id |-> issued + 1, size |-> size, torn |-> FALSE]
     IN IF Bytes(log[l]) + size <= MaxBytes
        THEN /\ writing' = [writing EXCEPT ![l] = [step |-> "opened", record |-> record]]
             /\ UNCHANGED <<log, logImages, recorded>>
        ELSE /\ Readable(log[l])
             /\ Replace(l, Newest(log[l], size), Displaced(log[l], MaxBytes - size))
             /\ writing' = [writing EXCEPT ![l] = [step |-> "compacted", record |-> record]]
  /\ issued' = issued + 1
  /\ UNCHANGED <<expired, tracing, settings>>

Compacted(l) ==
  /\ LogAt(l, "compacted")
  /\ \/ Synced(l) /\ Proceed(l, "opened")
     \/ UNCHANGED <<log, logImages>> /\ Stop(l)
  /\ UNCHANGED <<issued, expired, recorded, tracing, settings>>

\* The write reaches the file in parts; a failing one leaves what it wrote.
WriteHalf(l) ==
  /\ LogAt(l, "opened")
  /\ \/ /\ Put(l, Append(log[l], [writing[l].record EXCEPT !.torn = TRUE]))
        /\ \/ Proceed(l, "half") \/ Stop(l)
     \/ UNCHANGED <<log, logImages>> /\ Stop(l)
  /\ UNCHANGED <<issued, expired, recorded, tracing, settings>>

WriteRest(l) ==
  /\ LogAt(l, "half")
  /\ Put(l, Append(Front(log[l]), writing[l].record))
  /\ Proceed(l, "written")
  /\ UNCHANGED <<issued, expired, recorded, tracing, settings>>

\* The sync of the file, or of the directory the feedback was renamed into.
AcknowledgeRecord(l) ==
  /\ LogAt(l, "written")
  /\ \/ Synced(l) /\ recorded' = [recorded EXCEPT ![l] = @ \cup {writing[l].record.id}]
     \/ UNCHANGED <<log, logImages, recorded>>
  /\ Stop(l)
  /\ UNCHANGED <<issued, expired, tracing, settings>>

-----------------------------------------------------------------------------
(* The feedback and the developer settings *)

\* feedback.Append: load, keep the newest, replace; too large is refused.
AppendFeedback(size) ==
  LET l == "feedback"
      all == Append(log[l], [id |-> issued + 1, size |-> size, torn |-> FALSE])
      newest == SubSeq(all, IF Len(all) > MaxEntries THEN Len(all) - MaxEntries + 1 ELSE 1, Len(all))
  IN /\ LogAt(l, "idle") /\ issued < MaxRecords
     /\ Bytes(newest) <= MaxBytes
     /\ Replace(l, newest, {all[k].id : k \in 1..(Len(all) - MaxEntries)})
     /\ writing' = [writing EXCEPT ![l] = [step |-> "written", record |-> Last(all)]]
     /\ issued' = issued + 1
     /\ UNCHANGED <<expired, tracing, settings>>

\* SaveSettings: memory follows the file; a refused save may have replaced it.
SaveSettings ==
  /\ LogAt("developer", "idle")
  /\ \E on \in BOOLEAN :
       \/ tracing' = on /\ settings' = {on}
       \/ settings' = settings \cup {on} /\ UNCHANGED tracing
  /\ UNCHANGED <<log, logImages, writing, issued, expired, recorded>>

-----------------------------------------------------------------------------
(* Time, starts and ends *)

\* Records grow older than the retention.
Expire ==
  /\ \E i \in 1..issued : i \notin expired /\ expired' = expired \cup {i}
  /\ UNCHANGED <<log, logImages, writing, issued, recorded, tracing, settings>>

\* Prune: the records that are not, in their order.
KeptUpTo(c) ==
  LET kept[n \in 0..Len(c)] ==
        IF n = 0 THEN <<>>
        ELSE IF c[n].id \in expired THEN kept[n-1] ELSE Append(kept[n-1], c[n])
  IN kept
Unexpired(c) == KeptUpTo(c)[Len(c)]

\* NewStore: both journals are read and pruned, else the core does not start.
LogsOpen == \A l \in Journals : Readable(log[l]) /\ Bytes(log[l]) <= MaxBytes

OpenLogs ==
  /\ LogsOpen
  /\ \E on \in settings : tracing' = on /\ settings' = {on}
  /\ LET pruned(l) == IF l \in Journals THEN Unexpired(log[l]) ELSE log[l]
     IN /\ log' = [l \in Logs |-> pruned(l)]
        /\ logImages' = [l \in Logs |-> IF pruned(l) # log[l] THEN {pruned(l)} ELSE logImages[l]]
        /\ recorded' = [l \in Logs |-> IF l \in Journals THEN recorded[l] \ expired ELSE recorded[l]]
  /\ UNCHANGED <<writing, issued, expired>>

\* One of them cannot be replaced when it has expired records.
OpeningFails ==
  /\ \/ ~LogsOpen /\ UNCHANGED <<log, logImages, recorded>>
     \/ \E l \in Journals :
          /\ Unexpired(log[l]) # log[l] /\ Readable(log[l])
          /\ Replace(l, Unexpired(log[l]), expired)
  /\ UNCHANGED <<writing, issued, expired, tracing, settings>>

LogsAbandoned ==
  /\ writing' = [l \in Logs |-> Idle]
  /\ UNCHANGED <<log, logImages, issued, expired, recorded, tracing, settings>>

LogsAfterPowerFailure ==
  /\ \E c \in [Logs -> UNION {logImages[l] : l \in Logs}] :
       /\ \A l \in Logs : c[l] \in logImages[l]
       /\ log' = c
       /\ logImages' = [l \in Logs |-> {c[l]}]
  /\ writing' = [l \in Logs |-> Idle]
  /\ UNCHANGED <<issued, expired, recorded, tracing, settings>>

LogsInit ==
  /\ log = [l \in Logs |-> <<>>] /\ logImages = [l \in Logs |-> {<<>>}]
  /\ writing = [l \in Logs |-> Idle]
  /\ issued = 0 /\ expired = {} /\ recorded = [l \in Logs |-> {}]
  /\ tracing = FALSE /\ settings = {FALSE}

LogStep(l) ==
  \/ \E size \in Sizes : AppendRecord(l, size) \/ (l = "feedback" /\ AppendFeedback(size))
  \/ Compacted(l) \/ WriteHalf(l) \/ WriteRest(l) \/ AcknowledgeRecord(l)
  \/ l = "developer" /\ SaveSettings

-----------------------------------------------------------------------------
(* Properties *)

Torn == \E l \in Logs : ~Readable(log[l])
Whole(c) == {c[i].id : i \in {k \in DOMAIN c : ~c[k].torn}}

\* A record that was acknowledged is in every image a failure may leave, whole,
\* until it is too old, too many entries came after it, or a new record needs its
\* place (`recorded`): compaction drops no more than does not fit beside the new
\* record, whatever failures and restarts came before.  That it can be read is
\* not said: a torn record next to it makes its log unreadable.
AcknowledgedRecordsSurvive ==
  \A l \in Logs : \A c \in logImages[l] :
    recorded[l] \subseteq Whole(c)

\* No sequence of records, failures and restarts leaves a log longer than the
\* limit beyond which it can be neither read nor compacted and stops every start.
LogsStayWithinTheirLimit ==
  \A l \in Logs : \A c \in logImages[l] :
    Bytes(c) <= MaxBytes /\ (l = "feedback" => Len(c) <= MaxEntries)

-----------------------------------------------------------------------------
(* The inductive invariant *)

LogRecord == [id : Nat, size : Nat, torn : BOOLEAN]
Files == Seq(LogRecord)
Pending ==
  [step : {"opened", "compacted", "half", "written"},
   record : [id : Nat, size : Nat, torn : {FALSE}]]
Operations == {Idle} \cup Pending

LogsTyped ==
  /\ log \in [Logs -> Files] /\ logImages \in [Logs -> SUBSET Files]
  /\ \A l \in Logs : log[l] \in logImages[l]
  /\ writing \in [Logs -> Operations]
  /\ recorded \in [Logs -> SUBSET Nat]
  /\ issued \in Nat

\* How far an operation has come can be seen in its log.
StepsShow ==
  \A l \in Logs :
    /\ writing[l].step \in {"opened", "compacted"} =>
         Bytes(log[l]) + writing[l].record.size <= MaxBytes
    /\ LogAt(l, "half") =>
         log[l] # <<>> /\ Last(log[l]) = [writing[l].record EXCEPT !.torn = TRUE]
    /\ LogAt(l, "written") => writing[l].record.id \in Whole(log[l])

\* The feedback is replaced as a whole.
FeedbackIsWhole ==
  /\ writing["feedback"].step \in {"idle", "written"}
  /\ \A c \in logImages["feedback"] : Readable(c)

LogsInv ==
  /\ LogsTyped
  /\ StepsShow
  /\ FeedbackIsWhole
  /\ AcknowledgedRecordsSurvive
  /\ LogsStayWithinTheirLimit

=============================================================================
