------------------------------ MODULE ImportJob ------------------------------
(***************************************************************************)
(* One bulk-import job of apps/api/src/modules/imports/imports.service.ts: *)
(* its row in import_jobs, the ledger import_job_records, the workbook and *)
(* the result reports in object storage, the BullMQ job that carries it,   *)
(* and the processes that touch them: the preview request, the confirm and *)
(* cancel requests, the import workers, and the maintenance timer.  Every  *)
(* where-clause of the service is keyed by the job id, so jobs do not      *)
(* interact and one job is the whole state space.                          *)
(*                                                                         *)
(* A step is one database transaction or one storage or queue call.  A     *)
(* call that fails, or whose answer is lost, costs one unit of MaxFaults.  *)
(***************************************************************************)
EXTENDS Naturals, FiniteSets

CONSTANTS
    Workers,      \* import worker processes; a worker's name is also the
                  \* BullMQ token of its attempt and the key of its report
    NoWorker,     \* SQL NULL in the columns that hold a token or a key
    Rows,         \* data rows of the workbook
    MaxFaults,    \* bound: failed calls, lost answers, crashes, lost locks
    MaxAttempts,  \* BullMQ attempts of one queue job
    LostPreview   \* may the READY update of preview commit unanswered?

ASSUME NoWorkerAssumption == NoWorker \notin Workers
ASSUME BoundsAssumption   == MaxFaults \in Nat /\ MaxAttempts \in Nat \ {0}
ASSUME FlagAssumption     == LostPreview \in BOOLEAN

VARIABLES
    \* the row of import_jobs
    status, token, pending, result, sourceKey, expired,
    rowLock,      \* worker whose open finalization transaction locks the row
    ledger,       \* ledger[r]: live records created from row r
    \* object storage
    source,       \* is the workbook stored?
    reports,      \* keys of the stored result reports
    content,      \* content[k]: rows the report under key k lists as imported
    queue,        \* the BullMQ job with the id of the import
    \* worker processes
    pc, seen, todo, done, reserved, owns, outcome,
    \* requests and maintenance
    preview, confirm, cancel, janitor, janitorSaw,
    faults

rowVars     == <<status, token, pending, result, sourceKey>>
storeVars   == <<source, reports, content>>
attemptVars == <<seen, todo, done, reserved, owns, outcome>>
clientVars  == <<preview, confirm, cancel>>
janitorVars == <<janitor, janitorSaw>>
vars == <<rowVars, expired, rowLock, ledger, storeVars, queue, pc,
          attemptVars, clientVars, janitorVars, faults>>

Terminal == {"COMPLETED", "FAILED", "ROLLED_BACK", "CANCELLED"}
JobStatus == {"VALIDATING", "READY", "QUEUED", "PROCESSING"} \cup Terminal
WorkerOrNull == Workers \cup {NoWorker}

(* The states of BullMQ in which ensureQueueJobScheduled leaves a job alone *)
scheduledStates == {"active", "waiting", "delayed"}
QueueState == scheduledStates \cup {"none", "completed", "failed"}
NoQueueJob == [state |-> "none", holder |-> NoWorker, recovery |-> FALSE,
               stalls |-> 0, tries |-> 0]

NothingSeen == [status |-> "QUEUED", token |-> NoWorker, recovered |-> FALSE]

Fault    == faults < MaxFaults /\ faults' = faults + 1
NoFault  == faults' = faults
Unlocked == rowLock = NoWorker

(* The fence every write of an attempt is conditioned on *)
Owns(w) == status = "PROCESSING" /\ token = w

Init ==
    /\ status = "VALIDATING" /\ token = NoWorker
    /\ pending = NoWorker /\ result = NoWorker
    /\ sourceKey = TRUE /\ expired = FALSE
    /\ rowLock = NoWorker
    /\ ledger = [r \in Rows |-> 0]
    /\ source = FALSE /\ reports = {}
    /\ content = [w \in Workers |-> {}]
    /\ queue = NoQueueJob
    /\ pc = [w \in Workers |-> "idle"]
    /\ seen = [w \in Workers |-> NothingSeen]
    /\ todo = [w \in Workers |-> {}]
    /\ done = [w \in Workers |-> {}]
    /\ reserved = [w \in Workers |-> FALSE]
    /\ owns = [w \in Workers |-> FALSE]
    /\ outcome = [w \in Workers |-> "ok"]
    /\ preview = "upload" /\ confirm = "idle" /\ cancel = "idle"
    /\ janitor = "idle" /\ janitorSaw = "VALIDATING"
    /\ faults = 0

-----------------------------------------------------------------------------
(* Steps several processes share *)

(* A slip the runs must notice: the column is cleared before the object     *)
(* is gone                                                                 *)
ClearThenDelete(key) ==
    /\ Unlocked
    /\ pending' = NoWorker
    /\ \/ reports' = reports \ {key} /\ NoFault
       \/ reports' = reports /\ Fault

(* deletePendingResultAndClear: one Serializable transaction that deletes  *)
(* the object and clears the column, or fails after the object is gone     *)
DeletePendingResult(key) ==
    /\ Unlocked
    /\ reports' = reports \ {key}
    /\ \/ pending' = NoWorker /\ NoFault
       \/ pending' = pending /\ Fault

AnyKey(key) == TRUE     \* a slip: the row is not read again
IsOrphan(key) == pending = key /\ result # key

(* ensureQueueJobScheduled, under the stable queue id of the import *)
EnsureScheduled(recovery) ==
    queue' = IF queue.state \in scheduledStates THEN queue
             ELSE [state |-> "waiting", holder |-> NoWorker, recovery |-> recovery,
                   stalls |-> 0, tries |-> 0]

-----------------------------------------------------------------------------
(* preview: the row exists in VALIDATING with its key before the upload *)

PreviewUpload ==
    /\ preview = "upload"
    /\ \/ source' = TRUE /\ preview' = "ready" /\ NoFault
       \/ source' \in BOOLEAN /\ preview' = "check" /\ Fault
    /\ UNCHANGED <<rowVars, expired, rowLock, ledger, reports, content, queue, pc,
                   attemptVars, confirm, cancel, janitorVars>>

PreviewReady ==
    /\ preview = "ready"
    /\ \/ status' = "READY" /\ preview' = "done" /\ NoFault
       \/ /\ status' \in {status} \cup (IF LostPreview THEN {"READY"} ELSE {})
          /\ preview' = "check" /\ Fault
    /\ UNCHANGED <<token, pending, result, sourceKey, expired, rowLock, ledger, storeVars,
                   queue, pc, attemptVars, confirm, cancel, janitorVars>>

PreviewReconcile ==
    /\ preview = "check"
    /\ \/ preview' = (IF status = "READY" /\ sourceKey THEN "done" ELSE "fail")
          /\ NoFault
       \/ preview' = "done" /\ Fault
    /\ UNCHANGED <<rowVars, expired, rowLock, ledger, storeVars, queue, pc, attemptVars,
                   confirm, cancel, janitorVars>>

PreviewFail ==
    /\ preview = "fail"
    /\ \/ /\ status' = (IF status = "VALIDATING" THEN "FAILED" ELSE status)
          /\ preview' = "delete" /\ NoFault
       \/ status' = status /\ preview' = "done" /\ Fault
    /\ UNCHANGED <<token, pending, result, sourceKey, expired, rowLock, ledger, storeVars,
                   queue, pc, attemptVars, confirm, cancel, janitorVars>>

(* deleteSourceQuietly on behalf of the failed preview *)
PreviewDeleteSource ==
    /\ \/ /\ preview = "delete"
          /\ \/ source' = FALSE /\ preview' = "clear" /\ NoFault
             \/ source' = source /\ preview' = "done" /\ Fault
          /\ sourceKey' = sourceKey
       \/ /\ preview = "clear" /\ Unlocked
          /\ preview' = "done"
          /\ \/ sourceKey' = FALSE /\ NoFault
             \/ sourceKey' = sourceKey /\ Fault
          /\ source' = source
    /\ UNCHANGED <<status, token, pending, result, expired, rowLock, ledger, reports,
                   content, queue, pc, attemptVars, confirm, cancel, janitorVars>>

PreviewCrash ==
    /\ preview # "done" /\ Fault
    /\ preview' = "done"
    /\ UNCHANGED <<rowVars, expired, rowLock, ledger, storeVars, queue, pc, attemptVars,
                   confirm, cancel, janitorVars>>

-----------------------------------------------------------------------------
(* confirm: read, compare-and-set READY -> QUEUED, schedule.  A failure    *)
(* after the transaction leaves a QUEUED row for reconciliation.           *)

ConfirmRead ==
    /\ confirm = "idle"
    /\ status \in {"READY", "QUEUED"} /\ sourceKey /\ ~expired
    /\ confirm' = (IF status = "READY" THEN "claim" ELSE "schedule")
    /\ UNCHANGED <<rowVars, expired, rowLock, ledger, storeVars, queue, pc, attemptVars,
                   preview, cancel, janitorVars, faults>>

ConfirmClaim ==
    /\ confirm = "claim" /\ Unlocked
    /\ IF status = "READY"
       THEN /\ status' = "QUEUED" /\ token' = NoWorker
            /\ \/ confirm' = "schedule" /\ NoFault
               \/ confirm' = "idle" /\ Fault
       ELSE UNCHANGED <<status, token, faults>> /\ confirm' = "idle"
    /\ UNCHANGED <<pending, result, sourceKey, expired, rowLock, ledger, storeVars, queue,
                   pc, attemptVars, preview, cancel, janitorVars>>

ConfirmSchedule ==
    /\ confirm = "schedule"
    /\ confirm' = "idle"
    /\ \/ EnsureScheduled(FALSE) /\ NoFault
       \/ queue' = queue /\ Fault
    /\ UNCHANGED <<rowVars, expired, rowLock, ledger, storeVars, pc, attemptVars, preview,
                   cancel, janitorVars>>

(* cancel: READY -> CANCELLED, then the source; a CANCELLED job may be     *)
(* cancelled again to retry the cleanup                                    *)

CancelRead ==
    /\ cancel = "idle"
    /\ status \in {"READY", "CANCELLED"} /\ sourceKey
    /\ cancel' = (IF status = "READY" THEN "claim" ELSE "delete")
    /\ UNCHANGED <<rowVars, expired, rowLock, ledger, storeVars, queue, pc, attemptVars,
                   preview, confirm, janitorVars, faults>>

CancelClaim ==
    /\ cancel = "claim" /\ Unlocked
    /\ IF status = "READY"
       THEN /\ status' = "CANCELLED"
            /\ \/ cancel' = "delete" /\ NoFault
               \/ cancel' = "idle" /\ Fault
       ELSE UNCHANGED <<status, faults>> /\ cancel' = "idle"
    /\ UNCHANGED <<token, pending, result, sourceKey, expired, rowLock, ledger, storeVars,
                   queue, pc, attemptVars, preview, confirm, janitorVars>>

CancelDeleteSource ==
    /\ \/ /\ cancel = "delete"
          /\ \/ source' = FALSE /\ cancel' = "clear" /\ NoFault
             \/ source' = source /\ cancel' = "idle" /\ Fault
          /\ sourceKey' = sourceKey
       \/ /\ cancel = "clear" /\ Unlocked
          /\ cancel' = "idle"
          /\ \/ sourceKey' = FALSE /\ NoFault
             \/ sourceKey' = sourceKey /\ Fault
          /\ source' = source
    /\ UNCHANGED <<status, token, pending, result, expired, rowLock, ledger, reports,
                   content, queue, pc, attemptVars, preview, confirm, janitorVars>>

(* rollback: removes every record of a finished job in one transaction *)
Rollback ==
    /\ status \in {"COMPLETED", "FAILED"} /\ Unlocked
    /\ \E r \in Rows : ledger[r] > 0
    /\ status' = "ROLLED_BACK"
    /\ ledger' = [r \in Rows |-> 0]
    /\ UNCHANGED <<token, pending, result, sourceKey, expired, rowLock, storeVars, queue,
                   pc, attemptVars, clientVars, janitorVars, faults>>

-----------------------------------------------------------------------------
(* process: one attempt of worker w *)

(* BullMQ hands the job over; its retry and stall counters are read now *)
Fetch(w) ==
    /\ pc[w] = "idle" /\ queue.state = "waiting"
    /\ queue' = [queue EXCEPT !.state = "active", !.holder = w]
    /\ pc' = [pc EXCEPT ![w] = "read"]
    /\ seen' = [seen EXCEPT ![w].recovered =
                   queue.recovery \/ queue.stalls > 0 \/ queue.tries > 0]
    /\ UNCHANGED <<rowVars, expired, rowLock, ledger, storeVars, todo, done, reserved,
                   owns, outcome, clientVars, janitorVars, faults>>

Goto(w, l)   == pc' = [pc EXCEPT ![w] = l]
Throw(w, l)  == Goto(w, l) /\ outcome' = [outcome EXCEPT ![w] = "error"]
Return(w, l) == Goto(w, l) /\ outcome' = outcome

ReadJob(w) ==
    /\ pc[w] = "read"
    /\ LET workable == \/ status = "QUEUED"
                       \/ status = "PROCESSING" /\ seen[w].recovered
       IN \/ ~workable /\ Return(w, "settle") /\ seen' = seen
          \/ workable /\ ~sourceKey /\ Throw(w, "settle") /\ seen' = seen
          \/ /\ workable /\ sourceKey /\ Return(w, "claim")
             /\ seen' = [seen EXCEPT ![w].status = status, ![w].token = token]
    /\ UNCHANGED <<rowVars, expired, rowLock, ledger, storeVars, queue, todo, done,
                   reserved, owns, clientVars, janitorVars, faults>>

(* A slip: the status is not compared *)
ClaimableAgain(w) == sourceKey /\ ~expired

(* The where-clause of the claim: the row is still the one that was read *)
Claimable(w) ==
    /\ status = seen[w].status /\ sourceKey /\ ~expired
    /\ seen[w].status = "PROCESSING" => token = seen[w].token

TakeToken(w) == status' = "PROCESSING" /\ token' = w

Claim(w) ==
    /\ pc[w] = "claim" /\ Unlocked
    /\ \/ Claimable(w) /\ TakeToken(w) /\ Goto(w, "claimed") /\ NoFault
       \/ ~Claimable(w) /\ Goto(w, "settle") /\ NoFault /\ UNCHANGED <<status, token>>
       \/ /\ Fault /\ Goto(w, "claimCheck")
          /\ \/ Claimable(w) /\ TakeToken(w)
             \/ UNCHANGED <<status, token>>
    /\ UNCHANGED <<pending, result, sourceKey, expired, rowLock, ledger, storeVars, queue,
                   attemptVars, clientVars, janitorVars>>

(* Re-reads the exact token after an ambiguous claim *)
ClaimCheck(w) ==
    /\ pc[w] = "claimCheck"
    /\ \/ Owns(w) /\ sourceKey /\ Return(w, "claimed") /\ NoFault
       \/ ~(Owns(w) /\ sourceKey) /\ Throw(w, "settle") /\ NoFault
       \/ Throw(w, "settle") /\ Fault
    /\ UNCHANGED <<rowVars, expired, rowLock, ledger, storeVars, queue, seen, todo, done,
                   reserved, owns, clientVars, janitorVars>>

(* The new owner removes the report an interrupted attempt left pending *)
Resume(w) ==
    /\ pc[w] = "claimed"
    /\ \/ ~Owns(w) /\ Return(w, "settle") /\ NoFault /\ UNCHANGED <<pending, reports>>
       \/ /\ Owns(w) /\ pending \in {NoWorker, result} /\ Return(w, "load") /\ NoFault
          /\ UNCHANGED <<pending, reports>>
       \/ /\ Owns(w) /\ pending \notin {NoWorker, result}
          /\ DeletePendingResult(pending)
          /\ IF pending' = NoWorker THEN Return(w, "load") ELSE Throw(w, "settle")
    /\ UNCHANGED <<status, token, result, sourceKey, expired, rowLock, ledger, source,
                   content, queue, seen, todo, done, reserved, owns, clientVars,
                   janitorVars>>

(* persistedImportRecords: what an earlier attempt left to do *)
Remaining == {r \in Rows : ledger[r] = 0}

(* Reads the workbook, then the ledger: rows already imported are not todo *)
Load(w) ==
    /\ pc[w] = "load"
    /\ \/ /\ source /\ Return(w, "rows") /\ NoFault
          /\ todo' = [todo EXCEPT ![w] = Remaining]
          /\ done' = [done EXCEPT ![w] = Rows \ Remaining]
       \/ ~source /\ Throw(w, "fail") /\ NoFault /\ UNCHANGED <<todo, done>>
       \/ Throw(w, "finally") /\ Fault /\ UNCHANGED <<todo, done>>
    /\ UNCHANGED <<rowVars, expired, rowLock, ledger, storeVars, queue, seen, reserved,
                   owns, clientVars, janitorVars>>

(* handler.create for one row, or createPeopleBatch for several: fenced by *)
(* SELECT ... FOR SHARE, the records and their ledger rows in one          *)
(* transaction.  An answer lost after the commit is found in the ledger.   *)
CreateRows(w, S) ==
    /\ pc[w] = "rows" /\ Owns(w) /\ Unlocked
    /\ ledger' = [r \in Rows |-> IF r \in S THEN ledger[r] + 1 ELSE ledger[r]]
    /\ todo' = [todo EXCEPT ![w] = @ \ S]
    /\ done' = [done EXCEPT ![w] = @ \cup S]
    /\ \/ Return(w, "rows") /\ NoFault
       \/ Throw(w, "finally") /\ Fault
    /\ UNCHANGED <<rowVars, expired, rowLock, storeVars, queue, seen, reserved, owns,
                   clientVars, janitorVars>>

(* A row error: invalid data, a constraint, or the fence of a lost attempt; *)
(* the ledger is asked first, and may hold the row by another's doing      *)
RejectRow(w, r) ==
    /\ pc[w] = "rows"
    /\ todo' = [todo EXCEPT ![w] = @ \ {r}]
    /\ done' = [done EXCEPT ![w] = @ \cup ({r} \ Remaining)]
    /\ UNCHANGED <<rowVars, expired, rowLock, ledger, storeVars, queue, pc, seen,
                   reserved, owns, outcome, clientVars, janitorVars, faults>>

(* persistProcessingProgress, and the end of the row loop *)
Progress(w) ==
    /\ pc[w] = "rows" /\ Unlocked
    /\ \/ ~Owns(w) /\ Throw(w, "fail") /\ NoFault
       \/ Owns(w) /\ todo[w] = {} /\ Return(w, "reserve") /\ NoFault
       \/ Throw(w, "finally") /\ Fault
    /\ UNCHANGED <<rowVars, expired, rowLock, ledger, storeVars, queue, seen, todo, done,
                   reserved, owns, clientVars, janitorVars>>

(* reservePendingResult: the key is durable before the object exists *)
Reserve(w) ==
    /\ pc[w] = "reserve" /\ Unlocked
    /\ LET can == Owns(w) /\ pending = NoWorker
       IN \/ /\ can /\ pending' = w /\ NoFault /\ Return(w, "finalize")
             /\ reserved' = [reserved EXCEPT ![w] = TRUE]
          \/ ~can /\ Throw(w, "fail") /\ NoFault /\ UNCHANGED <<pending, reserved>>
          \/ /\ pending' \in {pending} \cup (IF can THEN {w} ELSE {})
             /\ Throw(w, "finally") /\ Fault /\ reserved' = reserved
    /\ UNCHANGED <<status, token, result, sourceKey, expired, rowLock, ledger, storeVars,
                   queue, seen, todo, done, owns, clientVars, janitorVars>>

(* Finalization transaction: no-op update that checks the token and locks  *)
(* the row, the report, COMPLETED with the report's key, commit            *)

KeyOnly(w) == pending = w            \* a slip: the token is not compared
Fenced(w)  == Owns(w) /\ pending = w

Fence(w) ==
    /\ pc[w] = "finalize" /\ Unlocked
    /\ \/ Fenced(w) /\ rowLock' = w /\ Return(w, "save") /\ NoFault
       \/ ~Fenced(w) /\ rowLock' = rowLock /\ Throw(w, "fail") /\ NoFault
       \/ rowLock' = rowLock /\ Throw(w, "finally") /\ Fault
    /\ UNCHANGED <<rowVars, expired, ledger, storeVars, queue, seen, todo, done, reserved,
                   owns, clientVars, janitorVars>>

Unlock(w) == rowLock' = IF rowLock = w THEN NoWorker ELSE rowLock

SaveReport(w) ==
    /\ pc[w] = "save"
    /\ \/ /\ reports' = reports \cup {w}
          /\ content' = [content EXCEPT ![w] = done[w]]
          /\ Return(w, "commit") /\ NoFault /\ rowLock' = rowLock
       \/ /\ \/ UNCHANGED <<reports, content>>
             \/ /\ reports' = reports \cup {w}
                /\ content' = [content EXCEPT ![w] = done[w]]
          /\ Fault /\ Unlock(w)
          /\ Throw(w, "finally") \/ Throw(w, "fail")
    /\ UNCHANGED <<rowVars, expired, ledger, source, queue, seen, todo, done, reserved,
                   owns, clientVars, janitorVars>>

(* The 30 s limit of the transaction rolls it back under the running write. *)
(* It counts as a fault unless the attempt has lost its BullMQ lock before: *)
(* the delay that cost it the one costs it the other.                       *)
TxTimeout ==
    /\ rowLock # NoWorker
    /\ IF queue.state = "active" /\ queue.holder = rowLock THEN Fault ELSE NoFault
    /\ rowLock' = NoWorker
    /\ UNCHANGED <<rowVars, expired, ledger, storeVars, queue, pc, attemptVars, clientVars,
                   janitorVars>>

Complete(w) ==
    /\ status' = "COMPLETED" /\ token' = NoWorker
    /\ pending' = NoWorker /\ result' = w

Commit(w) ==
    /\ pc[w] = "commit"
    /\ Unlock(w)
    /\ \/ /\ rowLock = w /\ Complete(w) /\ NoFault /\ Goto(w, "delete")
          /\ reserved' = [reserved EXCEPT ![w] = FALSE]
          /\ owns' = [owns EXCEPT ![w] = TRUE]
       \/ /\ rowLock = w /\ Fault /\ Goto(w, "finalCheck")
          /\ Complete(w) \/ UNCHANGED <<status, token, pending, result>>
          /\ UNCHANGED <<reserved, owns>>
       \/ /\ rowLock # w /\ NoFault /\ Goto(w, "finalCheck")
          /\ UNCHANGED <<status, token, pending, result, reserved, owns>>
    /\ UNCHANGED <<sourceKey, expired, ledger, storeVars, queue, seen, todo, done, outcome,
                   clientVars, janitorVars>>

(* Looks for the exact completion after an ambiguous commit *)
FinalCheck(w) ==
    /\ pc[w] = "finalCheck"
    /\ LET won == status = "COMPLETED" /\ result = w /\ pending = NoWorker
       IN \/ /\ won /\ NoFault /\ Return(w, "delete")
             /\ reserved' = [reserved EXCEPT ![w] = FALSE]
             /\ owns' = [owns EXCEPT ![w] = TRUE]
          \/ /\ ~won /\ UNCHANGED <<reserved, owns, faults>>
             /\ Throw(w, "finally") \/ Throw(w, "fail")
          \/ Fault /\ Throw(w, "finally") /\ UNCHANGED <<reserved, owns>>
    /\ UNCHANGED <<rowVars, expired, rowLock, ledger, storeVars, queue, seen, todo, done,
                   clientVars, janitorVars>>

(* recordFailure: only the owner moves the row to FAILED *)
RecordFailure(w) ==
    /\ pc[w] = "fail" /\ Unlocked
    /\ Goto(w, "finally")
    /\ \/ /\ Owns(w) /\ status' = "FAILED" /\ token' = NoWorker
          /\ \/ owns' = [owns EXCEPT ![w] = TRUE] /\ NoFault
             \/ owns' = owns /\ Fault
       \/ ~Owns(w) /\ UNCHANGED <<status, token, owns>> /\ NoFault
       \/ UNCHANGED <<status, token, owns>> /\ Fault
    /\ UNCHANGED <<pending, result, sourceKey, expired, rowLock, ledger, storeVars, queue,
                   seen, todo, done, reserved, outcome, clientVars, janitorVars>>

AlwaysDelete(w) == "delete"     \* a slip: whoever stops deletes the workbook
(* Only the attempt that made the job terminal deletes its workbook *)
AfterFinally(w) == IF owns[w] THEN "delete" ELSE "settle"

(* finally: the attempt's own uncommitted report, then the source *)
Finally(w) ==
    /\ pc[w] = "finally"
    /\ Goto(w, AfterFinally(w))
    /\ \/ reserved[w] /\ IsOrphan(w) /\ DeletePendingResult(w)
       \/ ~(reserved[w] /\ IsOrphan(w)) /\ UNCHANGED <<pending, reports, faults>>
       \/ reserved[w] /\ Fault /\ UNCHANGED <<pending, reports>>
    /\ UNCHANGED <<status, token, result, sourceKey, expired, rowLock, ledger, source,
                   content, queue, attemptVars, clientVars, janitorVars>>

(* deleteSourceQuietly by the attempt that made the job terminal *)
DeleteSource(w) ==
    /\ \/ /\ pc[w] = "delete"
          /\ \/ source' = FALSE /\ Goto(w, "clear") /\ NoFault
             \/ source' = source /\ Goto(w, "settle") /\ Fault
          /\ sourceKey' = sourceKey
       \/ /\ pc[w] = "clear" /\ Unlocked
          /\ Goto(w, "settle")
          /\ \/ sourceKey' = FALSE /\ NoFault
             \/ sourceKey' = sourceKey /\ Fault
          /\ source' = source
    /\ UNCHANGED <<status, token, pending, result, expired, rowLock, ledger, reports,
                   content, queue, attemptVars, clientVars, janitorVars>>

ForgetAttempt(w) ==
    /\ pc' = [pc EXCEPT ![w] = "idle"]
    /\ seen' = [seen EXCEPT ![w] = NothingSeen]
    /\ todo' = [todo EXCEPT ![w] = {}]
    /\ done' = [done EXCEPT ![w] = {}]
    /\ reserved' = [reserved EXCEPT ![w] = FALSE]
    /\ owns' = [owns EXCEPT ![w] = FALSE]
    /\ outcome' = [outcome EXCEPT ![w] = "ok"]

AfterError(tries) == IF tries < MaxAttempts THEN "delayed" ELSE "failed"

(* BullMQ takes the result only from the holder of the job's lock *)
Settle(w) ==
    /\ pc[w] = "settle"
    /\ ForgetAttempt(w)
    /\ queue' =
         IF ~(queue.state = "active" /\ queue.holder = w) THEN queue
         ELSE LET tries == queue.tries + 1
              IN [queue EXCEPT !.holder = NoWorker, !.tries = tries,
                     !.state = IF outcome[w] = "ok" THEN "completed"
                               ELSE AfterError(tries)]
    /\ UNCHANGED <<rowVars, expired, rowLock, ledger, storeVars, clientVars, janitorVars,
                   faults>>

(* The process dies; PostgreSQL rolls its open transaction back *)
Crash(w) ==
    /\ pc[w] # "idle" /\ Fault
    /\ ForgetAttempt(w)
    /\ Unlock(w)
    /\ UNCHANGED <<rowVars, expired, ledger, storeVars, queue, clientVars, janitorVars>>

-----------------------------------------------------------------------------
(* BullMQ timers *)

(* The lock of the active job ran out: its holder is dead, or alive and    *)
(* cut off (one fault).  A second stall fails the job (maxStalledCount 1). *)
Stall ==
    /\ queue.state = "active"
    /\ IF pc[queue.holder] = "idle" THEN NoFault ELSE Fault
    /\ queue' = [queue EXCEPT !.holder = NoWorker, !.stalls = 1,
                    !.state = IF queue.stalls = 0 THEN "waiting" ELSE "failed"]
    /\ UNCHANGED <<rowVars, expired, rowLock, ledger, storeVars, pc, attemptVars,
                   clientVars, janitorVars>>

DelayElapsed ==
    /\ queue.state = "delayed"
    /\ queue' = [queue EXCEPT !.state = "waiting"]
    /\ UNCHANGED <<rowVars, expired, rowLock, ledger, storeVars, pc, attemptVars,
                   clientVars, janitorVars, faults>>

(* sourceExpiresAt passes; the shortest lifetime, 30 minutes, outlasts a   *)
(* preview request                                                         *)
Expire ==
    /\ preview = "done" /\ sourceKey /\ ~expired
    /\ expired' = TRUE
    /\ UNCHANGED <<rowVars, rowLock, ledger, storeVars, queue, pc, attemptVars, clientVars,
                   janitorVars, faults>>

-----------------------------------------------------------------------------
(* runImportMaintenance *)

ReconcileRead ==
    /\ janitor = "idle"
    /\ status \in {"QUEUED", "PROCESSING"} /\ sourceKey /\ ~expired
    /\ janitor' = "schedule" /\ janitorSaw' = status
    /\ UNCHANGED <<rowVars, expired, rowLock, ledger, storeVars, queue, pc, attemptVars,
                   clientVars, faults>>

ReconcileSchedule ==
    /\ janitor = "schedule"
    /\ janitor' = "idle" /\ janitorSaw' = janitorSaw
    /\ \/ EnsureScheduled(janitorSaw = "PROCESSING") /\ NoFault
       \/ queue' = queue /\ Fault
    /\ UNCHANGED <<rowVars, expired, rowLock, ledger, storeVars, pc, attemptVars,
                   clientVars>>

(* Slips: a PROCESSING job is not ended; a terminal job is not cleaned up  *)
LeaveProcessing == CASE status = "QUEUED"                -> "unqueue"
                     [] status \in {"VALIDATING", "READY"} -> "expire"
                     [] OTHER                            -> "delete"
LeaveTerminal == CASE status \in {"QUEUED", "PROCESSING"} -> "unqueue"
                   [] status \in {"VALIDATING", "READY"}  -> "expire"
                   [] OTHER                               -> "idle"

(* cleanupExpiredSources *)
ExpiryStep == CASE status \in {"QUEUED", "PROCESSING"} -> "unqueue"
                [] status \in {"VALIDATING", "READY"}  -> "expire"
                [] OTHER                               -> "delete"

ExpiredRead ==
    /\ janitor = "idle" /\ sourceKey /\ expired
    /\ janitorSaw' = status
    /\ janitor' = ExpiryStep
    /\ UNCHANGED <<rowVars, expired, rowLock, ledger, storeVars, queue, pc, attemptVars,
                   clientVars, faults>>

(* removeInactiveQueueJob *)
ExpiredUnqueue ==
    /\ janitor = "unqueue" /\ janitorSaw' = janitorSaw
    /\ \/ /\ queue.state # "active" /\ NoFault
          /\ queue' = NoQueueJob /\ janitor' = "expire"
       \/ queue.state = "active" /\ NoFault /\ queue' = queue /\ janitor' = "idle"
       \/ Fault /\ queue' = queue /\ janitor' = "idle"
    /\ UNCHANGED <<rowVars, expired, rowLock, ledger, storeVars, pc, attemptVars,
                   clientVars>>

ExpiredClaim ==
    /\ janitor = "expire" /\ Unlocked /\ janitorSaw' = janitorSaw
    /\ IF status = janitorSaw /\ sourceKey
       THEN /\ status' = (IF status = "READY" THEN "CANCELLED" ELSE "FAILED")
            /\ token' = NoWorker
            /\ \/ janitor' = "delete" /\ NoFault
               \/ janitor' = "idle" /\ Fault
       ELSE UNCHANGED <<status, token, faults>> /\ janitor' = "idle"
    /\ UNCHANGED <<pending, result, sourceKey, expired, rowLock, ledger, storeVars, queue,
                   pc, attemptVars, clientVars>>

ExpiredDeleteSource ==
    /\ \/ /\ janitor = "delete"
          /\ \/ source' = FALSE /\ janitor' = "clear" /\ NoFault
             \/ source' = source /\ janitor' = "idle" /\ Fault
          /\ sourceKey' = sourceKey
       \/ /\ janitor = "clear" /\ Unlocked
          /\ janitor' = "idle"
          /\ \/ sourceKey' = FALSE /\ NoFault
             \/ sourceKey' = sourceKey /\ Fault
          /\ source' = source
    /\ janitorSaw' = janitorSaw
    /\ UNCHANGED <<status, token, pending, result, expired, rowLock, ledger, reports,
                   content, queue, pc, attemptVars, clientVars>>

CompletedPending == status = "COMPLETED" /\ pending # NoWorker     \* a slip
PendingToCollect == status \in Terminal /\ pending # NoWorker /\ IsOrphan(pending)

(* cleanupTerminalPendingResults *)
TerminalPending ==
    /\ PendingToCollect
    /\ DeletePendingResult(pending)
    /\ UNCHANGED <<status, token, result, sourceKey, expired, rowLock, ledger, source,
                   content, queue, pc, attemptVars, clientVars, janitorVars>>

-----------------------------------------------------------------------------
Preview == \/ PreviewUpload \/ PreviewReady \/ PreviewReconcile
           \/ PreviewFail \/ PreviewDeleteSource
Client  == \/ ConfirmRead \/ ConfirmClaim \/ ConfirmSchedule
           \/ CancelRead \/ CancelClaim \/ CancelDeleteSource \/ Rollback
Attempt(w) ==
    \/ Fetch(w) \/ ReadJob(w) \/ Claim(w) \/ ClaimCheck(w) \/ Resume(w) \/ Load(w)
    \/ \E S \in SUBSET todo[w] \ {{}} : CreateRows(w, S)
    \/ \E r \in todo[w] : RejectRow(w, r)
    \/ Progress(w) \/ Reserve(w) \/ Fence(w) \/ SaveReport(w) \/ Commit(w)
    \/ FinalCheck(w) \/ RecordFailure(w) \/ Finally(w) \/ DeleteSource(w) \/ Settle(w)
QueueTimers == Stall \/ DelayElapsed
Maintenance ==
    \/ ReconcileRead \/ ReconcileSchedule \/ ExpiredRead \/ ExpiredUnqueue
    \/ ExpiredClaim \/ ExpiredDeleteSource \/ TerminalPending

(* A settled job with nothing left to clean up is the end of a behaviour *)
Quiescent ==
    /\ status \in Terminal /\ ~sourceKey /\ pending = NoWorker
    /\ UNCHANGED vars

Next ==
    \/ Preview \/ PreviewCrash \/ Client
    \/ \E w \in Workers : Attempt(w) \/ Crash(w)
    \/ TxTimeout \/ QueueTimers \/ Expire \/ Maintenance \/ Quiescent

Spec == Init /\ [][Next]_vars

(* Workers, the queue's timers, the maintenance timer and the clock keep   *)
(* running; users need not act                                             *)
Fairness ==
    /\ WF_vars(Preview)
    /\ \A w \in Workers : WF_vars(Attempt(w))
    /\ WF_vars(QueueTimers) /\ WF_vars(Expire)
    /\ WF_vars(Maintenance)

FairSpec == Spec /\ Fairness

-----------------------------------------------------------------------------
(* Properties *)

SeenType == [status : {"QUEUED", "PROCESSING"}, token : WorkerOrNull,
             recovered : BOOLEAN]
QueueType == [state : QueueState, holder : WorkerOrNull, recovery : BOOLEAN,
              stalls : {0, 1}, tries : 0..MaxAttempts]
AttemptStep == {"idle", "read", "claim", "claimCheck", "claimed", "load", "rows",
                "reserve", "finalize", "save", "commit", "finalCheck", "fail",
                "finally", "delete", "clear", "settle"}

RowType ==
    /\ status \in JobStatus
    /\ token \in WorkerOrNull /\ pending \in WorkerOrNull /\ result \in WorkerOrNull
    /\ sourceKey \in BOOLEAN /\ expired \in BOOLEAN
    /\ rowLock \in WorkerOrNull
    /\ ledger \in [Rows -> Nat]
StoreType ==
    /\ source \in BOOLEAN /\ reports \subseteq Workers
    /\ content \in [Workers -> SUBSET Rows]
AttemptType ==
    /\ pc \in [Workers -> AttemptStep]
    /\ seen \in [Workers -> SeenType]
    /\ todo \in [Workers -> SUBSET Rows] /\ done \in [Workers -> SUBSET Rows]
    /\ reserved \in [Workers -> BOOLEAN] /\ owns \in [Workers -> BOOLEAN]
    /\ outcome \in [Workers -> {"ok", "error"}]
RequestType ==
    /\ preview \in {"upload", "ready", "check", "fail", "delete", "clear", "done"}
    /\ confirm \in {"idle", "claim", "schedule"}
    /\ cancel \in {"idle", "claim", "delete", "clear"}
    /\ janitor \in {"idle", "schedule", "unqueue", "expire", "delete", "clear"}
    /\ janitorSaw \in JobStatus
    /\ faults \in 0..MaxFaults

(* The type of every variable; in particular the columns of the import_jobs *)
(* row that hold a token or a result key name one attempt or are NULL, and  *)
(* a queue job never exceeds its stall and attempt limits.                  *)
TypeOK == RowType /\ StoreType /\ queue \in QueueType /\ AttemptType /\ RequestType

(* A workbook row becomes records at most once, however often BullMQ        *)
(* delivers the job and however many attempts, alive or cut off, overlap.   *)
EachRowImportedOnce == \A r \in Rows : ledger[r] <= 1

ImportedRows == {r \in Rows : ledger[r] > 0}

(* A completed import has its result report in storage, and the report      *)
(* lists exactly the rows whose records exist: no attempt that lost the job *)
(* deletes or overwrites the winner's report or adds a row after it.        *)
ReportMatchesLedger ==
    status = "COMPLETED" => result \in reports /\ content[result] = ImportedRows

(* A job that can still be confirmed or processed (unexpired, its key in    *)
(* the row) has its workbook: no cleanup path deletes it early.             *)
SourceKeptWhileUsable ==
    status \in {"READY", "QUEUED", "PROCESSING"} /\ sourceKey /\ ~expired => source

(* A report nothing names: no column of the row leads to it any more        *)
Lost(w) == w \in reports /\ w \notin {pending, result}

(* The finalization transaction of w timed out under its storage write      *)
Overtaken(w) == pc[w] = "save" /\ rowLock # w

(* Every stored report stays reachable from the row, so it can be           *)
(* collected: it is the result or pendingResultStorageKey names it, however *)
(* attempts crash, stall or take over from one another.  The one way to     *)
(* lose it is a storage write that outlives its timed-out transaction:      *)
(* recovery clears the key first and the report is stored afterwards.       *)
ReportsTracked ==
    [][\A w \in Workers : Lost(w)' => (Lost(w) \/ Overtaken(w))]_vars

(* An attempt completes the job only while it owns it, with its own report  *)
(* in place and every row that was imported listed in it, even if its       *)
(* finalization transaction has timed out or another attempt has taken the  *)
(* job over since it passed the fence.                                      *)
CompletesAsOwner ==
    [][\A w \in Workers : result' = w /\ result # w =>
          /\ Owns(w) /\ pending = w
          /\ w \in reports /\ content[w] = ImportedRows]_vars

(* A confirmed import reaches a terminal status: completed, failed, or      *)
(* failed by expiry, whatever fails on the way.                             *)
ConfirmedImportSettles ==
    status \in {"QUEUED", "PROCESSING"} ~> status \in Terminal

(* The temporary workbook does not outlive its job: in the end it is gone   *)
(* from storage, although each cleanup path may fail quietly.               *)
SourceReclaimed == <>[](~source)

(* In the end no report is stored but the result and those that are lost;   *)
(* ReportsTracked says how a report gets lost.                              *)
OrphanReportsReclaimed ==
    <>[](reports \subseteq {result} \cup {w \in Workers : Lost(w)})

(* What a reader of the result report sees *)
Published == IF result \in reports THEN content[result] ELSE {}

(* The job implements the promise of ImportLifecycle                        *)
Lifecycle == INSTANCE ImportLifecycle WITH
    phase <- status, records <- ledger, published <- Published

(* Every run of the pipeline is a run of the lifecycle: no interleaving of  *)
(* requests, attempts and maintenance takes a status edge the operator was  *)
(* not promised, adds a row late or twice, or changes a published report.   *)
ImplementsLifecycle == Lifecycle!Spec

=============================================================================
