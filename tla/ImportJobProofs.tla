--------------------------- MODULE ImportJobProofs ---------------------------
(***************************************************************************)
(* Theorems about ImportJob, for every set of workers, rows, every bound   *)
(* and either flag: type correctness, at-most-once import of a row,        *)
(* agreement of the published report with the ledger, completion by the    *)
(* owner alone, the one way in which a report can be lost, and refinement  *)
(* of ImportLifecycle.  If the answer to the preview's commit is not lost, *)
(* the workbook of a job that can still be processed is kept.              *)
(***************************************************************************)
EXTENDS ImportJob, TLAPS

(* ---- The inductive invariant ---- *)

(* While w holds the token, nobody else writes the ledger: w's view of it,  *)
(* read after the claim, stays exact.                                       *)
OwnerView == \A w \in Workers : Owns(w) =>
    /\ pc[w] = "rows" => todo[w] \cap ImportedRows = {}
    /\ pc[w] \in {"rows", "reserve", "finalize", "save", "commit"}
         => done[w] = ImportedRows

(* The row lock belongs to the owner in its finalization transaction, and   *)
(* before the commit the report it wrote is in place.                       *)
LockHolder == \A w \in Workers : rowLock = w =>
    /\ Owns(w) /\ pending = w
    /\ pc[w] \in {"save", "commit"}
    /\ pc[w] = "commit" => w \in reports /\ content[w] = done[w]

(* A result key exists exactly on a completed job or one rolled back since; *)
(* the winner is past its storage write, so its report is final.            *)
WinnerReport ==
    /\ result # NoWorker => status \in {"COMPLETED", "ROLLED_BACK"}
    /\ result # NoWorker => result \in reports /\ pc[result] # "save"
    /\ status = "COMPLETED" =>
         /\ result # NoWorker
         /\ content[result] = ImportedRows

(* Before the preview finishes the row is VALIDATING and cannot expire; an  *)
(* expiry pass acts only on a status it may end.                            *)
RequestStages ==
    /\ preview \in {"upload", "ready"} => status = "VALIDATING"
    /\ expired => preview = "done"
    /\ janitor \in {"unqueue", "expire"} =>
         /\ expired
         /\ janitorSaw \in {"VALIDATING", "READY", "QUEUED", "PROCESSING"}

(* A queue job BullMQ will still run has attempts left.                     *)
QueueBudget == queue.state \in scheduledStates => queue.tries < MaxAttempts

Typed == TypeOK /\ QueueBudget

(* What the attempts do to the ledger and the report, and the variables it  *)
(* is about                                                                 *)
Ownership == EachRowImportedOnce /\ OwnerView /\ LockHolder /\ WinnerReport
ownershipVars == <<status, token, pending, result, rowLock, ledger, reports, content,
                   pc, todo, done>>

IInv == Typed /\ RequestStages /\ Ownership

-----------------------------------------------------------------------------
(* ---- Type correctness ---- *)

LEMMA TypedInit == Init => Typed
<1> SUFFICES ASSUME Init PROVE Typed
  OBVIOUS
<1>1. ledger \in [Rows -> Nat] /\ sourceKey \in BOOLEAN /\ expired \in BOOLEAN
  BY DEF Init
<1>2. RowType
  BY <1>1, Zenon DEF Init, RowType, JobStatus, Terminal, WorkerOrNull
<1>3. StoreType /\ AttemptType
  BY DEF Init, StoreType, AttemptType, SeenType, WorkerOrNull, AttemptStep, NothingSeen
<1>4. RequestType
  BY BoundsAssumption DEF Init, RequestType, JobStatus, Terminal
<1>5. queue \in QueueType /\ QueueBudget
  BY BoundsAssumption
     DEF Init, NoQueueJob, QueueType, QueueState, QueueBudget, WorkerOrNull
<1>6. QED
  BY <1>2, <1>3, <1>4, <1>5 DEF Typed, TypeOK

QueueOK == queue \in QueueType /\ QueueBudget

(* The operations on the BullMQ job keep its type and its attempt budget.   *)
LEMMA RemoveQueueJob == queue' = NoQueueJob => QueueOK'
<1>1. NoQueueJob \in QueueType /\ NoQueueJob.state \notin scheduledStates
  BY BoundsAssumption DEF NoQueueJob, QueueType, QueueState, scheduledStates, WorkerOrNull
<1>2. QED
  BY <1>1 DEF QueueOK, QueueBudget

LEMMA ScheduleQueueJob ==
  ASSUME NEW b \in BOOLEAN, QueueOK, EnsureScheduled(b)
  PROVE  QueueOK'
<1>1. CASE queue.state \in scheduledStates
  BY <1>1 DEF EnsureScheduled, QueueOK, QueueBudget
<1>2. CASE queue.state \notin scheduledStates
  <2> DEFINE q == [state |-> "waiting", holder |-> NoWorker, recovery |-> b,
                   stalls |-> 0, tries |-> 0]
  <2>1. queue' = q
    BY <1>2 DEF EnsureScheduled
  <2>2. q \in QueueType
    BY BoundsAssumption DEF QueueType, QueueState, scheduledStates, WorkerOrNull
  <2>3. q.tries < MaxAttempts
    BY BoundsAssumption
  <2>4. QED
    BY <2>1, <2>2, <2>3 DEF QueueOK, QueueBudget
<1>3. QED
  BY <1>1, <1>2

LEMMA SettleQueueJob ==
  ASSUME NEW w \in Workers, QueueOK, Settle(w)
  PROVE  QueueOK'
<1> DEFINE t == queue.tries + 1
           s == IF outcome[w] = "ok" THEN "completed"
                ELSE AfterError(t)
<1>1. CASE ~(queue.state = "active" /\ queue.holder = w)
  BY <1>1 DEF Settle, QueueOK, QueueBudget
<1>2. CASE queue.state = "active" /\ queue.holder = w
  <2>1. t \in 0..MaxAttempts
    BY <1>2, BoundsAssumption DEF QueueOK, QueueBudget, QueueType, scheduledStates
  <2>2. s \in QueueState /\ (s \in scheduledStates => t < MaxAttempts)
    BY DEF QueueState, scheduledStates, AfterError
  <2>3. queue' = [queue EXCEPT !.holder = NoWorker, !.tries = t, !.state = s]
    BY <1>2 DEF Settle
  <2>4. queue \in QueueType
    BY DEF QueueOK
  <2> HIDE DEF t, s
  <2>5. queue'.state = s /\ queue'.tries = t
    BY <2>3, <2>4 DEF QueueType
  <2>6. queue' \in QueueType
    BY <2>1, <2>2, <2>3, <2>4 DEF QueueType, WorkerOrNull
  <2>7. QED
    BY <2>2, <2>5, <2>6 DEF QueueOK, QueueBudget
<1>3. QED
  BY <1>1, <1>2

LEMMA StallQueueJob == QueueOK /\ Stall => QueueOK'
BY BoundsAssumption
   DEF Stall, QueueOK, QueueType, QueueState, scheduledStates, QueueBudget,
       WorkerOrNull

TypedNext == RowType' /\ StoreType' /\ QueueOK' /\ AttemptType' /\ RequestType'

(* One step per action; under the larger ones, one per group of variables  *)
LEMMA TypedStep == Typed /\ [Next]_vars => Typed'
<1> SUFFICES ASSUME RowType, StoreType, QueueOK, AttemptType, RequestType, [Next]_vars
             PROVE  TypedNext
  BY DEF Typed, TypeOK, TypedNext, QueueOK
<1> USE NoWorkerAssumption, BoundsAssumption
        DEF rowVars, storeVars, attemptVars, clientVars, janitorVars, Fault, NoFault,
            JobStatus, Terminal, WorkerOrNull
<1>1. CASE PreviewUpload
  <2>1. RowType'
    BY <1>1 DEF PreviewUpload, RowType
  <2>2. StoreType'
    BY <1>1 DEF PreviewUpload, StoreType, AttemptType, RowType
  <2>3. QueueOK'
    BY <1>1 DEF PreviewUpload, QueueOK, QueueBudget
  <2>4. AttemptType'
    BY <1>1 DEF PreviewUpload, AttemptType, RowType, SeenType, AttemptStep
  <2>5. RequestType'
    BY <1>1 DEF PreviewUpload, RequestType, RowType
  <2>6. QED
    BY <2>1, <2>2, <2>3, <2>4, <2>5 DEF TypedNext
<1>2. CASE PreviewReady
  BY <1>2
     DEF PreviewReady, TypedNext, RowType, StoreType, AttemptType, RequestType,
         QueueOK, QueueBudget
<1>3. CASE PreviewReconcile
  BY <1>3
     DEF PreviewReconcile, TypedNext, RowType, StoreType, AttemptType, RequestType,
         QueueOK, QueueBudget
<1>4. CASE PreviewFail
  BY <1>4
     DEF PreviewFail, TypedNext, RowType, StoreType, AttemptType, RequestType, QueueOK,
         QueueBudget
<1>5. CASE PreviewDeleteSource
  <2>1. RowType'
    BY <1>5 DEF PreviewDeleteSource, RowType
  <2>2. StoreType'
    BY <1>5 DEF PreviewDeleteSource, StoreType, AttemptType, RowType
  <2>3. QueueOK'
    BY <1>5 DEF PreviewDeleteSource, QueueOK, QueueBudget
  <2>4. AttemptType'
    BY <1>5 DEF PreviewDeleteSource, AttemptType, RowType, SeenType, AttemptStep
  <2>5. RequestType'
    BY <1>5 DEF PreviewDeleteSource, RequestType, RowType
  <2>6. QED
    BY <2>1, <2>2, <2>3, <2>4, <2>5 DEF TypedNext
<1>6. CASE PreviewCrash
  BY <1>6
     DEF PreviewCrash, TypedNext, RowType, StoreType, AttemptType, RequestType,
         QueueOK, QueueBudget
<1>7. CASE ConfirmRead
  BY <1>7
     DEF ConfirmRead, TypedNext, RowType, StoreType, AttemptType, RequestType, QueueOK,
         QueueBudget
<1>8. CASE ConfirmClaim
  BY <1>8
     DEF ConfirmClaim, TypedNext, RowType, StoreType, AttemptType, RequestType,
         QueueOK, QueueBudget
<1>9. CASE ConfirmSchedule
  <2>1. RowType'
    BY <1>9 DEF ConfirmSchedule, EnsureScheduled, NoQueueJob, RowType
  <2>2. StoreType'
    BY <1>9 DEF ConfirmSchedule, StoreType
  <2>3. QueueOK'
    BY <1>9, ScheduleQueueJob DEF ConfirmSchedule, QueueOK, QueueBudget
  <2>4. AttemptType'
    BY <1>9 DEF ConfirmSchedule, AttemptType
  <2>5. RequestType'
    BY <1>9 DEF ConfirmSchedule, EnsureScheduled, NoQueueJob, RequestType, RowType
  <2>6. QED
    BY <2>1, <2>2, <2>3, <2>4, <2>5 DEF TypedNext
<1>10. CASE CancelRead
  BY <1>10
     DEF CancelRead, TypedNext, RowType, StoreType, AttemptType, RequestType, QueueOK,
         QueueBudget
<1>11. CASE CancelClaim
  BY <1>11
     DEF CancelClaim, TypedNext, RowType, StoreType, AttemptType, RequestType, QueueOK,
         QueueBudget
<1>12. CASE CancelDeleteSource
  <2>1. RowType'
    BY <1>12 DEF CancelDeleteSource, RowType
  <2>2. StoreType'
    BY <1>12 DEF CancelDeleteSource, StoreType, AttemptType, RowType
  <2>3. QueueOK'
    BY <1>12 DEF CancelDeleteSource, QueueOK, QueueBudget
  <2>4. AttemptType'
    BY <1>12 DEF CancelDeleteSource, AttemptType, RowType, SeenType, AttemptStep
  <2>5. RequestType'
    BY <1>12 DEF CancelDeleteSource, RequestType, RowType
  <2>6. QED
    BY <2>1, <2>2, <2>3, <2>4, <2>5 DEF TypedNext
<1>13. CASE Rollback
  BY <1>13
     DEF Rollback, TypedNext, RowType, StoreType, AttemptType, RequestType, QueueOK,
         QueueBudget
<1>14. CASE TxTimeout
  BY <1>14
     DEF TxTimeout, TypedNext, RowType, StoreType, AttemptType, RequestType, QueueOK,
         QueueBudget
<1>15. CASE Stall
  <2>1. RowType'
    BY <1>15 DEF Stall, RowType
  <2>2. StoreType'
    BY <1>15 DEF Stall, StoreType, AttemptType, RowType
  <2>3. QueueOK'
    BY <1>15, StallQueueJob
  <2>4. AttemptType'
    BY <1>15 DEF Stall, AttemptType, RowType, SeenType, AttemptStep
  <2>5. RequestType'
    BY <1>15 DEF Stall, RequestType, RowType
  <2>6. QED
    BY <2>1, <2>2, <2>3, <2>4, <2>5 DEF TypedNext
<1>16. CASE DelayElapsed
  BY <1>16
     DEF DelayElapsed, TypedNext, RowType, StoreType, AttemptType, RequestType,
         QueueOK, QueueType, QueueBudget, QueueState, scheduledStates
<1>17. CASE Expire
  BY <1>17
     DEF Expire, TypedNext, RowType, StoreType, AttemptType, RequestType, QueueOK,
         QueueBudget
<1>18. CASE ReconcileRead
  BY <1>18
     DEF ReconcileRead, TypedNext, RowType, StoreType, AttemptType, RequestType,
         QueueOK, QueueBudget
<1>19. CASE ReconcileSchedule
  <2>1. RowType'
    BY <1>19 DEF ReconcileSchedule, EnsureScheduled, NoQueueJob, RowType
  <2>2. StoreType'
    BY <1>19 DEF ReconcileSchedule, StoreType
  <2>3. QueueOK'
    <3>1. (janitorSaw = "PROCESSING") \in BOOLEAN
      OBVIOUS
    <3>2. QED
      BY <1>19, <3>1, ScheduleQueueJob DEF ReconcileSchedule, QueueOK, QueueBudget
  <2>4. AttemptType'
    BY <1>19 DEF ReconcileSchedule, AttemptType
  <2>5. RequestType'
    BY <1>19 DEF ReconcileSchedule, EnsureScheduled, NoQueueJob, RequestType, RowType
  <2>6. QED
    BY <2>1, <2>2, <2>3, <2>4, <2>5 DEF TypedNext
<1>20. CASE ExpiredRead
  BY <1>20
     DEF ExpiredRead, ExpiryStep, TypedNext, RowType, StoreType, AttemptType,
         RequestType, QueueOK, QueueBudget
<1>21. CASE ExpiredUnqueue
  <2>1. RowType'
    BY <1>21 DEF ExpiredUnqueue, NoQueueJob, RowType
  <2>2. StoreType'
    BY <1>21 DEF ExpiredUnqueue, NoQueueJob, StoreType, AttemptType, RowType
  <2>3. QueueOK'
    BY <1>21, RemoveQueueJob DEF ExpiredUnqueue, QueueOK, QueueBudget
  <2>4. AttemptType'
    BY <1>21 DEF ExpiredUnqueue, AttemptType
  <2>5. RequestType'
    BY <1>21 DEF ExpiredUnqueue, NoQueueJob, RequestType, RowType
  <2>6. QED
    BY <2>1, <2>2, <2>3, <2>4, <2>5 DEF TypedNext
<1>22. CASE ExpiredClaim
  BY <1>22
     DEF ExpiredClaim, TypedNext, RowType, StoreType, AttemptType, RequestType,
         QueueOK, QueueBudget
<1>23. CASE ExpiredDeleteSource
  <2>1. RowType'
    BY <1>23 DEF ExpiredDeleteSource, RowType
  <2>2. StoreType'
    BY <1>23 DEF ExpiredDeleteSource, StoreType, AttemptType, RowType
  <2>3. QueueOK'
    BY <1>23 DEF ExpiredDeleteSource, QueueOK, QueueBudget
  <2>4. AttemptType'
    BY <1>23 DEF ExpiredDeleteSource, AttemptType, RowType, SeenType, AttemptStep
  <2>5. RequestType'
    BY <1>23 DEF ExpiredDeleteSource, RequestType, RowType
  <2>6. QED
    BY <2>1, <2>2, <2>3, <2>4, <2>5 DEF TypedNext
<1>24. CASE TerminalPending
  BY <1>24
     DEF TerminalPending, DeletePendingResult, TypedNext, RowType, StoreType,
         AttemptType, RequestType, QueueOK, QueueBudget
<1>25. CASE Quiescent
  BY <1>25
     DEF Quiescent, vars, TypedNext, RowType, StoreType, AttemptType, RequestType,
         QueueOK, QueueBudget
<1>26. ASSUME NEW w \in Workers, Fetch(w) PROVE TypedNext
  <2>1. RowType'
    BY <1>26 DEF Fetch, RowType
  <2>2. StoreType'
    BY <1>26 DEF Fetch, StoreType, AttemptType, RowType
  <2>3. QueueOK'
    BY <1>26 DEF Fetch, QueueOK, QueueType, QueueBudget, QueueState, scheduledStates
  <2>4. AttemptType'
    <3>1. PICK b \in BOOLEAN : seen' = [seen EXCEPT ![w].recovered = b]
      BY <1>26 DEF Fetch
    <3>2. seen' \in [Workers -> SeenType]
      BY <3>1 DEF AttemptType, SeenType, WorkerOrNull
    <3>3. QED
      BY <1>26, <3>2 DEF Fetch, AttemptType, AttemptStep
  <2>5. RequestType'
    BY <1>26 DEF Fetch, RequestType, RowType
  <2>6. QED
    BY <2>1, <2>2, <2>3, <2>4, <2>5 DEF TypedNext
<1>27. ASSUME NEW w \in Workers, ReadJob(w) PROVE TypedNext
  <2>1. RowType'
    BY <1>27 DEF ReadJob, Throw, Return, Goto, RowType
  <2>2. StoreType'
    BY <1>27 DEF ReadJob, StoreType
  <2>3. QueueOK'
    BY <1>27 DEF ReadJob, QueueOK, QueueBudget
  <2>4. AttemptType'
    BY <1>27 DEF ReadJob, Throw, Return, Goto, AttemptType, SeenType, AttemptStep
  <2>5. RequestType'
    BY <1>27 DEF ReadJob, RequestType
  <2>6. QED
    BY <2>1, <2>2, <2>3, <2>4, <2>5 DEF TypedNext
<1>28. ASSUME NEW w \in Workers, Claim(w) PROVE TypedNext
  BY <1>28
     DEF Claim, TakeToken, Goto, TypedNext, RowType, StoreType, AttemptType,
         RequestType, QueueOK, QueueBudget, AttemptStep
<1>29. ASSUME NEW w \in Workers, ClaimCheck(w) PROVE TypedNext
  BY <1>29
     DEF ClaimCheck, Throw, Return, Goto, TypedNext, RowType, StoreType, AttemptType,
         RequestType, QueueOK, QueueType, QueueBudget, AttemptStep
<1>30. ASSUME NEW w \in Workers, Resume(w) PROVE TypedNext
  BY <1>30
     DEF Resume, Throw, Return, Goto, DeletePendingResult, TypedNext, RowType,
         StoreType, AttemptType, RequestType, QueueOK, QueueType, QueueBudget,
         QueueState, AttemptStep
<1>31. ASSUME NEW w \in Workers, Load(w) PROVE TypedNext
  <2>1. RowType'
    BY <1>31 DEF Load, RowType
  <2>2. StoreType'
    BY <1>31 DEF Load, StoreType
  <2>3. QueueOK'
    BY <1>31 DEF Load, QueueOK, QueueBudget
  <2>4. AttemptType'
    BY <1>31 DEF Load, Throw, Return, Goto, Remaining, AttemptType, AttemptStep
  <2>5. RequestType'
    BY <1>31 DEF Load, RequestType
  <2>6. QED
    BY <2>1, <2>2, <2>3, <2>4, <2>5 DEF TypedNext
<1>32. ASSUME NEW w \in Workers, Progress(w) PROVE TypedNext
  BY <1>32
     DEF Progress, Throw, Return, Goto, TypedNext, RowType, StoreType, AttemptType,
         RequestType, QueueOK, QueueBudget, AttemptStep
<1>33. ASSUME NEW w \in Workers, Reserve(w) PROVE TypedNext
  <2>1. RowType'
    BY <1>33 DEF Reserve, Throw, Return, Goto, RowType
  <2>2. StoreType'
    BY <1>33 DEF Reserve, StoreType
  <2>3. QueueOK'
    BY <1>33 DEF Reserve, QueueOK, QueueBudget
  <2>4. AttemptType'
    BY <1>33 DEF Reserve, Throw, Return, Goto, AttemptType, AttemptStep
  <2>5. RequestType'
    BY <1>33 DEF Reserve, RequestType
  <2>6. QED
    BY <2>1, <2>2, <2>3, <2>4, <2>5 DEF TypedNext
<1>34. ASSUME NEW w \in Workers, Fence(w) PROVE TypedNext
  BY <1>34
     DEF Fence, Throw, Return, Goto, TypedNext, RowType, StoreType,
         AttemptType, RequestType, QueueOK, QueueBudget, scheduledStates, AttemptStep
<1>35. ASSUME NEW w \in Workers, SaveReport(w) PROVE TypedNext
  BY <1>35
     DEF SaveReport, Throw, Return, Goto, Unlock, TypedNext, RowType, StoreType,
         AttemptType, RequestType, QueueOK, QueueBudget, scheduledStates, AttemptStep
<1>36. ASSUME NEW w \in Workers, Commit(w) PROVE TypedNext
  <2>1. RowType'
    BY <1>36 DEF Commit, Complete, Unlock, Goto, RowType
  <2>2. StoreType'
    BY <1>36 DEF Commit, StoreType
  <2>3. QueueOK'
    BY <1>36 DEF Commit, QueueOK, QueueBudget
  <2>4. AttemptType'
    BY <1>36 DEF Commit, Goto, AttemptType, AttemptStep
  <2>5. RequestType'
    BY <1>36 DEF Commit, RequestType
  <2>6. QED
    BY <2>1, <2>2, <2>3, <2>4, <2>5 DEF TypedNext
<1>37. ASSUME NEW w \in Workers, FinalCheck(w) PROVE TypedNext
  <2>1. RowType'
    BY <1>37 DEF FinalCheck, Throw, Return, Goto, RowType
  <2>2. StoreType'
    BY <1>37 DEF FinalCheck, StoreType
  <2>3. QueueOK'
    BY <1>37 DEF FinalCheck, QueueOK, QueueBudget
  <2>4. AttemptType'
    BY <1>37 DEF FinalCheck, Throw, Return, Goto, AttemptType, AttemptStep
  <2>5. RequestType'
    BY <1>37 DEF FinalCheck, RequestType
  <2>6. QED
    BY <2>1, <2>2, <2>3, <2>4, <2>5 DEF TypedNext
<1>38. ASSUME NEW w \in Workers, RecordFailure(w) PROVE TypedNext
  <2>1. RowType'
    BY <1>38 DEF RecordFailure, Goto, RowType
  <2>2. StoreType'
    BY <1>38 DEF RecordFailure, Goto, StoreType, AttemptType, RowType
  <2>3. QueueOK'
    BY <1>38 DEF RecordFailure, QueueOK, QueueBudget
  <2>4. AttemptType'
    BY <1>38 DEF RecordFailure, Goto, AttemptType, AttemptStep
  <2>5. RequestType'
    BY <1>38 DEF RecordFailure, Goto, RequestType, RowType
  <2>6. QED
    BY <2>1, <2>2, <2>3, <2>4, <2>5 DEF TypedNext
<1>39. ASSUME NEW w \in Workers, Finally(w) PROVE TypedNext
  BY <1>39
     DEF Finally, Goto, AfterFinally, DeletePendingResult, TypedNext, RowType,
         StoreType, AttemptType, RequestType, QueueOK, QueueBudget, AttemptStep
<1>40. ASSUME NEW w \in Workers, DeleteSource(w) PROVE TypedNext
  <2>1. RowType'
    BY <1>40 DEF DeleteSource, Goto, RowType
  <2>2. StoreType'
    BY <1>40 DEF DeleteSource, Goto, StoreType, AttemptType, RowType
  <2>3. QueueOK'
    BY <1>40 DEF DeleteSource, QueueOK, QueueBudget
  <2>4. AttemptType'
    BY <1>40 DEF DeleteSource, Goto, AttemptType, AttemptStep
  <2>5. RequestType'
    BY <1>40 DEF DeleteSource, Goto, RequestType, RowType
  <2>6. QED
    BY <2>1, <2>2, <2>3, <2>4, <2>5 DEF TypedNext
<1>41. ASSUME NEW w \in Workers, Settle(w) PROVE TypedNext
  <2>1. RowType'
    BY <1>41 DEF Settle, AfterError, ForgetAttempt, NothingSeen, RowType
  <2>2. StoreType'
    BY <1>41 DEF Settle, StoreType
  <2>3. QueueOK'
    BY <1>41, SettleQueueJob
  <2>4. AttemptType'
    BY <1>41 DEF Settle, ForgetAttempt, NothingSeen, AttemptType, SeenType, AttemptStep
  <2>5. RequestType'
    BY <1>41 DEF Settle, RequestType
  <2>6. QED
    BY <2>1, <2>2, <2>3, <2>4, <2>5 DEF TypedNext
<1>42. ASSUME NEW w \in Workers, Crash(w) PROVE TypedNext
  BY <1>42
     DEF Crash, ForgetAttempt, Unlock, NothingSeen, TypedNext, RowType, StoreType,
         AttemptType, RequestType, QueueOK, QueueBudget, SeenType, AttemptStep
<1>43. ASSUME NEW w \in Workers, NEW S \in SUBSET todo[w] \ {{}}, CreateRows(w, S)
      PROVE  TypedNext
  BY <1>43
     DEF CreateRows, Throw, Return, Goto, TypedNext, RowType, StoreType, AttemptType,
         RequestType, QueueOK, QueueType, QueueBudget, QueueState, scheduledStates,
         AttemptStep
<1>44. ASSUME NEW w \in Workers, NEW r \in todo[w], RejectRow(w, r) PROVE TypedNext
  BY <1>44
     DEF RejectRow, TypedNext, RowType, StoreType, AttemptType, RequestType, QueueOK,
         QueueBudget
<1>45. CASE UNCHANGED vars
  BY <1>45
     DEF vars, TypedNext, RowType, StoreType, AttemptType, RequestType, QueueOK,
         QueueBudget
<1>46. QED
  BY <1>1, <1>2, <1>3, <1>4, <1>5, <1>6, <1>7, <1>8, <1>9, <1>10, <1>11, <1>12,
     <1>13, <1>14, <1>15, <1>16, <1>17, <1>18, <1>19, <1>20, <1>21, <1>22, <1>23, <1>24,
     <1>25, <1>26, <1>27, <1>28, <1>29, <1>30, <1>31, <1>32, <1>33, <1>34, <1>35, <1>36,
     <1>37, <1>38, <1>39, <1>40, <1>41, <1>42, <1>43, <1>44, <1>45
     DEF Next, Preview, Client, Attempt, QueueTimers, Maintenance

(* Every reachable state is well typed. *)
THEOREM TypeCorrect == Spec => []TypeOK
<1>1. Typed => TypeOK
  BY DEF Typed
<1>2. QED
  BY <1>1, TypedInit, TypedStep, PTL DEF Spec

-----------------------------------------------------------------------------
(* ---- The requests and the maintenance timer ---- *)

LEMMA RequestStagesStep == Typed /\ LockHolder /\ RequestStages /\ [Next]_vars => RequestStages'
<1> SUFFICES ASSUME RowType, AttemptType, LockHolder, RequestStages, [Next]_vars
             PROVE  RequestStages'
  BY DEF Typed, TypeOK
<1> USE DEF rowVars, clientVars, janitorVars, RequestStages
<1>1. CASE PreviewUpload
  BY <1>1 DEF PreviewUpload
<1>2. CASE PreviewReady
  BY <1>2 DEF PreviewReady
<1>3. CASE PreviewReconcile
  BY <1>3 DEF PreviewReconcile
<1>4. CASE PreviewFail
  BY <1>4 DEF PreviewFail
<1>5. CASE PreviewDeleteSource
  BY <1>5 DEF PreviewDeleteSource
<1>6. CASE PreviewCrash
  BY <1>6 DEF PreviewCrash
<1>7. CASE ConfirmRead
  BY <1>7 DEF ConfirmRead
<1>8. CASE ConfirmClaim
  BY <1>8 DEF ConfirmClaim
<1>9. CASE ConfirmSchedule
  BY <1>9 DEF ConfirmSchedule
<1>10. CASE CancelRead
  BY <1>10 DEF CancelRead
<1>11. CASE CancelClaim
  BY <1>11 DEF CancelClaim
<1>12. CASE CancelDeleteSource
  BY <1>12 DEF CancelDeleteSource
<1>13. CASE Rollback
  BY <1>13 DEF Rollback
<1>14. CASE TxTimeout
  BY <1>14 DEF TxTimeout
<1>15. CASE Stall
  BY <1>15 DEF Stall
<1>16. CASE DelayElapsed
  BY <1>16 DEF DelayElapsed
<1>17. CASE Expire
  BY <1>17 DEF Expire
<1>18. CASE ReconcileRead
  BY <1>18 DEF ReconcileRead
<1>19. CASE ReconcileSchedule
  BY <1>19 DEF ReconcileSchedule
<1>20. CASE ExpiredRead
  BY <1>20 DEF ExpiredRead, ExpiryStep, RowType, JobStatus, Terminal
<1>21. CASE ExpiredUnqueue
  BY <1>21 DEF ExpiredUnqueue
<1>22. CASE ExpiredClaim
  BY <1>22 DEF ExpiredClaim
<1>23. CASE ExpiredDeleteSource
  BY <1>23 DEF ExpiredDeleteSource
<1>24. CASE TerminalPending
  BY <1>24 DEF TerminalPending, PendingToCollect, DeletePendingResult, IsOrphan
<1>25. CASE Quiescent
  BY <1>25 DEF Quiescent, vars
<1>26. ASSUME NEW w \in Workers, Fetch(w) PROVE RequestStages'
  BY <1>26 DEF Fetch, Goto
<1>27. ASSUME NEW w \in Workers, ReadJob(w) PROVE RequestStages'
  BY <1>27 DEF ReadJob, Throw, Return, Goto
<1>28. ASSUME NEW w \in Workers, Claim(w) PROVE RequestStages'
  BY <1>28 DEF Claim, Claimable, SeenType, AttemptType
<1>29. ASSUME NEW w \in Workers, ClaimCheck(w) PROVE RequestStages'
  BY <1>29 DEF ClaimCheck, Throw, Return, Goto
<1>30. ASSUME NEW w \in Workers, Resume(w) PROVE RequestStages'
  BY <1>30 DEF Resume, Throw, Return, Goto, DeletePendingResult
<1>31. ASSUME NEW w \in Workers, Load(w) PROVE RequestStages'
  BY <1>31 DEF Load, Throw, Return, Goto, Remaining
<1>32. ASSUME NEW w \in Workers, Progress(w) PROVE RequestStages'
  BY <1>32 DEF Progress, Throw, Return, Goto
<1>33. ASSUME NEW w \in Workers, Reserve(w) PROVE RequestStages'
  BY <1>33 DEF Reserve, Throw, Return, Goto
<1>34. ASSUME NEW w \in Workers, Fence(w) PROVE RequestStages'
  BY <1>34 DEF Fence, Throw, Return, Goto
<1>35. ASSUME NEW w \in Workers, SaveReport(w) PROVE RequestStages'
  BY <1>35 DEF SaveReport, Throw, Return, Goto, Unlock
<1>36. ASSUME NEW w \in Workers, Commit(w) PROVE RequestStages'
  BY <1>36 DEF LockHolder, Commit, Owns
<1>37. ASSUME NEW w \in Workers, FinalCheck(w) PROVE RequestStages'
  BY <1>37 DEF FinalCheck, Throw, Return, Goto
<1>38. ASSUME NEW w \in Workers, RecordFailure(w) PROVE RequestStages'
  BY <1>38 DEF RecordFailure, Goto, Owns, SeenType, AttemptType
<1>39. ASSUME NEW w \in Workers, Finally(w) PROVE RequestStages'
  BY <1>39 DEF Finally, Goto, AfterFinally, DeletePendingResult, IsOrphan
<1>40. ASSUME NEW w \in Workers, DeleteSource(w) PROVE RequestStages'
  BY <1>40 DEF DeleteSource, Goto
<1>41. ASSUME NEW w \in Workers, Settle(w) PROVE RequestStages'
  BY <1>41 DEF Settle, AfterError, ForgetAttempt, NothingSeen
<1>42. ASSUME NEW w \in Workers, Crash(w) PROVE RequestStages'
  BY <1>42 DEF Crash, ForgetAttempt, Unlock, NothingSeen
<1>43. ASSUME NEW w \in Workers, NEW S \in SUBSET todo[w] \ {{}}, CreateRows(w, S)
      PROVE  RequestStages'
  BY <1>43 DEF CreateRows, Throw, Return, Goto
<1>44. ASSUME NEW w \in Workers, NEW r \in todo[w], RejectRow(w, r)
      PROVE  RequestStages'
  BY <1>44 DEF RejectRow, Remaining
<1>45. CASE UNCHANGED vars
  BY <1>45 DEF vars
<1>46. QED
  BY <1>1, <1>2, <1>3, <1>4, <1>5, <1>6, <1>7, <1>8, <1>9, <1>10, <1>11, <1>12, <1>13,
     <1>14, <1>15, <1>16, <1>17, <1>18, <1>19, <1>20, <1>21, <1>22, <1>23, <1>24, <1>25,
     <1>26, <1>27, <1>28, <1>29, <1>30, <1>31, <1>32, <1>33, <1>34, <1>35, <1>36, <1>37,
     <1>38, <1>39, <1>40, <1>41, <1>42, <1>43, <1>44, <1>45
     DEF Next, Preview, Client, Attempt, QueueTimers, Maintenance

-----------------------------------------------------------------------------
(* ---- Attempts, the ledger and the report ---- *)

LEMMA OwnershipFrame == Ownership /\ UNCHANGED ownershipVars => Ownership'
BY DEF Ownership, ownershipVars, EachRowImportedOnce, OwnerView, LockHolder,
       WinnerReport, Owns, ImportedRows
LEMMA OwnershipStep == Typed /\ RequestStages /\ Ownership /\ [Next]_vars => Ownership'
<1> SUFFICES ASSUME RowType, StoreType, AttemptType, RequestStages, Ownership, [Next]_vars
             PROVE  Ownership'
  BY DEF Typed, TypeOK
<1> USE NoWorkerAssumption
    DEF rowVars, storeVars, attemptVars, clientVars, janitorVars, Fault, NoFault
<1>a. UNCHANGED ownershipVars => Ownership'
  BY OwnershipFrame
<1>1. CASE PreviewUpload
  BY <1>1, <1>a DEF PreviewUpload, ownershipVars
<1>2. CASE PreviewReconcile
  BY <1>2, <1>a DEF PreviewReconcile, ownershipVars
<1>3. CASE PreviewDeleteSource
  BY <1>3, <1>a DEF PreviewDeleteSource, ownershipVars
<1>4. CASE PreviewCrash
  BY <1>4, <1>a DEF PreviewCrash, ownershipVars
<1>5. CASE ConfirmRead
  BY <1>5, <1>a DEF ConfirmRead, ownershipVars
<1>6. CASE ConfirmSchedule
  BY <1>6, <1>a DEF ConfirmSchedule, ownershipVars
<1>7. CASE CancelRead
  BY <1>7, <1>a DEF CancelRead, ownershipVars
<1>8. CASE CancelDeleteSource
  BY <1>8, <1>a DEF CancelDeleteSource, ownershipVars
<1>9. CASE Stall
  BY <1>9, <1>a DEF Stall, ownershipVars
<1>10. CASE DelayElapsed
  BY <1>10, <1>a DEF DelayElapsed, ownershipVars
<1>11. CASE Expire
  BY <1>11, <1>a DEF Expire, ownershipVars
<1>12. CASE ReconcileRead
  BY <1>12, <1>a DEF ReconcileRead, ownershipVars
<1>13. CASE ReconcileSchedule
  BY <1>13, <1>a DEF ReconcileSchedule, ownershipVars
<1>14. CASE ExpiredRead
  BY <1>14, <1>a DEF ExpiredRead, ExpiryStep, ownershipVars
<1>15. CASE ExpiredUnqueue
  BY <1>15, <1>a DEF ExpiredUnqueue, ownershipVars
<1>16. CASE ExpiredDeleteSource
  BY <1>16, <1>a DEF ExpiredDeleteSource, ownershipVars
<1>17. CASE Quiescent
  BY <1>17, <1>a DEF Quiescent, vars, ownershipVars
<1>18. CASE PreviewReady
  <2>1. EachRowImportedOnce'
    BY <1>18 DEF PreviewReady, Ownership, EachRowImportedOnce
  <2>2. OwnerView'
    BY <1>18 DEF PreviewReady, OwnerView, Owns, RequestStages
  <2>3. LockHolder'
    BY <1>18 DEF PreviewReady, Ownership, LockHolder, Owns, RequestStages
  <2>4. WinnerReport'
    BY <1>18 DEF PreviewReady, Ownership, WinnerReport, RequestStages
  <2>5. QED
    BY <2>1, <2>2, <2>3, <2>4 DEF Ownership
<1>19. CASE PreviewFail
  <2>1. EachRowImportedOnce'
    BY <1>19 DEF PreviewFail, Ownership, EachRowImportedOnce
  <2>2. OwnerView'
    BY <1>19 DEF PreviewFail, Ownership, OwnerView, ImportedRows, Owns
  <2>3. LockHolder'
    BY <1>19 DEF PreviewFail, Ownership, LockHolder, Owns
  <2>4. WinnerReport'
    BY <1>19 DEF PreviewFail, Ownership, WinnerReport, ImportedRows
  <2>5. QED
    BY <2>1, <2>2, <2>3, <2>4 DEF Ownership
<1>20. CASE ConfirmClaim
  <2>1. EachRowImportedOnce'
    BY <1>20 DEF ConfirmClaim, Ownership, EachRowImportedOnce
  <2>2. OwnerView'
    BY <1>20 DEF ConfirmClaim, Ownership, OwnerView, ImportedRows, Owns
  <2>3. LockHolder'
    BY <1>20 DEF ConfirmClaim, LockHolder, Unlocked
  <2>4. WinnerReport'
    BY <1>20 DEF ConfirmClaim, Ownership, WinnerReport, ImportedRows
  <2>5. QED
    BY <2>1, <2>2, <2>3, <2>4 DEF Ownership
<1>21. CASE CancelClaim
  <2>1. EachRowImportedOnce'
    BY <1>21 DEF CancelClaim, Ownership, EachRowImportedOnce
  <2>2. OwnerView'
    BY <1>21 DEF CancelClaim, Ownership, OwnerView, ImportedRows, Owns
  <2>3. LockHolder'
    BY <1>21 DEF CancelClaim, LockHolder, Unlocked
  <2>4. WinnerReport'
    BY <1>21 DEF CancelClaim, Ownership, WinnerReport, ImportedRows
  <2>5. QED
    BY <2>1, <2>2, <2>3, <2>4 DEF Ownership
<1>22. CASE Rollback
  <2>1. EachRowImportedOnce'
    BY <1>22 DEF Rollback, EachRowImportedOnce
  <2>2. OwnerView'
    BY <1>22 DEF Rollback, OwnerView, Owns
  <2>3. LockHolder'
    BY <1>22 DEF Rollback, LockHolder, Unlocked
  <2>4. WinnerReport'
    BY <1>22 DEF Rollback, Ownership, WinnerReport
  <2>5. QED
    BY <2>1, <2>2, <2>3, <2>4 DEF Ownership
<1>23. CASE TxTimeout
  <2>1. EachRowImportedOnce'
    BY <1>23 DEF TxTimeout, Ownership, EachRowImportedOnce
  <2>2. OwnerView'
    BY <1>23 DEF TxTimeout, Ownership, OwnerView, ImportedRows, Owns
  <2>3. LockHolder'
    BY <1>23 DEF TxTimeout, LockHolder
  <2>4. WinnerReport'
    BY <1>23 DEF TxTimeout, Ownership, WinnerReport, ImportedRows
  <2>5. QED
    BY <2>1, <2>2, <2>3, <2>4 DEF Ownership
<1>24. CASE ExpiredClaim
  <2>1. EachRowImportedOnce'
    BY <1>24 DEF ExpiredClaim, Ownership, EachRowImportedOnce
  <2>2. OwnerView'
    BY <1>24 DEF ExpiredClaim, Ownership, OwnerView, ImportedRows, Owns
  <2>3. LockHolder'
    BY <1>24 DEF ExpiredClaim, LockHolder, Unlocked
  <2>4. WinnerReport'
    BY <1>24 DEF ExpiredClaim, Ownership, WinnerReport, ImportedRows, RequestStages
  <2>5. QED
    BY <2>1, <2>2, <2>3, <2>4 DEF Ownership
<1>25. CASE TerminalPending
  <2>1. EachRowImportedOnce'
    BY <1>25 DEF TerminalPending, Ownership, EachRowImportedOnce
  <2>2. OwnerView'
    BY <1>25 DEF TerminalPending, Ownership, OwnerView, ImportedRows, Owns
  <2>3. LockHolder'
    BY <1>25 DEF TerminalPending, DeletePendingResult, LockHolder, Unlocked
  <2>4. WinnerReport'
    BY <1>25
       DEF TerminalPending, PendingToCollect, DeletePendingResult, IsOrphan, Ownership,
           WinnerReport, ImportedRows
  <2>5. QED
    BY <2>1, <2>2, <2>3, <2>4 DEF Ownership
<1>26. ASSUME NEW w \in Workers, Fetch(w) PROVE Ownership'
  <2>1. EachRowImportedOnce'
    BY <1>26 DEF Fetch, Ownership, EachRowImportedOnce
  <2>2. OwnerView'
    BY <1>26 DEF Fetch, Ownership, OwnerView, ImportedRows, Owns
  <2>3. LockHolder'
    BY <1>26 DEF Fetch, Ownership, LockHolder, Owns
  <2>4. WinnerReport'
    BY <1>26 DEF Fetch, Ownership, WinnerReport, ImportedRows
  <2>5. QED
    BY <2>1, <2>2, <2>3, <2>4 DEF Ownership
<1>27. ASSUME NEW w \in Workers, ReadJob(w) PROVE Ownership'
  <2>1. EachRowImportedOnce'
    BY <1>27 DEF ReadJob, Ownership, EachRowImportedOnce
  <2>2. OwnerView'
    BY <1>27
       DEF ReadJob, Throw, Return, Goto, Ownership, OwnerView, ImportedRows, Owns,
           AttemptType
  <2>3. LockHolder'
    BY <1>27 DEF ReadJob, Throw, Return, Goto, Ownership, LockHolder, Owns, AttemptType
  <2>4. WinnerReport'
    BY <1>27
       DEF ReadJob, Return, Goto, Ownership, WinnerReport, ImportedRows, StoreType,
           AttemptType
  <2>5. QED
    BY <2>1, <2>2, <2>3, <2>4 DEF Ownership
<1>28. ASSUME NEW w \in Workers, Claim(w) PROVE Ownership'
  <2>1. EachRowImportedOnce'
    BY <1>28 DEF Claim, Ownership, EachRowImportedOnce
  <2>2. OwnerView'
    BY <1>28
       DEF Claim, TakeToken, Goto, Ownership, OwnerView, ImportedRows, Owns,
           AttemptType
  <2>3. LockHolder'
    BY <1>28 DEF Claim, LockHolder, Unlocked
  <2>4. WinnerReport'
    BY <1>28
       DEF SeenType, Claim, Claimable, TakeToken, Goto, Ownership, WinnerReport,
           ImportedRows, StoreType, AttemptType
  <2>5. QED
    BY <2>1, <2>2, <2>3, <2>4 DEF Ownership
<1>29. ASSUME NEW w \in Workers, ClaimCheck(w) PROVE Ownership'
  <2>1. EachRowImportedOnce'
    BY <1>29 DEF ClaimCheck, Ownership, EachRowImportedOnce
  <2>2. OwnerView'
    BY <1>29
       DEF ClaimCheck, Throw, Return, Goto, Ownership, OwnerView, ImportedRows, Owns,
           AttemptType
  <2>3. LockHolder'
    BY <1>29 DEF ClaimCheck, Throw, Goto, Ownership, LockHolder, Owns, AttemptType
  <2>4. WinnerReport'
    BY <1>29
       DEF ClaimCheck, Throw, Goto, Ownership, WinnerReport, ImportedRows, Owns,
           StoreType, AttemptType
  <2>5. QED
    BY <2>1, <2>2, <2>3, <2>4 DEF Ownership
<1>30. ASSUME NEW w \in Workers, Resume(w) PROVE Ownership'
  <2>1. EachRowImportedOnce'
    BY <1>30 DEF Resume, Ownership, EachRowImportedOnce
  <2>2. OwnerView'
    BY <1>30
       DEF Resume, Throw, Return, Goto, Ownership, OwnerView, ImportedRows, Owns,
           AttemptType
  <2>3. LockHolder'
    BY <1>30 DEF Resume, Return, Goto, Ownership, LockHolder, Owns, AttemptType
  <2>4. WinnerReport'
    BY <1>30
       DEF Resume, Return, Goto, Ownership, WinnerReport, ImportedRows, Owns,
           StoreType, AttemptType
  <2>5. QED
    BY <2>1, <2>2, <2>3, <2>4 DEF Ownership
<1>31. ASSUME NEW w \in Workers, Load(w) PROVE Ownership'
  <2>1. EachRowImportedOnce'
    BY <1>31 DEF Load, Ownership, EachRowImportedOnce
  <2>2. OwnerView'
    BY <1>31
       DEF Load, Throw, Return, Goto, Remaining, Ownership, OwnerView, ImportedRows,
           Owns, RowType, AttemptType
  <2>3. LockHolder'
    BY <1>31 DEF Load, Throw, Return, Goto, Ownership, LockHolder, Owns, AttemptType
  <2>4. WinnerReport'
    BY <1>31
       DEF Load, Throw, Return, Goto, Ownership, WinnerReport, ImportedRows, StoreType,
           AttemptType
  <2>5. QED
    BY <2>1, <2>2, <2>3, <2>4 DEF Ownership
<1>32. ASSUME NEW w \in Workers, Progress(w) PROVE Ownership'
  <2>1. EachRowImportedOnce'
    BY <1>32 DEF Progress, Ownership, EachRowImportedOnce
  <2>2. OwnerView'
    BY <1>32
       DEF Progress, Throw, Goto, Ownership, OwnerView, ImportedRows, Owns, AttemptType
  <2>3. LockHolder'
    BY <1>32 DEF Progress, LockHolder, Unlocked
  <2>4. WinnerReport'
    BY <1>32
       DEF Progress, Throw, Goto, Ownership, WinnerReport, ImportedRows, Owns,
           StoreType, AttemptType
  <2>5. QED
    BY <2>1, <2>2, <2>3, <2>4 DEF Ownership
<1>33. ASSUME NEW w \in Workers, Reserve(w) PROVE Ownership'
  <2>1. EachRowImportedOnce'
    BY <1>33 DEF Reserve, Ownership, EachRowImportedOnce
  <2>2. OwnerView'
    BY <1>33
       DEF Reserve, Throw, Return, Goto, Ownership, OwnerView, ImportedRows, Owns,
           AttemptType
  <2>3. LockHolder'
    BY <1>33 DEF Reserve, LockHolder, Unlocked
  <2>4. WinnerReport'
    BY <1>33
       DEF Reserve, Throw, Goto, Ownership, WinnerReport, ImportedRows, Owns,
           StoreType, AttemptType
  <2>5. QED
    BY <2>1, <2>2, <2>3, <2>4 DEF Ownership
<1>34. ASSUME NEW w \in Workers, Fence(w) PROVE Ownership'
  <2>1. EachRowImportedOnce'
    BY <1>34 DEF Fence, Ownership, EachRowImportedOnce
  <2>2. OwnerView'
    BY <1>34
       DEF Fence, Fenced, Throw, Return, Goto, Ownership, OwnerView, ImportedRows, Owns,
           AttemptType
  <2>3. LockHolder'
    BY <1>34 DEF Fence, Fenced, Return, Goto, LockHolder, Owns, AttemptType, Unlocked
  <2>4. WinnerReport'
    BY <1>34
       DEF Fence, Fenced, Throw, Goto, Ownership, WinnerReport, ImportedRows, Owns, StoreType,
           AttemptType
  <2>5. QED
    BY <2>1, <2>2, <2>3, <2>4 DEF Ownership
<1>35. ASSUME NEW w \in Workers, SaveReport(w) PROVE Ownership'
  <2>1. EachRowImportedOnce'
    BY <1>35 DEF SaveReport, Ownership, EachRowImportedOnce
  <2>2. OwnerView'
    BY <1>35
       DEF SaveReport, Throw, Return, Goto, Ownership, OwnerView, ImportedRows, Owns,
           AttemptType
  <2>3. LockHolder'
    BY <1>35
       DEF SaveReport, Throw, Return, Goto, Unlock, Ownership, LockHolder, Owns,
           StoreType, AttemptType
  <2>4. WinnerReport'
    BY <1>35
       DEF SaveReport, Throw, Return, Goto, Ownership, WinnerReport, ImportedRows,
           StoreType, AttemptType
  <2>5. QED
    BY <2>1, <2>2, <2>3, <2>4 DEF Ownership
<1>36. ASSUME NEW w \in Workers, Commit(w) PROVE Ownership'
  <2>1. EachRowImportedOnce'
    BY <1>36 DEF Commit, Ownership, EachRowImportedOnce
  <2>2. OwnerView'
    BY <1>36
       DEF Commit, Complete, Goto, Ownership, OwnerView, ImportedRows, Owns,
           AttemptType
  <2>3. LockHolder'
    BY <1>36 DEF Commit, Unlock, Goto, Ownership, LockHolder, Owns, AttemptType
  <2>4. WinnerReport'
    BY <1>36
       DEF Commit, Complete, Goto, Ownership, OwnerView, LockHolder, WinnerReport,
           ImportedRows, StoreType, AttemptType
  <2>5. QED
    BY <2>1, <2>2, <2>3, <2>4 DEF Ownership
<1>37. ASSUME NEW w \in Workers, FinalCheck(w) PROVE Ownership'
  <2>1. EachRowImportedOnce'
    BY <1>37 DEF FinalCheck, Ownership, EachRowImportedOnce
  <2>2. OwnerView'
    BY <1>37
       DEF FinalCheck, Throw, Goto, Ownership, OwnerView, ImportedRows, Owns,
           AttemptType
  <2>3. LockHolder'
    BY <1>37 DEF FinalCheck, Throw, Goto, Ownership, LockHolder, Owns, AttemptType
  <2>4. WinnerReport'
    BY <1>37
       DEF FinalCheck, Throw, Return, Goto, Ownership, WinnerReport, ImportedRows,
           StoreType, AttemptType
  <2>5. QED
    BY <2>1, <2>2, <2>3, <2>4 DEF Ownership
<1>38. ASSUME NEW w \in Workers, RecordFailure(w) PROVE Ownership'
  <2>1. EachRowImportedOnce'
    BY <1>38 DEF RecordFailure, Ownership, EachRowImportedOnce
  <2>2. OwnerView'
    BY <1>38 DEF RecordFailure, Goto, Ownership, OwnerView, ImportedRows, Owns
  <2>3. LockHolder'
    BY <1>38 DEF RecordFailure, LockHolder, Unlocked
  <2>4. WinnerReport'
    BY <1>38 DEF RecordFailure, Goto, Ownership, WinnerReport, ImportedRows, Owns
  <2>5. QED
    BY <2>1, <2>2, <2>3, <2>4 DEF Ownership
<1>39. ASSUME NEW w \in Workers, Finally(w) PROVE Ownership'
  <2>1. EachRowImportedOnce'
    BY <1>39 DEF Finally, Ownership, EachRowImportedOnce
  <2>2. OwnerView'
    BY <1>39 DEF Finally, Goto, AfterFinally, Ownership, OwnerView, ImportedRows, Owns
  <2>3. LockHolder'
    BY <1>39 DEF Finally, Goto, IsOrphan, Ownership, LockHolder, Owns
  <2>4. WinnerReport'
    BY <1>39
       DEF Finally, Goto, AfterFinally, DeletePendingResult, IsOrphan, Ownership,
           WinnerReport, ImportedRows
  <2>5. QED
    BY <2>1, <2>2, <2>3, <2>4 DEF Ownership
<1>40. ASSUME NEW w \in Workers, DeleteSource(w) PROVE Ownership'
  <2>1. EachRowImportedOnce'
    BY <1>40 DEF DeleteSource, Ownership, EachRowImportedOnce
  <2>2. OwnerView'
    BY <1>40 DEF DeleteSource, Goto, Ownership, OwnerView, ImportedRows, Owns, AttemptType
  <2>3. LockHolder'
    BY <1>40 DEF DeleteSource, Goto, Ownership, LockHolder, Owns, AttemptType
  <2>4. WinnerReport'
    BY <1>40
       DEF DeleteSource, Goto, Ownership, WinnerReport, ImportedRows, StoreType,
           AttemptType
  <2>5. QED
    BY <2>1, <2>2, <2>3, <2>4 DEF Ownership
<1>41. ASSUME NEW w \in Workers, Settle(w) PROVE Ownership'
  <2>1. EachRowImportedOnce'
    BY <1>41 DEF Settle, Ownership, EachRowImportedOnce
  <2>2. OwnerView'
    BY <1>41 DEF Settle, ForgetAttempt, Ownership, OwnerView, ImportedRows, Owns
  <2>3. LockHolder'
    BY <1>41 DEF Settle, ForgetAttempt, Ownership, LockHolder, Owns
  <2>4. WinnerReport'
    BY <1>41 DEF Settle, ForgetAttempt, Ownership, WinnerReport, ImportedRows
  <2>5. QED
    BY <2>1, <2>2, <2>3, <2>4 DEF Ownership
<1>42. ASSUME NEW w \in Workers, Crash(w) PROVE Ownership'
  <2>1. EachRowImportedOnce'
    BY <1>42 DEF Crash, Ownership, EachRowImportedOnce
  <2>2. OwnerView'
    BY <1>42
       DEF Crash, ForgetAttempt, Ownership, OwnerView, ImportedRows, Owns, AttemptType
  <2>3. LockHolder'
    BY <1>42 DEF Crash, ForgetAttempt, Unlock, Ownership, LockHolder, Owns
  <2>4. WinnerReport'
    BY <1>42 DEF Crash, ForgetAttempt, Ownership, WinnerReport, ImportedRows
  <2>5. QED
    BY <2>1, <2>2, <2>3, <2>4 DEF Ownership
<1>43. ASSUME NEW w \in Workers, NEW S \in SUBSET todo[w] \ {{}}, CreateRows(w, S)
      PROVE  Ownership'
  <2>1. EachRowImportedOnce'
    BY <1>43
       DEF CreateRows, Ownership, EachRowImportedOnce, OwnerView, ImportedRows, RowType
  <2>2. OwnerView'
    BY <1>43
       DEF CreateRows, Ownership, OwnerView, ImportedRows, Owns, RowType, AttemptType
  <2>3. LockHolder'
    BY <1>43 DEF CreateRows, LockHolder, Unlocked
  <2>4. WinnerReport'
    BY <1>43 DEF CreateRows, Ownership, WinnerReport, Owns
  <2>5. QED
    BY <2>1, <2>2, <2>3, <2>4 DEF Ownership
<1>44. ASSUME NEW w \in Workers, NEW r \in todo[w], RejectRow(w, r) PROVE Ownership'
  <2>1. EachRowImportedOnce'
    BY <1>44 DEF RejectRow, Ownership, EachRowImportedOnce
  <2>2. OwnerView'
    BY <1>44
       DEF RejectRow, Remaining, Ownership, OwnerView, ImportedRows, Owns, RowType,
           AttemptType
  <2>3. LockHolder'
    BY <1>44 DEF RejectRow, Ownership, LockHolder, Owns
  <2>4. WinnerReport'
    BY <1>44 DEF RejectRow, Ownership, WinnerReport, ImportedRows
  <2>5. QED
    BY <2>1, <2>2, <2>3, <2>4 DEF Ownership
<1>45. CASE UNCHANGED vars
  BY <1>45, <1>a DEF vars, ownershipVars
<1>46. QED
  BY <1>1, <1>2, <1>3, <1>4, <1>5, <1>6, <1>7, <1>8, <1>9, <1>10, <1>11, <1>12, <1>13,
     <1>14, <1>15, <1>16, <1>17, <1>18, <1>19, <1>20, <1>21, <1>22, <1>23, <1>24, <1>25,
     <1>26, <1>27, <1>28, <1>29, <1>30, <1>31, <1>32, <1>33, <1>34, <1>35, <1>36, <1>37,
     <1>38, <1>39, <1>40, <1>41, <1>42, <1>43, <1>44, <1>45
     DEF Next, Preview, Client, Attempt, QueueTimers, Maintenance

-----------------------------------------------------------------------------
(* ---- Every step is a step of the lifecycle, or a stutter ---- *)

LEMMA LifecycleStep == IInv /\ [Next]_vars => [Lifecycle!Next]_(Lifecycle!lifecycle)
<1> SUFFICES ASSUME IInv, [Next]_vars PROVE  [Lifecycle!Next]_(Lifecycle!lifecycle)
  OBVIOUS
<1> USE NoWorkerAssumption
    DEF rowVars, storeVars, clientVars, janitorVars, IInv, Ownership, Published,
        Lifecycle!lifecycle
<1> DEFINE Step == [Lifecycle!Next]_(Lifecycle!lifecycle)
<1>1. CASE PreviewUpload
  BY <1>1 DEF PreviewUpload
<1>2. CASE PreviewReady
  BY <1>2
     DEF PreviewReady, Lifecycle!Next, Lifecycle!Move, Lifecycle!Validate,
         RequestStages
<1>3. CASE PreviewReconcile
  BY <1>3 DEF PreviewReconcile
<1>4. CASE PreviewFail
  BY <1>4 DEF PreviewFail, Lifecycle!Next, Lifecycle!Move, Lifecycle!Abandon
<1>5. CASE PreviewDeleteSource
  BY <1>5 DEF PreviewDeleteSource
<1>6. CASE PreviewCrash
  BY <1>6 DEF PreviewCrash
<1>7. CASE ConfirmRead
  BY <1>7 DEF ConfirmRead
<1>8. CASE ConfirmClaim
  BY <1>8 DEF ConfirmClaim, Lifecycle!Next, Lifecycle!Move, Lifecycle!Accept
<1>9. CASE ConfirmSchedule
  BY <1>9 DEF ConfirmSchedule
<1>10. CASE CancelRead
  BY <1>10 DEF CancelRead
<1>11. CASE CancelClaim
  BY <1>11 DEF CancelClaim, Lifecycle!Next, Lifecycle!Move, Lifecycle!Withdraw
<1>12. CASE CancelDeleteSource
  BY <1>12 DEF CancelDeleteSource
<1>13. CASE Rollback
  BY <1>13 DEF Rollback, Lifecycle!Next, Lifecycle!Undo
<1>14. CASE TxTimeout
  BY <1>14 DEF TxTimeout
<1>15. CASE Stall
  BY <1>15 DEF Stall
<1>16. CASE DelayElapsed
  BY <1>16 DEF DelayElapsed
<1>17. CASE Expire
  BY <1>17 DEF Expire
<1>18. CASE ReconcileRead
  BY <1>18 DEF ReconcileRead
<1>19. CASE ReconcileSchedule
  BY <1>19 DEF ReconcileSchedule
<1>20. CASE ExpiredRead
  BY <1>20 DEF ExpiredRead, ExpiryStep
<1>21. CASE ExpiredUnqueue
  BY <1>21 DEF ExpiredUnqueue
<1>22. CASE ExpiredClaim
  BY <1>22
     DEF ExpiredClaim, Lifecycle!Next, Lifecycle!Move, Lifecycle!Abandon,
         Lifecycle!Withdraw, RequestStages
<1>23. CASE ExpiredDeleteSource
  BY <1>23 DEF ExpiredDeleteSource
<1>24. CASE TerminalPending
  BY <1>24 DEF TerminalPending, PendingToCollect, DeletePendingResult, IsOrphan
<1>25. CASE Quiescent
  BY <1>25 DEF Quiescent, vars
<1>26. ASSUME NEW w \in Workers, Fetch(w) PROVE Step
  BY <1>26 DEF Fetch, Goto
<1>27. ASSUME NEW w \in Workers, ReadJob(w) PROVE Step
  BY <1>27 DEF ReadJob, Throw, Return, Goto
<1>28. ASSUME NEW w \in Workers, Claim(w) PROVE Step
  BY <1>28
     DEF Claim, Claimable, TakeToken, Lifecycle!Next, Lifecycle!Move, Lifecycle!Start,
         Typed, TypeOK, AttemptType, SeenType
<1>29. ASSUME NEW w \in Workers, ClaimCheck(w) PROVE Step
  BY <1>29 DEF ClaimCheck, Throw, Return, Goto
<1>30. ASSUME NEW w \in Workers, Resume(w) PROVE Step
  BY <1>30 DEF Resume, DeletePendingResult
<1>31. ASSUME NEW w \in Workers, Load(w) PROVE Step
  BY <1>31 DEF Load, Throw, Return, Goto, Remaining
<1>32. ASSUME NEW w \in Workers, Progress(w) PROVE Step
  BY <1>32 DEF Progress, Throw, Return, Goto
<1>33. ASSUME NEW w \in Workers, Reserve(w) PROVE Step
  BY <1>33 DEF Reserve, Throw, Return, Goto
<1>34. ASSUME NEW w \in Workers, Fence(w) PROVE Step
  BY <1>34 DEF Fence, Throw, Return, Goto
<1>35. ASSUME NEW w \in Workers, SaveReport(w) PROVE Step
  BY <1>35 DEF SaveReport, WinnerReport, Typed, TypeOK, StoreType
<1>36. ASSUME NEW w \in Workers, Commit(w) PROVE Step
  BY <1>36
     DEF Commit, Complete, Lifecycle!Next, Lifecycle!Publish, Owns, LockHolder,
         OwnerView, ImportedRows
<1>37. ASSUME NEW w \in Workers, FinalCheck(w) PROVE Step
  BY <1>37 DEF FinalCheck, Throw, Return, Goto
<1>38. ASSUME NEW w \in Workers, RecordFailure(w) PROVE Step
  BY <1>38 DEF RecordFailure, Lifecycle!Next, Lifecycle!Move, Lifecycle!Abandon, Owns
<1>39. ASSUME NEW w \in Workers, Finally(w) PROVE Step
  BY <1>39 DEF Finally, DeletePendingResult, IsOrphan
<1>40. ASSUME NEW w \in Workers, DeleteSource(w) PROVE Step
  BY <1>40 DEF DeleteSource, Goto
<1>41. ASSUME NEW w \in Workers, Settle(w) PROVE Step
  BY <1>41 DEF Settle, AfterError, ForgetAttempt, NothingSeen
<1>42. ASSUME NEW w \in Workers, Crash(w) PROVE Step
  BY <1>42 DEF Crash, ForgetAttempt, Unlock, NothingSeen
<1>43. ASSUME NEW w \in Workers, NEW S \in SUBSET todo[w] \ {{}}, CreateRows(w, S)
      PROVE  Step
  <2>1. S \in SUBSET Rows
    BY <1>43 DEF Typed, TypeOK, AttemptType
  <2>2. \A r \in S : ledger[r] = 0
    BY <1>43, <2>1 DEF CreateRows, OwnerView, ImportedRows, Typed, TypeOK, RowType
  <2>3. ledger' = [r \in Rows |-> IF r \in S THEN 1 ELSE ledger[r]]
    BY <1>43, <2>1, <2>2 DEF CreateRows
  <2>4. Published' = Published
    BY <1>43 DEF CreateRows, Published
  <2>5. Lifecycle!ImportRows(S)
    BY <1>43, <2>2, <2>3, <2>4 DEF CreateRows, Owns, Lifecycle!ImportRows
  <2>6. QED
    BY <2>1, <2>5 DEF Lifecycle!Next
<1>44. ASSUME NEW w \in Workers, NEW r \in todo[w], RejectRow(w, r)
      PROVE  Step
  BY <1>44 DEF RejectRow, Remaining
<1>45. CASE UNCHANGED vars
  BY <1>45 DEF vars
<1>46. QED
  BY <1>1, <1>2, <1>3, <1>4, <1>5, <1>6, <1>7, <1>8, <1>9, <1>10, <1>11, <1>12, <1>13,
     <1>14, <1>15, <1>16, <1>17, <1>18, <1>19, <1>20, <1>21, <1>22, <1>23, <1>24, <1>25,
     <1>26, <1>27, <1>28, <1>29, <1>30, <1>31, <1>32, <1>33, <1>34, <1>35, <1>36, <1>37,
     <1>38, <1>39, <1>40, <1>41, <1>42, <1>43, <1>44, <1>45
     DEF Next, Preview, Client, Attempt, QueueTimers, Maintenance

-----------------------------------------------------------------------------
(* ---- The theorems ---- *)

LEMMA IInvInit == Init => IInv
<1>1. Init => RequestStages
  BY DEF Init, RequestStages
<1>2. Init => Ownership
  BY NoWorkerAssumption
     DEF Init, Ownership, EachRowImportedOnce, OwnerView, LockHolder, WinnerReport
<1>3. QED
  BY <1>1, <1>2, TypedInit DEF IInv

LEMMA IInvStep == IInv /\ [Next]_vars => IInv'
BY TypedStep, RequestStagesStep, OwnershipStep DEF IInv, Ownership

(* The strengthening is an invariant.                                       *)
THEOREM Inductive == Spec => []IInv
BY IInvInit, IInvStep, PTL DEF Spec

(* A workbook row becomes records at most once: a redelivered job, a cut-off *)
(* worker and its successor never both import a row.                        *)
THEOREM RowsOnce == Spec => []EachRowImportedOnce
<1>1. IInv => EachRowImportedOnce
  BY DEF IInv, Ownership
<1>2. QED
  BY <1>1, Inductive, PTL

(* The result report of a completed import is stored and lists exactly the  *)
(* rows whose records exist.                                                *)
THEOREM ReportExact == Spec => []ReportMatchesLedger
<1>1. IInv => ReportMatchesLedger
  BY DEF IInv, Ownership, WinnerReport, ReportMatchesLedger
<1>2. QED
  BY <1>1, Inductive, PTL

(* The pipeline implements ImportLifecycle.                                 *)
THEOREM Refinement == Spec => ImplementsLifecycle
<1>1. Init => Lifecycle!Init
  BY DEF Init, Lifecycle!Init, Published
<1>2. QED
  BY <1>1, LifecycleStep, Inductive, PTL DEF Spec, ImplementsLifecycle, Lifecycle!Spec

-----------------------------------------------------------------------------
(* ---- The storage write of the finalization ---- *)

TrackedNext == \A w \in Workers : Lost(w)' => (Lost(w) \/ Overtaken(w))

LEMMA TrackedStep == IInv /\ [Next]_vars => TrackedNext
<1> SUFFICES ASSUME RowType, StoreType, AttemptType, LockHolder, WinnerReport,
                    [Next]_vars
             PROVE  TrackedNext
  BY DEF IInv, Typed, TypeOK, Ownership
<1> USE NoWorkerAssumption
    DEF rowVars, storeVars, attemptVars, clientVars, janitorVars, TrackedNext, Lost,
        Overtaken
<1>1. CASE PreviewUpload
  BY <1>1 DEF PreviewUpload
<1>2. CASE PreviewReady
  BY <1>2 DEF PreviewReady
<1>3. CASE PreviewReconcile
  BY <1>3 DEF PreviewReconcile
<1>4. CASE PreviewFail
  BY <1>4 DEF PreviewFail
<1>5. CASE PreviewDeleteSource
  BY <1>5 DEF PreviewDeleteSource
<1>6. CASE PreviewCrash
  BY <1>6 DEF PreviewCrash
<1>7. CASE ConfirmRead
  BY <1>7 DEF ConfirmRead
<1>8. CASE ConfirmClaim
  BY <1>8 DEF ConfirmClaim
<1>9. CASE ConfirmSchedule
  BY <1>9 DEF ConfirmSchedule
<1>10. CASE CancelRead
  BY <1>10 DEF CancelRead
<1>11. CASE CancelClaim
  BY <1>11 DEF CancelClaim
<1>12. CASE CancelDeleteSource
  BY <1>12 DEF CancelDeleteSource
<1>13. CASE Rollback
  BY <1>13 DEF Rollback
<1>14. CASE TxTimeout
  BY <1>14 DEF TxTimeout
<1>15. CASE Stall
  BY <1>15 DEF Stall
<1>16. CASE DelayElapsed
  BY <1>16 DEF DelayElapsed
<1>17. CASE Expire
  BY <1>17 DEF Expire
<1>18. CASE ReconcileRead
  BY <1>18 DEF ReconcileRead
<1>19. CASE ReconcileSchedule
  BY <1>19 DEF ReconcileSchedule
<1>20. CASE ExpiredRead
  BY <1>20 DEF ExpiredRead
<1>21. CASE ExpiredUnqueue
  BY <1>21 DEF ExpiredUnqueue
<1>22. CASE ExpiredClaim
  BY <1>22 DEF ExpiredClaim
<1>23. CASE ExpiredDeleteSource
  BY <1>23 DEF ExpiredDeleteSource
<1>24. CASE TerminalPending
  BY <1>24 DEF TerminalPending, PendingToCollect, DeletePendingResult, IsOrphan
<1>25. CASE Quiescent
  BY <1>25 DEF Quiescent, vars
<1>26. ASSUME NEW w \in Workers, Fetch(w) PROVE TrackedNext
  BY <1>26 DEF Fetch, AttemptType
<1>27. ASSUME NEW w \in Workers, ReadJob(w) PROVE TrackedNext
  BY <1>27 DEF ReadJob, Throw, Return, Goto, AttemptType
<1>28. ASSUME NEW w \in Workers, Claim(w) PROVE TrackedNext
  BY <1>28 DEF Claim, Goto, AttemptType
<1>29. ASSUME NEW w \in Workers, ClaimCheck(w) PROVE TrackedNext
  BY <1>29 DEF ClaimCheck, Throw, Return, Goto, AttemptType
<1>30. ASSUME NEW w \in Workers, Resume(w) PROVE TrackedNext
  BY <1>30 DEF Resume, Throw, Return, Goto, DeletePendingResult, Unlocked, AttemptType
<1>31. ASSUME NEW w \in Workers, Load(w) PROVE TrackedNext
  BY <1>31 DEF Load, Throw, Return, Goto, AttemptType
<1>32. ASSUME NEW w \in Workers, Progress(w) PROVE TrackedNext
  BY <1>32 DEF Progress, Throw, Return, Goto, AttemptType
<1>33. ASSUME NEW w \in Workers, Reserve(w) PROVE TrackedNext
  BY <1>33 DEF Reserve, Throw, Return, Goto, Unlocked, StoreType, AttemptType
<1>34. ASSUME NEW w \in Workers, Fence(w) PROVE TrackedNext
  BY <1>34 DEF Fence, Throw, Return, Goto, Unlocked, AttemptType
<1>35. ASSUME NEW w \in Workers, SaveReport(w) PROVE TrackedNext
  BY <1>35
     DEF SaveReport, Throw, Return, Goto, Unlock, LockHolder, StoreType, AttemptType
<1>36. ASSUME NEW w \in Workers, Commit(w) PROVE TrackedNext
  BY <1>36
     DEF Commit, Goto, Unlock, Complete, LockHolder, WinnerReport, Owns, StoreType,
         Unlocked, AttemptType
<1>37. ASSUME NEW w \in Workers, FinalCheck(w) PROVE TrackedNext
  BY <1>37 DEF FinalCheck, Throw, Return, Goto, AttemptType
<1>38. ASSUME NEW w \in Workers, RecordFailure(w) PROVE TrackedNext
  BY <1>38 DEF RecordFailure, Goto, AttemptType
<1>39. ASSUME NEW w \in Workers, Finally(w) PROVE TrackedNext
  BY <1>39 DEF Finally, Goto, AfterFinally, DeletePendingResult, IsOrphan, AttemptType
<1>40. ASSUME NEW w \in Workers, DeleteSource(w) PROVE TrackedNext
  BY <1>40 DEF DeleteSource, Goto, AttemptType
<1>41. ASSUME NEW w \in Workers, Settle(w) PROVE TrackedNext
  BY <1>41 DEF Settle, ForgetAttempt, AttemptType
<1>42. ASSUME NEW w \in Workers, Crash(w) PROVE TrackedNext
  BY <1>42 DEF Crash, ForgetAttempt, Unlock, AttemptType
<1>43. ASSUME NEW w \in Workers, NEW S \in SUBSET todo[w] \ {{}}, CreateRows(w, S)
       PROVE  TrackedNext
  BY <1>43 DEF CreateRows, Throw, Return, Goto, AttemptType
<1>44. ASSUME NEW w \in Workers, NEW r \in todo[w], RejectRow(w, r)
       PROVE  TrackedNext
  BY <1>44 DEF RejectRow, AttemptType
<1>45. CASE UNCHANGED vars
  BY <1>45 DEF vars
<1>46. QED
  BY <1>1, <1>2, <1>3, <1>4, <1>5, <1>6, <1>7, <1>8, <1>9, <1>10, <1>11, <1>12, <1>13,
     <1>14, <1>15, <1>16, <1>17, <1>18, <1>19, <1>20, <1>21, <1>22, <1>23, <1>24, <1>25,
     <1>26, <1>27, <1>28, <1>29, <1>30, <1>31, <1>32, <1>33, <1>34, <1>35, <1>36, <1>37,
     <1>38, <1>39, <1>40, <1>41, <1>42, <1>43, <1>44, <1>45
     DEF Next, Preview, Client, Attempt, QueueTimers, Maintenance

(* A report falls out of sight of the row only by a storage write that      *)
(* outlives its timed-out transaction; no crash, lost answer or takeover    *)
(* leaves a report nobody can find.                                         *)
THEOREM ReportsAlwaysTracked == Spec => ReportsTracked
<1>1. IInv /\ [Next]_vars => [TrackedNext]_vars
  BY TrackedStep
<1>2. Spec => [][TrackedNext]_vars
  BY <1>1, Inductive, PTL DEF Spec
<1>3. QED
  BY <1>2 DEF ReportsTracked, TrackedNext

OwnCompletion ==
    \A w \in Workers : result' = w /\ result # w =>
        /\ Owns(w) /\ pending = w
        /\ w \in reports /\ content[w] = ImportedRows

LEMMA CompletionStep == IInv /\ [Next]_vars => OwnCompletion
<1> SUFFICES ASSUME RowType, StoreType, AttemptType, OwnerView, LockHolder, WinnerReport,
                    [Next]_vars
             PROVE  OwnCompletion
  BY DEF IInv, Typed, TypeOK, Ownership
<1> USE NoWorkerAssumption
    DEF rowVars, attemptVars, clientVars, janitorVars, OwnCompletion
<1>1. CASE PreviewUpload
  BY <1>1 DEF PreviewUpload
<1>2. CASE PreviewReady
  BY <1>2 DEF PreviewReady
<1>3. CASE PreviewReconcile
  BY <1>3 DEF PreviewReconcile
<1>4. CASE PreviewFail
  BY <1>4 DEF PreviewFail
<1>5. CASE PreviewDeleteSource
  BY <1>5 DEF PreviewDeleteSource
<1>6. CASE PreviewCrash
  BY <1>6 DEF PreviewCrash
<1>7. CASE ConfirmRead
  BY <1>7 DEF ConfirmRead
<1>8. CASE ConfirmClaim
  BY <1>8 DEF ConfirmClaim, Unlocked
<1>9. CASE ConfirmSchedule
  BY <1>9 DEF ConfirmSchedule
<1>10. CASE CancelRead
  BY <1>10 DEF CancelRead
<1>11. CASE CancelClaim
  BY <1>11 DEF CancelClaim, Unlocked
<1>12. CASE CancelDeleteSource
  BY <1>12 DEF CancelDeleteSource
<1>13. CASE Rollback
  BY <1>13 DEF Rollback
<1>14. CASE TxTimeout
  BY <1>14 DEF TxTimeout
<1>15. CASE Stall
  BY <1>15 DEF Stall
<1>16. CASE DelayElapsed
  BY <1>16 DEF DelayElapsed
<1>17. CASE Expire
  BY <1>17 DEF Expire
<1>18. CASE ReconcileRead
  BY <1>18 DEF ReconcileRead
<1>19. CASE ReconcileSchedule
  BY <1>19 DEF ReconcileSchedule
<1>20. CASE ExpiredRead
  BY <1>20 DEF ExpiredRead
<1>21. CASE ExpiredUnqueue
  BY <1>21 DEF ExpiredUnqueue
<1>22. CASE ExpiredClaim
  BY <1>22 DEF ExpiredClaim, Unlocked
<1>23. CASE ExpiredDeleteSource
  BY <1>23 DEF ExpiredDeleteSource
<1>24. CASE TerminalPending
  BY <1>24 DEF TerminalPending, DeletePendingResult
<1>25. CASE Quiescent
  BY <1>25 DEF Quiescent, vars
<1>26. ASSUME NEW w \in Workers, Fetch(w) PROVE OwnCompletion
  BY <1>26 DEF Fetch
<1>27. ASSUME NEW w \in Workers, ReadJob(w) PROVE OwnCompletion
  BY <1>27 DEF ReadJob
<1>28. ASSUME NEW w \in Workers, Claim(w) PROVE OwnCompletion
  BY <1>28 DEF Claim, Unlocked
<1>29. ASSUME NEW w \in Workers, ClaimCheck(w) PROVE OwnCompletion
  BY <1>29 DEF ClaimCheck
<1>30. ASSUME NEW w \in Workers, Resume(w) PROVE OwnCompletion
  BY <1>30 DEF Resume, DeletePendingResult
<1>31. ASSUME NEW w \in Workers, Load(w) PROVE OwnCompletion
  BY <1>31 DEF Load
<1>32. ASSUME NEW w \in Workers, Progress(w) PROVE OwnCompletion
  BY <1>32 DEF Progress
<1>33. ASSUME NEW w \in Workers, Reserve(w) PROVE OwnCompletion
  BY <1>33 DEF Reserve
<1>34. ASSUME NEW w \in Workers, Fence(w) PROVE OwnCompletion
  BY <1>34 DEF Fence
<1>35. ASSUME NEW w \in Workers, SaveReport(w) PROVE OwnCompletion
  BY <1>35 DEF SaveReport
<1>36. ASSUME NEW w \in Workers, Commit(w) PROVE OwnCompletion
  BY <1>36 DEF Commit, Complete, Goto, Owns, OwnerView, LockHolder, ImportedRows
<1>37. ASSUME NEW w \in Workers, FinalCheck(w) PROVE OwnCompletion
  BY <1>37 DEF FinalCheck
<1>38. ASSUME NEW w \in Workers, RecordFailure(w) PROVE OwnCompletion
  BY <1>38 DEF RecordFailure, Unlocked
<1>39. ASSUME NEW w \in Workers, Finally(w) PROVE OwnCompletion
  BY <1>39 DEF Finally, DeletePendingResult
<1>40. ASSUME NEW w \in Workers, DeleteSource(w) PROVE OwnCompletion
  BY <1>40 DEF DeleteSource
<1>41. ASSUME NEW w \in Workers, Settle(w) PROVE OwnCompletion
  BY <1>41 DEF Settle
<1>42. ASSUME NEW w \in Workers, Crash(w) PROVE OwnCompletion
  BY <1>42 DEF Crash
<1>43. ASSUME NEW w \in Workers, NEW S \in SUBSET todo[w] \ {{}}, CreateRows(w, S)
       PROVE  OwnCompletion
  BY <1>43 DEF CreateRows
<1>44. ASSUME NEW w \in Workers, NEW r \in todo[w], RejectRow(w, r)
       PROVE  OwnCompletion
  BY <1>44 DEF RejectRow
<1>45. CASE UNCHANGED vars
  BY <1>45 DEF vars
<1>46. QED
  BY <1>1, <1>2, <1>3, <1>4, <1>5, <1>6, <1>7, <1>8, <1>9, <1>10, <1>11, <1>12, <1>13,
     <1>14, <1>15, <1>16, <1>17, <1>18, <1>19, <1>20, <1>21, <1>22, <1>23, <1>24, <1>25,
     <1>26, <1>27, <1>28, <1>29, <1>30, <1>31, <1>32, <1>33, <1>34, <1>35, <1>36, <1>37,
     <1>38, <1>39, <1>40, <1>41, <1>42, <1>43, <1>44, <1>45
     DEF Next, Preview, Client, Attempt, QueueTimers, Maintenance

(* Transactions may time out and attempts overlap: an attempt completes the *)
(* job only while it owns it, with its report stored and exact.             *)
THEOREM CompletionIsOwned == Spec => CompletesAsOwner
<1>1. IInv /\ [Next]_vars => [OwnCompletion]_vars
  BY CompletionStep
<1>2. Spec => [][OwnCompletion]_vars
  BY <1>1, Inductive, PTL DEF Spec
<1>3. QED
  BY <1>2 DEF CompletesAsOwner, OwnCompletion

-----------------------------------------------------------------------------
(* ---- The workbook ---- *)

(* Whoever is about to delete the workbook, or clears its key after that,   *)
(* has seen the job end, or its source expire; nothing leads back.          *)
SourceDeleters ==
    /\ preview \in {"upload", "ready", "check", "fail"} => status = "VALIDATING"
    /\ preview = "ready" => source
    /\ preview \in {"delete", "clear"} => status \in Terminal
    /\ cancel \in {"delete", "clear"} => status \in Terminal
    /\ \A w \in Workers : owns[w] \/ pc[w] \in {"delete", "clear"} => status \in Terminal
    /\ janitor \in {"delete", "clear"} => expired

SourceSafe == SourceDeleters /\ SourceKeptWhileUsable

LEMMA SourceSafeStep ==
  LostPreview = FALSE /\ IInv /\ SourceSafe /\ [Next]_vars => SourceSafe'
<1> SUFFICES ASSUME LostPreview = FALSE, RowType, StoreType, AttemptType, RequestType,
                    RequestStages, LockHolder, SourceSafe, [Next]_vars
             PROVE  SourceSafe'
  BY DEF IInv, Typed, TypeOK, Ownership
<1> USE DEF rowVars, storeVars, attemptVars, clientVars, janitorVars, SourceSafe,
            SourceDeleters, SourceKeptWhileUsable, Terminal
<1>1. CASE PreviewUpload
  BY <1>1 DEF PreviewUpload, RequestStages
<1>2. CASE PreviewReady
  BY <1>2 DEF PreviewReady, RequestStages
<1>3. CASE PreviewReconcile
  BY <1>3 DEF PreviewReconcile
<1>4. CASE PreviewFail
  BY <1>4 DEF PreviewFail
<1>5. CASE PreviewDeleteSource
  BY <1>5 DEF PreviewDeleteSource
<1>6. CASE PreviewCrash
  BY <1>6 DEF PreviewCrash
<1>7. CASE ConfirmRead
  BY <1>7 DEF ConfirmRead
<1>8. CASE ConfirmClaim
  BY <1>8 DEF ConfirmClaim
<1>9. CASE ConfirmSchedule
  BY <1>9 DEF ConfirmSchedule
<1>10. CASE CancelRead
  BY <1>10 DEF CancelRead
<1>11. CASE CancelClaim
  BY <1>11 DEF CancelClaim
<1>12. CASE CancelDeleteSource
  BY <1>12 DEF CancelDeleteSource
<1>13. CASE Rollback
  BY <1>13 DEF Rollback
<1>14. CASE TxTimeout
  BY <1>14 DEF TxTimeout
<1>15. CASE Stall
  BY <1>15 DEF Stall
<1>16. CASE DelayElapsed
  BY <1>16 DEF DelayElapsed
<1>17. CASE Expire
  BY <1>17 DEF Expire
<1>18. CASE ReconcileRead
  BY <1>18 DEF ReconcileRead
<1>19. CASE ReconcileSchedule
  BY <1>19 DEF ReconcileSchedule
<1>20. CASE ExpiredRead
  BY <1>20 DEF ExpiredRead, ExpiryStep, RequestStages
<1>21. CASE ExpiredUnqueue
  BY <1>21 DEF ExpiredUnqueue, RequestStages
<1>22. CASE ExpiredClaim
  BY <1>22 DEF ExpiredClaim, RequestStages
<1>23. CASE ExpiredDeleteSource
  BY <1>23 DEF ExpiredDeleteSource, RequestStages
<1>24. CASE TerminalPending
  BY <1>24 DEF TerminalPending, DeletePendingResult
<1>25. CASE Quiescent
  BY <1>25 DEF Quiescent, vars
<1>26. ASSUME NEW w \in Workers, Fetch(w) PROVE SourceSafe'
  BY <1>26 DEF Fetch, AttemptType
<1>27. ASSUME NEW w \in Workers, ReadJob(w) PROVE SourceSafe'
  BY <1>27 DEF ReadJob, Throw, Return, Goto, AttemptType
<1>28. ASSUME NEW w \in Workers, Claim(w) PROVE SourceSafe'
  BY <1>28 DEF Claim, Goto, Claimable, TakeToken, SeenType, AttemptType
<1>29. ASSUME NEW w \in Workers, ClaimCheck(w) PROVE SourceSafe'
  BY <1>29 DEF ClaimCheck, Throw, Return, Goto, AttemptType
<1>30. ASSUME NEW w \in Workers, Resume(w) PROVE SourceSafe'
  BY <1>30 DEF Resume, Throw, Return, Goto, AttemptType
<1>31. ASSUME NEW w \in Workers, Load(w) PROVE SourceSafe'
  BY <1>31 DEF Load, Throw, Return, Goto, AttemptType
<1>32. ASSUME NEW w \in Workers, Progress(w) PROVE SourceSafe'
  BY <1>32 DEF Progress, Throw, Return, Goto, AttemptType
<1>33. ASSUME NEW w \in Workers, Reserve(w) PROVE SourceSafe'
  BY <1>33 DEF Reserve, Throw, Return, Goto, AttemptType
<1>34. ASSUME NEW w \in Workers, Fence(w) PROVE SourceSafe'
  BY <1>34 DEF Fence, Throw, Return, Goto, AttemptType
<1>35. ASSUME NEW w \in Workers, SaveReport(w) PROVE SourceSafe'
  BY <1>35 DEF SaveReport, Throw, Return, Goto, AttemptType
<1>36. ASSUME NEW w \in Workers, Commit(w) PROVE SourceSafe'
  BY <1>36 DEF Commit, Goto, Complete, LockHolder, Owns, AttemptType
<1>37. ASSUME NEW w \in Workers, FinalCheck(w) PROVE SourceSafe'
  BY <1>37 DEF FinalCheck, Throw, Return, Goto, AttemptType
<1>38. ASSUME NEW w \in Workers, RecordFailure(w) PROVE SourceSafe'
  BY <1>38 DEF RecordFailure, Goto, Owns, AttemptType
<1>39. ASSUME NEW w \in Workers, Finally(w) PROVE SourceSafe'
  BY <1>39 DEF Finally, Goto, AfterFinally, AttemptType
<1>40. ASSUME NEW w \in Workers, DeleteSource(w) PROVE SourceSafe'
  BY <1>40 DEF DeleteSource, Goto, AttemptType
<1>41. ASSUME NEW w \in Workers, Settle(w) PROVE SourceSafe'
  BY <1>41 DEF Settle, ForgetAttempt, AttemptType
<1>42. ASSUME NEW w \in Workers, Crash(w) PROVE SourceSafe'
  BY <1>42 DEF Crash, ForgetAttempt, AttemptType
<1>43. ASSUME NEW w \in Workers, NEW S \in SUBSET todo[w] \ {{}}, CreateRows(w, S)
       PROVE  SourceSafe'
  BY <1>43 DEF CreateRows, Throw, Return, Goto, AttemptType
<1>44. ASSUME NEW w \in Workers, NEW r \in todo[w], RejectRow(w, r)
       PROVE  SourceSafe'
  BY <1>44 DEF RejectRow, AttemptType
<1>45. CASE UNCHANGED vars
  BY <1>45 DEF vars
<1>46. QED
  BY <1>1, <1>2, <1>3, <1>4, <1>5, <1>6, <1>7, <1>8, <1>9, <1>10, <1>11, <1>12, <1>13,
     <1>14, <1>15, <1>16, <1>17, <1>18, <1>19, <1>20, <1>21, <1>22, <1>23, <1>24, <1>25,
     <1>26, <1>27, <1>28, <1>29, <1>30, <1>31, <1>32, <1>33, <1>34, <1>35, <1>36, <1>37,
     <1>38, <1>39, <1>40, <1>41, <1>42, <1>43, <1>44, <1>45
     DEF Next, Preview, Client, Attempt, QueueTimers, Maintenance

(* When the READY update of the preview is not committed behind a lost      *)
(* answer, no cleanup path deletes the workbook of a job that can still be  *)
(* confirmed or processed, whichever paths overlap or fail half-way.        *)
THEOREM SourceKept == LostPreview = FALSE => (Spec => []SourceKeptWhileUsable)
<1> SUFFICES ASSUME LostPreview = FALSE PROVE Spec => []SourceKeptWhileUsable
  OBVIOUS
<1>1. Init => SourceSafe
  BY DEF Init, SourceSafe, SourceDeleters, SourceKeptWhileUsable
<1>2. IInv /\ SourceSafe /\ [Next]_vars => SourceSafe'
  BY SourceSafeStep
<1>3. SourceSafe => SourceKeptWhileUsable
  BY DEF SourceSafe
<1>4. QED
  BY <1>1, <1>2, <1>3, Inductive, PTL DEF Spec

=============================================================================
