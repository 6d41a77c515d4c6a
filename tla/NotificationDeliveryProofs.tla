--------------------- MODULE NotificationDeliveryProofs ---------------------
(***************************************************************************)
(* Proofs about NotificationDelivery, for every number of targets, passes, *)
(* attempts, retries, faults, reports and messages: an event marked        *)
(* processed has every job queued; a recorded status is one the provider   *)
(* reached; each fault loses at most one failure and costs a target at     *)
(* most two more messages.                                                 *)
(***************************************************************************)
EXTENDS NotificationDelivery, FiniteSetTheorems, TLAPS

(* ---- Types, and which job an attempt belongs to ---- *)

JobRecord == [state : {"none", "waiting", "active", "delayed", "completed", "failed"},
              tries : 0..MaxAttempts, stalls : {0, 1}]
RunRecord == [pc : {"idle", "send", "log", "record", "fail", "ok", "error", "report"},
              msg : 0..MaxMessages]
PassRecord == [pc : {"idle", "add", "postpone"}, todo : SUBSET Targets]
FateStatus == {"SENT", "DELIVERED", "READ", "FAILED"}
AttemptRecord == [status : FateStatus \cup {"none", "DISABLED"}, msg : 0..MaxMessages]

OutboxType ==
    /\ processed \in BOOLEAN /\ available \in BOOLEAN
    /\ pass \in [Dispatchers -> PassRecord]
QueueType == job \in [JobId -> JobRecord] /\ run \in [JobId -> RunRecord]
RecordType ==
    /\ sent \in [Targets -> 0..MaxMessages]
    /\ fate \in [Targets -> [Message -> SUBSET FateStatus]]
    /\ messages \in [Targets -> [Message -> FateStatus \cup {"none"}]]
    /\ attempts \in [Targets -> [1..MaxAttempts -> AttemptRecord]]
FailureType ==
    /\ failures \in [JobId -> {"none", "open", "resolved"}]
    /\ operator \subseteq JobId
    /\ faults \in 0..MaxFaults
DeliveryTypeOK == OutboxType /\ QueueType /\ RecordType /\ FailureType

(* An attempt under way is one of an active job with attempts left, and the *)
(* failure is reported of a failed one; a job that is not there is blank.   *)
Working == {"send", "log", "record", "fail", "ok", "error"}
JobRuns ==
    \A j \in JobId :
        /\ job[j].state = "none" => job[j] = NoJob
        /\ job[j].state \in {"waiting", "active", "delayed"} => job[j].tries < MaxAttempts
        /\ run[j].pc \in Working => job[j].state = "active"
        /\ run[j].pc = "report" => job[j].state = "failed"

QueueInv == DeliveryTypeOK /\ JobRuns

(* A job that exists never becomes one that does not *)
JobsStay == \A j \in JobId : job[j].state # "none" => job'[j].state # "none"

LEMMA JobIds == \A t \in Targets : \A n \in 0..MaxManual : <<t, n>> \in JobId
BY DEF JobId

LEMMA JobParts == \A j \in JobId : j[1] \in Targets /\ j[2] \in 0..MaxManual
BY DEF JobId

LEMMA QueueAddKeeps ==
    ASSUME QueueInv, NEW j \in JobId, QueueAdd(j), run' = run
    PROVE  (QueueType /\ JobRuns)' /\ JobsStay
BY BoundsAssumption DEF QueueInv, DeliveryTypeOK, QueueType, JobRuns, JobsStay, QueueAdd, IsNewJob,
   JobRecord, RunRecord, NoJob, Working

LEMMA FaultsBounded ==
    ASSUME DeliveryTypeOK, Fault \/ NoFault
    PROVE  faults' \in 0..MaxFaults /\ faults' >= faults
BY BoundsAssumption DEF DeliveryTypeOK, FailureType, Fault, NoFault

LEMMA DispatchKeepsQueue ==
    ASSUME QueueInv, NEW d \in Dispatchers, Dispatch(d) \/ DispatchDies(d)
    PROVE  QueueInv' /\ JobsStay
<1> USE DEF providerVars, recordVars, failureVars
<1> SUFFICES /\ (QueueType /\ JobRuns)' /\ JobsStay /\ OutboxType' /\ RecordType'
             /\ failures' = failures /\ operator' = operator /\ faults' \in 0..MaxFaults
  BY DEF QueueInv, DeliveryTypeOK, FailureType
<1>1. OutboxType /\ RecordType /\ DeliveryTypeOK /\ QueueType /\ JobRuns
  BY DEF QueueInv, DeliveryTypeOK
<1>2. /\ sent' = sent /\ fate' = fate /\ messages' = messages /\ attempts' = attempts
      /\ reachable' = reachable
      /\ failures' = failures /\ operator' = operator /\ run' = run
      /\ Fault \/ NoFault
  BY DEF Dispatch, DispatchRead, DispatchAdd, DispatchDone, DispatchPostpone, DispatchDies,
     NoFault
<1>3. faults' \in 0..MaxFaults
  BY <1>1, <1>2, FaultsBounded
<1>4. RecordType'
  BY <1>1, <1>2 DEF RecordType
<1>5. OutboxType'
  <2>1. processed' \in BOOLEAN /\ available' \in BOOLEAN
    BY <1>1 DEF OutboxType, Dispatch, DispatchRead, DispatchAdd, DispatchDone, DispatchPostpone,
       DispatchDies
  <2>2. \E l \in {"idle", "add", "postpone"}, S \in SUBSET Targets : PassAt(d, l, S)
    <3>1. pass[d].todo \in SUBSET Targets
      BY <1>1 DEF OutboxType, PassRecord
    <3>2. CASE \E t \in pass[d].todo : PassAt(d, "add", pass[d].todo \ {t})
      BY <3>1, <3>2
    <3>3. CASE PassAt(d, "idle", {})
      BY <3>3
    <3>4. CASE PassAt(d, "postpone", {})
      BY <3>4
    <3>5. CASE PassAt(d, "add", Targets)
      BY <3>5
    <3> QED
      BY <3>2, <3>3, <3>4, <3>5, Zenon DEF Dispatch, DispatchRead, DispatchAdd, DispatchDone,
         DispatchPostpone, DispatchDies, AfterError
  <2>3. pass' \in [Dispatchers -> PassRecord]
    BY <1>1, <2>2 DEF OutboxType, PassAt, PassRecord
  <2> QED BY <2>1, <2>3 DEF OutboxType
<1>6. CASE job' = job
  BY <1>1, <1>2, <1>3, <1>4, <1>5, <1>6 DEF QueueType, JobRuns, JobsStay
<1>7. CASE \E t \in Targets : QueueAdd(<<t, 0>>)
  <2>1. PICK t \in Targets : QueueAdd(<<t, 0>>)
    BY <1>7
  <2>2. <<t, 0>> \in JobId
    BY JobIds, BoundsAssumption
  <2> QED BY <1>2, <1>3, <1>4, <1>5, <2>1, <2>2, QueueAddKeeps
<1>8. job' = job \/ \E t \in Targets : QueueAdd(<<t, 0>>)
  <2>1. pass[d].todo \subseteq Targets
    BY <1>1 DEF OutboxType, PassRecord
  <2>2. CASE DispatchAdd(d)
    BY <2>1, <2>2 DEF DispatchAdd
  <2> QED
    BY <2>2 DEF Dispatch, DispatchRead, DispatchDone, DispatchPostpone, DispatchDies
<1> QED BY <1>6, <1>7, <1>8

(* What the attempts of a job and its retries do to the queue              *)
LEMMA JobActionsKeepQueue ==
    ASSUME QueueInv, NEW j \in JobId, Deliver(j) \/ WorkerDies(j) \/ Retry(j)
    PROVE  (QueueType /\ JobRuns)' /\ JobsStay
<1>1. QueueType /\ JobRuns
  BY DEF QueueInv, DeliveryTypeOK
<1>2. DeliveryTypeOK /\ RecordType
  BY DEF QueueInv, DeliveryTypeOK
<1> USE BoundsAssumption DEF QueueType, JobRuns, JobsStay, JobRecord, RunRecord, NoJob,
         NoRun, Working, Goto
<1>3. CASE Fetch(j)
  <2>1. /\ job[j] # NoJob /\ job' = [job EXCEPT ![j].state = "active"]
        /\ run[j].pc = "idle" /\ run' = [run EXCEPT ![j] = [pc |-> "send", msg |-> NoMessage]]
    BY <1>3 DEF Fetch
  <2>2. /\ job'[j] = [job[j] EXCEPT !.state = "active"] /\ job[j] \in JobRecord
        /\ \A k \in JobId : k # j => job'[k] = job[k]
    BY <1>1, <2>1
  <2>3. /\ run'[j] = [pc |-> "send", msg |-> NoMessage]
        /\ \A k \in JobId : k # j => run'[k] = run[k]
    BY <1>1, <2>1
  <2>4. QueueType'
    <3>1. [job[j] EXCEPT !.state = "active"] \in JobRecord
      BY <2>2
    <3>2. job' \in [JobId -> JobRecord]
      BY <1>1, <2>1, <3>1
    <3>3. [pc |-> "send", msg |-> NoMessage] \in RunRecord
      BY DEF NoMessage
    <3> QED BY <1>1, <2>1, <3>2, <3>3
  <2>5. JobRuns'
    <3>1. /\ job'[j].state = "active" /\ job'[j].tries < MaxAttempts
      BY <1>1, <1>3, <2>2 DEF Fetch
    <3>2. ASSUME NEW k \in JobId, k # j
          PROVE  job'[k] = job[k] /\ run'[k] = run[k]
      BY <2>2, <2>3, <3>2
    <3> QED BY <1>1, <2>3, <3>1, <3>2
  <2>6. JobsStay
    BY <1>1, <2>1, <2>2
  <2> QED BY <2>4, <2>5, <2>6
<1>4. CASE Send(j)
  <2>1. job' = job /\ run[j].pc = "send"
    BY <1>4 DEF Send
  <2>2. \/ run' = [run EXCEPT ![j].pc = "record"] \/ run' = [run EXCEPT ![j].pc = "fail"]
        \/ \E m \in 0..MaxMessages : run' = [run EXCEPT ![j] = [pc |-> "log", msg |-> m]]
    <3>1. Accept(j[1]) => sent'[j[1]] \in 0..MaxMessages
      BY <1>2, JobParts DEF Accept, RecordType
    <3> QED BY <1>4, <3>1 DEF Send
  <2> QED BY <1>1, <2>1, <2>2
<1>5. CASE Log(j) \/ Record(j) \/ RecordError(j)
  <2>1. /\ job' = job /\ run[j].pc \in Working
        /\ \E l \in Working : run' = [run EXCEPT ![j].pc = l]
    BY <1>5 DEF Log, Record, RecordError
  <2> QED BY <1>1, <2>1
<1>6. CASE Settle(j)
  <2>1. CASE run[j].pc = "ok"
    <3>1. job' = [job EXCEPT ![j].state = "completed"] /\ run' = [run EXCEPT ![j] = NoRun]
      BY <1>6, <2>1 DEF Settle
    <3>2. QueueType'
      BY <1>1, <3>1 DEF NoMessage
    <3>3. JobRuns'
      BY <1>1, <3>1 DEF NoMessage
    <3>4. JobsStay
      BY <1>1, <3>1
    <3> QED BY <3>2, <3>3, <3>4
  <2>2. CASE run[j].pc = "error"
    BY <1>1, <1>6, <2>2 DEF Settle, Number, AfterTries, Exhausted, NoMessage
  <2> QED BY <1>6, <2>1, <2>2 DEF Settle
<1>7. CASE RecordPermanentFailure(j) \/ WorkerDies(j)
  <2>1. job' = job /\ run' = [run EXCEPT ![j] = NoRun]
    BY <1>7 DEF RecordPermanentFailure, WorkerDies
  <2> QED BY <1>1, <2>1 DEF NoMessage
<1>8. CASE Stall(j)
  BY <1>1, <1>8 DEF Stall
<1>9. CASE BackoffElapsed(j)
  BY <1>1, <1>9 DEF BackoffElapsed
<1>10. CASE RetryQueue(j)
  <2>1. j[1] \in Targets /\ j[2] + 1 \in 0..MaxManual
    BY <1>10, JobParts DEF RetryQueue
  <2>2. <<j[1], j[2] + 1>> \in JobId
    BY <2>1, JobIds
  <2>3. QueueAdd(<<j[1], j[2] + 1>>) /\ run' = run
    BY <1>10 DEF RetryQueue
  <2> QED BY <2>2, <2>3, QueueAddKeeps
<1>11. CASE RetryMark(j)
  BY <1>1, <1>11 DEF RetryMark
<1> QED
  BY <1>3, <1>4, <1>5, <1>6, <1>7, <1>8, <1>9, <1>10, <1>11 DEF Deliver, Retry
(* ---- The types of the records ---- *)

LEMMA ReportStatus ==
    /\ DOMAIN UpTo \subseteq FateStatus
    /\ \A status \in DOMAIN UpTo : /\ UpTo[status] \in SUBSET FateStatus
                                   /\ status \in UpTo[status] /\ "SENT" \in UpTo[status]
<1>1. DOMAIN UpTo = FateStatus
  BY DEF UpTo, FateStatus
<1>2. /\ UpTo["SENT"] = {"SENT"} /\ UpTo["DELIVERED"] = {"SENT", "DELIVERED"}
      /\ UpTo["READ"] = {"SENT", "DELIVERED", "READ"} /\ UpTo["FAILED"] = {"SENT", "FAILED"}
  BY DEF UpTo
<1> QED BY <1>1, <1>2 DEF FateStatus

LEMMA NumberTyped ==
    ASSUME QueueInv, NEW j \in JobId, run[j].pc \in Working
    PROVE  Number(j) \in 1..MaxAttempts
BY BoundsAssumption DEF QueueInv, DeliveryTypeOK, QueueType, JobRuns, JobRecord, Number

LEMMA EntrySet ==
    ASSUME NEW S, NEW D, NEW R, NEW f \in [S -> [D -> R]], NEW x \in S, NEW y, NEW v \in R
    PROVE  [f EXCEPT ![x][y] = v] \in [S -> [D -> R]]
OBVIOUS

LEMMA WebhookKeepsTypes ==
    ASSUME QueueInv, NEW t \in Targets, Report(t)
    PROVE  QueueInv' /\ JobsStay
<1>1. PICK m \in Message : Webhook(t, m)
  BY DEF Report
<1>2. PICK status \in DOMAIN UpTo :
          /\ fate' = [fate EXCEPT ![t][m] = @ \cup UpTo[status]]
          /\ messages' = [messages EXCEPT ![t][m] = IF @ = "none" THEN @ ELSE status]
          /\ attempts' = [attempts EXCEPT ![t] =
                [a \in 1..MaxAttempts |->
                    IF SameMessage(m, attempts[t][a].msg)
                    THEN [attempts[t][a] EXCEPT !.status = status]
                    ELSE attempts[t][a]]]
  BY <1>1 DEF Webhook
<1>3. status \in FateStatus /\ UpTo[status] \in SUBSET FateStatus
  BY ReportStatus
<1>4. RecordType /\ DeliveryTypeOK
  BY DEF QueueInv, DeliveryTypeOK
<1>5. fate' \in [Targets -> [Message -> SUBSET FateStatus]]
  BY <1>2, <1>3, <1>4 DEF RecordType
<1>6. messages' \in [Targets -> [Message -> FateStatus \cup {"none"}]]
  BY <1>2, <1>3, <1>4 DEF RecordType
<1>7. attempts' \in [Targets -> [1..MaxAttempts -> AttemptRecord]]
  <2> DEFINE row == [a \in 1..MaxAttempts |->
                        IF SameMessage(m, attempts[t][a].msg)
                        THEN [attempts[t][a] EXCEPT !.status = status] ELSE attempts[t][a]]
  <2>1. ASSUME NEW a \in 1..MaxAttempts PROVE row[a] \in AttemptRecord
    <3>1. attempts[t][a] \in AttemptRecord
      BY <1>4 DEF RecordType
    <3>2. [attempts[t][a] EXCEPT !.status = status] \in AttemptRecord
      BY <1>3, <3>1 DEF AttemptRecord
    <3> QED BY <3>1, <3>2
  <2>2. row \in [1..MaxAttempts -> AttemptRecord]
    BY <2>1
  <2>3. attempts' = [attempts EXCEPT ![t] = row]
    BY <1>2
  <2> HIDE DEF row
  <2> QED BY <1>4, <2>2, <2>3 DEF RecordType
<1>8. sent' = sent /\ UNCHANGED <<outboxVars, job, run, failureVars, faults>>
  BY <1>1 DEF Webhook
<1>9. RecordType'
  BY <1>4, <1>5, <1>6, <1>7, <1>8 DEF RecordType
<1> QED
  BY <1>8, <1>9 DEF QueueInv, DeliveryTypeOK, OutboxType, QueueType, FailureType, JobRuns,
     JobsStay, outboxVars, failureVars

(* Only Send reaches the provider; only Log, Record and RecordError write  *)
LEMMA JobActionsKeepRecordTypes ==
    ASSUME QueueInv, NEW j \in JobId, Deliver(j) \/ WorkerDies(j) \/ Retry(j)
    PROVE  RecordType'
<1>1. RecordType /\ QueueType
  BY DEF QueueInv, DeliveryTypeOK
<1>2. j[1] \in Targets
  BY JobParts
<1>3. CASE Send(j)
  <2>1. UNCHANGED recordVars /\ (UNCHANGED providerVars \/ Accept(j[1]))
    BY <1>3 DEF Send
  <2>2. Accept(j[1]) => sent' \in [Targets -> 0..MaxMessages]
    BY <1>1, <1>2, BoundsAssumption DEF Accept, RecordType
  <2>3. Accept(j[1]) => fate' \in [Targets -> [Message -> SUBSET FateStatus]]
    <3>1. {"SENT"} \in SUBSET FateStatus
      BY DEF FateStatus
    <3>2. fate \in [Targets -> [Message -> SUBSET FateStatus]]
      BY <1>1 DEF RecordType
    <3>3. [fate EXCEPT ![j[1]][sent[j[1]] + 1] = {"SENT"}]
              \in [Targets -> [Message -> SUBSET FateStatus]]
      BY <1>2, <3>1, <3>2, EntrySet, Zenon
    <3> QED BY <3>3 DEF Accept
  <2> QED BY <1>1, <2>1, <2>2, <2>3 DEF RecordType, recordVars, providerVars
<1>4. CASE Log(j)
  <2>1. messages' \in [Targets -> [Message -> FateStatus \cup {"none"}]]
    <3>1. "SENT" \in FateStatus \cup {"none"}
      BY DEF FateStatus
    <3>2. \/ messages' = messages
          \/ messages' = [messages EXCEPT ![j[1]][run[j].msg] = "SENT"]
      BY <1>4 DEF Log
    <3>3. messages \in [Targets -> [Message -> FateStatus \cup {"none"}]]
      BY <1>1 DEF RecordType
    <3>4. [messages EXCEPT ![j[1]][run[j].msg] = "SENT"]
              \in [Targets -> [Message -> FateStatus \cup {"none"}]]
      BY <1>2, <3>1, <3>3, EntrySet, Zenon
    <3> QED BY <3>2, <3>3, <3>4
  <2> QED BY <1>1, <1>4, <2>1 DEF Log, RecordType, providerVars
<1>5. CASE Record(j) \/ RecordError(j)
  <2>1. run[j].pc \in Working /\ run[j].msg \in 0..MaxMessages
    BY <1>1, <1>5 DEF Record, RecordError, Working, QueueType, RunRecord
  <2>2. \/ attempts' = attempts
        \/ \E s \in {"DISABLED", "SENT", "FAILED"}, m \in 0..MaxMessages : SaveAttempt(j, s, m)
    BY <1>5, <2>1, BoundsAssumption DEF Record, RecordError, NoMessage
  <2>3. Number(j) \in 1..MaxAttempts
    BY <2>1, NumberTyped
  <2>4. attempts' \in [Targets -> [1..MaxAttempts -> AttemptRecord]]
    <3>1. ASSUME NEW s \in {"DISABLED", "SENT", "FAILED"}, NEW m \in 0..MaxMessages
          PROVE  [status |-> s, msg |-> m] \in AttemptRecord
      BY DEF AttemptRecord, FateStatus
    <3>2. attempts \in [Targets -> [1..MaxAttempts -> AttemptRecord]]
      BY <1>1 DEF RecordType
    <3>3. ASSUME NEW s \in {"DISABLED", "SENT", "FAILED"}, NEW m \in 0..MaxMessages,
                 SaveAttempt(j, s, m)
          PROVE  attempts' \in [Targets -> [1..MaxAttempts -> AttemptRecord]]
      BY <1>2, <3>1, <3>2, <3>3, EntrySet DEF SaveAttempt
    <3> QED BY <2>2, <3>2, <3>3
  <2> QED BY <1>1, <1>5, <2>4 DEF Record, RecordError, RecordType, providerVars
<1>6. CASE UNCHANGED <<providerVars, recordVars>>
  BY <1>1, <1>6 DEF RecordType, providerVars, recordVars
<1> QED
  BY <1>3, <1>4, <1>5, <1>6, Zenon DEF Deliver, Retry, Fetch, Settle, RecordPermanentFailure,
     Stall, BackoffElapsed, WorkerDies, RetryQueue, RetryMark

LEMMA JobActionsKeepTypes ==
    ASSUME QueueInv, NEW j \in JobId, Deliver(j) \/ WorkerDies(j) \/ Retry(j)
    PROVE  QueueInv' /\ JobsStay
<1>1. DeliveryTypeOK /\ OutboxType /\ FailureType
  BY DEF QueueInv, DeliveryTypeOK
<1>2. UNCHANGED outboxVars
  BY DEF Deliver, Retry, Fetch, Send, Log, Record, RecordError, Settle, RecordPermanentFailure,
     Stall, BackoffElapsed, WorkerDies, RetryQueue, RetryMark
<1>3. Fault \/ NoFault
  BY DEF Deliver, Retry, Fetch, Send, Log, Record, RecordError, Settle, RecordPermanentFailure,
     Stall, BackoffElapsed, WorkerDies, RetryQueue, RetryMark, NoFault
<1>4. \/ failures' = failures \/ failures' = [failures EXCEPT ![j] = "open"]
      \/ failures' = [failures EXCEPT ![j] = "resolved"]
  BY Zenon DEF Deliver, Retry, Fetch, Send, Log, Record, RecordError, Settle,
     RecordPermanentFailure, Stall, BackoffElapsed, WorkerDies, RetryQueue, RetryMark, failureVars
<1>5. operator' = operator \/ operator' = operator \cup {j} \/ operator' = operator \ {j}
  BY Zenon DEF Deliver, Retry, Fetch, Send, Log, Record, RecordError, Settle,
     RecordPermanentFailure, Stall, BackoffElapsed, WorkerDies, RetryQueue, RetryMark, failureVars
<1>6. OutboxType'
  BY <1>1, <1>2 DEF OutboxType, outboxVars
<1>7. FailureType'
  BY <1>1, <1>3, <1>4, <1>5, FaultsBounded DEF FailureType
<1> QED
  BY <1>6, <1>7, JobActionsKeepQueue, JobActionsKeepRecordTypes DEF QueueInv, DeliveryTypeOK

LEMMA QueueInitially == Init => QueueInv
<1> SUFFICES ASSUME Init PROVE QueueInv
  OBVIOUS
<1>1. OutboxType
  BY DEF Init, OutboxType, PassRecord
<1>2. QueueType /\ JobRuns
  BY BoundsAssumption DEF Init, QueueType, JobRuns, JobRecord, RunRecord, NoJob, NoRun, NoMessage,
     Working
<1>3. RecordType
  <2>1. NoAttempt \in AttemptRecord
    BY BoundsAssumption DEF NoAttempt, NoMessage, AttemptRecord
  <2> QED BY <2>1, BoundsAssumption DEF Init, RecordType
<1>4. FailureType
  BY BoundsAssumption DEF Init, FailureType
<1> QED BY <1>1, <1>2, <1>3, <1>4 DEF QueueInv, DeliveryTypeOK

LEMMA QueueStep ==
    ASSUME QueueInv, [Next]_vars
    PROVE  QueueInv' /\ JobsStay
<1>1. CASE UNCHANGED vars
  BY <1>1 DEF vars, outboxVars, providerVars, recordVars, failureVars, QueueInv, DeliveryTypeOK,
     OutboxType, QueueType, RecordType, FailureType, JobRuns, JobsStay
<1>2. CASE BecomesAvailable
  BY <1>2 DEF BecomesAvailable, providerVars, recordVars, failureVars, QueueInv, DeliveryTypeOK,
     OutboxType, QueueType, RecordType, FailureType, JobRuns, JobsStay
<1> QED
  BY <1>1, <1>2, DispatchKeepsQueue, JobActionsKeepTypes, WebhookKeepsTypes DEF Next

(* Every variable keeps its type; the number of an attempt is never beyond *)
(* the last.                                                               *)
THEOREM DeliveryTyped == Spec => [](DeliveryTypeOK /\ JobRuns)
<1>1. Init => QueueInv
  BY QueueInitially
<1>2. QueueInv /\ [Next]_vars => QueueInv'
  BY QueueStep
<1>3. QueueInv => DeliveryTypeOK /\ JobRuns
  BY DEF QueueInv
<1> QED BY <1>1, <1>2, <1>3, PTL DEF Spec
(* ---- The event is marked when every job is queued ---- *)

(* What a pass has taken from its list is queued                            *)
PassesQueue ==
    \A d \in Dispatchers : pass[d].pc = "add" =>
        \A t \in Targets \ pass[d].todo : job[<<t, 0>>].state # "none"

DispatchInv == QueueInv /\ PassesQueue /\ ProcessedMeansQueued

LEMMA QueueAddAdds ==
    ASSUME QueueInv, NEW j \in JobId, QueueAdd(j)
    PROVE  job'[j].state # "none"
BY DEF QueueInv, DeliveryTypeOK, QueueType, JobRecord, QueueAdd, IsNewJob, NoJob

(* A step that leaves passes and mark alone, or only ends a pass           *)
LEMMA QueuedStays ==
    ASSUME DispatchInv, JobsStay, processed' = processed,
           \A e \in Dispatchers : pass'[e].pc = "add" => pass'[e] = pass[e]
    PROVE  (PassesQueue /\ ProcessedMeansQueued)'
<1>1. \A t \in Targets : <<t, 0>> \in JobId
  BY JobIds, BoundsAssumption
<1>2. ProcessedMeansQueued'
  BY <1>1 DEF DispatchInv, ProcessedMeansQueued, JobsStay
<1>3. PassesQueue'
  BY <1>1 DEF DispatchInv, PassesQueue, JobsStay
<1> QED BY <1>2, <1>3

LEMMA DispatchStep ==
    ASSUME DispatchInv, [Next]_vars
    PROVE  DispatchInv'
<1>1. QueueInv' /\ JobsStay
  BY QueueStep DEF DispatchInv
<1>2. QueueInv /\ OutboxType
  BY DEF DispatchInv, QueueInv, DeliveryTypeOK
<1>3. ASSUME NEW d \in Dispatchers, Dispatch(d) \/ DispatchDies(d)
      PROVE  (PassesQueue /\ ProcessedMeansQueued)'
  <2>1. CASE DispatchRead(d)
    <3>1. ~processed' /\ pass' = [pass EXCEPT ![d] = [pc |-> "add", todo |-> Targets]]
          /\ job' = job
      BY <2>1 DEF DispatchRead, PassAt
    <3> QED BY <1>2, <3>1 DEF DispatchInv, OutboxType, PassesQueue, ProcessedMeansQueued
  <2>2. CASE DispatchAdd(d) /\ \E t \in pass[d].todo :
                QueueAdd(<<t, 0>>) /\ PassAt(d, "add", pass[d].todo \ {t})
    <3>1. PICK t \in pass[d].todo : QueueAdd(<<t, 0>>) /\ PassAt(d, "add", pass[d].todo \ {t})
      BY <2>2
    <3>2. t \in Targets
      BY <1>2, <3>1 DEF OutboxType, PassRecord
    <3>3. job'[<<t, 0>>].state # "none"
      BY <1>2, <3>1, <3>2, QueueAddAdds, JobIds, BoundsAssumption
    <3>4. pass[d].pc = "add" /\ processed' = processed
      BY <2>2 DEF DispatchAdd
    <3>5. \A u \in Targets : <<u, 0>> \in JobId
      BY JobIds, BoundsAssumption
    <3>6. ProcessedMeansQueued'
      BY <1>1, <3>4, <3>5 DEF DispatchInv, ProcessedMeansQueued, JobsStay
    <3>7. ASSUME NEW e \in Dispatchers, pass'[e].pc = "add",
                 NEW u \in Targets \ pass'[e].todo
          PROVE  job'[<<u, 0>>].state # "none"
      <4>1. pass[e].pc = "add" /\ (u \in Targets \ pass[e].todo \/ u = t)
        BY <1>2, <3>1, <3>4, <3>7 DEF OutboxType, PassAt
      <4> QED BY <1>1, <3>3, <3>5, <4>1 DEF DispatchInv, PassesQueue, JobsStay
    <3> QED BY <3>6, <3>7 DEF PassesQueue
  <2>3. CASE DispatchDone(d)
    <3>1. \A t \in Targets : job[<<t, 0>>].state # "none"
      <4>1. pass[d].pc # "done"
        BY <1>2 DEF OutboxType, PassRecord
      <4>2. pass[d].pc = "add" /\ pass[d].todo = {}
        BY <2>3, <4>1 DEF DispatchDone
      <4> QED BY <4>2 DEF DispatchInv, PassesQueue
    <3>2. job' = job /\ \E l \in {"idle", "postpone"} : PassAt(d, l, {})
      BY <2>3 DEF DispatchDone, AfterError
    <3>3. \A e \in Dispatchers : pass'[e].pc = "add" => pass'[e] = pass[e]
      BY <1>2, <3>2 DEF OutboxType, PassAt
    <3> QED BY <3>1, <3>2, <3>3 DEF DispatchInv, PassesQueue, ProcessedMeansQueued
  <2>4. CASE \/ DispatchAdd(d) /\ PassAt(d, AfterError, {})
             \/ DispatchPostpone(d) \/ DispatchDies(d)
    <3>1. processed' = processed /\ \E l \in {"idle", "postpone"} : PassAt(d, l, {})
      BY <2>4 DEF DispatchAdd, DispatchPostpone, DispatchDies, AfterError
    <3>2. \A e \in Dispatchers : pass'[e].pc = "add" => pass'[e] = pass[e]
      BY <1>2, <3>1 DEF OutboxType, PassAt
    <3> QED BY <1>1, <3>1, <3>2, QueuedStays
  <2>5. DispatchAdd(d) => \/ PassAt(d, AfterError, {})
                          \/ \E t \in pass[d].todo :
                                QueueAdd(<<t, 0>>) /\ PassAt(d, "add", pass[d].todo \ {t})
    BY DEF DispatchAdd
  <2> QED BY <1>3, <2>1, <2>2, <2>3, <2>4, <2>5 DEF Dispatch
<1>4. CASE UNCHANGED <<processed, pass>>
  <2>1. (PassesQueue /\ ProcessedMeansQueued)'
    BY <1>1, <1>4, QueuedStays
  <2> QED BY <1>1, <2>1 DEF DispatchInv
<1>5. UNCHANGED <<processed, pass>> \/ \E d \in Dispatchers : Dispatch(d) \/ DispatchDies(d)
  <2>1. CASE UNCHANGED vars \/ BecomesAvailable
    BY <2>1 DEF vars, outboxVars, BecomesAvailable
  <2>2. CASE \E t \in Targets : Report(t)
    BY <2>2 DEF Report, Webhook, outboxVars
  <2>3. ASSUME NEW j \in JobId, Deliver(j) \/ WorkerDies(j) \/ Retry(j)
        PROVE  UNCHANGED outboxVars
    BY <2>3 DEF Deliver, Retry, Fetch, Send, Log, Record, RecordError, Settle,
       RecordPermanentFailure, Stall, BackoffElapsed, WorkerDies, RetryQueue, RetryMark
  <2> QED BY <2>1, <2>2, <2>3 DEF Next, outboxVars
<1> QED BY <1>1, <1>3, <1>4, <1>5 DEF DispatchInv

(* An event is marked processed only when every target has its job, for    *)
(* any number of overlapping passes that fail half-way or die.             *)
THEOREM ProcessedIsQueued == Spec => []ProcessedMeansQueued
<1>1. Init => DispatchInv
  BY QueueInitially DEF DispatchInv, PassesQueue, ProcessedMeansQueued, Init
<1>2. DispatchInv /\ [Next]_vars => DispatchInv'
  BY DispatchStep
<1>3. DispatchInv => ProcessedMeansQueued
  BY DEF DispatchInv
<1> QED BY <1>1, <1>2, <1>3, PTL DEF Spec
(* ---- What is recorded of a message ---- *)

(* A run carries a message from its acceptance on; one that records without *)
(* a message found the target unreachable.                                  *)
RunsTellTheTruth ==
    \A j \in JobId :
        /\ run[j].msg <= sent[j[1]]
        /\ run[j].pc = "send" => run[j].msg = NoMessage
        /\ run[j].pc = "log" => run[j].msg # NoMessage
        /\ run[j].pc = "record" /\ run[j].msg = NoMessage => ~reachable[j[1]]

(* The provider has at least accepted what is recorded                      *)
RecordsBehindProvider ==
    \A t \in Targets :
        /\ \A m \in Message : m <= sent[t] => "SENT" \in fate[t][m]
        /\ \A m \in Message : messages[t][m] # "none" => m <= sent[t]
        /\ \A a \in 1..MaxAttempts :
              /\ attempts[t][a].msg <= sent[t]
              /\ attempts[t][a].status = "none" => attempts[t][a].msg = NoMessage

TruthInv == QueueInv /\ RunsTellTheTruth /\ RecordsBehindProvider /\ RecordsAreTrue

LEMMA EntryAt ==
    ASSUME NEW S, NEW D, NEW R, NEW f \in [S -> [D -> R]], NEW x \in S, NEW y, NEW v,
           NEW a \in S, NEW b \in D
    PROVE  [f EXCEPT ![x][y] = v][a][b] = IF a = x /\ b = y THEN v ELSE f[a][b]
OBVIOUS

(* The parts of an invariant that only read what a step leaves alone       *)
LEMMA RecordsKept ==
    ASSUME UNCHANGED <<sent, fate, messages, attempts, reachable>>,
           RecordsBehindProvider /\ RecordsAreTrue
    PROVE  (RecordsBehindProvider /\ RecordsAreTrue)'
BY DEF RecordsBehindProvider, RecordsAreTrue

(* A run that goes on where no message and no reachability is claimed anew *)
LEMMA RunsKept ==
    ASSUME TruthInv, UNCHANGED <<sent, reachable>>, NEW j \in JobId, NEW r,
           run' = [run EXCEPT ![j] = r],
           r.msg = NoMessage \/ r.msg = run[j].msg,
           r.pc \notin {"log", "record"}, r.pc = "send" => r.msg = NoMessage
    PROVE  RunsTellTheTruth'
<1>1. QueueType /\ RecordType
  BY DEF TruthInv, QueueInv, DeliveryTypeOK
<1>2. ASSUME NEW k \in JobId PROVE run'[k] = IF k = j THEN r ELSE run[k]
  BY <1>1 DEF QueueType
<1>3. \A k \in JobId : sent[k[1]] \in Nat /\ NoMessage <= sent[k[1]]
  BY <1>1, JobParts, BoundsAssumption DEF RecordType, NoMessage
<1> QED BY <1>2, <1>3 DEF TruthInv, RunsTellTheTruth

LEMMA SendKeepsTruth ==
    ASSUME TruthInv, NEW j \in JobId, Send(j)
    PROVE  (RunsTellTheTruth /\ RecordsBehindProvider /\ RecordsAreTrue)'
<1> DEFINE t == j[1]
<1>1. QueueType /\ RecordType /\ RunsTellTheTruth /\ RecordsBehindProvider /\ RecordsAreTrue
  BY DEF TruthInv, QueueInv, DeliveryTypeOK
<1>2. t \in Targets /\ sent[t] \in 0..MaxMessages /\ run[j].msg = NoMessage
      /\ run[j].pc = "send" /\ messages' = messages /\ attempts' = attempts
      /\ reachable' = reachable
  BY <1>1, JobParts DEF Send, RecordType, recordVars, RunsTellTheTruth
<1>3. CASE UNCHANGED providerVars
  <2>1. \E l \in {"record", "fail"} : /\ run' = [run EXCEPT ![j].pc = l]
                                      /\ l = "record" => ~reachable[t]
    <3>1. ~Accept(t)
      BY <1>1, <1>2, <1>3 DEF Accept, providerVars, RecordType
    <3> QED BY <3>1 DEF Send, Sendable, Goto
  <2>2. UNCHANGED <<sent, fate, messages, attempts, reachable>>
    BY <1>2, <1>3 DEF providerVars
  <2>3. RunsTellTheTruth'
    BY <1>1, <1>2, <2>1, <2>2 DEF RunsTellTheTruth, QueueType, RunRecord
  <2> QED BY <1>1, <2>2, <2>3, RecordsKept
<1>4. CASE Accept(t)
  <2>1. /\ sent[t] + 1 \in Message /\ sent'[t] = sent[t] + 1
        /\ \A u \in Targets : u # t => sent'[u] = sent[u]
    BY <1>1, <1>2, <1>4, BoundsAssumption DEF Accept, RecordType, Message
  <2>2. ASSUME NEW u \in Targets, NEW m \in Message
        PROVE  fate'[u][m] = IF u = t /\ m = sent[t] + 1 THEN {"SENT"} ELSE fate[u][m]
    BY <1>1, <1>2, <1>4, EntryAt DEF Accept, RecordType
  <2>3. \/ run' = [run EXCEPT ![j].pc = "fail"]
        \/ run' = [run EXCEPT ![j] = [pc |-> "log", msg |-> sent'[t]]]
    <3>1. ~UNCHANGED providerVars
      BY <1>1, <1>2, <2>1 DEF providerVars, RecordType
    <3> QED BY <3>1 DEF Send, Goto
  <2>4. \A u \in Targets : sent[u] \in Nat /\ sent'[u] \in Nat /\ sent[u] <= sent'[u]
    <3>1. \A u \in Targets : sent[u] \in Nat
      BY <1>1, BoundsAssumption DEF RecordType
    <3> QED BY <1>2, <2>1, <3>1
  <2>5. RunsTellTheTruth'
    <3>1. ASSUME NEW k \in JobId
          PROVE  \/ run'[k] = run[k]
                 \/ run'[k].pc = "fail" /\ run'[k].msg = NoMessage
                 \/ run'[k].pc = "log" /\ run'[k].msg = sent'[k[1]] /\ k = j
      <4>1. CASE k = j
        BY <1>1, <1>2, <2>3, <4>1 DEF QueueType, RunRecord
      <4>2. CASE k # j
        BY <1>1, <2>3, <4>2 DEF QueueType
      <4> QED BY <4>1, <4>2
    <3>2. \A k \in JobId : run[k].msg \in Nat /\ k[1] \in Targets
      BY <1>1, JobParts, BoundsAssumption DEF QueueType, RunRecord
    <3>3. sent'[t] # NoMessage
      BY <1>2, <2>1 DEF NoMessage
    <3> QED BY <1>1, <1>2, <2>4, <3>1, <3>2, <3>3 DEF RunsTellTheTruth, NoMessage
  <2>6. RecordsBehindProvider'
    <3>1. ASSUME NEW u \in Targets, NEW m \in Message, m <= sent'[u]
          PROVE  "SENT" \in fate'[u][m]
      <4>1. (u = t /\ m = sent[t] + 1) \/ m <= sent[u]
        BY <1>2, <2>1, <2>4, <3>1 DEF Message
      <4> QED BY <1>1, <2>2, <4>1 DEF RecordsBehindProvider
    <3>2. ASSUME NEW u \in Targets, NEW m \in Message, messages[u][m] # "none"
          PROVE  m <= sent'[u]
      BY <1>1, <2>4, <3>2 DEF RecordsBehindProvider, Message
    <3>3. ASSUME NEW u \in Targets, NEW a \in 1..MaxAttempts
          PROVE  /\ attempts[u][a].msg <= sent'[u]
                 /\ attempts[u][a].status = "none" => attempts[u][a].msg = NoMessage
      <4>1. attempts[u][a].msg \in Nat
        BY <1>1, BoundsAssumption DEF RecordType, AttemptRecord
      <4> QED BY <1>1, <2>4, <4>1 DEF RecordsBehindProvider
    <3> QED BY <1>2, <3>1, <3>2, <3>3 DEF RecordsBehindProvider
  <2>7. RecordsAreTrue'
    <3>1. ASSUME NEW u \in Targets, NEW m \in Message, messages[u][m] # "none"
          PROVE  messages[u][m] \in fate'[u][m]
      <4>1. m <= sent[u] /\ messages[u][m] \in fate[u][m]
        BY <1>1, <3>1 DEF RecordsBehindProvider, RecordsAreTrue
      <4> QED BY <1>2, <2>2, <4>1 DEF Message
    <3>2. ASSUME NEW u \in Targets, NEW a \in 1..MaxAttempts, attempts[u][a].msg # NoMessage
          PROVE  attempts[u][a].status \in fate'[u][attempts[u][a].msg]
      <4>1. attempts[u][a].msg \in Message /\ attempts[u][a].msg <= sent[u]
        BY <1>1, <3>2, BoundsAssumption DEF RecordType, AttemptRecord, Message, NoMessage,
           RecordsBehindProvider
      <4>2. attempts[u][a].status \in fate[u][attempts[u][a].msg]
        BY <1>1, <3>2 DEF RecordsAreTrue
      <4>3. ~(u = t /\ attempts[u][a].msg = sent[t] + 1)
        BY <1>2, <4>1 DEF Message
      <4> QED BY <2>2, <4>1, <4>2, <4>3
    <3> QED BY <1>1, <1>2, <3>1, <3>2 DEF RecordsAreTrue
  <2> QED BY <2>5, <2>6, <2>7
<1>5. UNCHANGED providerVars \/ Accept(t)
  BY DEF Send
<1> QED BY <1>3, <1>4, <1>5
LEMMA LogKeepsTruth ==
    ASSUME TruthInv, NEW j \in JobId, Log(j)
    PROVE  (RunsTellTheTruth /\ RecordsBehindProvider /\ RecordsAreTrue)'
<1> DEFINE t == j[1]
           m == run[j].msg
<1>1. QueueType /\ RecordType /\ RunsTellTheTruth /\ RecordsBehindProvider /\ RecordsAreTrue
  BY DEF TruthInv, QueueInv, DeliveryTypeOK
<1>2. t \in Targets /\ sent[t] \in 0..MaxMessages
  BY <1>1, JobParts DEF RecordType
<1>3. m \in Message /\ m <= sent[t]
  BY <1>1, <1>2, BoundsAssumption DEF Log, RunsTellTheTruth, QueueType, RunRecord, NoMessage,
     Message
<1>4. UNCHANGED <<sent, fate, attempts, reachable>>
  BY DEF Log, providerVars
<1>5. messages' = messages \/ messages' = [messages EXCEPT ![t][m] = "SENT"]
  BY DEF Log
<1>6. RunsTellTheTruth'
  <2>1. \E l \in {"record", "fail"} : run' = [run EXCEPT ![j].pc = l]
    BY DEF Log, Goto
  <2>2. m # NoMessage
    BY <1>3 DEF Message, NoMessage
  <2> QED BY <1>1, <1>4, <2>1, <2>2 DEF RunsTellTheTruth, QueueType, RunRecord
<1>7. ASSUME NEW u \in Targets, NEW k \in Message
      PROVE  messages'[u][k] = messages[u][k] \/ (u = t /\ k = m /\ messages'[u][k] = "SENT")
  <2>1. messages \in [Targets -> [Message -> FateStatus \cup {"none"}]]
    BY <1>1 DEF RecordType
  <2>2. [messages EXCEPT ![t][m] = "SENT"][u][k]
            = IF u = t /\ k = m THEN "SENT" ELSE messages[u][k]
    BY <1>2, <2>1, EntryAt
  <2> QED BY <1>5, <2>2
<1>8. "SENT" \in fate[t][m]
  BY <1>1, <1>2, <1>3 DEF RecordsBehindProvider
<1>9. RecordsBehindProvider'
  BY <1>1, <1>3, <1>4, <1>7 DEF RecordsBehindProvider
<1>10. RecordsAreTrue'
  BY <1>1, <1>4, <1>7, <1>8 DEF RecordsAreTrue
<1> QED BY <1>6, <1>9, <1>10

(* What Record and RecordError write is true of the message they name      *)
LEMMA SaveKeepsTruth ==
    ASSUME TruthInv, NEW t \in Targets, NEW n \in 1..MaxAttempts, NEW m \in 0..MaxMessages,
           NEW s \in {"DISABLED", "SENT", "FAILED"}, m <= sent[t],
           s = "SENT" <=> m # NoMessage, s = "DISABLED" => ~reachable[t],
           attempts' = [attempts EXCEPT ![t][n] = [status |-> s, msg |-> m]],
           UNCHANGED <<sent, fate, messages, reachable>>
    PROVE  (RecordsBehindProvider /\ RecordsAreTrue)'
<1>1. RecordType /\ RecordsBehindProvider /\ RecordsAreTrue
  BY DEF TruthInv, QueueInv, DeliveryTypeOK
<1>2. ASSUME NEW u \in Targets, NEW a \in 1..MaxAttempts
      PROVE  attempts'[u][a] = IF u = t /\ a = n THEN [status |-> s, msg |-> m]
                               ELSE attempts[u][a]
  <2>1. attempts \in [Targets -> [1..MaxAttempts -> AttemptRecord]]
    BY <1>1 DEF RecordType
  <2> DEFINE v == [status |-> s, msg |-> m]
  <2>2. attempts' = [attempts EXCEPT ![t][n] = v]
    OBVIOUS
  <2> HIDE DEF v
  <2>3. ASSUME NEW w
        PROVE  [attempts EXCEPT ![t][n] = w][u][a] = IF u = t /\ a = n THEN w
                                                     ELSE attempts[u][a]
    <3>1. CASE u = t
      BY <2>1, <3>1, Zenon
    <3>2. CASE u # t
      BY <2>1, <3>2
    <3> QED BY <3>1, <3>2
  <2>4. attempts'[u][a] = IF u = t /\ a = n THEN v ELSE attempts[u][a]
    BY <2>2, <2>3
  <2> QED BY <2>4 DEF v
<1>3. m # NoMessage => m \in Message /\ "SENT" \in fate[t][m]
  BY <1>1, BoundsAssumption DEF RecordsBehindProvider, Message, NoMessage
<1>4. RecordsBehindProvider'
  <2>1. ASSUME NEW u \in Targets, NEW a \in 1..MaxAttempts
        PROVE  /\ attempts'[u][a].msg <= sent[u]
               /\ attempts'[u][a].status = "none" => attempts'[u][a].msg = NoMessage
    BY <1>1, <1>2 DEF RecordsBehindProvider
  <2> QED BY <1>1, <2>1 DEF RecordsBehindProvider
<1>5. RecordsAreTrue'
  <2>1. ASSUME NEW u \in Targets, NEW a \in 1..MaxAttempts
        PROVE  LET r == attempts'[u][a]
               IN  /\ r.status \in Reported => r.msg # NoMessage
                   /\ r.msg # NoMessage => r.status \in fate[u][r.msg]
                   /\ r.status = "DISABLED" => ~reachable[u]
    <3>1. CASE u = t /\ a = n
      BY <1>2, <1>3, <3>1 DEF Reported
    <3>2. CASE ~(u = t /\ a = n)
      BY <1>1, <1>2, <3>2 DEF RecordsAreTrue
    <3> QED BY <3>1, <3>2
  <2> QED BY <1>1, <2>1 DEF RecordsAreTrue
<1> QED BY <1>4, <1>5

LEMMA RecordKeepsTruth ==
    ASSUME TruthInv, NEW j \in JobId, Record(j) \/ RecordError(j)
    PROVE  (RunsTellTheTruth /\ RecordsBehindProvider /\ RecordsAreTrue)'
<1> DEFINE t == j[1]
<1>1. QueueType /\ RecordType /\ RunsTellTheTruth /\ RecordsBehindProvider /\ RecordsAreTrue
      /\ QueueInv
  BY DEF TruthInv, QueueInv, DeliveryTypeOK
<1>2. t \in Targets /\ sent[t] \in 0..MaxMessages /\ run[j].msg \in 0..MaxMessages
      /\ run[j].msg <= sent[t]
  BY <1>1, JobParts DEF RecordType, QueueType, RunRecord, RunsTellTheTruth
<1>3. Number(j) \in 1..MaxAttempts
  BY <1>1, NumberTyped DEF Record, RecordError, Working
<1>4. UNCHANGED <<sent, fate, messages, reachable>>
  BY DEF Record, RecordError, providerVars
<1>5. RunsTellTheTruth'
  <2>1. PICK l \in {"ok", "fail", "error"} : run' = [run EXCEPT ![j].pc = l]
    BY DEF Record, RecordError, Goto
  <2>2. [run[j] EXCEPT !.pc = l].msg = run[j].msg /\ [run[j] EXCEPT !.pc = l].pc = l
    BY <1>1 DEF QueueType, RunRecord
  <2>3. sent' = sent /\ reachable' = reachable
    BY <1>4
  <2> QED BY <2>1, <2>2, <2>3, RunsKept
<1>6. (RecordsBehindProvider /\ RecordsAreTrue)'
  <2>1. CASE attempts' = attempts
    BY <1>1, <1>4, <2>1, RecordsKept
  <2>2. CASE Record(j) /\ attempts' # attempts
    <3> DEFINE s == IF run[j].msg = NoMessage THEN "DISABLED" ELSE "SENT"
    <3>1. SaveAttempt(j, s, run[j].msg) /\ run[j].pc = "record"
      BY <2>2 DEF Record
    <3>2. /\ s \in {"DISABLED", "SENT", "FAILED"} /\ (s = "SENT" <=> run[j].msg # NoMessage)
          /\ s = "DISABLED" => ~reachable[t]
      BY <1>1, <3>1 DEF RunsTellTheTruth
    <3> HIDE DEF s
    <3> QED BY <1>2, <1>3, <1>4, <3>1, <3>2, SaveKeepsTruth DEF SaveAttempt
  <2>3. CASE RecordError(j) /\ attempts' # attempts
    <3>1. SaveAttempt(j, "FAILED", NoMessage)
      BY <2>3 DEF RecordError
    <3>2. NoMessage \in 0..MaxMessages /\ NoMessage <= sent[t]
      BY <1>2, BoundsAssumption DEF NoMessage
    <3> QED BY <1>2, <1>3, <1>4, <3>1, <3>2, SaveKeepsTruth DEF SaveAttempt
  <2> QED BY <2>1, <2>2, <2>3
<1> QED BY <1>5, <1>6

LEMMA WebhookKeepsTruth ==
    ASSUME TruthInv, NEW t \in Targets, Report(t)
    PROVE  (RunsTellTheTruth /\ RecordsBehindProvider /\ RecordsAreTrue)'
<1>1. RecordType /\ RunsTellTheTruth /\ RecordsBehindProvider /\ RecordsAreTrue
  BY DEF TruthInv, QueueInv, DeliveryTypeOK
<1>2. PICK m \in Message : Webhook(t, m)
  BY DEF Report
<1>3. PICK status \in DOMAIN UpTo :
          /\ fate' = [fate EXCEPT ![t][m] = @ \cup UpTo[status]]
          /\ messages' = [messages EXCEPT ![t][m] = IF @ = "none" THEN @ ELSE status]
          /\ attempts' = [attempts EXCEPT ![t] =
                [a \in 1..MaxAttempts |->
                    IF SameMessage(m, attempts[t][a].msg)
                    THEN [attempts[t][a] EXCEPT !.status = status]
                    ELSE attempts[t][a]]]
  BY <1>2 DEF Webhook
<1>4. status \in FateStatus /\ status \in UpTo[status]
  BY ReportStatus
<1>5. sent' = sent /\ run' = run /\ reachable' = reachable
  BY <1>2 DEF Webhook
<1>6. ASSUME NEW u \in Targets, NEW k \in Message
      PROVE  fate'[u][k] = IF u = t /\ k = m THEN fate[t][m] \cup UpTo[status] ELSE fate[u][k]
  <2>1. fate \in [Targets -> [Message -> SUBSET FateStatus]]
    BY <1>1 DEF RecordType
  <2>2. fate' = [fate EXCEPT ![t][m] = fate[t][m] \cup UpTo[status]]
    BY <1>3
  <2> QED BY <2>1, <2>2, EntryAt
<1>7. ASSUME NEW u \in Targets, NEW k \in Message
      PROVE  messages'[u][k] = IF u = t /\ k = m /\ messages[t][m] # "none" THEN status
                               ELSE messages[u][k]
  <2>1. messages \in [Targets -> [Message -> FateStatus \cup {"none"}]]
    BY <1>1 DEF RecordType
  <2>2. messages' = [messages EXCEPT ![t][m] =
                        IF messages[t][m] = "none" THEN messages[t][m] ELSE status]
    BY <1>3
  <2> QED BY <2>1, <2>2, EntryAt
<1>8. ASSUME NEW u \in Targets, NEW a \in 1..MaxAttempts
      PROVE  /\ attempts'[u][a].msg = attempts[u][a].msg
             /\ attempts'[u][a].status = IF u = t /\ attempts[u][a].msg = m THEN status
                                         ELSE attempts[u][a].status
  <2>1. attempts \in [Targets -> [1..MaxAttempts -> AttemptRecord]]
    BY <1>1 DEF RecordType
  <2>2. attempts[u][a] \in AttemptRecord
    BY <2>1
  <2> QED BY <1>3, <2>1, <2>2 DEF SameMessage, AttemptRecord
<1>9. RunsTellTheTruth'
  BY <1>1, <1>5 DEF RunsTellTheTruth
<1>10. status # "none" /\ status # "DISABLED" /\ m # NoMessage
  BY <1>4 DEF FateStatus, Message, NoMessage
<1>11. RecordsBehindProvider'
  <2>1. ASSUME NEW u \in Targets
        PROVE  /\ \A k \in Message : k <= sent[u] => "SENT" \in fate'[u][k]
               /\ \A k \in Message : messages'[u][k] # "none" => k <= sent[u]
    BY <1>1, <1>6, <1>7 DEF RecordsBehindProvider
  <2>2. ASSUME NEW u \in Targets, NEW a \in 1..MaxAttempts
        PROVE  /\ attempts'[u][a].msg <= sent[u]
               /\ attempts'[u][a].status = "none" => attempts'[u][a].msg = NoMessage
    BY <1>1, <1>8, <1>10 DEF RecordsBehindProvider
  <2> QED BY <1>5, <2>1, <2>2 DEF RecordsBehindProvider
<1>12. RecordsAreTrue'
  <2>1. ASSUME NEW u \in Targets, NEW k \in Message, messages'[u][k] # "none"
        PROVE  messages'[u][k] \in fate'[u][k]
    BY <1>1, <1>4, <1>6, <1>7, <2>1 DEF RecordsAreTrue
  <2>2. ASSUME NEW u \in Targets, NEW a \in 1..MaxAttempts
        PROVE  LET r == attempts'[u][a]
               IN  /\ r.status \in Reported => r.msg # NoMessage
                   /\ r.msg # NoMessage => r.status \in fate'[u][r.msg]
                   /\ r.status = "DISABLED" => ~reachable[u]
    <3>1. attempts[u][a].msg # NoMessage => attempts[u][a].msg \in Message
      BY <1>1, BoundsAssumption DEF RecordType, AttemptRecord, Message, NoMessage
    <3>2. CASE u = t /\ attempts[u][a].msg = m
      BY <1>4, <1>6, <1>8, <1>10, <3>2
    <3>3. CASE ~(u = t /\ attempts[u][a].msg = m)
      BY <1>1, <1>6, <1>8, <3>1, <3>3 DEF RecordsAreTrue
    <3> QED BY <3>2, <3>3
  <2> QED BY <1>5, <2>1, <2>2 DEF RecordsAreTrue
<1> QED BY <1>9, <1>11, <1>12
LEMMA TruthStep ==
    ASSUME TruthInv, [Next]_vars
    PROVE  TruthInv'
<1>1. QueueInv' /\ QueueInv
  BY QueueStep DEF TruthInv
<1>2. QueueType /\ RecordsBehindProvider /\ RecordsAreTrue /\ RunsTellTheTruth
  BY DEF TruthInv, QueueInv, DeliveryTypeOK
<1>3. CASE UNCHANGED <<run, sent, fate, messages, attempts, reachable>>
  <2>1. RunsTellTheTruth'
    BY <1>2, <1>3 DEF RunsTellTheTruth
  <2> QED BY <1>1, <1>2, <1>3, <2>1, RecordsKept DEF TruthInv
<1>4. ASSUME NEW j \in JobId, Deliver(j) \/ WorkerDies(j) \/ Retry(j)
      PROVE  TruthInv'
  <2>1. CASE Send(j)
    BY <1>1, <2>1, SendKeepsTruth DEF TruthInv
  <2>2. CASE Log(j)
    BY <1>1, <2>2, LogKeepsTruth DEF TruthInv
  <2>3. CASE Record(j) \/ RecordError(j)
    BY <1>1, <2>3, RecordKeepsTruth DEF TruthInv
  <2>4. CASE Fetch(j) \/ Settle(j) \/ RecordPermanentFailure(j) \/ WorkerDies(j)
    <3>1. UNCHANGED <<sent, fate, messages, attempts, reachable>>
      BY <2>4 DEF Fetch, Settle, RecordPermanentFailure, WorkerDies, providerVars, recordVars
    <3>2. \E l \in {"send", "idle", "report"} :
             run' = [run EXCEPT ![j] = [pc |-> l, msg |-> NoMessage]]
      BY <2>4 DEF Fetch, Settle, RecordPermanentFailure, WorkerDies, NoRun
    <3>3. RunsTellTheTruth'
      <4>1. PICK l \in {"send", "idle", "report"} :
               run' = [run EXCEPT ![j] = [pc |-> l, msg |-> NoMessage]]
        BY <3>2
      <4>2. sent' = sent /\ reachable' = reachable
        BY <3>1
      <4> QED BY <4>1, <4>2, RunsKept
    <3> QED BY <1>1, <1>2, <3>1, <3>3, RecordsKept DEF TruthInv
  <2>5. CASE Stall(j) \/ BackoffElapsed(j) \/ Retry(j)
    BY <1>3, <2>5 DEF Stall, BackoffElapsed, Retry, RetryQueue, RetryMark, providerVars, recordVars
  <2> QED BY <1>4, <2>1, <2>2, <2>3, <2>4, <2>5 DEF Deliver
<1>5. CASE UNCHANGED vars \/ BecomesAvailable
  BY <1>3, <1>5 DEF vars, BecomesAvailable, providerVars, recordVars
<1>6. CASE \E d \in Dispatchers : Dispatch(d) \/ DispatchDies(d)
  BY <1>3, <1>6 DEF Dispatch, DispatchRead, DispatchAdd, DispatchDone, DispatchPostpone,
     DispatchDies, providerVars, recordVars
<1>7. CASE \E t \in Targets : Report(t)
  BY <1>1, <1>7, WebhookKeepsTruth DEF TruthInv
<1> QED BY <1>4, <1>5, <1>6, <1>7 DEF Next

LEMMA TruthInitially == Init => TruthInv
<1> SUFFICES ASSUME Init PROVE TruthInv
  OBVIOUS
<1>1. RunsTellTheTruth
  BY JobParts, BoundsAssumption DEF Init, RunsTellTheTruth, NoRun, NoMessage
<1>2. RecordsBehindProvider
  BY DEF Init, RecordsBehindProvider, NoAttempt, NoMessage, Message
<1>3. RecordsAreTrue
  BY DEF Init, RecordsAreTrue, NoAttempt, Reported
<1> QED BY <1>1, <1>2, <1>3, QueueInitially DEF TruthInv

(* A recorded status is one the provider reached for that very message, an *)
(* attempt counts as sent only with a message, and a target that cannot be *)
(* reached never has one: whatever fails, and in whatever order the status *)
(* reports come.                                                           *)
THEOREM TruthfulRecords == Spec => []RecordsAreTrue
<1>1. Init => TruthInv
  BY TruthInitially
<1>2. TruthInv /\ [Next]_vars => TruthInv'
  BY TruthStep
<1>3. TruthInv => RecordsAreTrue
  BY DEF TruthInv
<1> QED BY <1>1, <1>2, <1>3, PTL DEF Spec
(* ---- Failures that are lost ---- *)

(* A job whose failure is lost, or may be: the worker of an active job is  *)
(* dead, and a second stall fails the job without a record.  Each has cost *)
(* a fault of its own.                                                     *)
IsCharged(j) ==
    \/ job[j].state = "failed" /\ failures[j] = "none" /\ run[j].pc # "report"
    \/ job[j].state = "active" /\ run[j].pc = "idle"
Charged == {j \in JobId : IsCharged(j)}
ChargesPaid == IsFiniteSet(Charged) /\ Cardinality(Charged) <= faults

ChargeInv == QueueInv /\ ChargesPaid

LEMMA ChargesFall ==
    ASSUME ChargeInv, \A k \in JobId : IsCharged(k)' => IsCharged(k), faults' >= faults,
           faults' \in 0..MaxFaults
    PROVE  ChargesPaid'
<1>1. Charged' \subseteq Charged
  BY DEF Charged
<1>2. IsFiniteSet(Charged) /\ Cardinality(Charged) <= faults
  BY DEF ChargeInv, ChargesPaid
<1>3. IsFiniteSet(Charged') /\ Cardinality(Charged') <= Cardinality(Charged)
  BY <1>1, <1>2, FS_Subset
<1>4. Cardinality(Charged) \in Nat /\ Cardinality(Charged') \in Nat /\ faults \in Nat
      /\ faults' \in Nat
  BY <1>2, <1>3, FS_CardinalityType, BoundsAssumption DEF ChargeInv, QueueInv, DeliveryTypeOK,
     FailureType
<1> QED BY <1>2, <1>3, <1>4 DEF ChargesPaid

LEMMA ChargesRise ==
    ASSUME ChargeInv, NEW j \in JobId, Fault,
           \A k \in JobId : IsCharged(k)' => IsCharged(k) \/ k = j
    PROVE  ChargesPaid'
<1>1. Charged' \subseteq Charged \cup {j}
  BY DEF Charged
<1>2. IsFiniteSet(Charged) /\ Cardinality(Charged) <= faults
  BY DEF ChargeInv, ChargesPaid
<1>3. /\ IsFiniteSet(Charged \cup {j}) /\ Cardinality(Charged) \in Nat
      /\ Cardinality(Charged \cup {j}) <= Cardinality(Charged) + 1
      /\ Cardinality(Charged \cup {j}) \in Nat
  <2>1. /\ IsFiniteSet(Charged \cup {j})
        /\ Cardinality(Charged \cup {j}) = IF j \in Charged THEN Cardinality(Charged)
                                          ELSE Cardinality(Charged) + 1
    BY <1>2, FS_AddElement
  <2>2. Cardinality(Charged) \in Nat
    BY <1>2, FS_CardinalityType
  <2> QED BY <2>1, <2>2
<1>4. IsFiniteSet(Charged') /\ Cardinality(Charged') <= Cardinality(Charged \cup {j})
  BY <1>1, <1>3, FS_Subset
<1>5. Cardinality(Charged') \in Nat
  BY <1>4, FS_CardinalityType
<1>6. faults \in Nat /\ faults' = faults + 1
  BY BoundsAssumption DEF ChargeInv, QueueInv, DeliveryTypeOK, FailureType, Fault
<1> QED BY <1>2, <1>3, <1>4, <1>5, <1>6 DEF ChargesPaid

(* A job that is added is not charged, and no other job is touched         *)
LEMMA QueueAddCharges ==
    ASSUME QueueInv, NEW j \in JobId, QueueAdd(j), run' = run, failures' = failures
    PROVE  \A k \in JobId : IsCharged(k)' => IsCharged(k)
<1>1. QueueType
  BY DEF QueueInv, DeliveryTypeOK
<1>2. ASSUME NEW k \in JobId PROVE job'[k] = job[k] \/ job'[k].state = "waiting"
  BY <1>1 DEF QueueType, QueueAdd, IsNewJob, NoJob
<1> QED BY <1>2 DEF IsCharged

LEMMA JobActionsPay ==
    ASSUME ChargeInv, NEW j \in JobId, Deliver(j) \/ WorkerDies(j) \/ Retry(j)
    PROVE  ChargesPaid'
<1>1. QueueInv /\ DeliveryTypeOK /\ QueueType /\ JobRuns /\ FailureType
  BY DEF ChargeInv, QueueInv, DeliveryTypeOK
<1>2. Fault \/ NoFault
  BY DEF Deliver, Retry, Fetch, Send, Log, Record, RecordError, Settle, RecordPermanentFailure,
     Stall, BackoffElapsed, WorkerDies, RetryQueue, RetryMark, NoFault
<1>3. faults' >= faults /\ faults' \in 0..MaxFaults
  BY <1>1, <1>2, FaultsBounded
<1>4. CASE RetryQueue(j)
  <2>1. <<j[1], j[2] + 1>> \in JobId
    <3>1. j[1] \in Targets /\ j[2] + 1 \in 0..MaxManual
      BY <1>4, JobParts, BoundsAssumption DEF RetryQueue
    <3> QED BY <3>1, JobIds
  <2>2. QueueAdd(<<j[1], j[2] + 1>>) /\ run' = run /\ failures' = failures
    BY <1>4 DEF RetryQueue
  <2> QED BY <1>1, <1>3, <2>1, <2>2, QueueAddCharges, ChargesFall
<1>5. CASE ~RetryQueue(j)
  <2>1. \A k \in JobId \ {j} : job'[k] = job[k] /\ run'[k] = run[k] /\ failures'[k] = failures[k]
    <3>1. \A k \in JobId \ {j} : job'[k] = job[k]
      BY <1>1, <1>5 DEF Deliver, Retry, Fetch, Send, Log, Record, RecordError, Settle,
         RecordPermanentFailure, Stall, BackoffElapsed, WorkerDies, RetryMark, QueueType
    <3>2. \A k \in JobId \ {j} : run'[k] = run[k]
      BY <1>1, <1>5 DEF Deliver, Retry, Fetch, Send, Log, Record, RecordError, Settle, Goto,
         RecordPermanentFailure, Stall, BackoffElapsed, WorkerDies, RetryMark, QueueType
    <3>3. \A k \in JobId \ {j} : failures'[k] = failures[k]
      BY <1>1, <1>5 DEF Deliver, Retry, Fetch, Send, Log, Record, RecordError, Settle,
         RecordPermanentFailure, Stall, BackoffElapsed, WorkerDies, RetryMark, FailureType,
         failureVars
    <3> QED BY <3>1, <3>2, <3>3
  <2>2. \A k \in JobId : IsCharged(k)' => IsCharged(k) \/ k = j
    BY <2>1 DEF IsCharged
  <2>3. CASE Fault
    BY <2>2, <2>3, ChargesRise
  <2>4. ASSUME ~Fault, IsCharged(j)' PROVE IsCharged(j)
    <3>1. CASE Fetch(j)
      BY <1>1, <2>4, <3>1 DEF Fetch, QueueType, JobRecord, RunRecord, IsCharged
    <3>2. CASE Send(j) \/ Log(j) \/ Record(j) \/ RecordError(j)
      <4>1. job' = job /\ job[j].state = "active"
        BY <1>1, <3>2 DEF Send, Log, Record, RecordError, JobRuns, Working
      <4>2. run'[j].pc # "idle"
        BY <1>1, <3>2 DEF Send, Log, Record, RecordError, Goto, QueueType, RunRecord
      <4> QED BY <2>4, <4>1, <4>2 DEF IsCharged
    <3>3. CASE Settle(j)
      <4>1. CASE run[j].pc = "ok"
        <5>1. job' = [job EXCEPT ![j].state = "completed"]
          BY <3>3, <4>1 DEF Settle
        <5> QED BY <1>1, <2>4, <5>1 DEF IsCharged, QueueType, JobRecord
      <4>2. CASE run[j].pc = "error"
        <5>1. /\ job'[j].state = AfterTries(Number(j))
              /\ run'[j] = IF Exhausted(Number(j)) THEN [NoRun EXCEPT !.pc = "report"] ELSE NoRun
          BY <1>1, <3>3, <4>2 DEF Settle, QueueType, JobRecord
        <5>2. Number(j) \in Nat
          BY <1>1, BoundsAssumption DEF Number, QueueType, JobRecord
        <5>3. CASE Number(j) < MaxAttempts
          BY <2>4, <5>1, <5>3 DEF IsCharged, AfterTries
        <5>4. CASE Number(j) >= MaxAttempts
          BY <2>4, <5>1, <5>4 DEF IsCharged, AfterTries, Exhausted, NoRun
        <5> QED BY <5>2, <5>3, <5>4, BoundsAssumption
      <4> QED BY <3>3, <4>1, <4>2 DEF Settle
    <3>4. CASE RecordPermanentFailure(j)
      <4>1. failures' = [failures EXCEPT ![j] = "open"] /\ job' = job
        BY <2>4, <3>4 DEF RecordPermanentFailure
      <4>2. job[j].state = "failed"
        BY <1>1, <3>4 DEF RecordPermanentFailure, JobRuns
      <4> QED BY <1>1, <2>4, <4>1, <4>2 DEF IsCharged, FailureType
    <3>5. CASE Stall(j)
      BY <3>5 DEF Stall, IsCharged
    <3>6. CASE BackoffElapsed(j)
      BY <1>1, <2>4, <3>6 DEF BackoffElapsed, IsCharged, QueueType, JobRecord
    <3>7. CASE RetryMark(j)
      <4>1. failures' = failures \/ failures' = [failures EXCEPT ![j] = "resolved"]
        BY <3>7 DEF RetryMark
      <4>2. job' = job /\ run' = run
        BY <3>7 DEF RetryMark
      <4> QED BY <1>1, <2>4, <4>1, <4>2 DEF IsCharged, FailureType
    <3>8. ~WorkerDies(j)
      BY <2>4 DEF WorkerDies
    <3> QED
      BY <1>5, <3>1, <3>2, <3>3, <3>4, <3>5, <3>6, <3>7, <3>8 DEF Deliver, Retry
  <2> QED BY <1>3, <2>2, <2>3, <2>4, ChargesFall
<1> QED BY <1>4, <1>5

LEMMA ChargeStep ==
    ASSUME ChargeInv, [Next]_vars
    PROVE  ChargeInv'
<1>1. QueueInv' /\ QueueInv
  BY QueueStep DEF ChargeInv
<1>2. faults \in 0..MaxFaults /\ faults >= faults /\ DeliveryTypeOK /\ OutboxType
  BY <1>1, BoundsAssumption DEF QueueInv, DeliveryTypeOK, FailureType
<1>3. CASE UNCHANGED <<job, run, failures, faults>>
  <2>1. \A k \in JobId : IsCharged(k)' => IsCharged(k)
    BY <1>3 DEF IsCharged
  <2> QED BY <1>1, <1>2, <1>3, <2>1, ChargesFall DEF ChargeInv
<1>4. ASSUME NEW d \in Dispatchers, Dispatch(d) \/ DispatchDies(d)
      PROVE  ChargeInv'
  <2>1. UNCHANGED <<run, failures>> /\ (Fault \/ NoFault)
    BY <1>4 DEF Dispatch, DispatchRead, DispatchAdd, DispatchDone, DispatchPostpone, DispatchDies,
       failureVars, NoFault
  <2>2. faults' \in 0..MaxFaults /\ faults' >= faults
    BY <1>2, <2>1, FaultsBounded
  <2>3. job' = job \/ \E t \in Targets : QueueAdd(<<t, 0>>)
    <3>1. pass[d].todo \subseteq Targets
      BY <1>2 DEF OutboxType, PassRecord
    <3>2. CASE DispatchAdd(d)
      BY <3>1, <3>2 DEF DispatchAdd
    <3> QED
      BY <1>4, <3>2 DEF Dispatch, DispatchRead, DispatchDone, DispatchPostpone, DispatchDies
  <2>4. \A k \in JobId : IsCharged(k)' => IsCharged(k)
    <3>1. CASE job' = job
      BY <2>1, <3>1 DEF IsCharged
    <3>2. ASSUME NEW t \in Targets, QueueAdd(<<t, 0>>)
          PROVE  \A k \in JobId : IsCharged(k)' => IsCharged(k)
      <4>1. <<t, 0>> \in JobId
        BY JobIds, BoundsAssumption
      <4> QED BY <1>1, <2>1, <3>2, <4>1, QueueAddCharges
    <3> QED BY <2>3, <3>1, <3>2
  <2> QED BY <1>1, <2>2, <2>4, ChargesFall DEF ChargeInv
<1>5. CASE UNCHANGED vars \/ BecomesAvailable
  BY <1>3, <1>5 DEF vars, BecomesAvailable, failureVars
<1>6. CASE \E t \in Targets : Report(t)
  BY <1>3, <1>6 DEF Report, Webhook, failureVars
<1> QED BY <1>1, <1>3, <1>4, <1>5, <1>6, JobActionsPay DEF Next, ChargeInv

(* At most one permanent failure is lost to the operator per fault, however *)
(* workers die, jobs stall and inserts fail.                                *)
THEOREM FailuresKept == Spec => []FailuresAreKept
<1>1. Init => ChargeInv
  <2> SUFFICES ASSUME Init PROVE ChargeInv
    OBVIOUS
  <2>1. Charged = {}
    BY DEF Init, Charged, IsCharged, NoJob
  <2> QED BY <2>1, QueueInitially, FS_EmptySet DEF Init, ChargeInv, ChargesPaid
<1>2. ChargeInv /\ [Next]_vars => ChargeInv'
  BY ChargeStep
<1>3. ChargeInv => FailuresAreKept
  <2> SUFFICES ASSUME ChargeInv PROVE FailuresAreKept
    OBVIOUS
  <2> DEFINE lost == {j \in JobId : /\ job[j].state = "failed" /\ failures[j] = "none"
                                    /\ run[j].pc # "report"}
  <2>1. lost \subseteq Charged
    BY DEF Charged, IsCharged
  <2>2. IsFiniteSet(Charged) /\ Cardinality(Charged) <= faults
    BY DEF ChargeInv, ChargesPaid
  <2>3. IsFiniteSet(lost) /\ Cardinality(lost) <= Cardinality(Charged)
    BY <2>1, <2>2, FS_Subset
  <2>4. Cardinality(lost) \in Nat /\ Cardinality(Charged) \in Nat /\ faults \in Nat
    BY <2>2, <2>3, FS_CardinalityType, BoundsAssumption DEF ChargeInv, QueueInv, DeliveryTypeOK,
       FailureType
  <2> QED BY <2>2, <2>3, <2>4 DEF FailuresAreKept
<1> QED BY <1>1, <1>2, <1>3, PTL DEF Spec
(* ---- Messages sent twice ---- *)

(* Messages the event's job may still send if nothing fails: one; two if    *)
(* the number of its attempt is taken, as then it cannot record the first   *)
Left(j) ==
    IF run[j].pc \in {"fail", "error"} THEN 1
    ELSE IF run[j].pc \in {"log", "record"} THEN IF Free(j) THEN 0 ELSE 1
    ELSE IF run[j].pc \in {"ok", "report"} \/ job[j].state \in {"completed", "failed"} THEN 0
    ELSE IF Free(j) THEN 1 ELSE 2

NoRetry(t) == \A n \in 1..MaxManual : job[<<t, n>>].state = "none"

(* The numbers after the current one are free, and each fault has paid for  *)
(* two messages.                                                            *)
Paid(j) ==
    /\ \A a \in 1..MaxAttempts :
          (a > Number(j) \/ job[j].state = "none") => attempts[j[1]][a].status = "none"
    /\ sent[j[1]] + Left(j) <= 1 + 2 * faults

(* This holds of the event's own job as long as no operator has retried it  *)
Budget == \A t \in Targets : NoRetry(t) => Paid(<<t, 0>>)

BudgetInv == TruthInv /\ Budget

LEMMA LeftTyped == \A j : Left(j) \in 0..2
BY DEF Left

LEMMA DeliveryNumbers ==
    ASSUME QueueInv, NEW j \in JobId
    PROVE  /\ j[1] \in Targets /\ sent[j[1]] \in Nat /\ faults \in Nat
           /\ Number(j) \in Nat /\ job[j] \in JobRecord /\ run[j] \in RunRecord
BY JobParts, BoundsAssumption DEF QueueInv, DeliveryTypeOK, RecordType, FailureType, QueueType,
   JobRecord, Number

(* Where nothing of the job has changed, what was paid is                   *)
LEMMA PaidStays ==
    ASSUME QueueInv, QueueInv', NEW j \in JobId, Paid(j), faults' >= faults,
           job'[j] = job[j], run'[j] = run[j], sent'[j[1]] = sent[j[1]],
           \A a \in 1..MaxAttempts :
               attempts'[j[1]][a].status = "none" <=> attempts[j[1]][a].status = "none",
           Number(j) \in 1..MaxAttempts \/ job[j].state \in {"completed", "failed"}
    PROVE  Paid(j)'
<1>1. sent[j[1]] \in Nat /\ faults \in Nat /\ faults' \in Nat /\ Left(j) \in 0..2
  BY DeliveryNumbers, LeftTyped, BoundsAssumption DEF QueueInv, DeliveryTypeOK, FailureType
<1>2. Number(j)' = Number(j)
  BY DEF Number
<1>3. Number(j) \in 1..MaxAttempts => (Free(j)' <=> Free(j))
  BY <1>2 DEF Free
<1>4. Left(j)' = Left(j)
  <2>1. CASE Number(j) \in 1..MaxAttempts
    BY <1>3, <2>1 DEF Left
  <2>2. CASE job[j].state \in {"completed", "failed"}
    <3>1. run[j].pc \notin {"log", "record"}
      BY <2>2 DEF QueueInv, JobRuns, Working
    <3> QED BY <2>2, <3>1 DEF Left
  <2> QED BY <2>1, <2>2
<1> QED BY <1>1, <1>2, <1>4 DEF Paid

(* A fault pays for whatever the job may still send, if it has sent nothing *)
LEMMA FaultPays ==
    ASSUME QueueInv, NEW j \in JobId, Paid(j), Fault, sent'[j[1]] = sent[j[1]]
    PROVE  sent'[j[1]] + Left(j)' <= 1 + 2 * faults'
<1>1. sent[j[1]] \in Nat /\ faults \in Nat /\ Left(j) \in 0..2 /\ faults' = faults + 1
  BY DeliveryNumbers, LeftTyped DEF Fault
<1>2. Left(j)' \in 0..2
  BY DEF Left
<1> QED BY <1>1, <1>2 DEF Paid

(* Steps that leave the records alone and keep the number of the attempt    *)
LEMMA NumbersStay ==
    ASSUME QueueInv, NEW j \in JobId, Paid(j), attempts' = attempts, Number(j)' = Number(j),
           job'[j].state # "none"
    PROVE  /\ \A a \in 1..MaxAttempts :
                  (a > Number(j)' \/ job'[j].state = "none") => attempts'[j[1]][a].status = "none"
           /\ Free(j)' <=> Free(j)
BY DEF Paid, Free
(* A step that keeps the number, the records and the messages sent          *)
LEMMA QuietStep ==
    ASSUME QueueInv, NEW j \in JobId, Paid(j), attempts' = attempts, Number(j)' = Number(j),
           job'[j].state # "none", sent' = sent,
           Fault \/ (NoFault /\ Left(j)' <= Left(j))
    PROVE  Paid(j)'
<1>1. \A a \in 1..MaxAttempts :
          (a > Number(j)' \/ job'[j].state = "none") => attempts'[j[1]][a].status = "none"
  BY NumbersStay
<1>2. sent[j[1]] \in Nat /\ faults \in Nat /\ Left(j) \in 0..2
  BY DeliveryNumbers, LeftTyped
<1>3. Left(j)' \in 0..2
  BY DEF Left
<1>4. sent'[j[1]] + Left(j)' <= 1 + 2 * faults'
  <2>1. CASE Fault
    BY <2>1, FaultPays
  <2>2. CASE NoFault /\ Left(j)' <= Left(j)
    BY <1>2, <1>3, <2>2 DEF Paid, NoFault
  <2> QED BY <2>1, <2>2
<1> QED BY <1>1, <1>4 DEF Paid

LEMMA SendPays ==
    ASSUME TruthInv, NEW j \in JobId, Paid(j), Send(j)
    PROVE  Paid(j)'
<1> DEFINE t == j[1]
<1>1. QueueInv /\ RecordType /\ QueueType
  BY DEF TruthInv, QueueInv, DeliveryTypeOK
<1>2. /\ run[j].pc = "send" /\ job' = job /\ attempts' = attempts
      /\ job[j].state = "active"
  BY <1>1 DEF Send, recordVars, QueueInv, JobRuns, Working
<1>3. Number(j)' = Number(j) /\ job'[j].state # "none"
  BY <1>2 DEF Number
<1>4. Free(j)' <=> Free(j)
  BY <1>2, <1>3 DEF Free
<1>5. Left(j) = IF Free(j) THEN 1 ELSE 2
  BY <1>2 DEF Left
<1>6. t \in Targets /\ sent[t] \in Nat /\ faults \in Nat
  BY <1>1, DeliveryNumbers
<1>7. ASSUME NEW l, run' = [run EXCEPT ![j].pc = l] PROVE run'[j].pc = l
  BY <1>1, <1>7 DEF QueueType, RunRecord
<1>8. CASE UNCHANGED providerVars
  <2>1. run' = [run EXCEPT ![j].pc = "record"] \/ run' = [run EXCEPT ![j].pc = "fail"]
    <3>1. ~Accept(t)
      BY <1>1, <1>6, <1>8 DEF Accept, providerVars, RecordType
    <3> QED BY <3>1 DEF Send, Goto
  <2>2. run'[j].pc = "record" \/ run'[j].pc = "fail"
    BY <1>7, <2>1
  <2>3. Left(j)' <= Left(j)
    BY <1>4, <1>5, <2>2 DEF Left
  <2>4. sent' = sent /\ (Fault \/ NoFault)
    BY <1>8 DEF providerVars, Send
  <2> QED BY <1>1, <1>2, <1>3, <2>3, <2>4, QuietStep
<1>9. CASE Accept(t)
  <2>1. sent'[t] = sent[t] + 1
    BY <1>1, <1>6, <1>9 DEF Accept, RecordType
  <2>2. \A a \in 1..MaxAttempts :
            (a > Number(j)' \/ job'[j].state = "none") => attempts'[t][a].status = "none"
    BY <1>1, <1>2, <1>3, NumbersStay
  <2>3. sent'[t] + Left(j)' <= 1 + 2 * faults'
    <3>1. CASE Fault /\ Goto(j, "fail")
      <4>1. Left(j)' = 1
        BY <1>7, <3>1 DEF Goto, Left
      <4> QED BY <1>5, <1>6, <2>1, <3>1, <4>1 DEF Fault, Paid
    <3>2. CASE NoFault /\ run' = [run EXCEPT ![j] = [pc |-> "log", msg |-> sent'[t]]]
      <4>1. run'[j].pc = "log"
        BY <1>1, <3>2 DEF QueueType
      <4>2. Left(j)' = IF Free(j) THEN 0 ELSE 1
        BY <1>4, <4>1 DEF Left
      <4> QED BY <1>5, <1>6, <2>1, <3>2, <4>2 DEF NoFault, Paid
    <3>3. ~UNCHANGED providerVars
      BY <1>6, <2>1 DEF providerVars
    <3> QED BY <3>1, <3>2, <3>3 DEF Send
  <2> QED BY <2>2, <2>3 DEF Paid
<1> QED BY <1>8, <1>9 DEF Send

LEMMA RecordPays ==
    ASSUME TruthInv, NEW j \in JobId, Paid(j), Record(j) \/ RecordError(j)
    PROVE  Paid(j)'
<1> DEFINE t == j[1]
<1>1. QueueInv /\ RecordType /\ QueueType
  BY DEF TruthInv, QueueInv, DeliveryTypeOK
<1>2. job' = job /\ sent' = sent /\ job[j].state = "active"
  BY <1>1 DEF Record, RecordError, providerVars, QueueInv, JobRuns, Working
<1>3. Number(j)' = Number(j) /\ Number(j) \in 1..MaxAttempts /\ t \in Targets
      /\ sent[t] \in Nat /\ faults \in Nat /\ Left(j) \in 0..2
  BY <1>1, <1>2, NumberTyped, DeliveryNumbers, LeftTyped DEF Number, Record, RecordError, Working
<1>4. ASSUME NEW a \in 1..MaxAttempts, a > Number(j)
      PROVE  attempts'[t][a].status = "none"
  <2>1. attempts' = attempts \/ \E r : attempts' = [attempts EXCEPT ![t][Number(j)] = r]
    BY DEF Record, RecordError, SaveAttempt
  <2>2. attempts'[t][a] = attempts[t][a]
    <3>1. a # Number(j)
      BY <1>3, <1>4
    <3>2. ASSUME NEW r PROVE [attempts EXCEPT ![t][Number(j)] = r][t][a] = attempts[t][a]
      BY <1>1, <1>3, <3>1 DEF RecordType
    <3> QED BY <2>1, <3>2
  <2> QED BY <1>4, <2>2 DEF Paid
<1>5. \E l \in {"ok", "fail", "error"} : run'[j].pc = l
  BY <1>1 DEF Record, RecordError, Goto, QueueType, RunRecord
<1>6. Left(j)' <= 1 /\ Left(j)' \in 0..2 /\ (run'[j].pc = "ok" => Left(j)' = 0)
  BY <1>5 DEF Left
<1>7. sent'[t] + Left(j)' <= 1 + 2 * faults'
  <2>1. CASE Fault
    BY <1>1, <1>2, <2>1, FaultPays
  <2>2. CASE NoFault /\ run'[j].pc = "ok"
    BY <1>2, <1>3, <1>6, <2>2 DEF NoFault, Paid
  <2>3. CASE NoFault /\ Left(j) = 1
    BY <1>2, <1>3, <1>6, <2>3 DEF NoFault, Paid
  <2>4. run[j].pc = "fail" \/ (run[j].pc = "record" /\ ~Free(j)) => Left(j) = 1
    BY DEF Left
  <2>5. Goto(j, "ok") => run'[j].pc = "ok"
    BY <1>1 DEF Goto, QueueType, RunRecord
  <2> QED BY <2>1, <2>2, <2>3, <2>4, <2>5 DEF Record, RecordError
<1> QED BY <1>2, <1>3, <1>4, <1>7 DEF Paid
(* A rejected attempt leaves the next number free                           *)
LEMMA SettlePays ==
    ASSUME TruthInv, NEW j \in JobId, Paid(j), Settle(j)
    PROVE  Paid(j)'
<1> DEFINE t == j[1]
<1>1. QueueInv /\ QueueType
  BY DEF TruthInv, QueueInv, DeliveryTypeOK
<1>2. /\ attempts' = attempts /\ sent' = sent /\ faults' = faults
      /\ job[j].state = "active" /\ job[j].tries < MaxAttempts
  BY <1>1 DEF Settle, recordVars, providerVars, QueueInv, JobRuns, Working
<1>3. t \in Targets /\ sent[t] \in Nat /\ faults \in Nat /\ job[j].tries \in Nat
      /\ Left(j) \in 0..2 /\ Number(j) \in 1..MaxAttempts
  BY <1>1, DeliveryNumbers, LeftTyped, NumberTyped DEF Settle, Working, JobRecord
<1>4. CASE run[j].pc = "ok"
  <2>1. job' = [job EXCEPT ![j].state = "completed"] /\ run' = [run EXCEPT ![j] = NoRun]
    BY <1>4 DEF Settle
  <2>2. job'[j].state = "completed" /\ job'[j].tries = job[j].tries /\ run'[j] = NoRun
    BY <1>1, <2>1 DEF QueueType, JobRecord
  <2>3. Number(j)' = Number(j) /\ Left(j)' = 0
    BY <2>2 DEF Number, Left, NoRun
  <2>4. NoFault /\ Left(j)' <= Left(j)
    BY <1>2, <1>3, <2>3 DEF NoFault
  <2> QED BY <1>1, <1>2, <2>2, <2>3, <2>4, QuietStep
<1>5. CASE run[j].pc = "error"
  <2> DEFINE n == Number(j)
  <2>1. /\ job' = [job EXCEPT ![j].state = AfterTries(n), ![j].tries = n]
        /\ run' = [run EXCEPT ![j] = IF Exhausted(n) THEN [NoRun EXCEPT !.pc = "report"]
                                     ELSE NoRun]
    BY <1>5 DEF Settle
  <2>2. /\ job'[j].state = AfterTries(n) /\ job'[j].tries = n
        /\ run'[j].pc = IF Exhausted(n) THEN "report" ELSE "idle"
    <3>1. run'[j] = IF Exhausted(n) THEN [NoRun EXCEPT !.pc = "report"] ELSE NoRun
      BY <1>1, <2>1 DEF QueueType
    <3>2. job'[j].state = AfterTries(n) /\ job'[j].tries = n
      BY <1>1, <2>1 DEF QueueType, JobRecord
    <3> QED BY <3>1, <3>2 DEF NoRun
  <2>3. Number(j)' = n + 1 /\ n \in 1..MaxAttempts /\ n = job[j].tries + 1
    BY <1>3, <2>2 DEF Number
  <2>4. Left(j) = 1
    BY <1>5 DEF Left
  <2>5. \A a \in 1..MaxAttempts : a > n + 1 => attempts[t][a].status = "none"
    BY <2>3 DEF Paid
  <2>6. Left(j)' <= 1 /\ Left(j)' \in 0..2
    <3>1. CASE n < MaxAttempts
      <4>1. n + 1 \in 1..MaxAttempts /\ n + 1 > n
        BY <2>3, <3>1, BoundsAssumption
      <4>2. attempts[t][n + 1].status = "none"
        BY <4>1 DEF Paid
      <4>3. Free(j)'
        BY <1>2, <2>3, <4>2 DEF Free
      <4>4. Left(j)' \in {0, 1}
        BY <4>3 DEF Left
      <4> QED BY <4>4
    <3>2. CASE n >= MaxAttempts
      <4>1. run'[j].pc = "report"
        BY <2>2, <3>2 DEF Exhausted
      <4>2. Left(j)' = 0
        BY <4>1 DEF Left
      <4> QED BY <4>2
    <3> QED BY <2>3, <3>1, <3>2, BoundsAssumption
  <2>7. sent'[t] + Left(j)' <= 1 + 2 * faults'
    BY <1>2, <1>3, <2>4, <2>6 DEF Paid
  <2>8. job'[j].state # "none"
    BY <2>2 DEF AfterTries
  <2> QED BY <1>2, <2>3, <2>5, <2>7, <2>8 DEF Paid
<1> QED BY <1>4, <1>5 DEF Settle

LEMMA OwnStepsPay ==
    ASSUME TruthInv, NEW j \in JobId, Paid(j), Deliver(j) \/ WorkerDies(j)
    PROVE  Paid(j)'
<1>1. QueueInv /\ QueueType /\ JobRuns
  BY DEF TruthInv, QueueInv, DeliveryTypeOK
<1>2. job[j] \in JobRecord /\ run[j] \in RunRecord /\ Left(j) \in 0..2
  BY <1>1, DeliveryNumbers, LeftTyped
<1>3. CASE Send(j) \/ Record(j) \/ RecordError(j) \/ Settle(j)
  BY <1>3, SendPays, RecordPays, SettlePays
<1>4. CASE ~(Send(j) \/ Record(j) \/ RecordError(j) \/ Settle(j))
  <2>1. attempts' = attempts /\ sent' = sent /\ (Fault \/ NoFault)
    BY <1>4 DEF Deliver, Fetch, Log, RecordPermanentFailure, Stall, BackoffElapsed, WorkerDies,
       recordVars, providerVars, NoFault
  <2>2. job'[j].tries = job[j].tries /\ job'[j].state # "none"
    <3>1. CASE Fetch(j) \/ BackoffElapsed(j)
      BY <1>1, <1>2, <3>1 DEF Fetch, BackoffElapsed, QueueType, JobRecord
    <3>2. CASE Stall(j)
      BY <1>1, <1>2, <3>2 DEF Stall, QueueType, JobRecord
    <3>3. CASE Log(j) \/ RecordPermanentFailure(j) \/ WorkerDies(j)
      <4>1. job' = job /\ run[j].pc # "idle"
        BY <3>3 DEF Log, RecordPermanentFailure, WorkerDies
      <4> QED BY <1>1, <1>2, <4>1 DEF JobRuns, Working, RunRecord
    <3> QED BY <1>4, <3>1, <3>2, <3>3 DEF Deliver
  <2>3. Number(j)' = Number(j)
    BY <2>2 DEF Number
  <2>4. Free(j)' <=> Free(j)
    BY <2>1, <2>3 DEF Free
  <2>5. ASSUME ~Fault PROVE Left(j)' <= Left(j)
    <3>1. CASE Fetch(j)
      <4>1. run'[j].pc = "send" /\ job'[j].state = "active"
        BY <1>1, <1>2, <3>1 DEF Fetch, QueueType, JobRecord
      <4>2. run[j].pc = "idle" /\ job[j].state = "waiting"
        BY <3>1 DEF Fetch
      <4> QED BY <2>4, <4>1, <4>2 DEF Left
    <3>2. CASE Log(j)
      <4>1. run[j].pc = "log" /\ Goto(j, "record")
        BY <2>5, <3>2 DEF Log
      <4>2. run'[j].pc = "record"
        BY <1>1, <4>1 DEF Goto, QueueType, RunRecord
      <4> QED BY <2>4, <4>1, <4>2 DEF Left
    <3>3. CASE RecordPermanentFailure(j)
      <4>1. job' = job /\ job[j].state = "failed" /\ run'[j].pc = "idle"
        BY <1>1, <3>3 DEF RecordPermanentFailure, JobRuns, QueueType, NoRun
      <4>2. Left(j)' = 0
        BY <4>1 DEF Left
      <4> QED BY <1>2, <4>2
    <3>4. CASE Stall(j)
      <4>1. job'[j].state \in {"waiting", "failed"} /\ run' = run
        BY <1>1, <1>2, <3>4 DEF Stall, QueueType, JobRecord
      <4>2. run[j].pc = "idle" /\ job[j].state = "active"
        BY <3>4 DEF Stall
      <4> QED BY <2>4, <4>1, <4>2 DEF Left
    <3>5. CASE BackoffElapsed(j)
      <4>1. job[j].state = "delayed" /\ job'[j].state = "waiting" /\ run' = run
        BY <1>1, <1>2, <3>5 DEF BackoffElapsed, QueueType, JobRecord
      <4>2. run[j].pc = "idle"
        BY <1>1, <1>2, <4>1 DEF JobRuns, Working, RunRecord
      <4> QED BY <2>4, <4>1, <4>2 DEF Left
    <3>6. ~WorkerDies(j)
      BY <2>5 DEF WorkerDies
    <3> QED BY <1>4, <3>1, <3>2, <3>3, <3>4, <3>5, <3>6 DEF Deliver
  <2> QED BY <1>1, <2>1, <2>2, <2>3, <2>5, QuietStep
<1> QED BY <1>3, <1>4
(* Adding the job pays for its first message out of the one that is free    *)
LEMMA AddPays ==
    ASSUME QueueInv, NEW j \in JobId, Paid(j), QueueAdd(j), job[j].state = "none",
           UNCHANGED <<run, attempts, sent>>, faults' >= faults, faults' \in Nat
    PROVE  Paid(j)'
<1>1. /\ job[j] = NoJob /\ run[j].pc = "idle" /\ QueueType
  BY DEF QueueInv, DeliveryTypeOK, QueueType, JobRuns, Working, RunRecord
<1>2. job'[j].state = "waiting" /\ job'[j].tries = 0
  BY <1>1 DEF QueueAdd, IsNewJob, QueueType, NoJob
<1>3. Number(j) = 1 /\ Number(j)' = 1 /\ 1 \in 1..MaxAttempts
  BY <1>1, <1>2, BoundsAssumption DEF Number, NoJob
<1>4. Free(j) /\ Free(j)'
  BY <1>3 DEF Free, Paid
<1>5. Left(j)' = 1 /\ Left(j) = 1
  BY <1>1, <1>2, <1>4 DEF Left
<1>6. \A a \in 1..MaxAttempts : attempts[j[1]][a].status = "none"
  BY DEF Paid
<1>7. sent[j[1]] \in Nat /\ faults \in Nat
  BY DeliveryNumbers
<1> QED BY <1>5, <1>6, <1>7 DEF Paid

(* Which job a step is about, and what it leaves of the records of others   *)
LEMMA OtherTargets ==
    ASSUME QueueInv, NEW k \in JobId, Deliver(k) \/ WorkerDies(k),
           NEW t \in Targets, k[1] # t
    PROVE  /\ sent'[t] = sent[t]
           /\ \A a \in 1..MaxAttempts : attempts'[t][a] = attempts[t][a]
           /\ \A n \in 0..MaxManual : /\ job'[<<t, n>>] = job[<<t, n>>]
                                      /\ run'[<<t, n>>] = run[<<t, n>>]
<1>1. QueueType /\ RecordType
  BY DEF QueueInv, DeliveryTypeOK
<1>2. sent'[t] = sent[t]
  <2>1. sent' = sent \/ Accept(k[1])
    BY DEF Deliver, Fetch, Send, Log, Record, RecordError, Settle, RecordPermanentFailure,
       Stall, BackoffElapsed, WorkerDies, providerVars
  <2> QED BY <1>1, <2>1 DEF Accept, RecordType
<1>3. \A a \in 1..MaxAttempts : attempts'[t][a] = attempts[t][a]
  <2>1. attempts' = attempts \/ \E s, m : SaveAttempt(k, s, m)
    BY Zenon DEF Deliver, Fetch, Send, Log, Record, RecordError, Settle, RecordPermanentFailure,
       Stall, BackoffElapsed, WorkerDies, recordVars
  <2> QED BY <1>1, <2>1 DEF SaveAttempt, RecordType
<1>4. \A j \in JobId \ {k} : job'[j] = job[j]
  BY <1>1 DEF Deliver, Fetch, Send, Log, Record, RecordError, Settle, RecordPermanentFailure,
     Stall, BackoffElapsed, WorkerDies, QueueType
<1>5. \A j \in JobId \ {k} : run'[j] = run[j]
  BY <1>1 DEF Deliver, Fetch, Send, Log, Record, RecordError, Settle, RecordPermanentFailure,
     Stall, BackoffElapsed, WorkerDies, QueueType, Goto
<1>6. \A n \in 0..MaxManual : <<t, n>> \in JobId \ {k}
  BY JobIds
<1> QED BY <1>2, <1>3, <1>4, <1>5, <1>6

(* The job of a target no operator has retried has a number or is over      *)
LEMMA FirstJob ==
    ASSUME QueueInv, NEW t \in Targets
    PROVE  /\ <<t, 0>> \in JobId
           /\ \/ Number(<<t, 0>>) \in 1..MaxAttempts
              \/ job[<<t, 0>>].state \in {"completed", "failed"}
<1>1. <<t, 0>> \in JobId
  BY JobIds, BoundsAssumption
<1>2. ASSUME NEW j \in JobId
      PROVE  Number(j) \in 1..MaxAttempts \/ job[j].state \in {"completed", "failed"}
  <2>1. job[j] \in JobRecord /\ JobRuns
    BY DeliveryNumbers DEF QueueInv
  <2>2. CASE job[j].state = "none"
    BY <2>1, <2>2, BoundsAssumption DEF JobRuns, NoJob, Number
  <2>3. CASE job[j].state \in {"waiting", "active", "delayed"}
    BY <2>1, <2>3, BoundsAssumption DEF JobRuns, JobRecord, Number
  <2> QED BY <2>1, <2>2, <2>3 DEF JobRecord
<1> QED BY <1>1, <1>2

(* A step that touches nothing the budget of t reads                        *)
LEMMA BudgetStays ==
    ASSUME BudgetInv, QueueInv', NEW t \in Targets, NoRetry(t),
           job'[<<t, 0>>] = job[<<t, 0>>], run'[<<t, 0>>] = run[<<t, 0>>],
           sent'[t] = sent[t], faults' >= faults,
           \A a \in 1..MaxAttempts :
               attempts'[t][a].status = "none" <=> attempts[t][a].status = "none"
    PROVE  Paid(<<t, 0>>)'
<1>1. QueueInv /\ Paid(<<t, 0>>)
  BY DEF BudgetInv, TruthInv, Budget
<1>2. ASSUME NEW j \in JobId, j[1] = t, j = <<t, 0>> PROVE Paid(j)'
  BY <1>1, <1>2, FirstJob, PaidStays
<1> QED BY <1>2, FirstJob, <1>1

LEMMA BudgetStep ==
    ASSUME BudgetInv, [Next]_vars
    PROVE  BudgetInv'
<1>1. TruthInv' /\ TruthInv
  BY TruthStep DEF BudgetInv
<1>2. QueueInv /\ QueueInv' /\ JobsStay /\ QueueType /\ RecordType /\ JobRuns
  BY <1>1, QueueStep DEF TruthInv, QueueInv, DeliveryTypeOK
<1> SUFFICES ASSUME NEW t \in Targets, NoRetry(t)' PROVE Paid(<<t, 0>>)'
  BY <1>1 DEF BudgetInv, Budget
<1>3. <<t, 0>> \in JobId /\ \A n \in 1..MaxManual : <<t, n>> \in JobId
  BY JobIds, BoundsAssumption
<1>4. NoRetry(t) /\ Paid(<<t, 0>>)
  BY <1>2, <1>3 DEF JobsStay, NoRetry, BudgetInv, Budget
<1>5. faults \in Nat /\ faults' \in Nat /\ faults' >= faults
  <2>1. Fault \/ faults' = faults
    BY DEF Next, vars, Dispatch, DispatchRead, DispatchAdd, DispatchDone, DispatchPostpone,
       DispatchDies, BecomesAvailable, Deliver, Retry, Fetch, Send, Log, Record, RecordError,
       Settle, RecordPermanentFailure, Stall, BackoffElapsed, WorkerDies, RetryQueue, RetryMark,
       Report, Webhook, NoFault
  <2>2. faults \in Nat
    BY <1>2, BoundsAssumption DEF QueueInv, DeliveryTypeOK, FailureType
  <2> QED BY <2>1, <2>2 DEF Fault
<1>6. CASE /\ UNCHANGED <<run, sent, attempts>> /\ job'[<<t, 0>>] = job[<<t, 0>>]
  BY <1>2, <1>4, <1>5, <1>6, BudgetStays
<1>7. ASSUME NEW k \in JobId, QueueAdd(k), UNCHANGED <<run, sent, attempts>>
      PROVE  Paid(<<t, 0>>)'
  <2>1. CASE k # <<t, 0>> \/ job[k].state # "none"
    <3>1. job'[<<t, 0>>] = job[<<t, 0>>]
      BY <1>2, <1>3, <1>7, <2>1 DEF QueueAdd, IsNewJob, QueueType
    <3> QED BY <1>6, <1>7, <3>1
  <2>2. CASE k = <<t, 0>> /\ job[k].state = "none"
    BY <1>2, <1>4, <1>5, <1>7, <2>2, AddPays
  <2> QED BY <2>1, <2>2
<1>8. CASE \E d \in Dispatchers : Dispatch(d) \/ DispatchDies(d)
  <2>1. UNCHANGED <<run, sent, attempts>>
    BY <1>8 DEF Dispatch, DispatchRead, DispatchAdd, DispatchDone, DispatchPostpone, DispatchDies,
       providerVars, recordVars
  <2>2. job' = job \/ \E u \in Targets : QueueAdd(<<u, 0>>)
    <3>1. \A d \in Dispatchers : pass[d].todo \subseteq Targets
      BY <1>2 DEF QueueInv, DeliveryTypeOK, OutboxType, PassRecord
    <3>2. (\E d \in Dispatchers : DispatchAdd(d)) \/ job' = job
      BY <1>8 DEF Dispatch, DispatchRead, DispatchDone, DispatchPostpone, DispatchDies
    <3> QED BY <3>1, <3>2 DEF DispatchAdd
  <2>3. \A u \in Targets : <<u, 0>> \in JobId
    BY JobIds, BoundsAssumption
  <2> QED BY <1>6, <1>7, <2>1, <2>2, <2>3
<1>9. CASE BecomesAvailable \/ UNCHANGED vars
  BY <1>6, <1>9 DEF BecomesAvailable, vars, providerVars, recordVars
<1>10. CASE \E j \in JobId : Retry(j)
  <2>1. PICK j \in JobId : Retry(j)
    BY <1>10
  <2>2. CASE RetryMark(j)
    BY <1>6, <2>2 DEF RetryMark, providerVars, recordVars
  <2>3. CASE RetryQueue(j)
    <3>1. <<j[1], j[2] + 1>> \in JobId
      <4>1. j[1] \in Targets /\ j[2] + 1 \in 0..MaxManual
        BY <2>3, JobParts, BoundsAssumption DEF RetryQueue
      <4> QED BY <4>1, JobIds
    <3>2. QueueAdd(<<j[1], j[2] + 1>>) /\ UNCHANGED <<run, sent, attempts>>
      BY <2>3 DEF RetryQueue, providerVars, recordVars
    <3> QED BY <1>7, <3>1, <3>2
  <2> QED BY <2>1, <2>2, <2>3 DEF Retry
<1>11. CASE \E j \in JobId : Deliver(j) \/ WorkerDies(j)
  <2>1. PICK j \in JobId : Deliver(j) \/ WorkerDies(j)
    BY <1>11
  <2>2. CASE j = <<t, 0>>
    BY <1>1, <1>4, <2>1, <2>2, OwnStepsPay
  <2>3. CASE j[1] # t
    <3>1. 0 \in 0..MaxManual
      BY BoundsAssumption
    <3>2. sent'[t] = sent[t] /\ job'[<<t, 0>>] = job[<<t, 0>>] /\ run'[<<t, 0>>] = run[<<t, 0>>]
      BY <1>2, <2>1, <2>3, <3>1, OtherTargets
    <3>3. \A a \in 1..MaxAttempts : attempts'[t][a] = attempts[t][a]
      BY <1>2, <2>1, <2>3, OtherTargets
    <3> QED BY <1>2, <1>4, <1>5, <3>2, <3>3, BudgetStays
  <2>4. CASE j[1] = t /\ j # <<t, 0>>
    <3>1. \E n \in 1..MaxManual : j = <<t, n>>
      BY <2>4, BoundsAssumption DEF JobId
    <3>2. job[j].state = "none"
      BY <1>4, <3>1 DEF NoRetry
    <3>3. run[j].pc = "idle" /\ job[j].state # "waiting"
      BY <1>2, <3>2 DEF JobRuns, Working, QueueType, RunRecord
    <3> QED
      BY <2>1, <3>2, <3>3 DEF Deliver, Fetch, Send, Log, Record, RecordError, Settle,
         RecordPermanentFailure, Stall, BackoffElapsed, WorkerDies
  <2> QED BY <2>2, <2>3, <2>4
<1>12. CASE \E u \in Targets : Report(u)
  <2>1. PICK u \in Targets, m \in Message : Webhook(u, m)
    BY <1>12 DEF Report
  <2>2. job' = job /\ run' = run /\ sent' = sent
    BY <2>1 DEF Webhook
  <2>3. ASSUME NEW a \in 1..MaxAttempts
        PROVE  attempts'[t][a].status = "none" <=> attempts[t][a].status = "none"
    <3>1. attempts[t][a] \in AttemptRecord /\ attempts[u] \in [1..MaxAttempts -> AttemptRecord]
      BY <1>2 DEF RecordType
    <3>2. PICK status \in DOMAIN UpTo : attempts' = [attempts EXCEPT ![u] =
              [b \in 1..MaxAttempts |-> IF SameMessage(m, attempts[u][b].msg)
                                        THEN [attempts[u][b] EXCEPT !.status = status]
                                        ELSE attempts[u][b]]]
      BY <2>1 DEF Webhook
    <3>3. CASE u = t /\ attempts[t][a].msg = m
      <4>1. attempts'[t][a] = [attempts[t][a] EXCEPT !.status = status]
        BY <1>2, <3>2, <3>3 DEF RecordType, SameMessage
      <4>2. attempts'[t][a].status # "none"
        BY <3>1, <4>1, ReportStatus DEF AttemptRecord, FateStatus
      <4>3. attempts[t][a].status # "none"
        BY <1>1, <3>3 DEF TruthInv, RecordsBehindProvider, Message, NoMessage
      <4> QED BY <4>2, <4>3
    <3>4. CASE ~(u = t /\ attempts[t][a].msg = m)
      BY <1>2, <3>2, <3>4 DEF RecordType, SameMessage
    <3> QED BY <3>3, <3>4
  <2> QED BY <1>2, <1>4, <1>5, <2>2, <2>3, BudgetStays
<1> QED BY <1>8, <1>9, <1>10, <1>11, <1>12 DEF Next

(* A target gets one message, and at most two more for each fault, however  *)
(* dispatches overlap and attempts are repeated, as long as no operator has *)
(* retried its job.                                                         *)
THEOREM DuplicatesPaid == Spec => []DuplicatesNeedFaults
<1>1. Init => BudgetInv
  <2> SUFFICES ASSUME Init, NEW t \in Targets PROVE TruthInv /\ Paid(<<t, 0>>)
    BY TruthInitially DEF BudgetInv, Budget
  <2>1. <<t, 0>> \in JobId
    BY JobIds, BoundsAssumption
  <2>2. job[<<t, 0>>] = NoJob /\ run[<<t, 0>>] = NoRun
    BY <2>1 DEF Init
  <2>3. \A a \in 1..MaxAttempts : attempts[t][a].status = "none"
    BY DEF Init, NoAttempt
  <2>4. Left(<<t, 0>>) = 1
    <3>1. Number(<<t, 0>>) \in 1..MaxAttempts
      BY <2>2, BoundsAssumption DEF Number, NoJob
    <3>2. Free(<<t, 0>>)
      BY <2>3, <3>1 DEF Free
    <3> QED BY <2>2, <3>2 DEF Left, NoJob, NoRun
  <2>5. sent[t] = 0 /\ faults = 0
    BY DEF Init
  <2> QED BY <2>3, <2>4, <2>5, TruthInitially DEF Paid
<1>2. BudgetInv /\ [Next]_vars => BudgetInv'
  BY BudgetStep
<1>3. BudgetInv => DuplicatesNeedFaults
  <2> SUFFICES ASSUME BudgetInv, NEW t \in Targets, NoRetry(t)
               PROVE  sent[t] <= 1 + 2 * faults
    BY DEF DuplicatesNeedFaults, NoRetry
  <2>1. Paid(<<t, 0>>) /\ QueueInv
    BY DEF BudgetInv, Budget, TruthInv
  <2>2. sent[t] \in Nat /\ faults \in Nat /\ Left(<<t, 0>>) \in 0..2
    BY <2>1, LeftTyped, BoundsAssumption DEF QueueInv, DeliveryTypeOK, RecordType, FailureType
  <2> QED BY <2>1, <2>2 DEF Paid
<1> QED BY <1>1, <1>2, <1>3, PTL DEF Spec
=============================================================================
