------------------------ MODULE NotificationDelivery ------------------------
(***************************************************************************)
(* From an event in the outbox to messages at a provider, after            *)
(* apps/api/src/modules/delivery/delivery.service.ts, the status webhook   *)
(* in whatsapp.controller.ts and retryJob() of admin/admin.service.ts.     *)
(* Timers dispatch the event to one BullMQ job per target (recipient and   *)
(* channel); a worker sends and then records the attempt; the provider     *)
(* reports the fate of each message later; an operator may retry a job     *)
(* that failed for good.  A call that fails, whose answer is lost, or      *)
(* whose process dies costs one unit of MaxFaults; the provider may reject *)
(* a message at any time.                                                  *)
(***************************************************************************)
EXTENDS Naturals, FiniteSets

CONSTANTS
    Targets,
    Dispatchers,   \* passes of dispatchOutbox that may overlap
    MaxAttempts,   \* BullMQ attempts of a job; 5 in the code
    MaxManual,     \* bound: operator retries per target
    MaxFaults,     \* bound: failed calls, lost answers, dead processes
    MaxReports,    \* bound: status reports posted to the webhook
    MaxMessages    \* bound: messages per target; not reached by the runs

ASSUME BoundsAssumption ==
    /\ MaxAttempts \in Nat \ {0} /\ MaxMessages \in Nat \ {0}
    /\ MaxManual \in Nat /\ MaxFaults \in Nat /\ MaxReports \in Nat

VARIABLES
    reachable,     \* reachable[t]: channel configured and address known
    \* the outbox row: processedAt is set; availableAt has come
    processed, available,
    pass,          \* dispatch passes: where they are and the targets left
    \* BullMQ: job <<t, 0>> is the event's, <<t, n>> the n-th manual retry
    job,
    run,           \* the attempt a worker makes of a job, and its message
    \* the provider: messages accepted and what became of them
    sent, fate,
    \* whatsapp_messages.status and notification_delivery_attempts
    messages, attempts,
    failures,      \* background_job_failures by job id
    operator,      \* the failed job an operator has requeued, not yet marked
    faults, posts

outboxVars   == <<processed, available, pass>>
providerVars == <<sent, fate>>
recordVars   == <<messages, attempts>>
failureVars  == <<failures, operator>>
vars == <<reachable, outboxVars, job, run, providerVars, recordVars, failureVars,
          faults, posts>>

JobId   == Targets \X (0..MaxManual)
Message == 1..MaxMessages
NoMessage == 0
NoJob   == [state |-> "none", tries |-> 0, stalls |-> 0]
NoRun   == [pc |-> "idle", msg |-> NoMessage]
NoAttempt == [status |-> "none", msg |-> NoMessage]

Fault   == faults < MaxFaults /\ faults' = faults + 1
NoFault == faults' = faults

Init ==
    /\ reachable \in [Targets -> BOOLEAN]
    /\ processed = FALSE /\ available = TRUE
    /\ pass = [d \in Dispatchers |-> [pc |-> "idle", todo |-> {}]]
    /\ job = [j \in JobId |-> NoJob]
    /\ run = [j \in JobId |-> NoRun]
    /\ sent = [t \in Targets |-> 0]
    /\ fate = [t \in Targets |-> [m \in Message |-> {}]]
    /\ messages = [t \in Targets |-> [m \in Message |-> "none"]]
    /\ attempts = [t \in Targets |-> [a \in 1..MaxAttempts |-> NoAttempt]]
    /\ failures = [j \in JobId |-> "none"]
    /\ operator = {}
    /\ faults = 0 /\ posts = 0

-----------------------------------------------------------------------------
(* dispatchOutbox *)

PassAt(d, l, S) == pass' = [pass EXCEPT ![d] = [pc |-> l, todo |-> S]]

DispatchRead(d) ==
    /\ pass[d].pc = "idle" /\ ~processed /\ available
    /\ PassAt(d, "add", Targets)
    /\ UNCHANGED <<reachable, processed, available, job, run, providerVars, recordVars,
                   failureVars, faults, posts>>

AlwaysAdd(j) == TRUE                    \* a slip: the job id is not stable
(* BullMQ ignores a job whose id exists, finished or not *)
IsNewJob(j) == job[j].state = "none"

QueueAdd(j) == job' = [job EXCEPT ![j] = IF IsNewJob(j) THEN [NoJob EXCEPT !.state = "waiting"]
                                         ELSE @]

SwallowError == "done"                  \* a slip: the error is only logged
AfterError   == "postpone"

DispatchAdd(d) ==
    /\ pass[d].pc = "add" /\ pass[d].todo # {}
    /\ \/ /\ NoFault
          /\ \E t \in pass[d].todo :
                QueueAdd(<<t, 0>>) /\ PassAt(d, "add", pass[d].todo \ {t})
       \/ Fault /\ job' = job /\ PassAt(d, AfterError, {})
    /\ UNCHANGED <<reachable, processed, available, run, providerVars, recordVars,
                   failureVars, posts>>

DispatchDone(d) ==
    /\ pass[d].pc = "done" \/ pass[d] = [pc |-> "add", todo |-> {}]
    /\ \/ processed' = TRUE /\ NoFault /\ PassAt(d, "idle", {})
       \/ processed' \in {processed, TRUE} /\ Fault /\ PassAt(d, AfterError, {})
    /\ UNCHANGED <<reachable, available, job, run, providerVars, recordVars, failureVars,
                   posts>>

(* availableAt is put off by 30 s *)
DispatchPostpone(d) ==
    /\ pass[d].pc = "postpone"
    /\ PassAt(d, "idle", {})
    /\ \/ available' = FALSE /\ NoFault
       \/ available' = available /\ Fault
    /\ UNCHANGED <<reachable, processed, job, run, providerVars, recordVars, failureVars,
                   posts>>

DispatchDies(d) ==
    /\ pass[d].pc # "idle" /\ Fault
    /\ PassAt(d, "idle", {})
    /\ UNCHANGED <<reachable, processed, available, job, run, providerVars, recordVars,
                   failureVars, posts>>

BecomesAvailable ==
    /\ ~available /\ available' = TRUE
    /\ UNCHANGED <<reachable, processed, pass, job, run, providerVars, recordVars,
                   failureVars, faults, posts>>

-----------------------------------------------------------------------------
(* deliver: one attempt of job j = <<t, n>> *)

Goto(j, l) == run' = [run EXCEPT ![j].pc = l]
Number(j)  == job[j].tries + 1
Free(j)    == attempts[j[1]][Number(j)].status = "none"

Fetch(j) ==
    /\ job[j].state = "waiting" /\ run[j].pc = "idle"
    /\ job' = [job EXCEPT ![j].state = "active"]
    /\ run' = [run EXCEPT ![j] = [pc |-> "send", msg |-> NoMessage]]
    /\ UNCHANGED <<reachable, outboxVars, providerVars, recordVars, failureVars, faults,
                   posts>>

Accept(t) ==
    /\ sent[t] < MaxMessages
    /\ sent' = [sent EXCEPT ![t] = @ + 1]
    /\ fate' = [fate EXCEPT ![t][sent[t] + 1] = {"SENT"}]

Sendable(j) == reachable[j[1]]

Send(j) ==
    /\ run[j].pc = "send"
    /\ \/ ~Sendable(j) /\ Goto(j, "record") /\ NoFault /\ UNCHANGED providerVars
       \/ /\ Sendable(j)
          /\ \/ Goto(j, "fail") /\ NoFault /\ UNCHANGED providerVars
             \/ Accept(j[1]) /\ Goto(j, "fail") /\ Fault
             \/ /\ Accept(j[1]) /\ NoFault
                /\ run' = [run EXCEPT ![j] = [pc |-> "log", msg |-> sent'[j[1]]]]
    /\ UNCHANGED <<reachable, outboxVars, job, recordVars, failureVars, posts>>

(* The row of whatsapp_messages *)
Log(j) ==
    /\ run[j].pc = "log"
    /\ \/ /\ Goto(j, "record") /\ NoFault
          /\ messages' = [messages EXCEPT ![j[1]][run[j].msg] = "SENT"]
       \/ Goto(j, "fail") /\ Fault /\ messages' = messages
    /\ UNCHANGED <<reachable, outboxVars, job, providerVars, attempts, failureVars, posts>>

SaveAttempt(j, status, m) ==
    attempts' = [attempts EXCEPT ![j[1]][Number(j)] = [status |-> status, msg |-> m]]

(* The key of an attempt is unique per target and number: the insert fails *)
(* when the number is taken, and the attempt counts as failed              *)
Record(j) ==
    /\ run[j].pc = "record"
    /\ LET status == IF run[j].msg = NoMessage THEN "DISABLED" ELSE "SENT"
       IN \/ Free(j) /\ SaveAttempt(j, status, run[j].msg) /\ Goto(j, "ok") /\ NoFault
          \/ /\ Free(j) /\ Fault /\ Goto(j, "fail")
             /\ SaveAttempt(j, status, run[j].msg) \/ attempts' = attempts
          \/ ~Free(j) /\ attempts' = attempts /\ Goto(j, "fail") /\ NoFault
    /\ UNCHANGED <<reachable, outboxVars, job, providerVars, messages, failureVars, posts>>

(* The catch block: its own insert may fail as well; it rethrows *)
RecordError(j) ==
    /\ run[j].pc = "fail" /\ Goto(j, "error")
    /\ \/ Free(j) /\ SaveAttempt(j, "FAILED", NoMessage) /\ NoFault
       \/ Free(j) /\ attempts' = attempts /\ Fault
       \/ ~Free(j) /\ attempts' = attempts /\ NoFault
    /\ UNCHANGED <<reachable, outboxVars, job, providerVars, messages, failureVars, posts>>

AfterTries(tries) == IF tries < MaxAttempts THEN "delayed" ELSE "failed"

BeyondLast(tries) == tries > MaxAttempts       \* a slip
Exhausted(tries)  == tries >= MaxAttempts

(* BullMQ takes the result and emits the failed event, which calls          *)
(* recordPermanentFailure when no attempt is left                          *)
Settle(j) ==
    /\ run[j].pc \in {"ok", "error"}
    /\ IF run[j].pc = "ok"
       THEN job' = [job EXCEPT ![j].state = "completed"] /\ run' = [run EXCEPT ![j] = NoRun]
       ELSE LET tries == Number(j)
            IN /\ job' = [job EXCEPT ![j].state = AfterTries(tries), ![j].tries = tries]
               /\ run' = [run EXCEPT ![j] = IF Exhausted(tries)
                                            THEN [NoRun EXCEPT !.pc = "report"] ELSE NoRun]
    /\ UNCHANGED <<reachable, outboxVars, providerVars, recordVars, failureVars, faults,
                   posts>>

RecordPermanentFailure(j) ==
    /\ run[j].pc = "report"
    /\ run' = [run EXCEPT ![j] = NoRun]
    /\ \/ failures' = [failures EXCEPT ![j] = "open"] /\ NoFault
       \/ failures' = failures /\ Fault
    /\ UNCHANGED <<reachable, outboxVars, job, providerVars, recordVars, operator, posts>>

WorkerDies(j) ==
    /\ run[j].pc # "idle" /\ Fault
    /\ run' = [run EXCEPT ![j] = NoRun]
    /\ UNCHANGED <<reachable, outboxVars, job, providerVars, recordVars, failureVars, posts>>

(* The first stall puts the job back; a second fails it below its number   *)
(* of attempts, so its failed event records nothing                        *)
Stall(j) ==
    /\ job[j].state = "active" /\ run[j].pc = "idle"
    /\ job' = [job EXCEPT ![j].stalls = 1,
                          ![j].state = IF job[j].stalls = 0 THEN "waiting" ELSE "failed"]
    /\ UNCHANGED <<reachable, outboxVars, run, providerVars, recordVars, failureVars,
                   faults, posts>>

BackoffElapsed(j) ==
    /\ job[j].state = "delayed"
    /\ job' = [job EXCEPT ![j].state = "waiting"]
    /\ UNCHANGED <<reachable, outboxVars, run, providerVars, recordVars, failureVars,
                   faults, posts>>

-----------------------------------------------------------------------------
(* retryJob: requeue, then mark the failure; the id of the manual job      *)
(* counts the retries marked so far                                        *)

RetryQueue(j) ==
    /\ failures[j] # "none" /\ j \notin operator /\ j[2] < MaxManual
    /\ \/ QueueAdd(<<j[1], j[2] + 1>>) /\ operator' = operator \cup {j} /\ NoFault
       \/ QueueAdd(<<j[1], j[2] + 1>>) /\ operator' = operator /\ Fault
    /\ UNCHANGED <<reachable, outboxVars, run, providerVars, recordVars, failures, posts>>

RetryMark(j) ==
    /\ j \in operator
    /\ operator' = operator \ {j}
    /\ \/ failures' = [failures EXCEPT ![j] = "resolved"] /\ NoFault
       \/ failures' = failures /\ Fault
    /\ UNCHANGED <<reachable, outboxVars, job, run, providerVars, recordVars, posts>>

-----------------------------------------------------------------------------
(* The provider reports what became of a message, late, repeatedly, in any *)
(* order or not at all; what it reports, and all before it, has happened   *)

UpTo == [SENT |-> {"SENT"}, DELIVERED |-> {"SENT", "DELIVERED"},
         READ |-> {"SENT", "DELIVERED", "READ"}, FAILED |-> {"SENT", "FAILED"}]

SameMessage(m, other) == other = m

(* webhook: one transaction updates message and attempts, whatever they say *)
Webhook(t, m) ==
    /\ posts < MaxReports /\ posts' = posts + 1
    /\ \E status \in DOMAIN UpTo :
          /\ fate' = [fate EXCEPT ![t][m] = @ \cup UpTo[status]]
          /\ messages' = [messages EXCEPT ![t][m] = IF @ = "none" THEN @ ELSE status]
          /\ attempts' = [attempts EXCEPT ![t] =
                [a \in 1..MaxAttempts |->
                    IF SameMessage(m, attempts[t][a].msg)
                    THEN [attempts[t][a] EXCEPT !.status = status]
                    ELSE attempts[t][a]]]
    /\ UNCHANGED <<reachable, outboxVars, job, run, sent, failureVars, faults>>

-----------------------------------------------------------------------------
Dispatch(d) == DispatchRead(d) \/ DispatchAdd(d) \/ DispatchDone(d) \/ DispatchPostpone(d)
Deliver(j) ==
    \/ Fetch(j) \/ Send(j) \/ Log(j) \/ Record(j) \/ RecordError(j) \/ Settle(j)
    \/ RecordPermanentFailure(j) \/ Stall(j) \/ BackoffElapsed(j)
Retry(j) == RetryQueue(j) \/ RetryMark(j)
Report(t) == \E m \in Message : fate[t][m] # {} /\ Webhook(t, m)

Next ==
    \/ \E d \in Dispatchers : Dispatch(d) \/ DispatchDies(d)
    \/ BecomesAvailable
    \/ \E j \in JobId : Deliver(j) \/ WorkerDies(j) \/ Retry(j)
    \/ \E t \in Targets : Report(t)

Spec == Init /\ [][Next]_vars

(* The timer of every process, the workers and BullMQ's timers keep running *)
FairSpec ==
    /\ Spec
    /\ \A d \in Dispatchers : WF_vars(Dispatch(d))
    /\ WF_vars(BecomesAvailable)
    /\ \A j \in JobId : WF_vars(Deliver(j))

-----------------------------------------------------------------------------
(* Properties *)

Reported == {"SENT", "DELIVERED", "READ"}
(* An event is marked processed only when every target has its job, also    *)
(* when passes overlap, fail half-way or die.                               *)
ProcessedMeansQueued == processed => \A t \in Targets : job[<<t, 0>>].state # "none"

(* A target gets one message; each fault may cost it two more (a worker     *)
(* that dies after recording repeats the attempt, and then the next one).   *)
(* An operator's retry counts its attempts from 1 again, cannot record the  *)
(* message it sends under a number that is taken, and repeats it: from then *)
(* on this does not hold.                                                   *)
DuplicatesNeedFaults ==
    \A t \in Targets :
        (\A n \in 1..MaxManual : job[<<t, n>>].state = "none") => sent[t] <= 1 + 2 * faults

(* Records speak the truth: a status is recorded of a message only after    *)
(* the provider reached it for that very message, an attempt counts as sent *)
(* only with a message, and "Disabled credentials never produce a false     *)
(* sent state".                                                             *)
RecordsAreTrue ==
    \A t \in Targets :
        /\ \A m \in Message : messages[t][m] # "none" => messages[t][m] \in fate[t][m]
        /\ \A a \in 1..MaxAttempts :
              LET r == attempts[t][a]
              IN /\ r.status \in Reported => r.msg # NoMessage
                 /\ r.msg # NoMessage => r.status \in fate[t][r.msg]
                 /\ r.status = "DISABLED" => ~reachable[t]

(* A job that failed for good is kept for the operator; each fault may lose *)
(* one (a worker that dies twice in a job, or between the failure and its   *)
(* record; an insert that fails).                                           *)
FailuresAreKept ==
    Cardinality({j \in JobId : /\ job[j].state = "failed" /\ failures[j] = "none"
                               /\ run[j].pc # "report"}) <= faults

Settled(j) == job[j].state \in {"completed", "failed"}

(* Every target's job is queued and comes to its end, whatever fails.       *)
EventReachesTargets == <>(\A t \in Targets : Settled(<<t, 0>>))
=============================================================================
