---------------------------- MODULE Announcements ----------------------------
(***************************************************************************)
(* One announcement on its way to its readers, after publish(),            *)
(* sendAll(), archive(), unpublish() and createRecipientsInline() of       *)
(* apps/api/src/modules/announcements/announcements.service.ts and the     *)
(* worker in announcements-recipients.processor.ts.  sendAll() claims the  *)
(* announcement in one transaction and leaves the recipients to a BullMQ   *)
(* job, or creates them itself when the queue cannot be reached.  A call   *)
(* that fails, whose answer is lost, or whose process dies or loses the    *)
(* lock of the job costs one unit of MaxFaults.                            *)
(***************************************************************************)
EXTENDS Naturals, FiniteSets

CONSTANTS
    Users,
    Requests,
    Keys,          \* idempotency keys of sendAll
    NoKey,
    Workers,
    NoWorker,
    MaxAttempts,   \* BullMQ attempts of the job; 3 in the code
    MarksMayFail,  \* may the update to FAILED fail as well?
    MaxSends,      \* bound: publications
    MaxFaults      \* bound: failed calls, lost answers, dead processes

ASSUME NothingAssumption == NoKey \notin Keys /\ NoWorker \notin Workers
ASSUME BoundsAssumption ==
    /\ MaxAttempts \in Nat \ {0} /\ MarksMayFail \in BOOLEAN
    /\ MaxSends \in Nat /\ MaxFaults \in Nat

VARIABLES
    status,        \* of the row; the count in totalRecipients is left out
    notified,      \* notification_recipients of the announcement, per user
    receipts,      \* users with a row in announcement_read_receipts
    stored,        \* keys of sendAll in idempotency_keys
    req,           \* what each request is doing and the status it read
    job,           \* BullMQ: the job recipients-<id>
    at,            \* what each worker is doing, and in which attempt
    sends, faults

row   == <<status, notified, receipts>>
queue == <<job, at>>
vars  == <<row, stored, req, queue, sends, faults>>

Idle  == [pc |-> "idle", saw |-> "DRAFT", key |-> NoKey]
NoJob == [state |-> "none", tries |-> 0, stalls |-> 0, holder |-> NoWorker]
Rest  == [pc |-> "idle", try |-> 0]

Outgoing == {"PUBLISHING", "PUBLISHED"}
Fault    == faults < MaxFaults /\ faults' = faults + 1
NoFault  == faults' = faults

(* SCHEDULED is a draft to every operation modelled here *)
Init ==
    /\ status = "DRAFT"
    /\ notified = [u \in Users |-> 0] /\ receipts = {} /\ stored = {}
    /\ req = [r \in Requests |-> Idle]
    /\ job = NoJob /\ at = [w \in Workers |-> Rest]
    /\ sends = 0 /\ faults = 0

-----------------------------------------------------------------------------
(* What a delivery to the users in S writes, in the transaction that        *)
(* claimed the row.  Accounts, roles and scopes change all the time: S may  *)
(* be any set of users whenever it is read                                  *)

Deliver(S) ==
    /\ status' = "PUBLISHED"
    /\ notified' = [u \in Users |-> IF u \in S THEN notified[u] + 1 ELSE notified[u]]
    /\ receipts' = receipts \cup S

ClaimedAny == TRUE                    \* a slip: the row is locked by its id only
Claimed    == status = "PUBLISHING"

(* createRecipientsInline *)
CreateRecipients ==
    \/ Claimed /\ \E S \in SUBSET Users : Deliver(S)
    \/ ~Claimed /\ UNCHANGED row

Goto(r, l) == req' = [req EXCEPT ![r].pc = l, ![r].saw = "PUBLISHING"]
End(r)     == req' = [req EXCEPT ![r] = Idle]
Begin(r, l, k) == /\ req[r].pc = "idle"
                  /\ req' = [req EXCEPT ![r] = [pc |-> l, saw |-> status, key |-> k]]

(* Every conditional update but unpublish() compares the status it read *)
Unchanged(r) == status = req[r].saw

-----------------------------------------------------------------------------
(* publish: everything in one transaction *)

PublishRead(r) ==
    /\ status \notin Outgoing /\ Begin(r, "publish", NoKey)
    /\ UNCHANGED <<row, stored, queue, sends, faults>>

PublishCommit(r) ==
    /\ req[r].pc = "publish" /\ End(r)
    /\ \/ /\ Unchanged(r) /\ sends < MaxSends /\ sends' = sends + 1
          /\ \E S \in (SUBSET Users) \ {{}} : Deliver(S)
       \/ UNCHANGED <<row, sends>>   \* it changed, or nobody is selected
    /\ UNCHANGED <<stored, queue, faults>>

-----------------------------------------------------------------------------
(* sendAll *)

SendRead(r, k) ==
    /\ k \notin stored                \* else the stored answer is returned
    /\ status \notin Outgoing /\ Begin(r, "claim", k)
    /\ UNCHANGED <<row, stored, queue, sends, faults>>

KeyFree(k) == k \notin stored         \* unique key, in the same transaction

SendClaim(r) ==
    /\ req[r].pc = "claim"
    /\ IF Unchanged(r) /\ KeyFree(req[r].key)
       THEN /\ sends < MaxSends /\ sends' = sends + 1
            /\ status' = "PUBLISHING" /\ UNCHANGED <<notified, receipts>>
            /\ stored' = stored \cup ({req[r].key} \ {NoKey})
            /\ Goto(r, "queue")
       ELSE End(r) /\ UNCHANGED <<row, stored, sends>>
    /\ UNCHANGED <<queue, faults>>

(* BullMQ ignores a job whose id exists; a failed job is kept, a completed *)
(* one is removed                                                          *)
AddJob == job' = IF job.state = "none" THEN [NoJob EXCEPT !.state = "waiting"] ELSE job

SendQueue(r) ==
    /\ req[r].pc = "queue"
    /\ \/ AddJob /\ End(r) /\ NoFault
       \/ (AddJob \/ job' = job) /\ Goto(r, "inline") /\ Fault
    /\ UNCHANGED <<row, stored, at, sends>>

SendInline(r) ==
    /\ req[r].pc = "inline"
    /\ \/ CreateRecipients /\ End(r) /\ NoFault
       \/ (CreateRecipients \/ UNCHANGED row) /\ Goto(r, "mark") /\ Fault
    /\ UNCHANGED <<stored, queue, sends>>

(* FAILED, whoever sent what is being published; K are the keys forgotten *)
Fail(K) ==
    IF status = "PUBLISHING"
    THEN status' = "FAILED" /\ stored' = stored \ K /\ UNCHANGED <<notified, receipts>>
    ELSE UNCHANGED <<row, stored>>
FailingMark == MarksMayFail /\ Fault /\ UNCHANGED <<row, stored>>

SendMark(r) ==
    /\ req[r].pc = "mark" /\ End(r)
    /\ \/ Fail({req[r].key}) /\ NoFault
       \/ FailingMark
    /\ UNCHANGED <<queue, sends>>

SenderDies(r) ==
    /\ req[r].pc \in {"queue", "inline", "mark"} /\ End(r) /\ Fault
    /\ UNCHANGED <<row, stored, queue, sends>>

-----------------------------------------------------------------------------
(* archive, unpublish *)

ArchiveRead(r) ==
    /\ status # "PUBLISHING" /\ Begin(r, "archive", NoKey)
    /\ UNCHANGED <<row, stored, queue, sends, faults>>

ArchiveCommit(r) ==
    /\ req[r].pc = "archive" /\ End(r)
    /\ IF Unchanged(r)
       THEN /\ status' = "ARCHIVED" /\ notified' = [u \in Users |-> 0]
            /\ UNCHANGED receipts
       ELSE UNCHANGED row
    /\ UNCHANGED <<stored, queue, sends, faults>>

UnpublishRead(r) ==
    /\ status = "PUBLISHED" /\ Begin(r, "unpublish", NoKey)
    /\ UNCHANGED <<row, stored, queue, sends, faults>>

(* By the id alone *)
UnpublishCommit(r) ==
    /\ req[r].pc = "unpublish" /\ End(r)
    /\ status' = "UNPUBLISHED"
    /\ UNCHANGED <<notified, receipts, stored, queue, sends, faults>>

-----------------------------------------------------------------------------
(* The worker's process(), and BullMQ *)

Step(w, l) == at' = [at EXCEPT ![w].pc = l]

Fetch(w) ==
    /\ job.state = "waiting" /\ at[w].pc = "idle"
    /\ job' = [job EXCEPT !.state = "active", !.holder = w]
    /\ at' = [at EXCEPT ![w] = [pc |-> "read", try |-> job.tries]]
    /\ UNCHANGED <<row, stored, req, sends, faults>>

TerminalLate(try)    == try >= MaxAttempts      \* a slip: attemptsMade counts this one
IsTerminalAttempt(try) == try + 1 >= MaxAttempts
Catch(w) == IF IsTerminalAttempt(at[w].try) THEN "catch" ELSE "error"

WorkerRead(w) ==
    /\ at[w].pc = "read"
    /\ \/ Step(w, IF status = "PUBLISHING" THEN "create" ELSE "ok") /\ NoFault
       \/ Step(w, Catch(w)) /\ Fault
    /\ UNCHANGED <<row, stored, req, job, sends>>

WorkerCreate(w) ==
    /\ at[w].pc = "create"
    /\ \/ CreateRecipients /\ Step(w, "ok") /\ NoFault
       \/ (CreateRecipients \/ UNCHANGED row) /\ Step(w, Catch(w)) /\ Fault
    /\ UNCHANGED <<stored, req, job, sends>>

WorkerCatch(w) ==
    /\ at[w].pc = "catch" /\ Step(w, "error")
    /\ \/ Fail(Keys) /\ NoFault
       \/ FailingMark
    /\ UNCHANGED <<req, job, sends>>

AfterError(j) ==
    [j EXCEPT !.tries = @ + 1, !.holder = NoWorker,
              !.state = IF j.tries + 1 < MaxAttempts THEN "delayed" ELSE "failed"]

(* The result counts only from the holder of the job's lock *)
Settle(w) ==
    /\ at[w].pc \in {"ok", "error"}
    /\ at' = [at EXCEPT ![w] = Rest]
    /\ job' = IF job.state # "active" \/ job.holder # w THEN job
              ELSE IF at[w].pc = "ok" THEN NoJob ELSE AfterError(job)
    /\ UNCHANGED <<row, stored, req, sends, faults>>

WorkerDies(w) ==
    /\ at[w].pc # "idle" /\ Fault
    /\ at' = [at EXCEPT ![w] = Rest]
    /\ UNCHANGED <<row, stored, req, job, sends>>

(* The lock of a dead worker expires, or that of a live one for once; the  *)
(* second time the job fails, and no attempt sees it                       *)
Stall ==
    /\ job.state = "active"
    /\ \/ at[job.holder].pc = "idle" /\ NoFault
       \/ at[job.holder].pc # "idle" /\ Fault
    /\ job' = [job EXCEPT !.stalls = @ + 1, !.holder = NoWorker,
                          !.state = IF job.stalls = 0 THEN "waiting" ELSE "failed"]
    /\ UNCHANGED <<row, stored, req, at, sends>>

BackoffElapsed ==
    /\ job.state = "delayed" /\ job' = [job EXCEPT !.state = "waiting"]
    /\ UNCHANGED <<row, stored, req, at, sends, faults>>

-----------------------------------------------------------------------------
Send(r) == SendClaim(r) \/ SendQueue(r) \/ SendInline(r) \/ SendMark(r)
Withdraw(r) == ArchiveRead(r) \/ ArchiveCommit(r) \/ UnpublishRead(r) \/ UnpublishCommit(r)
Work(w) == Fetch(w) \/ WorkerRead(w) \/ WorkerCreate(w) \/ WorkerCatch(w) \/ Settle(w)

Next ==
    \/ \E r \in Requests :
          \/ PublishRead(r) \/ PublishCommit(r)
          \/ \E k \in Keys \cup {NoKey} : SendRead(r, k)
          \/ Send(r) \/ SenderDies(r) \/ Withdraw(r)
    \/ \E w \in Workers : Work(w) \/ WorkerDies(w)
    \/ Stall \/ BackoffElapsed

Spec == Init /\ [][Next]_vars

(* The workers and BullMQ's timers keep running *)
FairSpec ==
    /\ Spec
    /\ \A w \in Workers : WF_vars(Work(w))
    /\ WF_vars(Stall /\ NoFault) /\ WF_vars(BackoffElapsed)

-----------------------------------------------------------------------------
(* Properties *)

(* The announcement keeps the promise of AnnouncementLifecycle: however     *)
(* the queue, retries, the inline fallback and a worker that lost its lock  *)
(* overlap, one decision to send notifies everyone at most once, in one     *)
(* step, and nobody after the sending failed or was withdrawn.              *)
Lifecycle == INSTANCE AnnouncementLifecycle WITH phase <- status, spent <- stored
ImplementsLifecycle == Lifecycle!Spec

(* While its job waits in the queue, a sending comes to an end (delivered,  *)
(* failed or withdrawn), though attempts fail and workers die, unless       *)
(* BullMQ gives the job up because it stalled twice.                        *)
SendingSettles ==
    (status = "PUBLISHING" /\ job.state \in {"waiting", "delayed"})
      ~> (status # "PUBLISHING" \/ job.stalls = 2)
=============================================================================
