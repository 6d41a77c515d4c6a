# AVSEC-ISSUES: a TLA+ model of the campus platform's API

The system is a campus-operations platform: a NestJS API (`src/apps/api`) over PostgreSQL (Prisma),
Redis (BullMQ queues) and object storage (S3/MinIO), with a Next.js and a Flutter client. The clients keep
no state of record; every rule about reports, imports, attendance or notifications is decided in the API.
This directory models the API's state machines in TLA+, checks them with TLC on small instances and proves
the most important facts with TLAPS for all instances.

All paths below are relative to `src/apps/api/src/modules/` unless they start with `src/`.

## 1. Inventory

| Component | State it keeps | Operations that change it | What is hard |
|---|---|---|---|
| Bulk imports (`imports/`) | `import_jobs` row (status, attempt token, source key, pending and final report key), ledger `import_job_records`, workbook and reports in S3, a BullMQ job | preview, confirm, cancel, rollback, `process()` per attempt, `runImportMaintenance` | several attempts alive at once, crashes, answers lost after a commit, cleanup that may fail, S3 and PostgreSQL not atomic |
| Issue workflow (`issues/`) | `issues` (status, version), status history, resolution, outbox | `status`, `assign`, `finish`, `verify`, `addTimeline` | read-decide-commit with other requests in between; unique event keys over a long life |
| Issue reporting (`issues/`, `common/idempotency`) | `issues`, affected users, occurrences, counters, idempotency keys | `create`, `subscribe` | retries that overtake each other, duplicate search outside the transaction |
| Issue escalation (`delivery/`) | `escalationLevel`, `issue_escalations` | `escalateOverdue` every 5 s in every process | overlapping scans, a bounded batch |
| Notification delivery (`delivery/`) | `outbox_events`, BullMQ jobs, `notification_deliveries` attempts, failed jobs | `dispatchOutbox`, `deliver`, `recordPermanentFailure`, `retryFailure`, WhatsApp status webhook | at-least-once queue, send not atomic with its record, status events out of order |
| Attendance (`attendance/`) | sessions (version, lock), records, history, corrections, idempotency keys | create, draft, submit, correction request and review, lock | offline clients with old rosters, retries, windows that close |
| Announcements (`announcements/`) | announcement status, notifications and receipts per user, keys, a BullMQ job | publish, sendAll, archive, unpublish, recipient worker | queue, inline fallback and a worker that lost its lock deliver the same announcement while it is withdrawn |
| Authentication (`auth/`) | sessions, refresh tokens, reset links, an in-memory cache of access | login, refresh, revoke, change and reset password, the check of every request | rotation races, reuse detection, a cache filled while the account changes |
| Accounts (`users/`) | `users.status`, `user_roles` with dates, scopes | status, updateAccess, addRole, removeRole | administrators acting on one another at once |
| Conversations and broadcasts (`conversations/`) | messages, receipts, broadcast jobs | send, retry, cancel | idempotent retry, cancel racing the sender |
| Storage (`storage/`), Google Drive (`google-drive/`) | file rows, objects, OAuth connection | two-step upload, delete, cleanup | rows and objects drift apart |
| Backups (`backups/`) | backup rows, file rows, encrypted files on Drive, restore tests | make a backup, restore test, verify, delete under the retention rule | many calls of Drive and the database with no lock between them |
| Data maintenance (`admin/`) | maintenance jobs with the backup they rely on | analyse, register a backup, execute | the backup may be corrupted or deleted meanwhile |
| Students' promotion, section placement (`academic/`) | previews, enrolments | preview, confirm | roster changed since the preview |
| AI (`ai/`) | usage rows | begin, complete | quota under concurrency |
| Directory, locations, QR, feedback, learning, admin, reports, audit | rows | CRUD in one transaction each | little beyond what a unit test reaches |

How they interact. Controllers call services; services write PostgreSQL in transactions. Issues,
announcements and others put rows into `outbox_events` inside their transaction; the delivery service polls
that table and puts one BullMQ job per recipient and channel; its worker calls the provider. Imports and
announcements have queues of their own. Data maintenance relies on rows that the backup service writes, the
check of every request on rows the sign-in and user services write: these two pairs are modelled composed.
Only the import pipeline and storage write S3. There is no lock
service: all mutual exclusion is by compare-and-set (`updateMany` on a status, token or version), by unique
keys, or by a row lock held in a transaction. That is why nearly every property below is about one of these
three devices holding, or being absent.

`PROJECT.json` lists every component with its status, and every hazard at its line with the properties that
cover it.

## 2. Modules

| Module | Models | State and actions |
|---|---|---|
| `ImportJob` | `imports/imports.service.ts`, one job | the row (`status, token, pending, result, sourceKey`), the ledger, S3 (`source, reports, content`), the BullMQ job (`queue`), a program counter per worker, request and maintenance. One action per transaction or storage/queue call, named after the place in the code |
| `ImportLifecycle` | what an import promises | abstract specification: one status graph, rows once, an exact report |
| `ImportJobProofs` | | theorems about `ImportJob` |
| `IssueWorkflow` | `issues.service.ts` status, assign, finish, verify, addTimeline, one issue | a `...Read` action that takes what the request sees, and a `...Commit` action that is its transaction |
| `IssueReporting` | `issues.service.ts` create, subscribe; `idempotency.service.ts` | `Replay`, `Search`, then `Link` or `Create`; `SubscribeRead`, `SubscribeCommit` |
| `IssueEscalation` | `delivery.service.ts` escalateOverdue | `ScanRead`, `ScanCheck`, `ScanWrite` per scan, time and staff |
| `IssueProofs` | | theorems about these three |
| `NotificationDelivery` | `delivery.service.ts` (outbox dispatch, delivery, permanent failures), `whatsapp.controller.ts`, `retryJob` of `admin.service.ts` | one event: its outbox row (`processed`, `available`), the passes over it, BullMQ jobs (`job`), the attempt a worker is making (`run`), the provider (`sent`, `fate`) and the records (`messages`, `attempts`, `failures`). `Dispatch...`, then per job `Fetch`, `Send`, `Log`, `Record`, `RecordError`, `Settle`, `RecordPermanentFailure`, `Stall`; `RetryQueue`, `RetryMark`; `Webhook` |
| `AttendanceSession` | `attendance.service.ts` roster, draft, submit, corrections, lock; archiving in `admin/data-maintenance.service.ts`; what the web panel sends | one session: its row (`status, version, overdue, archived`), `record` and `history` per student, corrections, idempotency keys, the roster each panel shows (`form`). `...Read` and `...Commit` per operation; `roster()` itself is two reads |
| `BackupLifecycle` | `backups/backups.service.ts` making, restore tests, verify, `deleteEligible`; `requireVerifiedBackup` of `admin/data-maintenance.service.ts` | `status`, `doneAt`, file rows and objects of each backup, where its maker is, the restore tests and their testers, verifications and deletions under way. One action per database or Drive call |
| `DataMaintenance` | `admin/data-maintenance.service.ts` dryRun, registerBackup, execute | EXTENDS `BackupLifecycle`: maintenance jobs and the requests on them run among its actions |
| `SessionRows` | what the session rows of an account promise to their readers | abstract specification: sessions end for good, tokens stay in their session, administration ends all sessions |
| `AccountSessions` | `auth/auth.service.ts` login, refresh, revokeSession, revokeOtherSessions, changePassword, forgotPassword, resetPassword; administration by `users.service.ts` as one step | `session`, `token`, `link`, and per request where it is and what it has read. `SessionsAreRows` is its refinement of `SessionRows` |
| `AccessCache` | `auth/jwt.strategy.ts` validate | EXTENDS `SessionRows`: `cache` per access token, and per check where it is: `Miss`, `Load`, `Store`, or `Hit` |
| `AccountAdmin` | `users/users.service.ts` status, updateAccess, addRole, removeRole | `account`, `row` per user and role, `request`: `Arrive` judges by what holds then, the committing action judges again |
| `AnnouncementLifecycle` | what sending an announcement promises | abstract specification: nobody is notified twice by one sending, all in one step, nobody after it failed or was withdrawn; a key is carried out once |
| `Announcements` | `announcements/announcements.service.ts` publish, sendAll, createRecipientsInline, archive, unpublish; `announcements-recipients.processor.ts` | the row (`status, notified, receipts`), keys, a program counter per request, the BullMQ job and a program counter per worker |
| `NotificationDeliveryProofs`, `AttendanceSessionProofs`, `DataMaintenanceProofs`, `AccountSessionsProofs`, `AnnouncementsProofs` | | theorems about the module of the name |
| `AccessProofs` | | theorems about `AccessCache` and `AccountAdmin` |
| `MC...` | | model values and symmetry for TLC; `MCDataMaintenance` also says which part of its space is explored (`MCSpec`) |

Why a step is a transaction: PostgreSQL runs at READ COMMITTED (Serializable where the code asks), so a
`findFirst` outside a transaction and the transaction that follows are two steps, with anything in between.
Inside a transaction a conditional update is atomic with what it compares. Where a transaction is held
across an S3 call (import finalization, removal of pending reports), the row lock is a variable or the
call is one step.

"A slip" marks a definition that no action uses: it is the mistake a run must notice when it replaces the
definition below it (the mutants of `PROJECT.json`).

### Assumptions of the models

Imports:
- jobs are keyed by their id in every where-clause, so one job is the state space;
- a worker's name stands for the attempt token, a fresh random UUID in the code, and for the report key
  derived from it; a worker runs one attempt at a time;
- a source expires only after the preview request is over (the shortest lifetime is 30 minutes);
- one maintenance pass at a time; `ensureQueueJobScheduled` and `removeInactiveQueueJob` are one step each;
- `MaxAttempts` is 2 in the runs where the code has 3; `maxStalledCount` is BullMQ's default 1;
- parsing, validation counters, audit rows and the contents of records are left out; a row either has records
  (counted by the ledger) or has not;
- the finalization transaction may time out at any time (`TxTimeout`), and its S3 write goes on and may still
  store the report. A timeout costs a fault unless the attempt has lost its BullMQ lock before: one delay costs
  it both.

Issues:
- permissions are left out: some authorized user exists for every operation, so the models allow more than
  the guards do;
- timeline rows are abstracted to the version they increment; photos to the fact that `finish` needs one;
- escalation: the recipient of each level exists, and a scan takes less than the quiet hour. The deadlines of
  an SLA policy are fixed when the issue is reported (`issues/issues.service.ts:232`), and an acknowledgement
  matters only to an issue that has them; a promised completion passes, and `addTimeline` moves it on
  (line 328), as often as one likes;
- reporting: one place and category, so every open issue is a duplicate candidate.

Delivery:
- one event; events share no state but the queue's memory of finished jobs, and BullMQ is taken to
  remember the id of a job until its event is processed (`removeOnComplete` keeps 500);
- a channel is configured, and the address known, for good or not at all (`reachable`);
- sends, inserts and queue calls fail, or their answers are lost, at the cost of one fault each; a message the
  provider rejects costs none;
- the lock of a job is lost only when its worker dies; the second stall fails the job (`maxStalledCount` 1);
- `MaxAttempts` is 2 in the runs where the code has 5.

Attendance:
- the roster of the section is fixed; codes stand for status, half day and note together;
- `Sendable` is what the web panel does: it sends the version it has loaded with the marks it shows. A draft
  may carry some of the students, a submission carries all;
- the guards on who may mark, request and review are left out, as is the rule that nobody reviews a request
  of their own;
- the lock may be applied by any reader at any time once the window has passed;
- an idempotency key outlives the retries that use it.

Backups and maintenance:
- the production set-up: every backup goes to Drive, all belong to one college; a time stamp is the value of
  a clock that advances when one is taken;
- an error and a crash cost one fault each, wherever they happen, and leave done what was done;
- `DeletesAtWork` is FALSE: nobody asks to delete a backup that is still being made (see below);
- backups made before the deletion of a college (`PRE_DELETION`), the older `.avsbak` format, local files and
  the scheduler are left out; `createBackup` is not called by anything.

Sessions and access:
- one account; its administration (status, roles, password reset by an administrator) is one step, as its
  transaction is serializable;
- sessions and tokens expire only where a refresh notices (`Lapses`); the lockout after failed attempts, the
  flag that a password must be changed, what a password is, and audit rows are left out;
- statements of one READ COMMITTED transaction are taken together when the first of them locks the row;
- in `AccessCache` `Ttl` counts ticks of a clock per entry, and a token stands for the pair `createTokens` signs.

Accounts:
- permissions of roles are left out; what remains of the guards are rank, self, status and the checks on
  the last Super Admin. A role's dates are abstracted to where the time stands (later, valid, dated, over);
- only the four operations of the table are modelled, and `EveryoneHasRole` and `NoRequestEndsTheLastSuper`
  speak of these. `deletePermanently` (`users/users.service.ts:4540`) may archive a student whose row stays and
  then deletes all its role rows (line 4769), as it means to.

Announcements:
- one announcement, since every where-clause names its id. The users an audience selects change all the time,
  so a delivery may find any set of them;
- a call that fails, an answer that is lost and a process that dies cost one fault each. The update to FAILED
  is taken to succeed (`MarksMayFail` is FALSE in the run);
- BullMQ as in the delivery model; the lock of a live worker may be lost too, at the cost of a fault;
- `MaxAttempts` is 2 in the run where the code has 3.

## 3. Runs

| Run | Question | Instance and bounds |
|---|---|---|
| `import_recovery` | do crashes, stalls, timeouts, retries and lost answers ever cost a report or a workbook, and who completes the job? | 2 workers, 1 row, 2 faults |
| `import_liveness` | does a confirmed import settle, are temporary objects reclaimed, and does the pipeline implement `ImportLifecycle`? | 2 workers, 1 row, 1 fault |
| `issue_workflow` | do concurrent decisions ever act on a stale issue? | 2 requests, versions up to 6 |
| `issue_reporting` | once per key, equal answers, exact counters | 3 requests (two under one key), 2 users, 2 issues, 1 resend |
| `escalation_overlap` | are levels gapless, does an issue rise once an hour, and is the top reached? | 2 issues (one more urgent, the other under an SLA policy), 2 scans, a batch of 1 |
| `delivery` | is a target forgotten, or served twice without a fault; is a failed job kept, and does every job come to its end? | 1 target, 2 passes, 2 attempts, 1 manual retry, 1 fault, 2 status reports |
| `attendance_sheet` | are marks lost, histories wrong, locked sheets edited? | 1 student, 2 panels, 2 codes, 2 keys, 2 corrections, versions up to 4 |
| `maintenance_safe` | does a whole backup remain, is an accepted one proven, is a maintenance run covered? | 3 backups and 2 deletions at once; 2 backups, 2 restore tests, 1 verification or deletion, 1 job; 1 file, 1 fault in both |
| `account_sessions` | are tokens and links used once, is reuse only recorded when it was, does a session that ended stay ended, and do the rows behave as `SessionRows`? | 2 sessions, 3 tokens, 1 link, 2 requests |
| `access_cache` | is what is kept for a live session current, and do changes of roles reach everybody? | 2 sessions, 2 tokens, 2 checks, entries kept 2 ticks, 2 changes of the account, 1 of its roles |
| `account_admin` | can requests take the last Super Admin, or a user's last role? | 2 users, 2 requests, 2 roles, 5 changes |
| `announcement_sending` | does the announcement implement `AnnouncementLifecycle`, and does a queued sending end? | 1 user, 2 requests, 1 key or none, 2 workers, 2 attempts, 2 sendings, 2 faults |

All pass: every instance is explored completely, but that of `maintenance_safe` (below). Type invariants that
are proved (section 4) are not checked again by a run.

Why the bounds are enough. Two workers are the least that can overlap, and a third can only repeat what one of
the two does, because all fences compare against one token. Two faults allow a failure and a failure of its
recovery. One row suffices for the report and for a row that is retried; what is said about rows is proved for
any set of them. Six versions let an issue be finished, rejected, worked on and finished again. Two issues and a
batch of one let the more urgent issue crowd the other out of the batch, and let each scan hold another issue.
One target suffices for delivery: each property speaks of one target, and a pass that fails before or after it
served another target looks to this one like a pass that failed before its call, or after it and before
`DispatchDone`, and both are in the run. Two status reports can arrive in either order. One student suffices for
attendance, since an edit treats each student alike. `maintenance_safe` explores the union of two spaces, whose
product is out of TLC's reach (`MCSpec`). In one, three backups are made and fail at any time while two
verifications or deletions run at once: one may go on behind a backup that was the newest when it began, while the
other removes that one behind a third completed since. In the other, two backups made one after the other are tested,
verified and deleted, one at a time, around a maintenance job. What deletions at once and tests together, more
tests and more files could add is excluded by the proofs, which speak of `MaintenanceSpec` and bound nothing.
Three tokens are a token, the one it is exchanged for, and one a second request would get. Two roles are the
Super Admin and one below. One user suffices for announcements, as a delivery writes all its users in one step;
two faults use up both attempts, or stall the job twice; two sendings let a request of the first, still under
way, meet the second. `import_recovery` allows more faults than `import_liveness` because liveness checking is
slower. Both keep `LostPreview` FALSE. Deadlock is not checked where requests are bounded and the system may
have nothing left to do.

### What the properties leave out, and why

Some properties are stated with an exception, because the code does not promise the case. TLC finds a
counterexample to each when the exception is dropped; they are recorded as hazards in `PROJECT.json`.

- `DecisionsAreFresh` leaves out `finish()`, which updates the issue by its id alone: an issue cancelled
  between the read and the transaction is moved to verification (`issues/issues.service.ts:353`).
- `ReportsTracked` and `OrphanReportsReclaimed` except a report whose write outlives its transaction. The 30 s
  limit (`imports/imports.service.ts:1719`) releases the row while the report is being written; if the worker has
  also lost its BullMQ lock, a recovery takes the token and clears the reserved key, the report is stored after
  that, and the commit fails. No column names the report then, and it stays for ever, although the comment at
  line 1656 says that a takeover cannot pass until report and completion commit or roll back together.
  `CompletesAsOwner` says what holds nevertheless: the attempt that was overtaken does not complete the job.
- `OneLevelPerHour` allows that a level is notified twice within the hour: with an acknowledgement between
  their reads, two scans escalate one level under keys of different kinds (`delivery/delivery.service.ts:132`).
- `OverdueReachesTop` excepts an issue that is crowded out: overdue issues at the top level are read first and
  skipped afterwards, so a whole batch of them hides the others (`delivery/delivery.service.ts:126`). It speaks of
  an issue that stays overdue, which one overdue by its promised completion alone does not when the promise is
  revised (`issues/issues.service.ts:328`).
- That the status of a message only advances is not claimed: the webhook writes whatever it is given, so a late
  report turns READ into DELIVERED (`delivery/whatsapp.controller.ts:30`). That each recorded status was true of
  its message is proved (`TruthfulRecords`), and no run repeats it.
- `FailuresAreKept` excuses as many failed jobs as there were faults: recording one may fail, its process may die
  first, and a job that stalled twice is not recorded (`delivery/delivery.service.ts:48`).
- `DuplicatesNeedFaults` holds until an operator retries: a manual retry counts its attempts from 1 again, meets
  the keys of the rejected ones and repeats a message the provider has accepted (`delivery/delivery.service.ts:163`).
- `FreshDecisionSucceeds` leaves out `finish()`: its outbox key has no version, so an issue that was finished,
  rejected and worked on again can never be finished again (`issues/issues.service.ts:355`, against line 338).
- `EditsAreFresh` leaves out approved corrections, which do not advance the version of the session: a roster
  loaded before one still passes for current and a resubmission undoes the correction unseen
  (`attendance/attendance.service.ts:453`, against the message at line 178).
- `SourceKeptWhileUsable` and `ConfirmedImportSettles` need `LostPreview = FALSE`. When the update to READY commits
  and its answer is lost, the handler deletes the workbook of a job whose row says READY; a confirmation in
  between leaves the import QUEUED without a workbook for ever (`imports/imports.service.ts:329` and 356-362,
  against the comment at 326).
- `IntactBackupRemains` needs `DeletesAtWork = FALSE`: a backup still being made may be asked to be deleted
  (`backups/backups.service.ts:877`), completes while it is verified (line 921) and is deleted as the newest,
  against `src/docs/production-system-audit.md:180`.
- `EligibleMeansProven` does not say that some backup is ever eligible: a restore test whose process died stays
  unfinished, sorts first among the tests (`admin/data-maintenance.service.ts:1150`) and disqualifies its backup
  for good. Nor does it say that the dump is newer than the analysis: the time compared is the one the upload
  ended (line 1146).
- A maintenance job that crashes after its records were removed cannot be completed: the next run counts other
  records than the analysis (`admin/data-maintenance.service.ts:247`).
- A maker whose commit is answered by an error removes the files of a backup that counts as completed
  (`backups/backups.service.ts:667`); in the model an error before the commit and one after it are different
  steps, and the answer of the commit itself is not lost.
- `RotationStopsWithSession` speaks of refreshes. A change of the password commits although an administrator
  has reset it and ended the session since it was verified (`auth/auth.service.ts:456`), and a sign-in that
  verified the password before a reset opens its session after it; what the password is, is not modelled. Two
  reset links can be open at once, when two requests for one find no open link.
- `NoRequestEndsTheLastSuper` leaves out time: `addRole` may give the role of another Super Admin an end without
  the check `removeRole` makes (`users/users.service.ts:2842`).
- `SendingSettles` asks for a job that waits in the queue. A sending may have none: a failed job keeps the one id
  `recipients-<id>`, BullMQ ignores the next `add`, and a second sending stays PUBLISHING for ever
  (`announcements/announcements.service.ts:384`, against the comment at 376-378); the same happens while the job
  that has just delivered is not yet removed, or when the process dies between the claim and the call. A job that
  stalls twice fails without an attempt that could mark the announcement. And the update to FAILED is tried once, its
  own failure swallowed (line 408): with `MarksMayFail` TRUE and one more fault the announcement stays PUBLISHING.
- `AnnouncementLifecycle` lets a sending fail on behalf of an earlier one: the mark names the announcement only
  (`announcements/announcements.service.ts:399`). It then forgets the key of its own request, and the key of the
  sending it failed stays. It also lets `unpublish` withdraw whatever is being sent, since it updates by id
  (line 880).

Smaller things met on the way, which no property touches: events of a type that is not in the list of dispatched
types stay unprocessed (`delivery/delivery.service.ts:19`); only the first status of a webhook post is used
(`delivery/whatsapp.controller.ts:23`); an event read before 500 other jobs completed may be queued again
(`delivery/delivery.service.ts:83`); `retryJob` builds a job id from a stored count (`admin/admin.service.ts:40`);
`acknowledgeCredentials` writes to storage inside its transaction (`imports/imports.service.ts:876`); a
unique violation ends an escalation scan (`delivery/delivery.service.ts:141`); two timeline revisions at once leave
two current rows (`issues/issues.service.ts:323`); reading an announcement without acknowledging may write back an
empty `acknowledgedAt` over an acknowledgement (`announcements/announcements.service.ts:530`).

### Fairness

`ImportJob!Fairness`: workers, BullMQ's timers, the maintenance timer and the clock keep running
(`onModuleInit` starts them, and they restart with the process); users never have to act, and faults are
not fair (they are bounded). The maintenance pass is one condition: a pass that has something to do takes its
next call. `IssueEscalation!EscalationFairSpec`: each timer keeps starting scans and the quiet hour ends.
`NotificationDelivery!FairSpec`: each pass (a timer in every process), the end of the 30 s delay, and per job the
worker with BullMQ's timers;
`Deliver(j)` is one condition, since a worker that is alive takes whichever step its attempt is at. Operators,
the provider and the webhook are not fair. Nothing is assumed about staff. `AccessCache!CacheSpec`: the clock goes on,
so that an entry gets older; nobody has to ask for anything. `Announcements!FairSpec`: each worker takes the next
step of its job (`onModuleInit` starts two at a time), a job whose worker died is noticed, and backoffs end;
requests are not fair. The other modules have no liveness property: their requests are a client's, which may give
up.

## 4. Proofs

Every invariant, action property and refinement a run checks is also proved, for every value of the
constants; liveness is not (see the end of this section).

`ImportJobProofs` proves, for every set of workers and rows, every number of faults and attempts, and both
values of `LostPreview` unless the statement names one:

| Theorem | Statement |
|---|---|
| `TypeCorrect` | `Spec => []TypeOK` |
| `RowsOnce` | `Spec => []EachRowImportedOnce` |
| `ReportExact` | `Spec => []ReportMatchesLedger` |
| `Refinement` | `Spec => ImplementsLifecycle` |
| `ReportsAlwaysTracked` | `Spec => ReportsTracked` |
| `CompletionIsOwned` | `Spec => CompletesAsOwner` |
| `SourceKept` | `LostPreview = FALSE => (Spec => []SourceKeptWhileUsable)` |

The other modules, each for every value of its constants:

| Module | Theorem | Statement |
|---|---|---|
| `AttendanceSessionProofs` | `AttendanceTyped` | `Spec => []TypeOK` |
| | `OnePending` | `Spec => []OnePendingPerRecord` |
| | `AnsweredAlike` | `Spec => []SameAnswer` |
| | `HistoryTrue` | `Spec => HistoryExplains` |
| | `LockKept` | `Spec => LockHolds` |
| | `EditsFresh` | `Spec => EditsAreFresh` |
| | `ReviewsFinal` | `Spec => ReviewedOnce` |
| `IssueProofs` | `WorkflowTyped` | `Spec => []TypeOK` |
| | `HistoryInStep` | `Spec => []HistoryEndsInStatus` |
| | `EvidenceFirst` | `Spec => []ClosedWithEvidence` |
| | `FreshDecisions` | `Spec => DecisionsAreFresh` |
| | `FreshDecisionsApplied` | `Spec => FreshDecisionSucceeds` |
| | `EscalationTyped` | `EscalationSpec => []EscalationTypeOK` |
| | `NoGap` | `EscalationSpec => []LevelsHaveNoGap` |
| | `OneLevelAtATime` | `EscalationSpec => OneLevelPerHour` |
| | `AffectedExact` | `ReportSpec => []AffectedCountExact` |
| | `RecordedOnce` | `ReportSpec => []ReportedOncePerKey` |
| | `OneAnswer` | `ReportSpec => []SameAnswer` |
| `NotificationDeliveryProofs` | `DeliveryTyped` | `Spec => [](DeliveryTypeOK /\ JobRuns)` |
| | `ProcessedIsQueued` | `Spec => []ProcessedMeansQueued` |
| | `TruthfulRecords` | `Spec => []RecordsAreTrue` |
| | `FailuresKept` | `Spec => []FailuresAreKept` |
| | `DuplicatesPaid` | `Spec => []DuplicatesNeedFaults` |
| `DataMaintenanceProofs` | `MaintenanceTyped` | `MaintenanceSpec => []MaintenanceTypeOK` |
| | `BackupRemains` | `MaintenanceSpec => []IntactBackupRemains` |
| | `EligibleProven` | `MaintenanceSpec => []EligibleMeansProven` |
| | `RunCovered` | `MaintenanceSpec => []RunIsCovered` |
| `AccountSessionsProofs` | `SessionsTyped` | `Spec => []TypeOK` |
| | `ExchangedOnce` | `Spec => []TokenExchangedOnce` |
| | `ReuseJustified` | `Spec => []ReuseMeansReplay` |
| | `LinkOnce` | `Spec => []LinkUsedOnce` |
| | `RotationStops` | `Spec => RotationStopsWithSession` |
| | `ImplementsRows` | `Spec => SessionsAreRows` |
| `AccessProofs` | `CacheTyped` | `CacheSpec => []CacheTypeOK` |
| | `CachedAccessIsCurrent` | `CacheSpec => []CacheIsCurrent` |
| | `AdminTyped` | `Spec => []TypeOK` |
| | `RolesRemain` | `Spec => []EveryoneHasRole` |
| | `LastSuperStays` | `Spec => NoRequestEndsTheLastSuper` |
| `AnnouncementsProofs` | `Implementation` | `Spec => ImplementsLifecycle` |
| | `SendingsJustified` | `Spec => [](RequestsTyped /\ DecisionsJustified)` |
| | `NotifiedPerDecision` | `Spec => []Counted` |

Assumptions used: `NoWorkerAssumption`, `BoundsAssumption` and `FlagAssumption` of `ImportJob`, and in the other
modules that a value standing for nothing is not one of the values, that numbers are natural, that the issues
under a policy are issues, that the sets of backups and files are finite, and that the Super Admin has the
highest rank (`AdminAssumption`, as `ROLE_RANK` does). The theorems of `DataMaintenanceProofs` have the
hypothesis `DeletesAtWork = FALSE`.

`ImportJobProofs`. The inductive invariant `IInv` has three parts. `Typed` is `TypeOK` with `QueueBudget` (a
queue job BullMQ will still run has attempts left), without which the type of the attempt counter is not
preserved. `RequestStages` says how far preview and expiry can be when the row has a given status; it excludes
an expiry of a job still being previewed. `Ownership` is the argument proper: while `w` holds the token, nobody
else writes the ledger, so `w`'s view of it, taken after the claim, stays exact (`OwnerView`); the row lock
belongs to the owner and its report is in place before the commit (`LockHolder`); once a result key exists
nothing touches that report (`WinnerReport`). `EachRowImportedOnce` alone is not inductive: a worker could
insert a row another one inserted since it read the ledger, which only `OwnerView` excludes.
`ReportMatchesLedger` needs all three. Each part was first checked by TLC as an invariant.

The step lemmas (`TypedStep`, `RequestStagesStep`, `OwnershipStep`) have one step per action. Actions that
leave the ledger, the row and the reports alone are dispatched by `OwnershipFrame`. `Refinement` uses
`LifecycleStep`: under `IInv`, every step maps to a step of `ImportLifecycle` or to a stutter.

`ReportsAlwaysTracked` and `CompletionIsOwned` need nothing beyond `IInv`, with timeouts of the finalization
included. A report is named until its key is cleared, which happens together with its removal or, in
`Complete`, with its naming as the result; and the one that is stored is the pending one of a `LockHolder`, but
for a worker that no longer holds the lock: that is `Overtaken`. A commit holds the lock, so by `LockHolder` its
worker owns the job and has its report in place, and by `OwnerView` that report is exact.

`SourceKept` has a flag as its hypothesis, and the code is why (section 3). It rests on `SourceDeleters`:
whoever is about to delete the workbook or to clear its key has seen the job end or its source expire, and
no status leads back. The one exception is the preview whose commit is answered by an error, which is what
`LostPreview` allows.

`AttendanceSessionProofs`. The invariant joins `TypeOK` with five facts about requests in flight. `EditsFresh`
needs `FormsFresh` (a roster of the current version shows the stored statuses, except those a correction
changed last) and `ExpectsForm` (an edit expects the version of the roster its panel shows). `HistoryTrue`
needs `SeenIsPast`: if a record still has the version a reviewer saw, it is the record the reviewer saw.
`AnsweredAlike` follows from `AnswersStored`, since a stored response never changes. The exception in
`FormsFresh` is that of `EditsAreFresh` (section 3): it cannot be dropped.

`IssueProofs`, the workflow. `ReadsPast` says that no request has read a later version than the stored one, and that a
request that read the same version read the same status; this makes the version a fence, and `FreshDecisions`
follows for every operation that compares it. `EventsPast` says that the keys in the outbox of versioned events
are not above the stored version, so that the key of the next version is free (`FreshDecisionsApplied`).
`finish()` has no such key and no such comparison: it is the exception in both (section 3).

`IssueProofs`, escalation. `RowsFresh` says what a row read by a scan may aim at when it is written: the next
level of its issue, or the level another scan has written within the hour. From it a write never skips a
level, with any number of overlapping scans. `RowsDistinct` excludes that a scan writes one issue twice.
`OneLevelAtATime` is what the same fact says of a step: a row that aims at the next level is written only when
the hour is over, because a scan is over within it, and any other row repeats the level just written.

`IssueProofs`, reporting. Counters are compared with the rows they count: `AffectedCounted` with the users on
record, `KeysCounted` with the stored keys that name the issue (`KeysOf`); both sets are finite because every
step adds at most one element. A request adds a key only if the key is free in the transaction that stores it,
which is what makes an overtaken retry harmless. `SameAnswer` follows from `AnswersStored`: what a request is
told is the stored response of its key, and that never changes. `DuplicateFound` is needed for the types: what
is linked or subscribed to exists.

`NotificationDeliveryProofs`. Types are inductive only with `JobRuns` (an attempt under way is one of an active
job with attempts left). For `ProcessedMeansQueued` the invariant is `PassesQueue`: what a pass has taken from
its list is queued, and no job is ever removed. `RecordsAreTrue` needs to know what a run will record before it
does: `RunsTellTheTruth` (a run names only messages the provider accepted; one that records without a message
found the target unreachable) and `RecordsBehindProvider` (so do the rows, and of each accepted message the
provider reached SENT at least), so that accepting the next message changes the fate of none on record.
`FailuresKept` counts: `Charged` is the set of jobs whose failure is lost or may be (a dead worker's active
job, which a second stall fails without a record); a step without a fault adds none, and a fault at most one.
`DuplicatesPaid` is a potential argument: `Left(j)` is the number of messages the event's job may still
send if nothing fails, 0 to 2, and `Paid` says that `sent + Left <= 1 + 2 * faults`. A step without a fault
sends out of what is left; a fault puts back at most 2. That a rejected attempt leaves 1, and not 2, needs the
number of the next attempt to be free (the first conjunct of `Paid`), and this is what a manual retry breaks.

`DataMaintenanceProofs`. `BackupInv` says that a backup which lost a file or was deleted is outdone by a newer
committed one (`LossesAreOutdone`), that a deletion under way has a target that is outdone already
(`DeletionsFollow`), and that a maker commits only when every file is on Drive (`MakersCommitLast`). The newest
committed backup is outdone by none, so it is whole: `WholeBehindEach` picks it as the one of least age, since no
backup is newer than the clock and the natural numbers are well-founded. `RunCovered` needs one fact
more: what a run relies on was committed after its analysis (`RunsAreCovered`); that the backup itself may be
gone does not matter, since a newer one is whole.

`AccountSessionsProofs`. A token is exchanged once because a token that was exchanged is used (`ExchangedIsUsed`) and
the claim asks for an unused one. `ReuseMeansReplay` needs what a request knows of the session of the token it
found (`Found`, `Known`): a claim fails because somebody else used the token, and then it was presented twice, or
because the session was ended, and then ending it again changes nothing. `RotationStops` rests on `ClaimsEnd`: whoever
ends a session revokes its tokens in the same transaction, so a claim still under way is bound to fail.
`ImplementsRows` maps both ways of ending to ENDED and shows one step of `SessionRows` per action.

`AccessProofs`. `CacheIsCurrent` is inductive with `ReadersAreCurrent`: what a check has read of the account of
a session that is still live is still so, because the change would have ended the session. In `AccountAdmin`,
that a request leaves a Super Admin follows from judging its actor again inside the transaction: the actor is an
active Super Admin then, is not the target, and stays one. The count of Super Admins the code makes
afterwards (`SuperStays`) is not needed.

`AnnouncementsProofs`. The invariant is small: what a request decided it decided on a status that allowed it
(`Justified`), and that status still holds when its update succeeds; `unpublish` compares nothing and needs only
that nothing becomes a draft again. The proof sorts the actions instead.
Those that decide nothing (queue, inline fallback, workers, marks, crashes) leave the row alone, deliver what is
PUBLISHING, or fail it: `Undecided`, each case a step of `AnnouncementLifecycle` or a stutter. Each decision has
a lemma of its own that names its abstract step. `NotifiedPerDecision` spells out what the promise means:
`notified[u]` never exceeds the number of decisions to publish or send, and is below it while one is under way.

Only model-checked: liveness (`ConfirmedImportSettles`, `SourceReclaimed`, `OrphanReportsReclaimed`,
`OverdueReachesTop`, `EventReachesTargets`, `StalePermissionsExpire`, `SendingSettles`), since TLAPS does not
reason about ENABLED, on which fairness rests.

## 5. Not modelled

Permissions and guards (but for rank among administrators), parsing and rendering, realtime socket events,
provider calls beyond success and failure, and the clients: they make up most of the source, and a state
machine of them would say nothing. Credential export and rollback of an import are candidates for a module of
their own; the watermark of a rollback (`imports/imports.service.ts:696`) is a hazard without a property until
then. So is a change of the password that overwrites an administrator's reset (`auth/auth.service.ts:456`).
Components not modelled are listed with their reason in `PROJECT.json`.

## 6. Plan

In order of importance, with what each module is to show.

1. Proofs: what the abstract specifications imply on their own (`ImportLifecycle`, `SessionRows`,
   `AnnouncementLifecycle`), so that their promises are stated as invariants too.
2. Imports, the rest: credential export and rollback (`ImportRollback`), composed with `ImportJob` through the
   status of the job.
3. `Conversations` (send, retry) and `Broadcast` (send, cancel): idempotent messages, a cancellation racing
   the sender. Receipts of announcements (viewed, acknowledged) could follow.
4. `StudentPromotion` and section placement (preview, confirm), with the attendance import: a preview that is
   stale when confirmed.
5. `Routing` and the SLA clock as functions: `route`, `score`, `selectMember` against "the best rule by
   specificity", `addWorkingMinutes` against counting minutes one by one.
6. `AiUsage` (begin, complete), feedback forms, and storage cleanup: a quota, a window, and a store of objects at
   their limits.
