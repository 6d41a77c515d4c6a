--------------------------- MODULE BackupLifecycle ---------------------------
(***************************************************************************)
(* Database backups on Google Drive, after                                 *)
(* apps/api/src/modules/backups/backups.service.ts: making a backup,       *)
(* restore tests, verification and deletion under the retention rule.      *)
(* Each works in several database and Drive calls with no lock between     *)
(* them, so any two of them interleave; a process may die between two      *)
(* calls.  What is modelled is the production set-up, where every backup   *)
(* goes to Drive; all backups belong to one college and have the type      *)
(* their reader asks for.  The four files of a backup are a set Files.     *)
(***************************************************************************)
EXTENDS Naturals, FiniteSets

CONSTANTS
    Backups,
    Files,         \* the files of one backup; four in the code
    Artifact,      \* the one a restore test downloads
    Tests,         \* restore tests that may be asked for
    Agents,        \* requests to verify or delete that run at once
    NoBackup,
    MaxFaults,     \* errors of Drive or the database, and crashes
    DeletesAtWork  \* may somebody ask to delete a backup still being made?

AtWork     == {"DUMPING", "ENCRYPTING", "UPLOADING", "VERIFYING"}
Completed  == {"COMPLETED", "RESTORE_TESTED"}
Status     == Completed \cup {"NONE", "CREATING", "ENCRYPTING", "UPLOADING", "VERIFYING",
                               "FAILED", "CORRUPTED", "DELETED"}
TestStatus == {"NONE", "PENDING", "DOWNLOADING", "VERIFYING", "RESTORING", "PASSED", "FAILED"}

ASSUME ArtifactAssumption == Artifact \in Files
ASSUME FilesAssumption    == IsFiniteSet(Files)
ASSUME BackupsAssumption  == IsFiniteSet(Backups) /\ NoBackup \notin Backups
ASSUME FaultsAssumption   == MaxFaults \in Nat
ASSUME DeletesAssumption  == DeletesAtWork \in BOOLEAN

VARIABLES
    clock,     \* the last time stamp given out
    status,    \* database_backups.status; NONE: no row yet
    began,     \* created_at
    due,       \* the completed_at its maker is about to write
    doneAt,    \* completed_at, 0 for NULL
    deleted,   \* deleted_at is set
    rows,      \* the file records of each backup: NONE, READY or DELETED
    objects,   \* the files of each backup that are on Drive
    maker,     \* the request that makes each backup: NONE, a stage AtWork, then
               \* ENDED, or UNDOING and MARKING after an error
    test,      \* backup_restore_tests: backup, status, completed_at
    tester,    \* the request that runs each test: NONE, LIVE, PASSING, FAILING, ENDED
    stamp,     \* the completed_at each tester is about to write
    agent,     \* what each verification or deletion is doing
    faults

backupVars == <<status, began, due, doneAt, deleted, rows, objects>>
testVars   == <<test, tester, stamp>>
vars == <<clock, backupVars, maker, testVars, agent, faults>>

NoTest  == [backup |-> NoBackup, status |-> "NONE", at |-> 0]
Resting == [pc |-> "REST", target |-> NoBackup, check |-> NoBackup,
            left |-> {}, listed |-> FALSE]
Request == [pc : {"REST", "OPEN", "VERIFY", "DELETE"}, target : Backups \cup {NoBackup},
            check : Backups \cup {NoBackup}, left : SUBSET Files, listed : BOOLEAN]

Init ==
    /\ clock = 0
    /\ status  = [b \in Backups |-> "NONE"]
    /\ began   = [b \in Backups |-> 0]      /\ due = [b \in Backups |-> 0]
    /\ doneAt  = [b \in Backups |-> 0]
    /\ deleted = [b \in Backups |-> FALSE]  /\ rows = [b \in Backups |-> "NONE"]
    /\ objects = [b \in Backups |-> {}]     /\ maker = [b \in Backups |-> "NONE"]
    /\ test    = [t \in Tests |-> NoTest]   /\ tester = [t \in Tests |-> "NONE"]
    /\ stamp   = [t \in Tests |-> 0]
    /\ agent   = [a \in Agents |-> Resting]
    /\ faults  = 0

Fault == faults < MaxFaults /\ faults' = faults + 1

-----------------------------------------------------------------------------
(* Making a backup: the row comes first, then the dump and its encryption, *)
(* the uploads one by one, and last the transaction that completes it      *)

Begin(b) ==
    /\ maker[b] = "NONE"
    /\ clock'  = clock + 1
    /\ began'  = [began EXCEPT ![b] = clock + 1]
    /\ status' = [status EXCEPT ![b] = "CREATING"]
    /\ maker'  = [maker EXCEPT ![b] = "DUMPING"]
    /\ UNCHANGED <<due, doneAt, deleted, rows, objects, testVars, agent, faults>>

(* Each step of the maker sets the status, whatever it is by then          *)
MoveOn(b, from, to) ==
    /\ maker[b] = from
    /\ maker'  = [maker EXCEPT ![b] = to]
    /\ status' = [status EXCEPT ![b] = to]
    /\ UNCHANGED <<began, doneAt, deleted, rows, objects, testVars, agent, faults>>

Encrypt(b)     == MoveOn(b, "DUMPING", "ENCRYPTING") /\ UNCHANGED <<clock, due>>
StartUpload(b) == MoveOn(b, "ENCRYPTING", "UPLOADING") /\ UNCHANGED <<clock, due>>

Upload(b, f) ==
    /\ maker[b] = "UPLOADING" /\ f \notin objects[b]
    /\ objects' = [objects EXCEPT ![b] = @ \cup {f}]
    /\ UNCHANGED <<clock, status, began, due, doneAt, deleted, rows, maker>>
    /\ UNCHANGED <<testVars, agent, faults>>

(* The time of completion is taken here, before the transaction            *)
EndUpload(b) ==
    /\ objects[b] = Files /\ MoveOn(b, "UPLOADING", "VERIFYING")
    /\ clock' = clock + 1 /\ due' = [due EXCEPT ![b] = clock + 1]

(* The row is completed and the file records are written together          *)
Complete(b) ==
    /\ maker[b] = "VERIFYING"
    /\ maker'  = [maker EXCEPT ![b] = "ENDED"]
    /\ status' = [status EXCEPT ![b] = "COMPLETED"]
    /\ doneAt' = [doneAt EXCEPT ![b] = due[b]]
    /\ rows'   = [rows EXCEPT ![b] = "READY"]
    /\ UNCHANGED <<clock, began, due, deleted, objects, testVars, agent, faults>>

MakerFails(b) ==
    /\ maker[b] \in AtWork /\ Fault
    /\ maker' = [maker EXCEPT ![b] = "UNDOING"]
    /\ UNCHANGED <<clock, backupVars, testVars, agent>>

(* The uploads are taken back, each error ignored, and the row is marked;  *)
(* the mark, too, is given up on an error                                  *)
UndoUpload(b) ==
    /\ maker[b] = "UNDOING"
    /\ \/ objects' = [objects EXCEPT ![b] = {}] /\ UNCHANGED faults
       \/ \E kept \in SUBSET objects[b] \ {{}} : objects' = [objects EXCEPT ![b] = kept] /\ Fault
    /\ maker' = [maker EXCEPT ![b] = "MARKING"]
    /\ UNCHANGED <<clock, status, began, due, doneAt, deleted, rows, testVars, agent>>

MarkFailed(b) ==
    /\ maker[b] = "MARKING"
    /\ \/ /\ clock'  = clock + 1
          /\ status' = [status EXCEPT ![b] = "FAILED"]
          /\ doneAt' = [doneAt EXCEPT ![b] = clock + 1]
          /\ UNCHANGED faults
       \/ Fault /\ UNCHANGED <<clock, status, doneAt>>
    /\ maker' = [maker EXCEPT ![b] = "ENDED"]
    /\ UNCHANGED <<began, due, deleted, rows, objects, testVars, agent>>

MakerDies(b) ==
    /\ maker[b] \in AtWork \cup {"UNDOING", "MARKING"} /\ Fault
    /\ maker' = [maker EXCEPT ![b] = "ENDED"]
    /\ UNCHANGED <<clock, backupVars, testVars, agent>>

-----------------------------------------------------------------------------
(* A restore test: the row is written with the status PENDING and takes    *)
(* the old proof away, then the artifact is fetched, decrypted and         *)
(* restored into a database of its own.  The outcome is stamped before     *)
(* the transaction that records it                                         *)

Found(b) == status[b] # "NONE" /\ ~deleted[b]

Demoted(b) == IF status[b] = "RESTORE_TESTED" THEN "COMPLETED" ELSE status[b]

StartTest(t, b) ==
    /\ tester[t] = "NONE"
    /\ Found(b) /\ rows[b] # "NONE"
    /\ test'   = [test EXCEPT ![t] = [backup |-> b, status |-> "PENDING", at |-> 0]]
    /\ tester' = [tester EXCEPT ![t] = "LIVE"]
    /\ status' = [status EXCEPT ![b] = Demoted(b)]
    /\ UNCHANGED <<clock, began, due, doneAt, deleted, rows, objects, maker, stamp, agent, faults>>

NextTestStatus ==
    [PENDING |-> "DOWNLOADING", DOWNLOADING |-> "VERIFYING", VERIFYING |-> "RESTORING"]

AdvanceTest(t) ==
    /\ tester[t] = "LIVE" /\ test[t].status \in DOMAIN NextTestStatus
    /\ test[t].status = "DOWNLOADING" => Artifact \in objects[test[t].backup]
    /\ test' = [test EXCEPT ![t].status = NextTestStatus[@]]
    /\ UNCHANGED <<clock, backupVars, maker, tester, stamp, agent, faults>>

Stamped(t, outcome) ==
    /\ clock'  = clock + 1
    /\ stamp'  = [stamp EXCEPT ![t] = clock + 1]
    /\ tester' = [tester EXCEPT ![t] = outcome]
    /\ UNCHANGED <<backupVars, maker, test, agent>>

TestPasses(t) ==
    /\ tester[t] = "LIVE" /\ test[t].status = "RESTORING"
    /\ Stamped(t, "PASSING") /\ UNCHANGED faults

(* An error at any point, the recording of a pass included                 *)
TestFails(t) ==
    /\ \/ /\ tester[t] = "LIVE" /\ test[t].status = "DOWNLOADING"
          /\ Artifact \notin objects[test[t].backup] /\ UNCHANGED faults
       \/ tester[t] \in {"LIVE", "PASSING"} /\ Fault
    /\ Stamped(t, "FAILING")

Recorded(t, outcome) ==
    /\ test'   = [test EXCEPT ![t].status = outcome, ![t].at = stamp[t]]
    /\ tester' = [tester EXCEPT ![t] = "ENDED"]
    /\ UNCHANGED <<clock, began, due, doneAt, deleted, rows, objects, maker, stamp, agent, faults>>

(* The status of the backup is set whatever it is by now                   *)
RecordPass(t) ==
    /\ tester[t] = "PASSING"
    /\ status' = [status EXCEPT ![test[t].backup] = "RESTORE_TESTED"]
    /\ Recorded(t, "PASSED")

RecordFailure(t) ==
    /\ tester[t] = "FAILING"
    /\ status' = [status EXCEPT ![test[t].backup] = Demoted(test[t].backup)]
    /\ Recorded(t, "FAILED")

(* The process dies, or the mark of a failure fails as well                *)
TesterDies(t) ==
    /\ tester[t] \in {"LIVE", "PASSING", "FAILING"} /\ Fault
    /\ tester' = [tester EXCEPT ![t] = "ENDED"]
    /\ UNCHANGED <<clock, backupVars, maker, test, stamp, agent>>

(* The newest test by completed_at; PostgreSQL puts NULL first             *)
TestsOf(b) == {t \in Tests : test[t].backup = b}

(* A slip: tests without a time of completion come last                    *)
IsLastFinished(t) == \A u \in TestsOf(test[t].backup) : test[u].at <= test[t].at

IsNewestTest(t) ==
    \A u \in TestsOf(test[t].backup) :
        test[t].at = 0 \/ (test[u].at # 0 /\ test[u].at <= test[t].at)

(* A slip: a backup of any age would do                                    *)
EligibleAnyAge(b, since) ==
    /\ status[b] = "RESTORE_TESTED" /\ ~deleted[b]
    /\ \E t \in TestsOf(b) : IsNewestTest(t) /\ test[t].status = "PASSED"

(* What the removal of data asks of the backup it relies on                *)
Eligible(b, since) ==
    /\ status[b] = "RESTORE_TESTED" /\ ~deleted[b] /\ doneAt[b] >= since
    /\ \E t \in TestsOf(b) : IsNewestTest(t) /\ test[t].status = "PASSED"

-----------------------------------------------------------------------------
(* Verification downloads every file of a backup.  Deletion first looks    *)
(* for a newer completed backup, verifies that one, and only then deletes  *)
(* the files of its own and marks them; nothing is looked at again         *)

Newest(b, S) == b \in S /\ \A c \in S : doneAt[c] <= doneAt[b]

Kept(st) == {b \in Backups : status[b] \in st /\ ~deleted[b]}

(* The completed backups that are newer than b; for a backup without a     *)
(* time of completion the time it began counts                             *)
NewerThan(b) ==
    {c \in Kept(Completed) : doneAt[c] > IF doneAt[b] = 0 THEN began[b] ELSE doneAt[b]}

AskVerify(a, c) ==
    /\ agent[a].pc = "REST" /\ Found(c)
    /\ agent' = [agent EXCEPT ![a] = [Resting EXCEPT !.pc = "OPEN", !.check = c]]
    /\ UNCHANGED <<clock, backupVars, maker, testVars, faults>>

(* A slip: any other completed backup would do                             *)
CheckAnyOther(a, b) ==
    /\ agent[a].pc = "REST" /\ Found(b) /\ maker[b] = "ENDED"
    /\ \E c \in Kept(Completed) \ {b} :
          agent' = [agent EXCEPT ![a] = [Resting EXCEPT !.pc = "OPEN", !.target = b, !.check = c]]
    /\ UNCHANGED <<clock, backupVars, maker, testVars, faults>>

CheckDeletion(a, b) ==
    /\ agent[a].pc = "REST" /\ Found(b)
    /\ ~Newest(b, Kept(Completed)) /\ ~Newest(b, Kept({"RESTORE_TESTED"}))
    /\ DeletesAtWork \/ maker[b] = "ENDED"
    /\ \E c \in NewerThan(b) :
          /\ Newest(c, NewerThan(b))
          /\ agent' = [agent EXCEPT ![a] =
                 [Resting EXCEPT !.pc = "OPEN", !.target = b, !.check = c]]
    /\ UNCHANGED <<clock, backupVars, maker, testVars, faults>>

(* The file records must be complete, or the request is refused            *)
OpenVerify(a) ==
    LET c == agent[a].check IN
    /\ agent[a].pc = "OPEN"
    /\ agent' = [agent EXCEPT ![a] = IF Found(c) /\ rows[c] = "READY"
                                     THEN [@ EXCEPT !.pc = "VERIFY", !.left = Files]
                                     ELSE Resting]
    /\ UNCHANGED <<clock, backupVars, maker, testVars, faults>>

VerifyFile(a, f) ==
    /\ agent[a].pc = "VERIFY" /\ f \in agent[a].left /\ f \in objects[agent[a].check]
    /\ agent' = [agent EXCEPT ![a].left = @ \ {f}]
    /\ UNCHANGED <<clock, backupVars, maker, testVars, faults>>

(* A file is gone, or Drive or the audit record reports an error           *)
VerifyFails(a) ==
    LET c == agent[a].check IN
    /\ agent[a].pc = "VERIFY"
    /\ \/ ~(agent[a].left \subseteq objects[c]) /\ UNCHANGED faults
       \/ Fault
    /\ status' = [status EXCEPT ![c] = "CORRUPTED"]
    /\ agent'  = [agent EXCEPT ![a] = Resting]
    /\ UNCHANGED <<clock, began, due, doneAt, deleted, rows, objects, maker, testVars>>

(* A deletion goes on with the files that its backup has on record now     *)
VerifyDone(a) ==
    LET b == agent[a].target IN
    /\ agent[a].pc = "VERIFY" /\ agent[a].left = {}
    /\ agent' = [agent EXCEPT ![a] =
           IF b = NoBackup THEN Resting
           ELSE [@ EXCEPT !.pc = "DELETE", !.listed = rows[b] = "READY",
                          !.left = IF rows[b] = "READY" THEN Files ELSE {}]]
    /\ UNCHANGED <<clock, backupVars, maker, testVars, faults>>

(* A file that Drive no longer has counts as deleted                       *)
DeleteObject(a, f) ==
    LET b == agent[a].target IN
    /\ agent[a].pc = "DELETE" /\ f \in agent[a].left
    /\ objects' = [objects EXCEPT ![b] = @ \ {f}]
    /\ agent'   = [agent EXCEPT ![a].left = @ \ {f}]
    /\ UNCHANGED <<clock, status, began, due, doneAt, deleted, rows, maker, testVars, faults>>

RecordDeletion(a) ==
    LET b == agent[a].target IN
    /\ agent[a].pc = "DELETE" /\ agent[a].left = {}
    /\ status'  = [status EXCEPT ![b] = "DELETED"]
    /\ deleted' = [deleted EXCEPT ![b] = TRUE]
    /\ rows'    = [rows EXCEPT ![b] = IF agent[a].listed THEN "DELETED" ELSE @]
    /\ agent'   = [agent EXCEPT ![a] = Resting]
    /\ UNCHANGED <<clock, began, due, doneAt, objects, maker, testVars, faults>>

(* An error of Drive or the database, or a crash: what is done stays done  *)
AgentStops(a) ==
    /\ agent[a].pc # "REST" /\ Fault
    /\ agent' = [agent EXCEPT ![a] = Resting]
    /\ UNCHANGED <<clock, backupVars, maker, testVars>>

-----------------------------------------------------------------------------
Making(b) ==
    \/ Begin(b) \/ Encrypt(b) \/ StartUpload(b) \/ EndUpload(b) \/ Complete(b)
    \/ \E f \in Files : Upload(b, f)
    \/ MakerFails(b) \/ UndoUpload(b) \/ MarkFailed(b) \/ MakerDies(b)

Testing(t) ==
    \/ \E b \in Backups : StartTest(t, b)
    \/ AdvanceTest(t) \/ TestPasses(t) \/ TestFails(t)
    \/ RecordPass(t) \/ RecordFailure(t) \/ TesterDies(t)

Deleting(a) ==
    \/ \E b \in Backups : AskVerify(a, b) \/ CheckDeletion(a, b)
    \/ OpenVerify(a) \/ VerifyFails(a) \/ VerifyDone(a)
    \/ \E f \in Files : VerifyFile(a, f) \/ DeleteObject(a, f)
    \/ RecordDeletion(a) \/ AgentStops(a)

BackupNext ==
    \/ \E b \in Backups : Making(b)
    \/ \E t \in Tests : Testing(t)
    \/ \E a \in Agents : Deleting(a)

Spec == Init /\ [][BackupNext]_vars

-----------------------------------------------------------------------------
TypeOK ==
    /\ clock \in Nat
    /\ status \in [Backups -> Status] /\ deleted \in [Backups -> BOOLEAN]
    /\ began \in [Backups -> Nat] /\ due \in [Backups -> Nat] /\ doneAt \in [Backups -> Nat]
    /\ rows \in [Backups -> {"NONE", "READY", "DELETED"}]
    /\ objects \in [Backups -> SUBSET Files]
    /\ maker \in [Backups -> AtWork \cup {"NONE", "UNDOING", "MARKING", "ENDED"}]
    /\ test \in [Tests -> [backup : Backups \cup {NoBackup}, status : TestStatus, at : Nat]]
    /\ tester \in [Tests -> {"NONE", "LIVE", "PASSING", "FAILING", "ENDED"}]
    /\ stamp \in [Tests -> Nat]
    /\ agent \in [Agents -> Request]
    /\ faults \in 0 .. MaxFaults

CommittedSet == {b \in Backups : rows[b] # "NONE"}

Intact(b) == rows[b] = "READY" /\ ~deleted[b] /\ objects[b] = Files

(* Once a backup has been completed there is at every moment one that is   *)
(* whole: not deleted and with every file on Drive, however deletions,     *)
(* verifications, failing makers and crashes interleave.  It is at least   *)
(* as new as any backup that was ever completed (deleteEligible deletes    *)
(* only behind a newer backup that it has just verified).                  *)
IntactBackupRemains ==
    \A b \in CommittedSet : \E c \in CommittedSet : Intact(c) /\ doneAt[c] >= doneAt[b]

(* What maintenance accepts is proven: no restore test of that backup is   *)
(* under way or was abandoned, and the last one to finish has passed       *)
EligibleMeansProven ==
    \A b \in Backups : Eligible(b, 0) =>
        /\ \A t \in TestsOf(b) : test[t].status \in {"PASSED", "FAILED"}
        /\ \E t \in TestsOf(b) :
              /\ test[t].status = "PASSED"
              /\ \A u \in TestsOf(b) : test[u].at <= test[t].at
=============================================================================
