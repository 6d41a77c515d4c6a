----------------------- MODULE DataMaintenanceProofs -----------------------
(***************************************************************************)
(* Proofs about BackupLifecycle and DataMaintenance together, for any      *)
(* number of backups, files, restore tests, deletions and jobs, and any    *)
(* number of faults, as long as nobody deletes a backup still being made.  *)
(***************************************************************************)
EXTENDS DataMaintenance, TLAPS, WellFoundedInduction

Committed(b) == rows[b] # "NONE"

Outdone(b) == \E c \in Backups : Committed(c) /\ doneAt[c] > doneAt[b]

(* Only a maker that has ended may have committed, with all files on Drive *)
MakersCommitLast ==
    \A b \in Backups :
        /\ Committed(b) \/ deleted[b] => maker[b] = "ENDED"
        /\ maker[b] = "VERIFYING" => objects[b] = Files
        /\ status[b] \in Completed => Committed(b)
        /\ doneAt[b] <= clock /\ due[b] <= clock

(* A backup that lost a file or was deleted is behind a newer one          *)
LossesAreOutdone ==
    \A b \in Backups : Committed(b) => Intact(b) \/ Outdone(b)

TestsHaveBackups ==
    \A t \in Tests :
        /\ tester[t] \in {"LIVE", "PASSING", "FAILING"} =>
              test[t].backup \in Backups /\ Committed(test[t].backup)
        /\ tester[t] \in {"PASSING", "FAILING"} => stamp[t] > 0
        /\ test[t].status # "NONE" => test[t].backup \in Backups
        /\ test[t].at # 0 <=> test[t].status \in {"PASSED", "FAILED"}

(* What deleteEligible found when it looked stays true                     *)
Follows(x) ==
    /\ x.target # NoBackup => maker[x.target] = "ENDED" /\ Outdone(x.target)
    /\ x.pc # "REST" => x.check \in Backups
    /\ x.pc = "DELETE" => x.target # NoBackup
    /\ x.listed => x.target # NoBackup /\ Committed(x.target)
    /\ x.pc = "DELETE" /\ x.left # {} => x.listed

DeletionsFollow == \A a \in Agents : Follows(agent[a])

BackupInv ==
    /\ TypeOK /\ MakersCommitLast /\ LossesAreOutdone
    /\ TestsHaveBackups /\ DeletionsFollow

RunsAreCovered ==
    \A r \in Runners : runner[r].pc = "RUN" =>
        /\ runner[r].job \in Jobs /\ job[runner[r].job].status # "NONE"
        /\ runner[r].ref \in Backups /\ Committed(runner[r].ref)
        /\ doneAt[runner[r].ref] >= job[runner[r].job].at

MaintenanceInv == BackupInv /\ MaintenanceTypeOK /\ RunsAreCovered

-----------------------------------------------------------------------------
(* The newest of the committed backups that are at least as new as b has   *)
(* lost nothing, as nothing outdoes it                                     *)
LEMMA WholeBehindEach ==
    ASSUME BackupInv, NEW b \in Backups, Committed(b)
    PROVE  \E c \in Backups : Committed(c) /\ Intact(c) /\ doneAt[c] >= doneAt[b]
<1> DEFINE Later == {c \in Backups : Committed(c) /\ doneAt[c] >= doneAt[b]}
           Ages  == {clock - doneAt[c] : c \in Later}
<1>1. /\ clock \in Nat /\ \A c \in Backups : doneAt[c] \in Nat /\ doneAt[c] <= clock
  BY DEF BackupInv, TypeOK, MakersCommitLast
<1>2. Ages \subseteq Nat
  BY <1>1
<1>3. b \in Later
  BY <1>1
<1>4. PICK n \in Ages : \A m \in Ages : ~ (<<m, n>> \in OpToRel(<, Nat))
  <2>1. Ages # {}
    BY <1>3
  <2>2. QED
    BY <1>2, <2>1, NatLessThanWellFounded, WFMin
<1>5. \A m \in Ages : ~(m < n)
  BY <1>2, <1>4 DEF OpToRel
<1>6. PICK c \in Later : n = clock - doneAt[c]
  BY <1>4
<1>7. ~Outdone(c)
  <2>1. SUFFICES ASSUME NEW d \in Backups, Committed(d), doneAt[d] > doneAt[c] PROVE FALSE
    BY DEF Outdone
  <2>2. d \in Later
    BY <1>1, <2>1
  <2>3. clock - doneAt[d] \in Ages
    BY <2>2
  <2>4. clock - doneAt[d] < n
    BY <1>1, <1>6, <2>1
  <2>5. QED
    BY <1>5, <2>3, <2>4
<1>8. QED
  BY <1>6, <1>7 DEF BackupInv, LossesAreOutdone

-----------------------------------------------------------------------------
LEMMA BackupInvInit == Init => BackupInv
<1> SUFFICES ASSUME Init PROVE BackupInv
  OBVIOUS
<1>1. TypeOK
  BY FaultsAssumption DEF Init, TypeOK, NoTest, Resting, Request, Status, TestStatus
<1>2. MakersCommitLast /\ LossesAreOutdone
  BY DEF Init, MakersCommitLast, LossesAreOutdone, Committed, Completed
<1>3. TestsHaveBackups
  BY DEF Init, TestsHaveBackups, NoTest
<1>4. DeletionsFollow
  BY DEF Init, DeletionsFollow, Follows, Resting
<1>5. QED
  BY <1>1, <1>2, <1>3, <1>4 DEF BackupInv

-----------------------------------------------------------------------------
(* What the steps leave alone                                              *)
LEMMA TestsKept ==
    ASSUME BackupInv, TypeOK', UNCHANGED testVars,
           \A b \in Backups : Committed(b) => Committed(b)'
    PROVE  TestsHaveBackups'
BY DEF BackupInv, TestsHaveBackups, testVars, Committed

LEMMA AgentsKept ==
    ASSUME BackupInv, TypeOK', UNCHANGED agent,
           \A b \in Backups : maker[b] = "ENDED" => maker'[b] = "ENDED",
           \A b \in Backups : Committed(b) => Committed(b)' /\ doneAt'[b] = doneAt[b],
           \A b \in Backups : maker[b] = "ENDED" => doneAt'[b] = doneAt[b]
    PROVE  DeletionsFollow'
<1>1. \A b \in Backups : Outdone(b) /\ doneAt'[b] = doneAt[b] => Outdone(b)'
  BY DEF Outdone, Committed
<1>2. \A a \in Agents : agent[a].target \in Backups \cup {NoBackup}
  BY DEF BackupInv, TypeOK, Request
<1>3. QED
  BY <1>1, <1>2 DEF BackupInv, DeletionsFollow, Follows, Committed

(* Files and rows as they were: what was whole or outdone still is         *)
LEMMA LossesKept ==
    ASSUME BackupInv, TypeOK', UNCHANGED <<deleted, rows>>,
           \A b \in Backups : Committed(b) => objects'[b] = objects[b] /\ doneAt'[b] = doneAt[b]
    PROVE  LossesAreOutdone'
BY DEF BackupInv, LossesAreOutdone, Outdone, Intact, Committed

-----------------------------------------------------------------------------
LEMMA MakingTyped == ASSUME TypeOK, NEW b \in Backups, Making(b) PROVE TypeOK'
<1>1. CASE Begin(b)
  BY <1>1 DEF TypeOK, Begin, testVars, AtWork, Status
<1>2. CASE Encrypt(b) \/ StartUpload(b)
  BY <1>2 DEF TypeOK, Encrypt, StartUpload, MoveOn, testVars, AtWork, Status
<1>3. CASE EndUpload(b)
  BY <1>3 DEF TypeOK, EndUpload, MoveOn, testVars, AtWork, Status
<1>4. CASE Complete(b)
  BY <1>4 DEF TypeOK, Complete, testVars, AtWork, Status, Completed
<1>5. ASSUME NEW f \in Files, Upload(b, f) PROVE TypeOK'
  BY <1>5 DEF TypeOK, Upload, testVars
<1>6. CASE MakerFails(b) \/ MakerDies(b)
  BY <1>6, FaultsAssumption DEF TypeOK, MakerFails, MakerDies, Fault, backupVars, testVars, AtWork
<1>7. CASE UndoUpload(b)
  <2>1. PICK kept \in SUBSET objects[b] : objects' = [objects EXCEPT ![b] = kept]
    BY <1>7 DEF UndoUpload
  <2>2. objects' \in [Backups -> SUBSET Files]
    BY <2>1 DEF TypeOK
  <2>3. faults' \in 0 .. MaxFaults
    BY <1>7, FaultsAssumption DEF UndoUpload, Fault, TypeOK
  <2>4. maker' \in [Backups -> AtWork \cup {"NONE", "UNDOING", "MARKING", "ENDED"}]
    BY <1>7 DEF UndoUpload, TypeOK
  <2>5. QED
    BY <1>7, <2>2, <2>3, <2>4 DEF UndoUpload, TypeOK, testVars
<1>8. CASE MarkFailed(b)
  BY <1>8, FaultsAssumption DEF TypeOK, MarkFailed, Fault, testVars, Status
<1>9. QED
  BY <1>1, <1>2, <1>3, <1>4, <1>5, <1>6, <1>7, <1>8 DEF Making

LEMMA MakingStep == ASSUME BackupInv, NEW b \in Backups, Making(b) PROVE BackupInv'
<1>1. TypeOK'
  BY MakingTyped DEF BackupInv
<1>2. TypeOK /\ MakersCommitLast
  BY DEF BackupInv
<1> USE DEF Committed
<1>3. CASE Begin(b)
  <2>1. MakersCommitLast'
    BY <1>2, <1>3 DEF Begin, MakersCommitLast, TypeOK, Completed
  <2>2. LossesAreOutdone'
    BY <1>1, <1>3, LossesKept DEF Begin
  <2>3. TestsHaveBackups' /\ DeletionsFollow'
    BY <1>1, <1>2, <1>3, TestsKept, AgentsKept DEF Begin, TypeOK
  <2>4. QED
    BY <1>1, <2>1, <2>2, <2>3 DEF BackupInv
<1>4. CASE Encrypt(b) \/ StartUpload(b)
  <2>1. MakersCommitLast'
    BY <1>2, <1>4 DEF Encrypt, StartUpload, MoveOn, MakersCommitLast, TypeOK, Completed
  <2>2. LossesAreOutdone'
    BY <1>1, <1>4, LossesKept DEF Encrypt, StartUpload, MoveOn
  <2>3. TestsHaveBackups' /\ DeletionsFollow'
    BY <1>1, <1>2, <1>4, TestsKept, AgentsKept DEF Encrypt, StartUpload, MoveOn, TypeOK
  <2>4. QED
    BY <1>1, <2>1, <2>2, <2>3 DEF BackupInv
<1>5. CASE EndUpload(b)
  <2>1. MakersCommitLast'
    BY <1>2, <1>5 DEF EndUpload, MoveOn, MakersCommitLast, TypeOK, Completed
  <2>2. LossesAreOutdone'
    BY <1>1, <1>5, LossesKept DEF EndUpload, MoveOn
  <2>3. TestsHaveBackups' /\ DeletionsFollow'
    BY <1>1, <1>2, <1>5, TestsKept, AgentsKept DEF EndUpload, MoveOn, TypeOK
  <2>4. QED
    BY <1>1, <2>1, <2>2, <2>3 DEF BackupInv
<1>6. CASE Complete(b)
  <2>1. MakersCommitLast'
    BY <1>2, <1>6 DEF Complete, MakersCommitLast, TypeOK, Completed
  <2>2. LossesAreOutdone'
    <3>1. Intact(b)'
      BY <1>2, <1>6 DEF Complete, MakersCommitLast, TypeOK, Intact
    <3>2. ASSUME NEW c \in Backups, c # b
          PROVE  /\ Committed(c)' <=> Committed(c)
                 /\ Intact(c)' <=> Intact(c)
                 /\ doneAt'[c] = doneAt[c]
      BY <1>2, <1>6, <3>2 DEF Complete, TypeOK, Intact
    <3>3. ~Committed(b)
      BY <1>2, <1>6 DEF Complete, MakersCommitLast
    <3>4. ASSUME NEW c \in Backups, Committed(c), c # b PROVE Intact(c)' \/ Outdone(c)'
      BY <3>2, <3>3, <3>4 DEF BackupInv, LossesAreOutdone, Outdone
    <3>5. QED
      BY <3>1, <3>2, <3>4 DEF LossesAreOutdone
  <2>3. TestsHaveBackups' /\ DeletionsFollow'
    BY <1>1, <1>2, <1>6, TestsKept, AgentsKept DEF Complete, TypeOK, MakersCommitLast
  <2>4. QED
    BY <1>1, <2>1, <2>2, <2>3 DEF BackupInv
<1>7. ASSUME NEW f \in Files, Upload(b, f) PROVE BackupInv'
  <2>1. MakersCommitLast'
    BY <1>2, <1>7 DEF Upload, MakersCommitLast, TypeOK
  <2>2. LossesAreOutdone'
    BY <1>1, <1>2, <1>7, LossesKept DEF Upload, MakersCommitLast, TypeOK
  <2>3. TestsHaveBackups' /\ DeletionsFollow'
    BY <1>1, <1>2, <1>7, TestsKept, AgentsKept DEF Upload, TypeOK
  <2>4. QED
    BY <1>1, <2>1, <2>2, <2>3 DEF BackupInv
<1>8. CASE MakerFails(b) \/ MakerDies(b)
  <2> USE DEF MakerFails, MakerDies, backupVars
  <2>1. MakersCommitLast'
    BY <1>2, <1>8 DEF MakersCommitLast, TypeOK, AtWork
  <2>2. LossesAreOutdone'
    BY <1>1, <1>8, LossesKept
  <2>3. TestsHaveBackups' /\ DeletionsFollow'
    BY <1>1, <1>2, <1>8, TestsKept, AgentsKept DEF TypeOK, AtWork
  <2>4. QED
    BY <1>1, <2>1, <2>2, <2>3 DEF BackupInv
<1>9. CASE UndoUpload(b)
  <2>1. MakersCommitLast'
    BY <1>2, <1>9 DEF UndoUpload, MakersCommitLast, TypeOK
  <2>2. LossesAreOutdone'
    BY <1>1, <1>2, <1>9, LossesKept DEF UndoUpload, MakersCommitLast, TypeOK
  <2>3. TestsHaveBackups' /\ DeletionsFollow'
    BY <1>1, <1>2, <1>9, TestsKept, AgentsKept DEF UndoUpload, TypeOK
  <2>4. QED
    BY <1>1, <2>1, <2>2, <2>3 DEF BackupInv
<1>10. CASE MarkFailed(b)
  <2>1. MakersCommitLast'
    BY <1>2, <1>10 DEF MarkFailed, MakersCommitLast, TypeOK, Completed
  <2>2. LossesAreOutdone'
    BY <1>1, <1>2, <1>10, LossesKept DEF MarkFailed, MakersCommitLast, TypeOK
  <2>3. TestsHaveBackups' /\ DeletionsFollow'
    BY <1>1, <1>2, <1>10, TestsKept, AgentsKept DEF MarkFailed, TypeOK, MakersCommitLast
  <2>4. QED
    BY <1>1, <2>1, <2>2, <2>3 DEF BackupInv
<1>11. QED
  BY <1>3, <1>4, <1>5, <1>6, <1>7, <1>8, <1>9, <1>10 DEF Making

-----------------------------------------------------------------------------
LEMMA TestingTyped == ASSUME TypeOK, NEW t \in Tests, Testing(t) PROVE TypeOK'
<1>1. ASSUME NEW b \in Backups, StartTest(t, b) PROVE TypeOK'
  <2>1. [backup |-> b, status |-> "PENDING", at |-> 0] \in
          [backup : Backups \cup {NoBackup}, status : TestStatus, at : Nat]
    BY DEF TestStatus
  <2>2. QED
    BY <1>1, <2>1 DEF TypeOK, StartTest, Demoted, Status, Completed
<1>2. CASE AdvanceTest(t)
  BY <1>2 DEF TypeOK, AdvanceTest, NextTestStatus, TestStatus, backupVars
<1>3. CASE TestPasses(t) \/ TestFails(t)
  <2>1. faults' \in 0 .. MaxFaults
    BY <1>3, FaultsAssumption DEF TypeOK, TestPasses, TestFails, Fault
  <2>2. PICK o \in {"PASSING", "FAILING"} : Stamped(t, o)
    BY <1>3 DEF TestPasses, TestFails
  <2>3. QED
    BY <2>1, <2>2 DEF TypeOK, Stamped, backupVars
<1>4. CASE RecordPass(t) \/ RecordFailure(t)
  <2>1. PICK o \in {"PASSED", "FAILED"} : Recorded(t, o)
    BY <1>4 DEF RecordPass, RecordFailure
  <2>2. test' \in [Tests -> [backup : Backups \cup {NoBackup}, status : TestStatus, at : Nat]]
    <3>1. test'[t] = [test[t] EXCEPT !.status = o, !.at = stamp[t]]
      BY <2>1 DEF Recorded, TypeOK
    <3>2. o \in TestStatus /\ stamp[t] \in Nat
      BY DEF TestStatus, TypeOK
    <3>3. test'[t] \in [backup : Backups \cup {NoBackup}, status : TestStatus, at : Nat]
      <4>1. test[t] \in [backup : Backups \cup {NoBackup}, status : TestStatus, at : Nat]
        BY DEF TypeOK
      <4>2. QED
        BY <3>1, <3>2, <4>1
    <3>4. QED
      BY <2>1, <3>3 DEF Recorded, TypeOK
  <2>3. status' \in [Backups -> Status]
    BY <1>4 DEF RecordPass, RecordFailure, Demoted, TypeOK, Status, Completed
  <2>4. QED
    BY <2>1, <2>2, <2>3 DEF Recorded, TypeOK
<1>5. CASE TesterDies(t)
  BY <1>5, FaultsAssumption DEF TypeOK, TesterDies, Fault, backupVars
<1>6. QED
  BY <1>1, <1>2, <1>3, <1>4, <1>5 DEF Testing

LEMMA TestingStep == ASSUME BackupInv, NEW t \in Tests, Testing(t) PROVE BackupInv'
<1>1. TypeOK'
  BY TestingTyped DEF BackupInv
<1>2. TypeOK /\ MakersCommitLast /\ TestsHaveBackups
  BY DEF BackupInv
<1>3. UNCHANGED <<began, due, doneAt, deleted, rows, objects, maker, agent>>
      /\ clock' \in {clock, clock + 1}
  BY DEF Testing, StartTest, AdvanceTest, TestPasses, TestFails, Stamped, RecordPass,
         RecordFailure, Recorded, TesterDies, backupVars
<1>4. LossesAreOutdone' /\ DeletionsFollow'
  BY <1>1, <1>3, LossesKept, AgentsKept DEF Committed
<1>5. /\ \A b \in Backups : status'[b] \in Completed => Committed(b)
      /\ TestsHaveBackups'
  <2> USE DEF Committed
  <2>1. ASSUME NEW b \in Backups, StartTest(t, b) PROVE <1>5!:
    <3>1. Committed(b)
      BY <2>1 DEF StartTest
    <3>2. \A c \in Backups : status'[c] \in Completed => status[c] \in Completed
      BY <1>2, <2>1 DEF StartTest, Demoted, TypeOK, Completed
    <3>3. TestsHaveBackups'
      BY <1>2, <1>3, <2>1, <3>1 DEF StartTest, TestsHaveBackups, TypeOK
    <3>4. QED
      BY <1>2, <3>2, <3>3 DEF MakersCommitLast
  <2>2. CASE AdvanceTest(t)
    BY <1>2, <2>2 DEF AdvanceTest, NextTestStatus, TestsHaveBackups, TypeOK, backupVars,
       MakersCommitLast
  <2>3. CASE TestPasses(t) \/ TestFails(t)
    BY <1>2, <2>3 DEF TestPasses, TestFails, Stamped, TestsHaveBackups, TypeOK, backupVars,
       MakersCommitLast
  <2>4. CASE RecordPass(t)
    BY <1>2, <2>4 DEF RecordPass, Recorded, TestsHaveBackups, TypeOK, MakersCommitLast, Completed
  <2>5. CASE RecordFailure(t)
    BY <1>2, <2>5 DEF RecordFailure, Recorded, Demoted, TestsHaveBackups, TypeOK,
       MakersCommitLast, Completed
  <2>6. CASE TesterDies(t)
    BY <1>2, <2>6 DEF TesterDies, TestsHaveBackups, TypeOK, backupVars, MakersCommitLast
  <2>7. QED
    BY <2>1, <2>2, <2>3, <2>4, <2>5, <2>6 DEF Testing
<1>6. MakersCommitLast'
  BY <1>1, <1>2, <1>3, <1>5 DEF MakersCommitLast, Committed, TypeOK
<1>7. QED
  BY <1>1, <1>4, <1>5, <1>6 DEF BackupInv

-----------------------------------------------------------------------------
LEMMA RestingFollows == Resting \in Request /\ Follows(Resting) /\ Follows(Resting)'
BY DEF Resting, Request, Follows

(* A step of one request that leaves the proofs of the others alone        *)
LEMMA AgentMoves ==
    ASSUME BackupInv, NEW a \in Agents, NEW x \in Request, Follows(x)',
           agent' = [agent EXCEPT ![a] = x],
           UNCHANGED <<clock, began, due, doneAt, maker, testVars>>,
           faults' \in 0 .. MaxFaults, status' \in [Backups -> Status],
           deleted' \in [Backups -> BOOLEAN],
           rows' \in [Backups -> {"NONE", "READY", "DELETED"}],
           objects' \in [Backups -> SUBSET Files],
           \A b \in Backups : Committed(b)' <=> Committed(b),
           \A b \in Backups : status'[b] \in Completed => status[b] \in Completed,
           \A b \in Backups : objects'[b] # objects[b] => maker[b] = "ENDED",
           \A b \in Backups : deleted'[b] => deleted[b] \/ maker[b] = "ENDED",
           \A b \in Backups : Intact(b) => Intact(b)' \/ Outdone(b)
    PROVE  BackupInv'
<1>1. TypeOK /\ MakersCommitLast /\ DeletionsFollow
  BY DEF BackupInv
<1>2. TypeOK'
  BY <1>1 DEF TypeOK, testVars
<1>3. MakersCommitLast'
  BY <1>1 DEF MakersCommitLast
<1>4. \A b \in Backups : Outdone(b) => Outdone(b)'
  BY DEF Outdone
<1>5. LossesAreOutdone'
  BY <1>4 DEF BackupInv, LossesAreOutdone
<1>6. TestsHaveBackups'
  BY <1>2, TestsKept
<1>7. DeletionsFollow'
  <2>1. \A c \in Agents : agent[c] \in Request /\ Follows(agent[c])
    BY <1>1 DEF TypeOK, DeletionsFollow
  <2>2. \A c \in Agents \ {a} : agent'[c] = agent[c]
    OBVIOUS
  <2>3. agent'[a] = x
    BY <1>1 DEF TypeOK
  <2>4. ASSUME NEW c \in Agents, c # a PROVE Follows(agent[c])'
    <3>1. agent[c].target \in Backups \cup {NoBackup}
      BY <2>1 DEF Request
    <3>2. QED
      BY <1>4, <2>1, <2>2, <2>4, <3>1 DEF Follows
  <2>5. Follows(agent[a])'
    BY <2>3 DEF Follows
  <2>6. QED
    BY <2>4, <2>5 DEF DeletionsFollow
<1>8. QED
  BY <1>2, <1>3, <1>5, <1>6, <1>7 DEF BackupInv

(* A deletion goes ahead only for a finished maker and behind a newer      *)
(* committed backup                                                        *)
LEMMA CheckedIsOutdone ==
    ASSUME BackupInv, DeletesAtWork = FALSE, NEW a \in Agents, NEW b \in Backups,
           CheckDeletion(a, b)
    PROVE  maker[b] = "ENDED" /\ Outdone(b)
<1>1. maker[b] = "ENDED"
  BY DEF CheckDeletion
<1>2. PICK c \in NewerThan(b) : Newest(c, NewerThan(b))
  BY DEF CheckDeletion
<1>3. c \in Backups /\ Committed(c)
  BY <1>2 DEF NewerThan, Kept, BackupInv, MakersCommitLast
<1>4. doneAt[c] > doneAt[b]
  BY <1>2, <1>3 DEF NewerThan, BackupInv, TypeOK
<1>5. QED
  BY <1>1, <1>3, <1>4 DEF Outdone

LEMMA DeletingStep ==
    ASSUME BackupInv, DeletesAtWork = FALSE, NEW a \in Agents, Deleting(a)
    PROVE  BackupInv'
<1> DEFINE me == agent[a]
<1>1. TypeOK /\ me \in Request /\ Follows(me) /\ faults \in 0 .. MaxFaults
  BY DEF BackupInv, TypeOK, DeletionsFollow
<1>2. ASSUME NEW x \in Request, Follows(x), agent' = [agent EXCEPT ![a] = x],
             UNCHANGED <<clock, backupVars, maker, testVars>>, faults' \in 0 .. MaxFaults
      PROVE  BackupInv'
  <2>1. Follows(x)' /\ \A b \in Backups : Intact(b) => Intact(b)'
    BY <1>2 DEF Follows, Outdone, Committed, Intact, backupVars
  <2>2. QED
    BY <1>1, <1>2, <2>1, AgentMoves DEF backupVars, TypeOK, Committed
<1>3. ASSUME NEW b \in Backups, AskVerify(a, b) PROVE BackupInv'
  <2> DEFINE x == [Resting EXCEPT !.pc = "OPEN", !.check = b]
  <2>1. x \in Request /\ Follows(x)
    BY DEF Resting, Request, Follows
  <2>2. QED
    BY <1>1, <1>2, <1>3, <2>1 DEF AskVerify
<1>4. ASSUME NEW b \in Backups, CheckDeletion(a, b) PROVE BackupInv'
  <2>1. PICK c \in Backups :
          agent' = [agent EXCEPT ![a] =
                     [Resting EXCEPT !.pc = "OPEN", !.target = b, !.check = c]]
    BY <1>4 DEF CheckDeletion, NewerThan, Kept
  <2> DEFINE x == [Resting EXCEPT !.pc = "OPEN", !.target = b, !.check = c]
  <2>2. maker[b] = "ENDED" /\ Outdone(b)
    BY <1>4, CheckedIsOutdone
  <2>3. x \in Request /\ Follows(x)
    BY <2>2 DEF Resting, Request, Follows
  <2>4. QED
    BY <1>1, <1>2, <1>4, <2>1, <2>3 DEF CheckDeletion
<1>5. CASE OpenVerify(a)
  <2> DEFINE x == [me EXCEPT !.pc = "VERIFY", !.left = Files]
  <2>1. /\ me.pc = "OPEN"
        /\ agent' = [agent EXCEPT ![a] = x] \/ agent' = [agent EXCEPT ![a] = Resting]
    BY <1>5 DEF OpenVerify
  <2>2. x \in Request /\ Follows(x)
    BY <1>1, <2>1 DEF Request, Follows
  <2>3. QED
    BY <1>1, <1>2, <1>5, <2>1, <2>2, RestingFollows DEF OpenVerify
<1>6. CASE VerifyFails(a)
  <2>1. agent' = [agent EXCEPT ![a] = Resting] /\ faults' \in 0 .. MaxFaults
    BY <1>1, <1>6, FaultsAssumption DEF VerifyFails, Fault
  <2>2. \A b \in Backups : status'[b] \in Completed => status[b] \in Completed
    BY <1>1, <1>6 DEF VerifyFails, TypeOK, Completed
  <2>3. status' \in [Backups -> Status]
    BY <1>1, <1>6 DEF VerifyFails, TypeOK, Status
  <2>4. \A b \in Backups : (Intact(b) => Intact(b)') /\ (Committed(b)' <=> Committed(b))
    BY <1>6 DEF VerifyFails, Intact, Committed
  <2>5. QED
    BY <1>1, <1>6, <2>1, <2>2, <2>3, <2>4, RestingFollows, AgentMoves DEF VerifyFails, TypeOK
<1>7. CASE VerifyDone(a)
  <2> DEFINE ready == rows[me.target] = "READY"
             x == [me EXCEPT !.pc = "DELETE", !.listed = ready,
                             !.left = IF ready THEN Files ELSE {}]
  <2>1. CASE me.target = NoBackup
    BY <1>1, <1>2, <1>7, <2>1, RestingFollows DEF VerifyDone
  <2>2. CASE me.target # NoBackup
    <3>1. me.pc = "VERIFY" /\ agent' = [agent EXCEPT ![a] = x]
      BY <1>7, <2>2 DEF VerifyDone
    <3>2. x \in Request
      BY <1>1 DEF Request
    <3>3. /\ x.pc = "DELETE" /\ x.target = me.target /\ x.check = me.check
          /\ x.listed = ready /\ (x.left # {} => ready)
      BY <1>1 DEF Request
    <3>4. Follows(x)
      BY <1>1, <2>2, <3>1, <3>3 DEF Follows, Committed
    <3>5. QED
      BY <1>1, <1>2, <1>7, <3>1, <3>2, <3>4 DEF VerifyDone
  <2>3. QED
    BY <2>1, <2>2
<1>8. ASSUME NEW f \in Files, VerifyFile(a, f) PROVE BackupInv'
  <2> DEFINE x == [me EXCEPT !.left = @ \ {f}]
  <2>1. me.pc = "VERIFY" /\ agent' = [agent EXCEPT ![a] = x]
    BY <1>8 DEF VerifyFile
  <2>2. x \in Request /\ Follows(x)
    BY <1>1, <2>1 DEF Request, Follows
  <2>3. QED
    BY <1>1, <1>2, <1>8, <2>1, <2>2 DEF VerifyFile
<1>9. ASSUME NEW f \in Files, DeleteObject(a, f) PROVE BackupInv'
  <2> DEFINE b == me.target
  <2>1. me.pc = "DELETE" /\ me.left # {}
    BY <1>9 DEF DeleteObject
  <2>2. b \in Backups /\ Outdone(b) /\ maker[b] = "ENDED"
    BY <1>1, <2>1 DEF Follows, Request
  <2>3. PICK x \in Request : x = [me EXCEPT !.left = @ \ {f}]
    BY <1>1 DEF Request
  <2>. agent' = [agent EXCEPT ![a] = x]
    BY <1>9, <2>3 DEF DeleteObject
  <2>4. x.pc = me.pc /\ x.target = b /\ x.check = me.check /\ x.listed = me.listed
    BY <1>1, <2>3 DEF Request
  <2>5. \A c \in Backups : Committed(c)' <=> Committed(c)
    BY <1>9 DEF DeleteObject, Committed
  <2>6. Follows(x)'
    BY <1>1, <1>9, <2>1, <2>2, <2>4, <2>5 DEF DeleteObject, Follows, Outdone
  <2>7. objects' \in [Backups -> SUBSET Files] /\ \A c \in Backups \ {b} : objects'[c] = objects[c]
    BY <1>1, <1>9, <2>2 DEF DeleteObject, TypeOK
  <2>8. \A c \in Backups : Intact(c) => Intact(c)' \/ Outdone(c)
    BY <1>9, <2>2, <2>7 DEF DeleteObject, Intact
  <2>9. /\ UNCHANGED <<clock, status, began, due, doneAt, deleted, rows, maker, testVars, faults>>
        /\ \A c \in Backups : objects'[c] # objects[c] => maker[c] = "ENDED"
    BY <1>9, <2>2, <2>7 DEF DeleteObject
  <2>10. status' \in [Backups -> Status] /\ deleted' \in [Backups -> BOOLEAN]
         /\ rows' \in [Backups -> {"NONE", "READY", "DELETED"}] /\ faults' \in 0 .. MaxFaults
    BY <1>1, <2>9 DEF TypeOK
  <2>11. QED
    BY <2>3, <2>5, <2>6, <2>7, <2>8, <2>9, <2>10, AgentMoves
<1>10. CASE RecordDeletion(a)
  <2> DEFINE b == me.target
  <2>1. agent' = [agent EXCEPT ![a] = Resting]
    BY <1>10 DEF RecordDeletion
  <2>2. b \in Backups /\ Outdone(b) /\ maker[b] = "ENDED" /\ (me.listed => Committed(b))
    BY <1>1, <1>10 DEF RecordDeletion, Follows, Request
  <2>3. /\ status' \in [Backups -> Status] /\ deleted' \in [Backups -> BOOLEAN]
        /\ rows' \in [Backups -> {"NONE", "READY", "DELETED"}]
    BY <1>1, <1>10 DEF RecordDeletion, TypeOK, Status
  <2>4. \A c \in Backups \ {b} :
          status'[c] = status[c] /\ deleted'[c] = deleted[c] /\ rows'[c] = rows[c]
    BY <1>1, <1>10 DEF RecordDeletion, TypeOK
  <2>5. status'[b] = "DELETED" /\ rows'[b] = IF me.listed THEN "DELETED" ELSE rows[b]
    BY <1>1, <1>10, <2>2 DEF RecordDeletion, TypeOK
  <2>6. \A c \in Backups : Committed(c)' <=> Committed(c)
    BY <2>2, <2>4, <2>5 DEF Committed
  <2>7. \A c \in Backups : Intact(c) => Intact(c)' \/ Outdone(c)
    BY <1>10, <2>2, <2>4 DEF RecordDeletion, Intact
  <2>8. \A c \in Backups : status'[c] \in Completed => status[c] \in Completed
    BY <2>4, <2>5 DEF Completed
  <2>9. /\ UNCHANGED <<clock, began, due, doneAt, objects, maker, testVars, faults>>
        /\ objects' \in [Backups -> SUBSET Files] /\ faults' \in 0 .. MaxFaults
        /\ \A c \in Backups : deleted'[c] => deleted[c] \/ maker[c] = "ENDED"
    BY <1>1, <1>10, <2>2, <2>4 DEF RecordDeletion, TypeOK
  <2>10. QED
    BY <2>1, <2>3, <2>6, <2>7, <2>8, <2>9, RestingFollows, AgentMoves
<1>11. CASE AgentStops(a)
  <2>1. faults' \in 0 .. MaxFaults /\ agent' = [agent EXCEPT ![a] = Resting]
    BY <1>1, <1>11, FaultsAssumption DEF AgentStops, Fault
  <2>2. QED
    BY <1>2, <1>11, <2>1, RestingFollows DEF AgentStops
<1>12. QED
  BY <1>3, <1>4, <1>5, <1>6, <1>7, <1>8, <1>9, <1>10, <1>11 DEF Deleting

LEMMA BackupInvNext == ASSUME BackupInv, DeletesAtWork = FALSE, BackupNext PROVE BackupInv'
BY MakingStep, TestingStep, DeletingStep DEF BackupNext

-----------------------------------------------------------------------------
LEMMA CommittedStay ==
    ASSUME BackupInv, BackupNext
    PROVE  \A b \in Backups : Committed(b) => Committed(b)' /\ doneAt'[b] = doneAt[b]
<1> USE DEF Committed
<1>1. TypeOK /\ MakersCommitLast
  BY DEF BackupInv
<1>2. ASSUME NEW b \in Backups, Making(b)
      PROVE  \A c \in Backups : Committed(c) => Committed(c)' /\ doneAt'[c] = doneAt[c]
  <2>1. CASE Complete(b)
    BY <1>1, <2>1 DEF Complete, TypeOK, MakersCommitLast
  <2>2. CASE MarkFailed(b)
    BY <1>1, <2>2 DEF MarkFailed, TypeOK, MakersCommitLast
  <2>3. CASE ~Complete(b) /\ ~MarkFailed(b)
    <3>1. UNCHANGED <<rows, doneAt>>
      BY <1>2, <2>3 DEF Making, Begin, Encrypt, StartUpload, EndUpload, MoveOn, Upload, MakerFails,
         UndoUpload, MakerDies, backupVars
    <3>2. QED
      BY <3>1
  <2>4. QED
    BY <2>1, <2>2, <2>3
<1>3. ASSUME NEW t \in Tests, Testing(t) PROVE UNCHANGED <<rows, doneAt>>
  BY <1>3 DEF Testing, StartTest, AdvanceTest, TestPasses, TestFails, Stamped, RecordPass,
     RecordFailure, Recorded, TesterDies, backupVars
<1>4. ASSUME NEW a \in Agents, Deleting(a)
      PROVE  \A c \in Backups : Committed(c) => Committed(c)' /\ doneAt'[c] = doneAt[c]
  <2>1. CASE RecordDeletion(a)
    BY <1>1, <2>1 DEF RecordDeletion, TypeOK
  <2>2. CASE ~RecordDeletion(a)
    <3>1. UNCHANGED <<rows, doneAt>>
      BY <1>4, <2>2 DEF Deleting, AskVerify, CheckDeletion, OpenVerify, VerifyFails, VerifyDone,
         VerifyFile, DeleteObject, AgentStops, backupVars
    <3>2. QED
      BY <3>1
  <2>3. QED
    BY <2>1, <2>2
<1>5. QED
  BY <1>2, <1>3, <1>4 DEF BackupNext

LEMMA MaintenanceStep ==
    ASSUME MaintenanceInv, DeletesAtWork = FALSE, [MaintenanceNext]_allVars
    PROVE  MaintenanceInv'
<1>1. BackupInv /\ MaintenanceTypeOK /\ RunsAreCovered
  BY DEF MaintenanceInv
(* The backups do not notice what happens to the jobs                      *)
<1>2. ASSUME UNCHANGED <<backupVars, maker, testVars, agent>>,
             clock' \in {clock, clock + 1}, faults' \in 0 .. MaxFaults
      PROVE  BackupInv'
  <2>1. TypeOK'
    BY <1>1, <1>2 DEF BackupInv, TypeOK, backupVars, testVars
  <2>2. MakersCommitLast'
    BY <1>1, <1>2 DEF BackupInv, MakersCommitLast, Committed, TypeOK, backupVars
  <2>3. LossesAreOutdone' /\ TestsHaveBackups' /\ DeletionsFollow'
    BY <1>1, <1>2, <2>1, LossesKept, TestsKept, AgentsKept DEF backupVars, Committed
  <2>4. QED
    BY <2>1, <2>2, <2>3 DEF BackupInv
(* A run that was covered still is, as long as its job keeps its date and  *)
(* committed backups keep theirs                                           *)
<1>4. ASSUME MaintenanceTypeOK', BackupInv',
             \A b \in Backups : Committed(b) => Committed(b)' /\ doneAt'[b] = doneAt[b],
             \A j \in Jobs : job[j].status # "NONE" =>
                 job'[j].status # "NONE" /\ job'[j].at = job[j].at,
             \A r \in Runners : runner'[r].pc = "RUN" => runner'[r] = runner[r]
      PROVE  MaintenanceInv'
  BY <1>1, <1>4 DEF MaintenanceInv, RunsAreCovered
<1>5. CASE BackupNext /\ UNCHANGED jobVars
  <2>1. BackupInv' /\ MaintenanceTypeOK'
    BY <1>1, <1>5, BackupInvNext DEF MaintenanceTypeOK, BackupInv, jobVars
  <2>2. \A b \in Backups : Committed(b) => Committed(b)' /\ doneAt'[b] = doneAt[b]
    BY <1>1, <1>5, CommittedStay
  <2>3. QED
    BY <1>4, <1>5, <2>1, <2>2 DEF jobVars
<1>6. ASSUME NEW j \in Jobs, Analyse(j) PROVE MaintenanceInv'
  <2>1. clock' = clock + 1 /\ faults' \in 0 .. MaxFaults
    BY <1>1, <1>6 DEF Analyse, BackupInv, TypeOK
  <2>2. BackupInv'
    BY <1>2, <1>6, <2>1 DEF Analyse
  <2>3. MaintenanceTypeOK'
    <3>1. clock \in Nat
      BY <1>1 DEF BackupInv, TypeOK
    <3>2. [status |-> "ANALYSED", at |-> clock + 1, ref |-> NoBackup] \in JobRecord
      BY <3>1 DEF JobRecord
    <3>3. QED
      BY <1>1, <1>6, <2>2, <3>2 DEF Analyse, MaintenanceTypeOK, BackupInv
  <2>4. QED
    BY <1>1, <1>4, <1>6, <2>2, <2>3
       DEF Analyse, NewJob, MaintenanceTypeOK, backupVars, Committed
<1>7. ASSUME NEW j \in Jobs, RecordsChange(j) PROVE MaintenanceInv'
  <2>1. BackupInv'
    BY <1>1, <1>2, <1>7 DEF RecordsChange, vars, BackupInv, TypeOK
  <2>2. MaintenanceTypeOK'
    BY <1>1, <1>7, <2>1 DEF RecordsChange, MaintenanceTypeOK, BackupInv
  <2>3. QED
    BY <1>1, <1>4, <1>7, <2>1, <2>2 DEF RecordsChange, vars, backupVars, Committed
<1>8. ASSUME NEW r \in Runners, NEW j \in Jobs, NEW b \in Backups, LookUp(r, j, b)
      PROVE  MaintenanceInv'
  <2>1. BackupInv'
    BY <1>1, <1>2, <1>8 DEF LookUp, vars, BackupInv, TypeOK
  <2>2. MaintenanceTypeOK'
    BY <1>1, <1>8, <2>1 DEF LookUp, MaintenanceTypeOK, BackupInv
  <2>3. QED
    BY <1>1, <1>4, <1>8, <2>1, <2>2 DEF LookUp, vars, backupVars, Committed, MaintenanceTypeOK
<1>9. ASSUME NEW r \in Runners, SaveBackup(r) PROVE MaintenanceInv'
  <2>1. BackupInv'
    BY <1>1, <1>2, <1>9 DEF SaveBackup, vars, BackupInv, TypeOK
  <2>2. MaintenanceTypeOK'
    <3> DEFINE j == runner[r].job
    <3>1. j \in Jobs \cup {NoJob} /\ runner[r].ref \in Backups \cup {NoBackup}
      BY <1>1 DEF MaintenanceTypeOK
    <3>2. job' = [job EXCEPT ![j] = [job[j] EXCEPT !.ref = runner[r].ref,
                                                 !.status = "BACKUP_CONFIRMED"]]
      BY <1>1, <1>9, <3>1 DEF SaveBackup, MaintenanceTypeOK
    <3>3. j \in Jobs =>
            [job[j] EXCEPT !.ref = runner[r].ref, !.status = "BACKUP_CONFIRMED"] \in JobRecord
      <4>1. ASSUME NEW x \in JobRecord
            PROVE  [x EXCEPT !.ref = runner[r].ref, !.status = "BACKUP_CONFIRMED"] \in JobRecord
        BY <3>1 DEF JobRecord
      <4>2. QED
        BY <1>1, <4>1 DEF MaintenanceTypeOK
    <3>4. job' \in [Jobs -> JobRecord]
      BY <1>1, <3>2, <3>3 DEF MaintenanceTypeOK
    <3>5. QED
      BY <1>1, <1>9, <2>1, <3>4 DEF SaveBackup, MaintenanceTypeOK, BackupInv, Idle
  <2>3. QED
    BY <1>1, <1>4, <1>9, <2>1, <2>2
       DEF SaveBackup, vars, backupVars, Committed, MaintenanceTypeOK, Idle
<1>10. ASSUME NEW r \in Runners, NEW j \in Jobs, StartRun(r, j) PROVE MaintenanceInv'
  <2> DEFINE b == job[j].ref
  <2>1. BackupInv'
    BY <1>1, <1>2, <1>10 DEF StartRun, vars, BackupInv, TypeOK
  <2>2. b \in Backups /\ Committed(b) /\ doneAt[b] >= job[j].at
    <3>1. PICK t \in Tests : test[t].backup = b /\ test[t].status = "PASSED"
      BY <1>10 DEF StartRun, Eligible, TestsOf
    <3>2. b \in Backups
      BY <1>1, <3>1 DEF BackupInv, TestsHaveBackups
    <3>3. QED
      BY <1>1, <1>10, <3>2 DEF StartRun, Eligible, BackupInv, MakersCommitLast, Completed
  <2>3. MaintenanceTypeOK'
    BY <1>1, <1>10, <2>1, <2>2 DEF StartRun, MaintenanceTypeOK, BackupInv
  <2>4. RunsAreCovered'
    BY <1>1, <1>10, <2>2
       DEF StartRun, RunsAreCovered, MaintenanceTypeOK, vars, backupVars, Committed
  <2>5. QED
    BY <2>1, <2>3, <2>4 DEF MaintenanceInv
<1>11. ASSUME NEW r \in Runners, Wipe(r) PROVE MaintenanceInv'
  <2>1. BackupInv'
    BY <1>1, <1>2, <1>11 DEF Wipe, vars, BackupInv, TypeOK
  <2>2. MaintenanceTypeOK'
    BY <1>1, <1>11, <2>1 DEF Wipe, MaintenanceTypeOK, BackupInv
  <2>3. QED
    BY <1>1, <1>4, <1>11, <2>1, <2>2 DEF Wipe, vars, backupVars, Committed, MaintenanceTypeOK
<1>12. ASSUME NEW r \in Runners, FinishRun(r) PROVE MaintenanceInv'
  <2>1. BackupInv'
    BY <1>1, <1>2, <1>12 DEF FinishRun, vars, BackupInv, TypeOK
  <2>2. MaintenanceTypeOK'
    <3>1. job' \in [Jobs -> JobRecord]
      <4>1. job \in [Jobs -> JobRecord]
        BY <1>1 DEF MaintenanceTypeOK
      <4>2. \A n \in Jobs : [job[n] EXCEPT !.status = "COMPLETED"] \in JobRecord
        BY <4>1 DEF JobRecord
      <4>3. job' = [job EXCEPT ![runner[r].job].status = "COMPLETED"]
        BY <1>12 DEF FinishRun
      <4>4. QED
        BY <4>1, <4>2, <4>3
    <3>2. executed' \in [Jobs -> BOOLEAN] /\ matches' \in [Jobs -> BOOLEAN]
      BY <1>1, <1>12 DEF FinishRun, MaintenanceTypeOK
    <3>3. runner' \in [Runners -> [pc : {"REST", "REGISTER", "RUN", "REPORT"},
                                   job : Jobs \cup {NoJob}, ref : Backups \cup {NoBackup}]]
      BY <1>1, <1>12 DEF FinishRun, MaintenanceTypeOK, Idle
    <3>4. QED
      BY <2>1, <3>1, <3>2, <3>3 DEF MaintenanceTypeOK, BackupInv
  <2>3. QED
    BY <1>1, <1>4, <1>12, <2>1, <2>2
       DEF FinishRun, vars, backupVars, Committed, MaintenanceTypeOK, Idle
<1>13. ASSUME NEW r \in Runners, RunnerStops(r) PROVE MaintenanceInv'
  <2>1. faults' \in 0 .. MaxFaults
    BY <1>1, <1>13, FaultsAssumption DEF RunnerStops, Fault, BackupInv, TypeOK
  <2>2. BackupInv'
    BY <1>2, <1>13, <2>1 DEF RunnerStops
  <2>3. MaintenanceTypeOK'
    BY <1>1, <1>13, <2>2 DEF RunnerStops, MaintenanceTypeOK, BackupInv, Idle
  <2>4. QED
    BY <1>1, <1>4, <1>13, <2>2, <2>3
       DEF RunnerStops, backupVars, Committed, MaintenanceTypeOK, Idle
<1>14. CASE UNCHANGED allVars
  <2>1. BackupInv'
    BY <1>1, <1>2, <1>14 DEF allVars, vars, BackupInv, TypeOK
  <2>2. MaintenanceTypeOK'
    BY <1>1, <1>14, <2>1 DEF allVars, jobVars, MaintenanceTypeOK, BackupInv
  <2>3. QED
    BY <1>1, <1>4, <1>14, <2>1, <2>2 DEF allVars, jobVars, vars, backupVars, Committed
<1>15. QED
  BY <1>5, <1>6, <1>7, <1>8, <1>9, <1>10, <1>11, <1>12, <1>13, <1>14 DEF MaintenanceNext

LEMMA MaintenanceInvHolds == ASSUME DeletesAtWork = FALSE PROVE MaintenanceSpec => []MaintenanceInv
<1>1. MaintenanceInit => MaintenanceInv
  <2> SUFFICES ASSUME MaintenanceInit PROVE MaintenanceInv
    OBVIOUS
  <2>1. BackupInv
    BY BackupInvInit DEF MaintenanceInit
  <2>2. MaintenanceTypeOK
    BY <2>1 DEF MaintenanceInit, MaintenanceTypeOK, JobRecord, BackupInv, NewJob, Idle
  <2>3. RunsAreCovered
    BY DEF MaintenanceInit, RunsAreCovered, Idle
  <2>4. QED
    BY <2>1, <2>2, <2>3 DEF MaintenanceInv
<1>2. MaintenanceInv /\ [MaintenanceNext]_allVars => MaintenanceInv'
  BY MaintenanceStep
<1>3. QED
  BY <1>1, <1>2, PTL DEF MaintenanceSpec

-----------------------------------------------------------------------------
(* TypeOK of the backups and of the maintenance jobs always holds          *)
THEOREM MaintenanceTyped ==
    ASSUME DeletesAtWork = FALSE PROVE MaintenanceSpec => []MaintenanceTypeOK
BY MaintenanceInvHolds, PTL DEF MaintenanceInv

(* Every backup ever completed has behind it one that is whole and at      *)
(* least as new: the newest one that no deletion, failure or crash of      *)
(* backups.service.ts can touch                                            *)
THEOREM BackupRemains ==
    ASSUME DeletesAtWork = FALSE PROVE MaintenanceSpec => []IntactBackupRemains
<1>1. MaintenanceInv => IntactBackupRemains
  BY WholeBehindEach DEF MaintenanceInv, IntactBackupRemains, CommittedSet, Committed
<1>2. QED
  BY <1>1, MaintenanceInvHolds, PTL

(* A backup that maintenance accepts has no unfinished restore test, and   *)
(* its last one to finish has passed                                       *)
THEOREM EligibleProven ==
    ASSUME DeletesAtWork = FALSE PROVE MaintenanceSpec => []EligibleMeansProven
<1>1. MaintenanceInv => EligibleMeansProven
  <2> SUFFICES ASSUME MaintenanceInv, NEW b \in Backups, Eligible(b, 0)
               PROVE  /\ \A u \in TestsOf(b) : test[u].status \in {"PASSED", "FAILED"}
                      /\ \E t \in TestsOf(b) : /\ test[t].status = "PASSED"
                                             /\ \A u \in TestsOf(b) : test[u].at <= test[t].at
    BY DEF EligibleMeansProven
  <2>1. PICK t \in TestsOf(b) : IsNewestTest(t) /\ test[t].status = "PASSED"
    BY DEF Eligible
  <2>2. \A u \in TestsOf(b) :
          u \in Tests /\ (test[u].at # 0 <=> test[u].status \in {"PASSED", "FAILED"})
    BY DEF MaintenanceInv, BackupInv, TestsHaveBackups, TestsOf
  <2>3. \A u \in TestsOf(b) : test[u].at # 0 /\ test[u].at <= test[t].at
    BY <2>1, <2>2 DEF IsNewestTest, TestsOf
  <2>4. QED
    BY <2>1, <2>2, <2>3
<1>2. QED
  BY <1>1, MaintenanceInvHolds, PTL

(* A run of data-maintenance.service.ts removes records only while a whole *)
(* backup that was finished after its analysis exists                      *)
THEOREM RunCovered ==
    ASSUME DeletesAtWork = FALSE PROVE MaintenanceSpec => []RunIsCovered
<1>1. MaintenanceInv => RunIsCovered
  <2> SUFFICES ASSUME MaintenanceInv, NEW r \in Runners, runner[r].pc = "RUN"
               PROVE  \E c \in Backups : Intact(c) /\ doneAt[c] >= job[runner[r].job].at
    BY DEF RunIsCovered
  <2>1. /\ runner[r].ref \in Backups /\ Committed(runner[r].ref) /\ runner[r].job \in Jobs
        /\ doneAt[runner[r].ref] >= job[runner[r].job].at
    BY DEF MaintenanceInv, RunsAreCovered
  <2>2. PICK c \in Backups : Intact(c) /\ doneAt[c] >= doneAt[runner[r].ref]
    BY <2>1, WholeBehindEach DEF MaintenanceInv
  <2>3. /\ doneAt[c] \in Nat /\ doneAt[runner[r].ref] \in Nat
        /\ job[runner[r].job].at \in Nat
    BY <2>1 DEF MaintenanceInv, BackupInv, TypeOK, MaintenanceTypeOK, JobRecord
  <2>4. QED
    BY <2>1, <2>2, <2>3
<1>2. QED
  BY <1>1, MaintenanceInvHolds, PTL
=============================================================================
