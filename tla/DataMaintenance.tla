-------------------------- MODULE DataMaintenance --------------------------
(***************************************************************************)
(* Controlled clean-up of old data behind a tested backup, after           *)
(* apps/api/src/modules/admin/data-maintenance.service.ts, composed with   *)
(* the backups it relies on.  A job is analysed, a backup is registered    *)
(* for it and it is executed.  The backup is looked up before the records  *)
(* are touched, and nothing keeps it from being tested again or deleted    *)
(* in between.                                                             *)
(***************************************************************************)
EXTENDS BackupLifecycle

CONSTANTS
    Jobs,
    Runners,     \* requests on maintenance jobs that run at once
    NoJob

ASSUME NoJobAssumption == NoJob \notin Jobs

VARIABLES
    job,         \* data_maintenance_jobs: status, createdAt, backupReference
    executed,    \* executedAt is set
    matches,     \* the records counted by the analysis are still the ones that match
    runner       \* what each request is doing

jobVars == <<job, executed, matches, runner>>
allVars == <<vars, jobVars>>

JobRecord == [status : {"NONE", "ANALYSED", "BACKUP_CONFIRMED", "COMPLETED"},
              at : Nat, ref : Backups \cup {NoBackup}]

NewJob == [status |-> "NONE", at |-> 0, ref |-> NoBackup]
Idle   == [pc |-> "REST", job |-> NoJob, ref |-> NoBackup]

MaintenanceInit ==
    /\ Init
    /\ job = [j \in Jobs |-> NewJob]
    /\ executed = [j \in Jobs |-> FALSE] /\ matches = [j \in Jobs |-> FALSE]
    /\ runner = [r \in Runners |-> Idle]

-----------------------------------------------------------------------------
(* dryRun: the matching records are counted and the job is written         *)
Analyse(j) ==
    /\ job[j].status = "NONE"
    /\ clock'   = clock + 1
    /\ job'     = [job EXCEPT ![j] = [status |-> "ANALYSED", at |-> clock + 1, ref |-> NoBackup]]
    /\ matches' = [matches EXCEPT ![j] = TRUE]
    /\ UNCHANGED <<backupVars, maker, testVars, agent, faults, executed, runner>>

(* Other requests add or change records that the job would touch           *)
RecordsChange(j) ==
    /\ matches[j]
    /\ matches' = [matches EXCEPT ![j] = FALSE]
    /\ UNCHANGED <<vars, job, executed, runner>>

(* registerBackup reads the job and looks the backup up, then saves        *)
LookUp(r, j, b) ==
    /\ runner[r].pc = "REST"
    /\ ~executed[j] /\ job[j].status \in {"ANALYSED", "BACKUP_CONFIRMED"}
    /\ Eligible(b, job[j].at)
    /\ runner' = [runner EXCEPT ![r] = [pc |-> "REGISTER", job |-> j, ref |-> b]]
    /\ UNCHANGED <<vars, job, executed, matches>>

SaveBackup(r) ==
    LET j == runner[r].job IN
    /\ runner[r].pc = "REGISTER"
    /\ job'    = [job EXCEPT ![j].ref = runner[r].ref, ![j].status = "BACKUP_CONFIRMED"]
    /\ runner' = [runner EXCEPT ![r] = Idle]
    /\ UNCHANGED <<vars, executed, matches>>

(* execute: the backup is looked up and the records are counted again ...  *)
StartRun(r, j) ==
    /\ runner[r].pc = "REST"
    /\ ~executed[j] /\ job[j].status = "BACKUP_CONFIRMED"
    /\ Eligible(job[j].ref, job[j].at)
    /\ matches[j]
    /\ runner' = [runner EXCEPT ![r] = [pc |-> "RUN", job |-> j, ref |-> job[j].ref]]
    /\ UNCHANGED <<vars, job, executed, matches>>

(* ... then one transaction archives or removes them ...                   *)
Wipe(r) ==
    LET j == runner[r].job IN
    /\ runner[r].pc = "RUN"
    /\ matches' = [matches EXCEPT ![j] = FALSE]
    /\ runner'  = [runner EXCEPT ![r].pc = "REPORT"]
    /\ UNCHANGED <<vars, job, executed>>

(* ... and another one completes the job                                   *)
FinishRun(r) ==
    LET j == runner[r].job IN
    /\ runner[r].pc = "REPORT"
    /\ job'      = [job EXCEPT ![j].status = "COMPLETED"]
    /\ executed' = [executed EXCEPT ![j] = TRUE]
    /\ runner'   = [runner EXCEPT ![r] = Idle]
    /\ UNCHANGED <<vars, matches>>

(* An error of the database, or a crash                                    *)
RunnerStops(r) ==
    /\ runner[r].pc # "REST" /\ Fault
    /\ runner' = [runner EXCEPT ![r] = Idle]
    /\ UNCHANGED <<clock, backupVars, maker, testVars, agent, job, executed, matches>>

MaintenanceNext ==
    \/ BackupNext /\ UNCHANGED jobVars
    \/ \E j \in Jobs : Analyse(j) \/ RecordsChange(j)
    \/ \E r \in Runners, j \in Jobs : StartRun(r, j) \/ \E b \in Backups : LookUp(r, j, b)
    \/ \E r \in Runners : SaveBackup(r) \/ Wipe(r) \/ FinishRun(r) \/ RunnerStops(r)

MaintenanceSpec == MaintenanceInit /\ [][MaintenanceNext]_allVars

-----------------------------------------------------------------------------
MaintenanceTypeOK ==
    /\ TypeOK
    /\ job \in [Jobs -> JobRecord]
    /\ executed \in [Jobs -> BOOLEAN] /\ matches \in [Jobs -> BOOLEAN]
    /\ runner \in [Runners -> [pc : {"REST", "REGISTER", "RUN", "REPORT"},
                               job : Jobs \cup {NoJob}, ref : Backups \cup {NoBackup}]]

(* While a run is about to remove records, a whole backup that was         *)
(* finished after the analysis exists, even if the registered backup has   *)
(* been deleted since it was looked up                                     *)
RunIsCovered ==
    \A r \in Runners : runner[r].pc = "RUN" =>
        \E c \in Backups : Intact(c) /\ doneAt[c] >= job[runner[r].job].at
=============================================================================
