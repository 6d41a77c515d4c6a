------------------------- MODULE MCDataMaintenance -------------------------
(* Model values, bounds and symmetry for the run of DataMaintenance *)
EXTENDS DataMaintenance, TLC

CONSTANTS b1, b2, b3

MCSymmetry == Permutations(Agents) \cup Permutations(Tests)

(* Backups are made once each and are interchangeable: they may as well be  *)
(* made in the order of their names                                         *)
Turn(b) == (b = b2 => maker[b1] # "NONE") /\ (b = b3 => maker[b2] # "NONE")

AloneAtWork(a) == \A o \in Agents \ {a} : agent[o].pc = "REST"

(* The run explores the union of two spaces.  Two backups, made one after   *)
(* the other without an error, with restore tests, jobs, and verifications  *)
(* and deletions one at a time:                                             *)
MadeInTurn(b) ==
    /\ b = b2 => maker[b1] = "ENDED"
    /\ Making(b)
    /\ maker'[b] # "UNDOING" /\ (maker'[b] = "ENDED" => status'[b] = "COMPLETED")

TestsAndJobs ==
    /\ maker[b3] = "NONE" /\ \E a \in Agents : AloneAtWork(a)
    /\ \/ /\ \/ \E b \in {b1, b2} : MadeInTurn(b)
             \/ \E t \in Tests : Testing(t)
             \/ \E a \in Agents : AloneAtWork(a) /\ Deleting(a)
          /\ UNCHANGED jobVars
       \/ \E j \in Jobs : Analyse(j) \/ RecordsChange(j)
       \/ \E r \in Runners, j \in Jobs : StartRun(r, j) \/ \E b \in Backups : LookUp(r, j, b)
       \/ \E r \in Runners : SaveBackup(r) \/ Wipe(r) \/ FinishRun(r) \/ RunnerStops(r)

(* and three backups, made and failing at any time, with two verifications  *)
(* or deletions at once, before any test or job.                            *)
Deletions ==
    /\ \A t \in Tests : tester[t] = "NONE"
    /\ \A j \in Jobs : job[j].status = "NONE"
    /\ (\E b \in Backups : Turn(b) /\ Making(b)) \/ (\E a \in Agents : Deleting(a))
    /\ UNCHANGED jobVars

MCSpec == MaintenanceInit /\ [][TestsAndJobs \/ Deletions]_allVars
=============================================================================
