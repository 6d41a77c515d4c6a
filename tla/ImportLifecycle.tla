--------------------------- MODULE ImportLifecycle ---------------------------
(***************************************************************************)
(* What a bulk import promises its operator, without workers, queues or    *)
(* storage: the status moves along one graph, records appear only while    *)
(* the job is PROCESSING and once per row, completion publishes a report   *)
(* of exactly the imported rows, and nothing but a rollback, which removes *)
(* every record, touches a finished job.                                   *)
(***************************************************************************)
EXTENDS Naturals

CONSTANT Rows     \* data rows of the workbook

VARIABLES
    phase,        \* status of the job
    records,      \* records[r]: live records created from row r
    published     \* rows listed by the result report

lifecycle == <<phase, records, published>>

Init ==
    /\ phase = "VALIDATING"
    /\ records = [r \in Rows |-> 0]
    /\ published = {}

Move(from, to) == phase \in from /\ phase' = to /\ UNCHANGED <<records, published>>

Validate == Move({"VALIDATING"}, "READY")
Accept   == Move({"READY"}, "QUEUED")
Start    == Move({"QUEUED"}, "PROCESSING")
Withdraw == Move({"READY"}, "CANCELLED")
Abandon  == Move({"VALIDATING", "QUEUED", "PROCESSING"}, "FAILED")

ImportRows(S) ==
    /\ phase = "PROCESSING" /\ phase' = phase
    /\ \A r \in S : records[r] = 0
    /\ records' = [r \in Rows |-> IF r \in S THEN 1 ELSE records[r]]
    /\ published' = published

Publish ==
    /\ phase = "PROCESSING" /\ phase' = "COMPLETED"
    /\ published' = {r \in Rows : records[r] > 0}
    /\ records' = records

Undo ==
    /\ phase \in {"COMPLETED", "FAILED"} /\ phase' = "ROLLED_BACK"
    /\ records' = [r \in Rows |-> 0]
    /\ published' = published

Next ==
    \/ Validate \/ Accept \/ Start \/ Withdraw \/ Abandon
    \/ \E S \in SUBSET Rows : ImportRows(S)
    \/ Publish \/ Undo

Spec == Init /\ [][Next]_lifecycle
=============================================================================
