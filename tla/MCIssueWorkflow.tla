--------------------------- MODULE MCIssueWorkflow ---------------------------
(* Model values and symmetry for the runs of IssueWorkflow *)
EXTENDS IssueWorkflow, TLC

Interchangeable == Permutations(Requests)
=============================================================================
