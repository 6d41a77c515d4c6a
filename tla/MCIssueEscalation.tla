--------------------------- MODULE MCIssueEscalation ---------------------------
(* Model values and priorities for the run of IssueEscalation *)
EXTENDS IssueEscalation

CONSTANTS urgent, ordinary

MCRank == [i \in Issues |-> IF i = urgent THEN 2 ELSE 1]
=============================================================================
