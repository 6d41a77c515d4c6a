-------------------------- MODULE MCIssueReporting --------------------------
(* Three requests: a report, its retry under the same key, and another user *)
EXTENDS IssueReporting, TLC

CONSTANTS u1, u2, q1, q2, q3, k1, k2

MCUserOf == q1 :> u1 @@ q2 :> u1 @@ q3 :> u2
MCKeyOf  == q1 :> k1 @@ q2 :> k1 @@ q3 :> k2
=============================================================================
