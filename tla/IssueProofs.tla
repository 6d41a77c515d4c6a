----------------------------- MODULE IssueProofs -----------------------------
(***************************************************************************)
(* Proofs about the life of an issue: IssueWorkflow, for any number of     *)
(* requests and versions; IssueEscalation, for any number of issues, scans *)
(* and any batch; IssueReporting, for any users, reports and retries.      *)
(***************************************************************************)
EXTENDS IssueWorkflow, IssueEscalation, IssueReporting, FiniteSetTheorems, TLAPS

(* ---- IssueWorkflow ---- *)

Active(r) == req[r].op # "none"

(* What a request read is the past of the issue; an equal version means    *)
(* that nobody changed the issue since.                                    *)
ReadsPast ==
    \A r \in Requests : Active(r) =>
        /\ req[r].version <= version
        /\ req[r].version = version => req[r].status = status

(* What a request wants was allowed when it read. *)
Wanted(q) ==
    /\ q.op = "status" => q.target \in Settable(q.status)
    /\ q.op = "assign" => q.status \in Assignable /\ q.target = "ASSIGNED"
    /\ q.op = "finish" => q.target = "VERIFICATION_PENDING"
    /\ q.op = "verify" => q.status \in AwaitsVerification /\ q.target \in {"CLOSED", "REOPENED"}
TargetsAllowed == \A r \in Requests : Wanted(req[r])

(* No event has the key of a version still to come. *)
EventsPast == \A e \in outbox : e[2] <= version

WorkflowInv ==
    /\ TypeOK
    /\ ReadsPast /\ TargetsAllowed /\ EventsPast
    /\ HistoryEndsInStatus
    /\ ClosedWithEvidence

-----------------------------------------------------------------------------
LEMMA SettableStatus ==
  \A s \in IssueStatus : Settable(s) \subseteq IssueStatus \ EvidenceStatus
BY DEF Settable, Transitions, IssueStatus, Waiting, EvidenceStatus

LEMMA WorkflowInvInit == Init => WorkflowInv
<1> SUFFICES ASSUME Init PROVE WorkflowInv
  OBVIOUS
<1>1. TypeOK
  BY DEF Init, TypeOK, IssueStatus, RequestType, NoRequest, EventKey
<1>2. ReadsPast /\ TargetsAllowed
  BY DEF Init, ReadsPast, TargetsAllowed, Wanted, Active, NoRequest
<1>3. EventsPast /\ HistoryEndsInStatus /\ ClosedWithEvidence
  BY DEF Init, EventsPast, HistoryEndsInStatus, ClosedWithEvidence, EvidenceStatus
<1>4. QED
  BY <1>1, <1>2, <1>3 DEF WorkflowInv

(* A request that reads *)
LEMMA ReadStep ==
  ASSUME WorkflowInv, NEW r \in Requests,
         NEW op \in {"status", "assign", "finish", "verify", "timeline"},
         NEW target \in IssueStatus, Read(r, op, target),
         Wanted([op |-> op, status |-> status, version |-> version, target |-> target])
  PROVE  WorkflowInv'
<1> DEFINE q == [op |-> op, status |-> status, version |-> version, target |-> target]
<1>1. /\ req' = [req EXCEPT ![r] = q]
      /\ UNCHANGED <<status, version, latest, resolution, outbox>>
  BY DEF Read
<1>2. q \in RequestType
  BY DEF WorkflowInv, TypeOK, RequestType
<1>3. TypeOK'
  BY <1>1, <1>2 DEF WorkflowInv, TypeOK
<1>4. ReadsPast'
  BY <1>1 DEF WorkflowInv, TypeOK, ReadsPast, Active
<1>5. TargetsAllowed'
  BY <1>1 DEF WorkflowInv, TypeOK, TargetsAllowed
<1>6. QED
  BY <1>1, <1>3, <1>4, <1>5 DEF WorkflowInv, EventsPast, HistoryEndsInStatus, ClosedWithEvidence

(* A transaction that leaves the issue at a later version *)
LEMMA CommitStep ==
  ASSUME WorkflowInv, NEW r \in Requests, Answer(r),
         version' \in Nat, version' > version,
         status' \in IssueStatus, resolution' \in {"none", "done", "verified"},
         latest' \in [from : IssueStatus, to : IssueStatus],
         outbox' = outbox \/ \E kind \in {"issue.status", "issue.assigned", "issue.finished"},
                                n \in 0..version' : outbox' = outbox \cup {<<kind, n>>},
         HistoryEndsInStatus', ClosedWithEvidence'
  PROVE  WorkflowInv'
<1>1. TypeOK'
  <2>1. NoRequest \in RequestType
    BY DEF NoRequest, RequestType, IssueStatus
  <2>2. req' \in [Requests -> RequestType]
    BY <2>1 DEF Answer, WorkflowInv, TypeOK
  <2>3. outbox' \subseteq EventKey
    BY DEF WorkflowInv, TypeOK, EventKey
  <2>4. QED
    BY <2>2, <2>3 DEF TypeOK
<1>2. \A p \in Requests : req'[p] = IF p = r THEN NoRequest ELSE req[p]
  BY DEF Answer, WorkflowInv, TypeOK
<1>3. \A p \in Requests : req[p].version \in Nat
  BY DEF WorkflowInv, TypeOK, RequestType
<1>4. version \in Nat
  BY DEF WorkflowInv, TypeOK
<1>5. ReadsPast'
  BY <1>2, <1>3, <1>4 DEF WorkflowInv, ReadsPast, Active, NoRequest
<1>6. TargetsAllowed'
  BY <1>2 DEF WorkflowInv, TargetsAllowed, Wanted, NoRequest
<1>7. EventsPast'
  <2>1. \A e \in outbox : e[2] \in Nat
    BY DEF WorkflowInv, TypeOK, EventKey
  <2>2. QED
    BY <1>4, <2>1 DEF WorkflowInv, EventsPast
<1>8. QED
  BY <1>1, <1>5, <1>6, <1>7 DEF WorkflowInv

(* A transaction that rolls back *)
LEMMA RefuseStep == ASSUME WorkflowInv, NEW r \in Requests, Refuse(r) PROVE WorkflowInv'
<1>1. NoRequest \in RequestType
  BY DEF NoRequest, RequestType, IssueStatus
<1>2. \A p \in Requests : req'[p] = IF p = r THEN NoRequest ELSE req[p]
  BY DEF Refuse, Answer, WorkflowInv, TypeOK
<1>3. TypeOK'
  BY <1>1 DEF Refuse, Answer, WorkflowInv, TypeOK
<1>4. ReadsPast' /\ TargetsAllowed'
  BY <1>2 DEF Refuse, WorkflowInv, ReadsPast, TargetsAllowed, Wanted, Active, NoRequest
<1>5. QED
  BY <1>3, <1>4 DEF Refuse, WorkflowInv, EventsPast, HistoryEndsInStatus, ClosedWithEvidence

-----------------------------------------------------------------------------
Kinds == {"issue.status", "issue.assigned", "issue.finished"}

(* The key of an event that names the next version is free. *)
LEMMA NextVersionFree ==
  ASSUME WorkflowInv, NEW r \in Requests
  PROVE  /\ NextVersion(r) \in Nat /\ NextVersion(r) > version
         /\ \A kind \in Kinds : <<kind, NextVersion(r)>> \notin outbox
<1>1. version \in Nat
  BY DEF WorkflowInv, TypeOK
<1>2. NextVersion(r) \in Nat /\ NextVersion(r) > version
  BY <1>1 DEF NextVersion
<1>3. QED
  BY <1>1, <1>2 DEF WorkflowInv, EventsPast

(* An unchanged issue is the one that was read. *)
LEMMA AsRead ==
  ASSUME WorkflowInv, NEW r \in Requests, Active(r), Unchanged(r)
  PROVE  req[r].status = status
BY DEF WorkflowInv, TypeOK, ReadsPast, Unchanged

LEMMA StatusStep == ASSUME WorkflowInv, NEW r \in Requests, StatusCommit(r) PROVE WorkflowInv'
<1> DEFINE key == <<"issue.status", NextVersion(r)>>
<1>1. CASE Unchanged(r) /\ Move(r, key) /\ version' = NextVersion(r) /\ Answer(r)
           /\ resolution' = resolution
  <2>1. /\ req[r].status \in IssueStatus /\ req[r].target \in IssueStatus
        /\ req[r].target \notin EvidenceStatus
    BY SettableStatus DEF StatusCommit, WorkflowInv, TypeOK, RequestType, TargetsAllowed, Wanted
  <2>2. HistoryEndsInStatus' /\ ClosedWithEvidence'
    BY <1>1, <2>1 DEF Move, HistoryEndsInStatus, ClosedWithEvidence, EvidenceStatus
  <2>3. QED
    BY <1>1, <2>1, <2>2, NextVersionFree, CommitStep DEF Move, WorkflowInv, TypeOK
<1>2. CASE Refuse(r)
  BY <1>2, RefuseStep
<1>3. QED
  BY <1>1, <1>2 DEF StatusCommit

LEMMA AssignStep == ASSUME WorkflowInv, NEW r \in Requests, AssignCommit(r) PROVE WorkflowInv'
<1> DEFINE key == <<"issue.assigned", NextVersion(r)>>
<1>1. CASE /\ status = req[r].status
           /\ status' = "ASSIGNED" /\ version' = NextVersion(r)
           /\ latest' = (IF Reassigned(r) THEN latest
                         ELSE [from |-> req[r].status, to |-> "ASSIGNED"])
           /\ outbox' = outbox \cup {key}
           /\ Answer(r) /\ resolution' = resolution
  <2>1. HistoryEndsInStatus' /\ ClosedWithEvidence'
    BY <1>1 DEF Reassigned, WorkflowInv, HistoryEndsInStatus, ClosedWithEvidence, EvidenceStatus
  <2>2. "ASSIGNED" \in IssueStatus /\ status \in IssueStatus
    BY DEF IssueStatus, WorkflowInv, TypeOK
  <2>3. latest' \in [from : IssueStatus, to : IssueStatus]
    BY <1>1, <2>2 DEF WorkflowInv, TypeOK
  <2>4. QED
    BY <1>1, <2>1, <2>2, <2>3, NextVersionFree, CommitStep DEF WorkflowInv, TypeOK
<1>2. CASE Refuse(r)
  BY <1>2, RefuseStep
<1>3. QED
  BY <1>1, <1>2 DEF AssignCommit

LEMMA FinishStep == ASSUME WorkflowInv, NEW r \in Requests, FinishCommit(r) PROVE WorkflowInv'
<1> DEFINE key == <<"issue.finished", 0>>
<1>1. CASE Move(r, key) /\ version' = version + 1 /\ Answer(r)
           /\ resolution' = (IF resolution = "none" THEN "done" ELSE resolution)
  <2>1. /\ req[r].target = "VERIFICATION_PENDING" /\ req[r].status \in IssueStatus
        /\ version \in Nat
    BY DEF FinishCommit, WorkflowInv, TypeOK, RequestType, TargetsAllowed, Wanted
  <2>2. HistoryEndsInStatus' /\ ClosedWithEvidence'
    BY <1>1, <2>1 DEF Move, HistoryEndsInStatus, ClosedWithEvidence
  <2>3. "VERIFICATION_PENDING" \in IssueStatus
    BY DEF IssueStatus
  <2>4. QED
    BY <1>1, <2>1, <2>2, <2>3, CommitStep DEF Move, WorkflowInv, TypeOK
<1>2. CASE Refuse(r)
  BY <1>2, RefuseStep
<1>3. QED
  BY <1>1, <1>2 DEF FinishCommit

LEMMA VerifyStep == ASSUME WorkflowInv, NEW r \in Requests, VerifyCommit(r) PROVE WorkflowInv'
<1> DEFINE key == <<"issue.status", NextVersion(r)>>
<1>1. CASE Unchanged(r) /\ status = req[r].status /\ Move(r, key)
           /\ version' = NextVersion(r) /\ resolution' = Judged(r) /\ Answer(r)
  <2>1. /\ req[r].target \in {"CLOSED", "REOPENED"} /\ req[r].status \in IssueStatus
        /\ status \in AwaitsVerification
    BY <1>1 DEF VerifyCommit, WorkflowInv, TypeOK, RequestType, TargetsAllowed, Wanted
  <2>2. resolution \in {"done", "verified"}
    BY <2>1 DEF WorkflowInv, TypeOK, ClosedWithEvidence, AwaitsVerification, EvidenceStatus
  <2>3. HistoryEndsInStatus' /\ ClosedWithEvidence'
    BY <1>1, <2>1, <2>2 DEF Move, Judged, HistoryEndsInStatus, ClosedWithEvidence, EvidenceStatus
  <2>4. {"CLOSED", "REOPENED"} \subseteq IssueStatus
    BY DEF IssueStatus
  <2>5. QED
    BY <1>1, <2>1, <2>2, <2>3, <2>4, NextVersionFree, CommitStep DEF Move, Judged
<1>2. CASE Refuse(r)
  BY <1>2, RefuseStep
<1>3. QED
  BY <1>1, <1>2 DEF VerifyCommit

LEMMA TimelineStep == ASSUME WorkflowInv, NEW r \in Requests, TimelineCommit(r) PROVE WorkflowInv'
<1>1. version \in Nat
  BY DEF WorkflowInv, TypeOK
<1>2. HistoryEndsInStatus' /\ ClosedWithEvidence'
  BY DEF TimelineCommit, WorkflowInv, HistoryEndsInStatus, ClosedWithEvidence
<1>3. QED
  BY <1>1, <1>2, CommitStep DEF TimelineCommit, WorkflowInv, TypeOK

LEMMA WorkflowInvStep == WorkflowInv /\ [Next]_vars => WorkflowInv'
<1> SUFFICES ASSUME WorkflowInv, [Next]_vars PROVE WorkflowInv'
  OBVIOUS
<1>1. CASE UNCHANGED vars
  BY <1>1 DEF vars, WorkflowInv, TypeOK, ReadsPast, TargetsAllowed, Wanted, Active, EventsPast,
              HistoryEndsInStatus, ClosedWithEvidence
<1>2. ASSUME NEW r \in Requests, Request(r) PROVE WorkflowInv'
  <2>1. CASE StatusRead(r)
    BY <2>1, SettableStatus, ReadStep DEF StatusRead, Wanted, WorkflowInv, TypeOK
  <2>2. CASE AssignRead(r)
    BY <2>2, ReadStep DEF AssignRead, Wanted, IssueStatus
  <2>3. CASE FinishRead(r)
    BY <2>3, ReadStep DEF FinishRead, Wanted, IssueStatus
  <2>4. CASE VerifyRead(r)
    BY <2>4, ReadStep DEF VerifyRead, Wanted, IssueStatus
  <2>5. CASE TimelineRead(r)
    BY <2>5, ReadStep DEF TimelineRead, Wanted, WorkflowInv, TypeOK
  <2>6. QED
    BY <1>2, <2>1, <2>2, <2>3, <2>4, <2>5 DEF Request
<1>3. ASSUME NEW r \in Requests, Transaction(r) PROVE WorkflowInv'
  BY <1>3, StatusStep, AssignStep, FinishStep, VerifyStep, TimelineStep DEF Transaction
<1>4. QED
  BY <1>1, <1>2, <1>3 DEF Next

(* The invariant above holds for any interleaving of requests. *)
THEOREM WorkflowInductive == Spec => []WorkflowInv
BY WorkflowInvInit, WorkflowInvStep, PTL DEF Spec

(* The types, for any number of concurrent requests.                       *)
THEOREM WorkflowTyped == Spec => []TypeOK
<1>1. WorkflowInv => TypeOK
  BY DEF WorkflowInv
<1>2. QED
  BY <1>1, WorkflowInductive, PTL

(* The newest history row ends in the status of the issue.                 *)
THEOREM HistoryInStep == Spec => []HistoryEndsInStatus
<1>1. WorkflowInv => HistoryEndsInStatus
  BY DEF WorkflowInv
<1>2. QED
  BY <1>1, WorkflowInductive, PTL

(* Verification and closing need evidence; a closed issue has an accepted  *)
(* resolution.                                                             *)
THEOREM EvidenceFirst == Spec => []ClosedWithEvidence
<1>1. WorkflowInv => ClosedWithEvidence
  BY DEF WorkflowInv
<1>2. QED
  BY <1>1, WorkflowInductive, PTL

-----------------------------------------------------------------------------
(* A decision taken on an older state of the issue is never applied.       *)
THEOREM FreshDecisions == Spec => DecisionsAreFresh
<1> DEFINE Fresh ==
      latest' # latest /\ status' # "VERIFICATION_PENDING"
         => latest'.from = status /\ status' \in Edges(status)
<1>1. ASSUME WorkflowInv, [Next]_vars, latest' # latest, status' # "VERIFICATION_PENDING"
      PROVE  latest'.from = status /\ status' \in Edges(status)
  <2>1. PICK r \in Requests : Transaction(r)
    BY <1>1 DEF Next, vars, Request, Read, StatusRead, AssignRead, FinishRead, VerifyRead,
                TimelineRead
  <2>2. Wanted(req[r])
    BY <1>1 DEF WorkflowInv, TargetsAllowed
  <2>3. CASE StatusCommit(r)
    <3>1. Unchanged(r) /\ status' = req[r].target /\ latest'.from = req[r].status
      BY <1>1, <2>3 DEF StatusCommit, Move, Refuse
    <3>2. req[r].status = status
      BY <1>1, <2>3, <3>1, AsRead DEF StatusCommit, Active
    <3>3. QED
      BY <2>2, <2>3, <3>1, <3>2 DEF StatusCommit, Wanted, Edges
  <2>4. CASE AssignCommit(r)
    <3>1. status = req[r].status /\ status' = "ASSIGNED" /\ latest'.from = req[r].status
      BY <1>1, <2>4 DEF AssignCommit, Refuse
    <3>2. QED
      BY <2>2, <2>4, <3>1 DEF AssignCommit, Wanted, Edges
  <2>5. CASE FinishCommit(r)
    BY <1>1, <2>2, <2>5 DEF FinishCommit, Wanted, Move, Refuse
  <2>6. CASE VerifyCommit(r)
    <3>1. status = req[r].status /\ status' = req[r].target /\ latest'.from = req[r].status
      BY <1>1, <2>6 DEF VerifyCommit, Move, Refuse
    <3>2. QED
      BY <2>2, <2>6, <3>1 DEF VerifyCommit, Wanted, Edges
  <2>7. CASE TimelineCommit(r)
    BY <1>1, <2>7 DEF TimelineCommit
  <2>8. QED
    BY <2>1, <2>3, <2>4, <2>5, <2>6, <2>7 DEF Transaction
<1>2. WorkflowInv /\ [Next]_vars => [Fresh]_vars
  BY <1>1
<1>3. QED
  BY <1>2, WorkflowInductive, PTL DEF Spec, DecisionsAreFresh

(* Neither the version nor the key of the event refuses a decision on an   *)
(* issue nobody changed since it was read.                                 *)
THEOREM FreshDecisionsApplied == Spec => FreshDecisionSucceeds
<1> DEFINE Applied == FreshSucceeds({"status", "assign", "verify"})
<1>1. ASSUME WorkflowInv, [Next]_vars, NEW r \in Requests,
             req[r].op \in {"status", "assign", "verify"}, req'[r].op = "none",
             version = req[r].version, status = req[r].status
      PROVE  version' > version
  <2>1. PICK p \in Requests : Request(p) \/ Transaction(p)
    BY <1>1 DEF Next, vars
  <2>2. p = r
    <3>1. \E q : req' = [req EXCEPT ![p] = q]
      BY <2>1 DEF Request, Read, StatusRead, AssignRead, FinishRead, VerifyRead, TimelineRead,
          Transaction, StatusCommit, AssignCommit, FinishCommit, VerifyCommit, TimelineCommit,
          Refuse, Answer
    <3>2. QED
      BY <1>1, <3>1 DEF WorkflowInv, TypeOK
  <2>3. StatusCommit(r) \/ AssignCommit(r) \/ VerifyCommit(r)
    BY <1>1, <2>1, <2>2 DEF Request, Read, StatusRead, AssignRead, FinishRead, VerifyRead,
        TimelineRead, Transaction, FinishCommit, TimelineCommit
  <2>4. Unchanged(r) /\ \A kind \in Kinds : <<kind, NextVersion(r)>> \notin outbox
    BY <1>1, NextVersionFree DEF Unchanged
  <2>5. version' = NextVersion(r)
    BY <1>1, <2>3, <2>4 DEF StatusCommit, AssignCommit, VerifyCommit, Kinds
  <2>6. QED
    BY <1>1, <2>5, NextVersionFree
<1>2. WorkflowInv /\ [Next]_vars => [Applied]_vars
  BY <1>1 DEF FreshSucceeds
<1>3. QED
  BY <1>2, WorkflowInductive, PTL DEF Spec, FreshDecisionSucceeds

-----------------------------------------------------------------------------
(* ---- IssueEscalation ---- *)

(* Rows a scan has read and not yet written *)
Pending(s) == rows[s] \cup ({current[s]} \ {NoRow})

(* A row aims at the next level of its issue, or at the level that another *)
(* scan has written within the hour.                                       *)
AimsAtNext(row) ==
    \/ row.level = level[row.issue] + 1 /\ row.level <= TopLevel /\ ~quiet[row.issue]
    \/ row.level = level[row.issue] /\ row.level >= 1 /\ quiet[row.issue]

RowsFresh == \A s \in Scans : \A row \in Pending(s) : AimsAtNext(row)

(* The row about to be written is not among the rows left, and no issue is *)
(* read twice by one scan.                                                 *)
RowsDistinct ==
    \A s \in Scans :
        /\ \A a, b \in Pending(s) : a.issue = b.issue => a = b
        /\ current[s] \notin rows[s]

EscalationInv == EscalationTypeOK /\ RowsFresh /\ RowsDistinct /\ LevelsHaveNoGap

-----------------------------------------------------------------------------
LEMMA EscalationInvInit == EscalationInit => EscalationInv
<1> SUFFICES ASSUME EscalationInit PROVE EscalationInv
  OBVIOUS
<1>1. EscalationTypeOK
  BY DEF EscalationInit, EscalationTypeOK, TopLevel
<1>2. \A s \in Scans : Pending(s) = {} /\ rows[s] = {}
  BY DEF EscalationInit, Pending
<1>3. RowsFresh /\ RowsDistinct
  BY <1>2 DEF RowsFresh, RowsDistinct
<1>4. LevelsHaveNoGap
  BY DEF EscalationInit, LevelsHaveNoGap, LevelsOf
<1>5. QED
  BY <1>1, <1>3, <1>4 DEF EscalationInv

LEMMA ScanReadStep == ASSUME EscalationInv, NEW s \in Scans, ScanRead(s) PROVE EscalationInv'
<1>1. PICK B \in SUBSET Issues :
        rows' = [rows EXCEPT ![s] = {NextKey(i) : i \in {j \in B : MayEscalate(j)}}]
  BY DEF ScanRead
<1> DEFINE New == {NextKey(i) : i \in {j \in B : MayEscalate(j)}}
<1>2. UNCHANGED <<issueVars, levelVars, current>> /\ current[s] = NoRow
  BY DEF ScanRead, Idle
<1>3. ASSUME NEW i \in Issues, MayEscalate(i)
      PROVE  /\ NextKey(i) \in Key /\ NextKey(i).issue = i
             /\ AimsAtNext(NextKey(i))
  <2>1. level[i] \in 0..TopLevel /\ level[i] < TopLevel /\ ~quiet[i]
    BY <1>3 DEF MayEscalate, EscalationInv, EscalationTypeOK
  <2>2. NextKey(i) \in Key /\ NextKey(i).issue = i /\ NextKey(i).level = level[i] + 1
    BY <2>1 DEF NextKey, Key, Kind, TopLevel
  <2>3. QED
    BY <2>1, <2>2 DEF AimsAtNext, TopLevel
<1>4. rows'[s] = New /\ New \subseteq Key
  BY <1>1, <1>3 DEF EscalationInv, EscalationTypeOK
<1>5. EscalationTypeOK'
  BY <1>1, <1>2, <1>4 DEF EscalationInv, EscalationTypeOK, issueVars, levelVars
<1>6. \A t \in Scans : Pending(t)' = IF t = s THEN New ELSE Pending(t)
  BY <1>1, <1>2, <1>4 DEF Pending, EscalationInv, EscalationTypeOK
<1>7. RowsFresh'
  BY <1>2, <1>3, <1>6 DEF EscalationInv, RowsFresh, AimsAtNext, levelVars
<1>8. RowsDistinct'
  BY <1>1, <1>2, <1>3, <1>4, <1>6, NoRowAssumption DEF EscalationInv, EscalationTypeOK, RowsDistinct
<1>9. LevelsHaveNoGap'
  BY <1>2 DEF EscalationInv, LevelsHaveNoGap, LevelsOf, levelVars
<1>10. QED
  BY <1>5, <1>7, <1>8, <1>9 DEF EscalationInv

LEMMA CheckStep == ASSUME EscalationInv, NEW s \in Scans, ScanCheck(s) PROVE EscalationInv'
<1>1. PICK row \in rows[s] :
        /\ rows' = [rows EXCEPT ![s] = @ \ {row}]
        /\ current' = [current EXCEPT ![s] = IF row \in escalations THEN NoRow ELSE row]
  BY DEF ScanCheck
<1>2. UNCHANGED <<issueVars, levelVars>> /\ current[s] = NoRow
  BY DEF ScanCheck
<1>3. row \in Key /\ row # NoRow
  BY NoRowAssumption DEF EscalationInv, EscalationTypeOK
<1>4. EscalationTypeOK'
  BY <1>1, <1>2, <1>3 DEF EscalationInv, EscalationTypeOK, issueVars, levelVars
<1>5. \A t \in Scans : Pending(t)' \subseteq Pending(t)
  BY <1>1, <1>2 DEF Pending, EscalationInv, EscalationTypeOK
<1>6. RowsFresh'
  BY <1>2, <1>5 DEF EscalationInv, RowsFresh, AimsAtNext, levelVars
<1>7. RowsDistinct'
  <2>1. \A t \in Scans : current'[t] \notin rows'[t]
    BY <1>1, <1>2, NoRowAssumption DEF EscalationInv, EscalationTypeOK, RowsDistinct
  <2>2. QED
    BY <1>5, <2>1 DEF EscalationInv, RowsDistinct
<1>8. LevelsHaveNoGap'
  BY <1>2 DEF EscalationInv, LevelsHaveNoGap, LevelsOf, levelVars
<1>9. QED
  BY <1>4, <1>6, <1>7, <1>8 DEF EscalationInv

LEMMA WriteStep == ASSUME EscalationInv, NEW s \in Scans, ScanWrite(s) PROVE EscalationInv'
<1> DEFINE row == current[s]
<1>1. /\ row \in Key /\ row \in Pending(s) /\ row \notin rows[s]
      /\ row.issue \in Issues /\ row.level \in Nat
      /\ level[row.issue] \in 0..TopLevel
  BY DEF ScanWrite, Pending, EscalationInv, EscalationTypeOK, RowsDistinct, Key
<1>2. AimsAtNext(row)
  BY <1>1 DEF EscalationInv, RowsFresh
<1>3. CASE row \notin escalations
  <2>1. /\ rows' = rows /\ current' = [current EXCEPT ![s] = NoRow]
        /\ escalations' = escalations \cup {row}
        /\ level' = [level EXCEPT ![row.issue] = row.level]
        /\ quiet' = [quiet EXCEPT ![row.issue] = TRUE]
        /\ UNCHANGED issueVars
    BY <1>3 DEF ScanWrite, LevelRead
  <2>2. row.level \in 1..TopLevel
    BY <1>1, <1>2 DEF AimsAtNext, TopLevel
  <2>3. EscalationTypeOK'
    <3>1. level' \in [Issues -> 0..TopLevel]
      BY <1>1, <2>1, <2>2 DEF EscalationInv, EscalationTypeOK
    <3>2. quiet' \in [Issues -> BOOLEAN]
      BY <2>1 DEF EscalationInv, EscalationTypeOK
    <3>3. escalations' \subseteq Key /\ current' \in [Scans -> Key \cup {NoRow}]
      BY <1>1, <2>1 DEF EscalationInv, EscalationTypeOK
    <3>4. QED
      BY <2>1, <3>1, <3>2, <3>3 DEF EscalationInv, EscalationTypeOK, issueVars
  <2>4. \A t \in Scans : Pending(t)' \subseteq Pending(t)
    BY <2>1 DEF Pending, EscalationInv, EscalationTypeOK
  <2>5. RowsFresh'
    <3>1. SUFFICES ASSUME NEW t \in Scans, NEW other \in Pending(t) PROVE AimsAtNext(other)'
      BY <2>4 DEF RowsFresh
    <3>2. other \in Key /\ AimsAtNext(other)
      BY DEF Pending, EscalationInv, EscalationTypeOK, RowsFresh
    <3>3. other.issue \in Issues /\ other.level \in Nat /\ level[other.issue] \in 0..TopLevel
      BY <3>2 DEF Key, EscalationInv, EscalationTypeOK
    <3>4. CASE other.issue # row.issue
      BY <1>1, <2>1, <3>2, <3>3, <3>4 DEF AimsAtNext, EscalationInv, EscalationTypeOK
    <3>5. CASE other.issue = row.issue
      <4>1. other.level = row.level
        BY <1>1, <1>2, <3>2, <3>3, <3>5 DEF AimsAtNext
      <4>2. level'[other.issue] = row.level /\ quiet'[other.issue]
        BY <1>1, <2>1, <3>5 DEF EscalationInv, EscalationTypeOK
      <4>3. QED
        BY <2>2, <4>1, <4>2 DEF AimsAtNext
    <3>6. QED
      BY <3>4, <3>5
  <2>6. RowsDistinct'
    <3>1. \A t \in Scans : current'[t] \notin rows'[t]
      BY <2>1, NoRowAssumption DEF EscalationInv, EscalationTypeOK, RowsDistinct
    <3>2. QED
      BY <2>4, <3>1 DEF EscalationInv, RowsDistinct
  <2>7. LevelsHaveNoGap'
    <3>1. SUFFICES ASSUME NEW i \in Issues PROVE LevelsOf(i)' = 1..level'[i]
      BY DEF LevelsHaveNoGap
    <3>2. LevelsOf(i) = 1..level[i] /\ level[i] \in 0..TopLevel
      BY DEF EscalationInv, EscalationTypeOK, LevelsHaveNoGap
    <3>3. CASE i # row.issue
      <4>1. LevelsOf(i)' = LevelsOf(i)
        BY <2>1, <3>3 DEF LevelsOf
      <4>2. QED
        BY <1>1, <2>1, <3>2, <3>3, <4>1 DEF EscalationInv, EscalationTypeOK
    <3>4. CASE i = row.issue
      <4>1. LevelsOf(i)' = LevelsOf(i) \cup {row.level}
        BY <2>1, <3>4 DEF LevelsOf
      <4>2. \/ row.level = level[i] + 1 /\ row.level <= TopLevel
            \/ row.level = level[i] /\ row.level >= 1
        BY <1>2, <3>4 DEF AimsAtNext
      <4>3. level'[i] = row.level
        BY <1>1, <2>1, <3>4 DEF EscalationInv, EscalationTypeOK
      <4>4. QED
        BY <1>1, <3>2, <4>1, <4>2, <4>3 DEF TopLevel
    <3>5. QED
      BY <3>3, <3>4
  <2>8. QED
    BY <2>3, <2>5, <2>6, <2>7 DEF EscalationInv
<1>4. CASE row \in escalations
  <2>1. /\ rows' = [rows EXCEPT ![s] = {}] /\ current' = [current EXCEPT ![s] = NoRow]
        /\ UNCHANGED <<issueVars, levelVars>>
    BY <1>4 DEF ScanWrite
  <2>2. EscalationTypeOK'
    BY <2>1 DEF EscalationInv, EscalationTypeOK, issueVars, levelVars
  <2>3. \A t \in Scans : Pending(t)' \subseteq Pending(t)
    BY <2>1 DEF Pending, EscalationInv, EscalationTypeOK
  <2>4. RowsFresh'
    BY <2>1, <2>3 DEF EscalationInv, RowsFresh, AimsAtNext, levelVars
  <2>5. RowsDistinct'
    <3>1. \A t \in Scans : current'[t] \notin rows'[t]
      BY <2>1 DEF EscalationInv, EscalationTypeOK, RowsDistinct
    <3>2. QED
      BY <2>3, <3>1 DEF EscalationInv, RowsDistinct
  <2>6. LevelsHaveNoGap'
    BY <2>1 DEF EscalationInv, LevelsHaveNoGap, LevelsOf, levelVars
  <2>7. QED
    BY <2>2, <2>4, <2>5, <2>6 DEF EscalationInv
<1>5. QED
  BY <1>3, <1>4

(* Deadlines and staff change neither levels nor rows; the hour is over    *)
(* only when no scan is under way.                                         *)
LEMMA OtherStep ==
  ASSUME EscalationInv, NEW i \in Issues,
         \/ HourPasses(i) \/ AckDeadline(i) \/ ResolutionDeadline(i)
         \/ PromisePasses(i) \/ Revise(i) \/ Acknowledge(i) \/ CloseOrReopen(i)
  PROVE  EscalationInv'
<1> USE DEF issueVars, levelVars, scanVars
<1>1. CASE HourPasses(i)
  <2>1. EscalationTypeOK'
    BY <1>1 DEF HourPasses, EscalationInv, EscalationTypeOK
  <2>2. \A s \in Scans : Pending(s)' = {}
    BY <1>1 DEF HourPasses, Idle, Pending
  <2>3. RowsFresh' /\ RowsDistinct'
    BY <1>1, <2>2 DEF HourPasses, EscalationInv, RowsFresh, RowsDistinct
  <2>4. LevelsHaveNoGap'
    BY <1>1 DEF HourPasses, EscalationInv, LevelsHaveNoGap, LevelsOf
  <2>5. QED
    BY <2>1, <2>3, <2>4 DEF EscalationInv
<1>2. CASE \/ AckDeadline(i) \/ ResolutionDeadline(i) \/ PromisePasses(i)
           \/ Revise(i) \/ Acknowledge(i) \/ CloseOrReopen(i)
  <2>1. UNCHANGED <<level, escalations, quiet, rows, current>>
    BY <1>2 DEF AckDeadline, ResolutionDeadline, PromisePasses, Revise, Acknowledge,
                CloseOrReopen
  <2>2. EscalationTypeOK'
    BY <1>2 DEF AckDeadline, ResolutionDeadline, PromisePasses, Revise, Acknowledge,
                CloseOrReopen, EscalationInv, EscalationTypeOK
  <2>3. QED
    BY <2>1, <2>2 DEF EscalationInv, RowsFresh, RowsDistinct, Pending, AimsAtNext, LevelsHaveNoGap,
                      LevelsOf
<1>3. QED
  BY <1>1, <1>2

LEMMA EscalationInvStep == EscalationInv /\ [EscalationNext]_escalationVars => EscalationInv'
<1> SUFFICES ASSUME EscalationInv, [EscalationNext]_escalationVars PROVE EscalationInv'
  OBVIOUS
<1>1. CASE UNCHANGED escalationVars
  BY <1>1 DEF escalationVars, issueVars, levelVars, scanVars, EscalationInv,
              EscalationTypeOK, RowsFresh, RowsDistinct,
              Pending, AimsAtNext, LevelsHaveNoGap, LevelsOf
<1>2. CASE EscalationNext
  BY <1>2, ScanReadStep, CheckStep, WriteStep, OtherStep DEF EscalationNext, Scan
<1>3. QED
  BY <1>1, <1>2

(* The invariant above holds for any overlap of the scans. *)
THEOREM EscalationInductive == EscalationSpec => []EscalationInv
BY EscalationInvInit, EscalationInvStep, PTL DEF EscalationSpec

(* No issue goes beyond the last level, however many scans overlap.        *)
THEOREM EscalationTyped == EscalationSpec => []EscalationTypeOK
<1>1. EscalationInv => EscalationTypeOK
  BY DEF EscalationInv
<1>2. QED
  BY <1>1, EscalationInductive, PTL

(* The escalations of an issue are exactly those up to its level.          *)
THEOREM NoGap == EscalationSpec => []LevelsHaveNoGap
<1>1. EscalationInv => LevelsHaveNoGap
  BY DEF EscalationInv
<1>2. QED
  BY <1>1, EscalationInductive, PTL

-----------------------------------------------------------------------------
(* Every escalation a step adds is either the next level of an issue whose *)
(* hour is over, or a repetition of its level within the hour.             *)
OneLevel ==
    /\ \A row \in escalations' \ escalations :
          /\ level'[row.issue] = row.level
          /\ row.level = IF quiet[row.issue] THEN level[row.issue] ELSE level[row.issue] + 1
    /\ \A i \in Issues : level'[i] # level[i] => ~quiet[i]

LEMMA OneLevelWrite == ASSUME EscalationInv, NEW s \in Scans, ScanWrite(s) PROVE OneLevel
<1> DEFINE row == current[s]
<1>1. CASE row \in escalations
  BY <1>1 DEF ScanWrite, levelVars, OneLevel
<1>2. CASE row \notin escalations
  <2>1. row \in Key /\ row.issue \in Issues /\ row.level \in Nat /\ AimsAtNext(row)
    BY DEF ScanWrite, Pending, EscalationInv, EscalationTypeOK, RowsFresh, Key
  <2>2. /\ escalations' = escalations \cup {row}
        /\ level' = [level EXCEPT ![row.issue] = row.level]
    BY <1>2 DEF ScanWrite, LevelRead
  <2>3. level'[row.issue] = row.level /\ \A i \in Issues \ {row.issue} : level'[i] = level[i]
    BY <2>1, <2>2 DEF EscalationInv, EscalationTypeOK
  <2>4. row.level = IF quiet[row.issue] THEN level[row.issue] ELSE level[row.issue] + 1
    BY <2>1 DEF AimsAtNext
  <2>5. level[row.issue] # row.level => ~quiet[row.issue]
    BY <2>4
  <2>6. QED
    BY <2>2, <2>3, <2>4, <2>5 DEF OneLevel
<1>3. QED
  BY <1>1, <1>2

LEMMA OneLevelStep == EscalationInv /\ [EscalationNext]_escalationVars => [OneLevel]_escalationVars
<1> SUFFICES ASSUME EscalationInv, EscalationNext, \A s \in Scans : ~ScanWrite(s)
             PROVE  OneLevel
  BY OneLevelWrite DEF EscalationNext, Scan
<1>1. level' = level /\ escalations' = escalations
  BY DEF EscalationNext, Scan, ScanRead, ScanCheck, HourPasses, AckDeadline,
         ResolutionDeadline, PromisePasses, Revise, Acknowledge, CloseOrReopen, levelVars
<1>2. QED
  BY <1>1 DEF OneLevel

(* However many scans overlap, an issue rises one level at a time and only *)
(* when its hour is over.                                                  *)
THEOREM OneLevelAtATime == EscalationSpec => OneLevelPerHour
<1>1. EscalationSpec => [][OneLevel]_escalationVars
  BY OneLevelStep, EscalationInductive, PTL DEF EscalationSpec
<1>2. QED
  BY <1>1 DEF OneLevelPerHour, OneLevel

-----------------------------------------------------------------------------
(* ---- IssueReporting ---- *)

(* The rows have their types, and name only issues that exist               *)
ReportTyped ==
    /\ created \in 0..MaxIssues
    /\ active \in [IssueId -> BOOLEAN]
    /\ affected \in [IssueId -> SUBSET Users]
    /\ affectedCount \in [IssueId -> Nat] /\ occurrences \in [IssueId -> Nat]
    /\ keys \in [Users -> [KeyRows -> 0..created]]
    /\ pc \in [Reports -> {"idle", "search", "link", "create", "subscribe", "done", "failed"}]
    /\ found \in [Reports -> 0..created] /\ answer \in [Reports -> 0..created]

(* What is about to be linked or subscribed to has been found               *)
DuplicateFound == \A r \in Reports : pc[r] \in {"link", "subscribe"} => found[r] \in 1..created

AffectedCounted ==
    \A i \in IssueId : IsFiniteSet(affected[i]) /\ affectedCount[i] = Cardinality(affected[i])

KeysOf(i) == {uk \in Users \X KeyRows : keys[uk[1]][uk[2]] = i}
KeysCounted ==
    \A i \in 1..created : IsFiniteSet(KeysOf(i)) /\ occurrences[i] = Cardinality(KeysOf(i))

(* An answer is the stored response of its key, which never changes         *)
AnswersStored == \A r \in Reports : answer[r] # NoIssue => answer[r] = Response(r)

ReportInv == ReportTyped /\ DuplicateFound /\ AffectedCounted /\ KeysCounted /\ AnswersStored

LEMMA ReportInvInit == ReportInit => ReportInv
<1> SUFFICES ASSUME ReportInit PROVE ReportInv
  OBVIOUS
<1>1. ReportTyped
  BY ReportBounds DEF ReportInit, ReportTyped, IssueId, NoIssue, Unused
<1>2. DuplicateFound /\ KeysCounted /\ AnswersStored
  BY DEF ReportInit, DuplicateFound, KeysCounted, AnswersStored
<1>3. AffectedCounted
  BY FS_EmptySet DEF ReportInit, AffectedCounted
<1>4. QED
  BY <1>1, <1>2, <1>3 DEF ReportInv

LEMMA ReportKey ==
  ASSUME NEW r \in Reports
  PROVE  UserOf[r] \in Users /\ KeyOf[r] \in KeyRows
BY ReportAssumption DEF KeyRows

(* Storing a response under a free key adds it to the keys of its issue,    *)
(* and changes no other response.                                           *)
LEMMA SaveKeyAdds ==
  ASSUME ReportTyped, NEW r \in Reports, NEW i \in IssueId, KeyFree(r), SaveKey(r, i)
  PROVE  LET k == <<UserOf[r], KeyOf[r]>>
         IN /\ keys' \in [Users -> [KeyRows -> 0..created \cup {i}]]
            /\ k \notin KeysOf(i) /\ KeysOf(i)' = KeysOf(i) \cup {k}
            /\ \A j \in IssueId \ {i} : KeysOf(j)' = KeysOf(j)
            /\ Response(r)' = i
            /\ \A s \in Reports : Response(s) # Unused => Response(s)' = Response(s)
<1> DEFINE u == UserOf[r]
           k == KeyOf[r]
<1>1. u \in Users /\ k \in KeyRows
  BY ReportKey
<1>2. keys[u][k] = Unused /\ keys' = [keys EXCEPT ![u][k] = i]
  BY DEF KeyFree, Response, SaveKey
<1>3. \A v \in Users, l \in KeyRows :
         keys'[v][l] = IF v = u /\ l = k THEN i ELSE keys[v][l]
  BY <1>1, <1>2 DEF ReportTyped
<1>4. keys' \in [Users -> [KeyRows -> 0..created \cup {i}]]
  BY <1>1, <1>2 DEF ReportTyped
<1>5. i # Unused
  BY DEF IssueId, Unused, NoIssue
<1>6. <<u, k>> \notin KeysOf(i)
  BY <1>2, <1>5 DEF KeysOf
<1>7. KeysOf(i)' = KeysOf(i) \cup {<<u, k>>}
  BY <1>1, <1>3 DEF KeysOf
<1>8. ASSUME NEW j \in IssueId \ {i} PROVE KeysOf(j)' = KeysOf(j)
  <2>1. j # Unused
    BY DEF IssueId, Unused, NoIssue
  <2>2. QED
    BY <1>1, <1>2, <1>3, <2>1 DEF KeysOf
<1>9. Response(r)' = i
  BY <1>1, <1>3 DEF Response
<1>10. ASSUME NEW s \in Reports, Response(s) # Unused PROVE Response(s)' = Response(s)
  BY <1>2, <1>3, <1>10, ReportKey DEF Response
<1>11. QED
  BY <1>4, <1>6, <1>7, <1>8, <1>9, <1>10

(* An answer that is given is the response just stored, or none is given.   *)
LEMMA AnsweredStored ==
  ASSUME ReportTyped, AnswersStored, NEW r \in Reports, NEW i \in IssueId,
         KeyFree(r), SaveKey(r, i), Answered(r, i)
  PROVE  /\ AnswersStored'
         /\ answer' \in [Reports -> 0..created \cup {i}]
         /\ \A s \in Reports : pc'[s] = pc[s] \/ pc'[s] \in {"done", "idle"}
         /\ pc' \in [Reports -> {"idle", "search", "link", "create", "subscribe", "done",
                                 "failed"}]
<1>1. /\ Response(r)' = i
      /\ \A s \in Reports : Response(s) # Unused => Response(s)' = Response(s)
  BY SaveKeyAdds
<1>2. answer' = [answer EXCEPT ![r] = i] \/ answer' = answer
  BY DEF Answered, TryAgain
<1>3. pc' = [pc EXCEPT ![r] = "done"] \/ pc' = [pc EXCEPT ![r] = "idle"]
  BY DEF Answered, TryAgain, Goto
<1>4. ASSUME NEW s \in Reports, answer'[s] # NoIssue PROVE answer'[s] = Response(s)'
  <2>1. CASE answer'[s] = answer[s]
    <3>1. answer[s] = Response(s) /\ Response(s) # Unused
      BY <1>4, <2>1 DEF AnswersStored, Unused
    <3>2. QED
      BY <1>1, <2>1, <3>1
  <2>2. CASE answer'[s] # answer[s]
    <3>1. s = r /\ answer'[s] = i
      BY <1>2, <2>2 DEF ReportTyped
    <3>2. QED
      BY <1>1, <3>1
  <2>3. QED
    BY <2>1, <2>2
<1>5. answer' \in [Reports -> 0..created \cup {i}]
  BY <1>2 DEF ReportTyped
<1>6. \A s \in Reports : pc'[s] = pc[s] \/ pc'[s] \in {"done", "idle"}
  BY <1>3 DEF ReportTyped
<1>7. pc' \in [Reports -> {"idle", "search", "link", "create", "subscribe", "done", "failed"}]
  BY <1>3 DEF ReportTyped
<1>8. QED
  BY <1>4, <1>5, <1>6, <1>7 DEF AnswersStored

(* Adding one user to one issue and counting the user if new keeps the      *)
(* counters exact.                                                          *)
LEMMA AffectedGrows ==
  ASSUME ReportTyped, AffectedCounted, NEW u \in Users, NEW i \in IssueId,
         affected' = [affected EXCEPT ![i] = @ \cup {u}],
         affectedCount' = [affectedCount EXCEPT ![i] =
                              IF u \notin affected[i] THEN @ + 1 ELSE @]
  PROVE  /\ AffectedCounted'
         /\ affected' \in [IssueId -> SUBSET Users] /\ affectedCount' \in [IssueId -> Nat]
<1>1. IsFiniteSet(affected[i]) /\ affectedCount[i] = Cardinality(affected[i])
  BY DEF AffectedCounted
<1>2. /\ IsFiniteSet(affected[i] \cup {u})
      /\ Cardinality(affected[i] \cup {u}) =
            IF u \in affected[i] THEN Cardinality(affected[i])
            ELSE Cardinality(affected[i]) + 1
  BY <1>1, FS_AddElement
<1>3. /\ affected'[i] = affected[i] \cup {u}
      /\ affectedCount'[i] = Cardinality(affected[i] \cup {u})
  BY <1>1, <1>2 DEF ReportTyped
<1>4. \A j \in IssueId \ {i} : affected'[j] = affected[j] /\ affectedCount'[j] = affectedCount[j]
  BY DEF ReportTyped
<1>5. AffectedCounted'
  BY <1>2, <1>3, <1>4 DEF AffectedCounted
<1>6. QED
  BY <1>5 DEF ReportTyped

(* A step that leaves the rows alone and moves the report r only            *)
LEMMA RowsUntouched ==
  ASSUME ReportInv, NEW r \in Reports, UNCHANGED recordVars,
         NEW l \in {"idle", "search", "create", "done", "failed"}, Goto(r, l),
         found' = found \/ \E i \in 0..created : found' = [found EXCEPT ![r] = i],
         answer' = answer \/ answer' = [answer EXCEPT ![r] = Response(r)]
  PROVE  ReportInv'
<1> USE DEF ReportInv, recordVars
<1>1. Response(r) \in 0..created
  BY ReportKey DEF Response, ReportTyped
<1>2. ReportTyped'
  BY <1>1 DEF ReportTyped, Goto
<1>3. DuplicateFound'
  BY DEF DuplicateFound, Goto, ReportTyped
<1>4. AffectedCounted' /\ KeysCounted'
  BY DEF AffectedCounted, KeysCounted, KeysOf
<1>5. AnswersStored'
  BY DEF AnswersStored, Response, ReportTyped
<1>6. QED
  BY <1>2, <1>3, <1>4, <1>5

LEMMA IssuesExist ==
  ReportTyped => created \in Nat /\ 1..created \subseteq IssueId /\ IssueId \subseteq Nat
BY ReportBounds DEF ReportTyped, IssueId

LEMMA ReplayStep == ASSUME ReportInv, NEW r \in Reports, Replay(r) PROVE ReportInv'
BY RowsUntouched DEF Replay

(* A duplicate is an issue that exists                                      *)
LEMMA FoundStep ==
  ASSUME ReportInv, NEW r \in Reports, NEW i \in 1..created, UNCHANGED <<recordVars, answer>>,
         NEW l \in {"link", "subscribe", "done"}, Goto(r, l), found' = [found EXCEPT ![r] = i]
  PROVE  ReportInv'
<1> USE DEF ReportInv, recordVars
<1>1. ReportTyped'
  BY DEF ReportTyped, Goto
<1>2. DuplicateFound'
  BY DEF DuplicateFound, Goto, ReportTyped
<1>3. AffectedCounted' /\ KeysCounted'
  BY DEF AffectedCounted, KeysCounted, KeysOf
<1>4. AnswersStored'
  BY DEF AnswersStored, Response
<1>5. QED
  BY <1>1, <1>2, <1>3, <1>4

LEMMA SearchStep == ASSUME ReportInv, NEW r \in Reports, Search(r) PROVE ReportInv'
<1> DEFINE duplicates == {i \in 1..created : active[i]}
<1>1. CASE Goto(r, "link") /\ \E i \in duplicates : found' = [found EXCEPT ![r] = i]
  <2>1. PICK i \in 1..created : found' = [found EXCEPT ![r] = i]
    BY <1>1
  <2>2. UNCHANGED <<recordVars, answer>>
    BY DEF Search
  <2>3. QED
    BY <1>1, <2>1, <2>2, FoundStep
<1>2. CASE Goto(r, "create") /\ found' = [found EXCEPT ![r] = NoIssue]
  <2>1. NoIssue \in 0..created
    BY DEF NoIssue, ReportInv, ReportTyped
  <2>2. UNCHANGED recordVars /\ answer' = answer
    BY DEF Search
  <2>3. QED
    BY <1>2, <2>1, <2>2, RowsUntouched
<1>3. QED
  BY <1>1, <1>2 DEF Search

(* A transaction that does not commit                                       *)
LEMMA NotCommitted ==
  ASSUME ReportInv, NEW r \in Reports, UNCHANGED recordVars, found' = found,
         TryAgain(r) \/ GiveUp(r)
  PROVE  ReportInv'
BY RowsUntouched DEF TryAgain, GiveUp

LEMMA LinkCommits ==
  ASSUME ReportInv, NEW r \in Reports, NEW i \in 1..created,
         KeyFree(r), SaveKey(r, i), AddReporter(r, i), Answered(r, i),
         occurrences' = [occurrences EXCEPT ![i] = @ + 1], UNCHANGED <<created, active, found>>
  PROVE  ReportInv'
<1>1. i \in IssueId /\ ReportTyped
  BY IssuesExist DEF ReportInv
<1>2. AnswersStored' /\ answer' \in [Reports -> 0..created \cup {i}]
  BY <1>1, AnsweredStored DEF ReportInv
<1>3. /\ \A s \in Reports : pc'[s] = pc[s] \/ pc'[s] \in {"done", "idle"}
      /\ pc' \in [Reports -> {"idle", "search", "link", "create", "subscribe", "done",
                              "failed"}]
  BY <1>1, AnsweredStored DEF ReportInv
<1>4. UserOf[r] \in Users
  BY ReportKey
<1>5. /\ AffectedCounted'
      /\ affected' \in [IssueId -> SUBSET Users] /\ affectedCount' \in [IssueId -> Nat]
  BY <1>1, <1>4, AffectedGrows DEF ReportInv, AddReporter, IsNewReporter
<1>6. /\ keys' \in [Users -> [KeyRows -> 0..created \cup {i}]]
      /\ <<UserOf[r], KeyOf[r]>> \notin KeysOf(i)
      /\ KeysOf(i)' = KeysOf(i) \cup {<<UserOf[r], KeyOf[r]>>}
      /\ \A j \in IssueId \ {i} : KeysOf(j)' = KeysOf(j)
  BY <1>1, SaveKeyAdds
<1>7. 0..created \cup {i} = 0..created
  BY <1>1 DEF ReportTyped
<1>8. ReportTyped'
  BY <1>1, <1>2, <1>3, <1>5, <1>6, <1>7 DEF ReportTyped
<1>9. DuplicateFound'
  BY <1>1, <1>3 DEF DuplicateFound, ReportInv
<1>10. ASSUME NEW j \in 1..created
       PROVE  IsFiniteSet(KeysOf(j)') /\ occurrences'[j] = Cardinality(KeysOf(j)')
  <2>1. IsFiniteSet(KeysOf(j)) /\ occurrences[j] = Cardinality(KeysOf(j))
    BY DEF ReportInv, KeysCounted
  <2>2. CASE j = i
    <3> DEFINE k == <<UserOf[r], KeyOf[r]>>
    <3>1. /\ IsFiniteSet(KeysOf(i) \cup {k})
          /\ Cardinality(KeysOf(i) \cup {k}) = Cardinality(KeysOf(i)) + 1
      BY <1>6, <2>1, <2>2, FS_AddElement
    <3>2. QED
      BY <1>1, <1>6, <2>1, <2>2, <3>1 DEF ReportTyped
  <2>3. CASE j # i
    <3>1. j \in IssueId
      BY <1>1, IssuesExist
    <3>2. KeysOf(j)' = KeysOf(j)
      BY <1>6, <2>3, <3>1
    <3>3. occurrences'[j] = occurrences[j]
      BY <1>1, <2>3, <3>1 DEF ReportTyped
    <3>4. QED
      BY <2>1, <3>2, <3>3
  <2>4. QED
    BY <2>2, <2>3
<1>11. KeysCounted'
  BY <1>10 DEF KeysCounted
<1>12. QED
  BY <1>2, <1>5, <1>8, <1>9, <1>11 DEF ReportInv

LEMMA LinkStep == ASSUME ReportInv, NEW r \in Reports, Link(r) PROVE ReportInv'
<1>1. CASE UNCHANGED recordVars /\ (TryAgain(r) \/ GiveUp(r))
  BY <1>1, NotCommitted DEF Link
<1>2. CASE KeyFree(r)
  BY <1>1, <1>2, LinkCommits DEF Link, ReportInv, DuplicateFound
<1>3. QED
  BY <1>1, <1>2 DEF Link

LEMMA CreateCommits ==
  ASSUME ReportInv, NEW r \in Reports, NEW i, i = created + 1, created < MaxIssues,
         KeyFree(r), SaveKey(r, i), Answered(r, i), created' = i, found' = found,
         active' = [active EXCEPT ![i] = TRUE],
         affected' = [affected EXCEPT ![i] = {UserOf[r]}],
         affectedCount' = [affectedCount EXCEPT ![i] = 1],
         occurrences' = [occurrences EXCEPT ![i] = 1]
  PROVE  ReportInv'
<1>1. i \in IssueId /\ ReportTyped /\ created \in Nat
  BY IssuesExist, ReportBounds DEF ReportInv, IssueId
<1>2. AnswersStored' /\ answer' \in [Reports -> 0..created \cup {i}]
  BY <1>1, AnsweredStored DEF ReportInv
<1>3. /\ \A s \in Reports : pc'[s] = pc[s] \/ pc'[s] \in {"done", "idle"}
      /\ pc' \in [Reports -> {"idle", "search", "link", "create", "subscribe", "done",
                              "failed"}]
  BY <1>1, AnsweredStored DEF ReportInv
<1>4. UserOf[r] \in Users /\ IsFiniteSet({UserOf[r]}) /\ Cardinality({UserOf[r]}) = 1
  BY ReportKey, FS_Singleton
<1>5. /\ keys' \in [Users -> [KeyRows -> 0..created \cup {i}]]
      /\ KeysOf(i)' = KeysOf(i) \cup {<<UserOf[r], KeyOf[r]>>}
      /\ \A j \in IssueId \ {i} : KeysOf(j)' = KeysOf(j)
  BY <1>1, SaveKeyAdds
<1>6. 0..created \cup {i} = 0..created'
  BY <1>1
<1>7. ReportTyped'
  <2>1. created' \in 0..MaxIssues /\ active' \in [IssueId -> BOOLEAN]
    BY <1>1, ReportBounds DEF ReportTyped
  <2>2. affected' \in [IssueId -> SUBSET Users] /\ affectedCount' \in [IssueId -> Nat]
    BY <1>1, <1>4 DEF ReportTyped
  <2>3. occurrences' \in [IssueId -> Nat] /\ found' \in [Reports -> 0..created']
    BY <1>1 DEF ReportTyped
  <2>4. QED
    BY <1>2, <1>3, <1>5, <1>6, <2>1, <2>2, <2>3 DEF ReportTyped
<1>8. DuplicateFound'
  BY <1>1, <1>3 DEF DuplicateFound, ReportInv
<1>9. AffectedCounted'
  BY <1>1, <1>4 DEF AffectedCounted, ReportInv, ReportTyped
<1>10. KeysOf(i) = {}
  BY <1>1 DEF KeysOf, ReportTyped
<1>11. IsFiniteSet(KeysOf(i)') /\ Cardinality(KeysOf(i)') = 1
  <2>1. KeysOf(i)' = {<<UserOf[r], KeyOf[r]>>}
    BY <1>5, <1>10
  <2>2. QED
    BY <2>1, FS_Singleton
<1>12. ASSUME NEW j \in 1..created'
       PROVE  IsFiniteSet(KeysOf(j)') /\ occurrences'[j] = Cardinality(KeysOf(j)')
  <2>1. CASE j = i
    BY <1>1, <1>11, <2>1 DEF ReportTyped
  <2>2. CASE j # i
    <3>1. j \in 1..created /\ j \in IssueId \ {i}
      BY <1>1, <2>2, IssuesExist
    <3>2. KeysOf(j)' = KeysOf(j) /\ occurrences'[j] = occurrences[j]
      BY <1>1, <1>5, <3>1 DEF ReportTyped
    <3>3. QED
      BY <3>1, <3>2 DEF ReportInv, KeysCounted
  <2>3. QED
    BY <2>1, <2>2
<1>13. KeysCounted'
  BY <1>12 DEF KeysCounted
<1>14. QED
  BY <1>2, <1>7, <1>8, <1>9, <1>13 DEF ReportInv

LEMMA CreateStep == ASSUME ReportInv, NEW r \in Reports, Create(r) PROVE ReportInv'
<1>1. CASE UNCHANGED recordVars /\ (TryAgain(r) \/ GiveUp(r))
  BY <1>1, NotCommitted DEF Create
<1>2. CASE created < MaxIssues /\ KeyFree(r)
  BY <1>1, <1>2, CreateCommits DEF Create
<1>3. QED
  BY <1>1, <1>2 DEF Create

LEMMA SubscribeReadStep ==
  ASSUME ReportInv, NEW r \in Reports, SubscribeRead(r) PROVE ReportInv'
BY FoundStep DEF SubscribeRead

LEMMA SubscribeCommitStep ==
  ASSUME ReportInv, NEW r \in Reports, SubscribeCommit(r) PROVE ReportInv'
<1> DEFINE i == found[r]
           u == UserOf[r]
<1>1. i \in 1..created /\ i \in IssueId /\ u \in Users /\ ReportTyped
  BY ReportKey, IssuesExist DEF SubscribeCommit, ReportInv, DuplicateFound
<1>2. UNCHANGED <<created, active, occurrences, keys, found, answer>>
  BY DEF SubscribeCommit
<1>3. Goto(r, "done") \/ Goto(r, "failed")
  BY DEF SubscribeCommit
<1>4. /\ AffectedCounted'
      /\ affected' \in [IssueId -> SUBSET Users] /\ affectedCount' \in [IssueId -> Nat]
  <2>1. CASE RowFree(r, i)
    BY <1>1, <2>1, AffectedGrows DEF ReportInv, SubscribeCommit, RowFree
  <2>2. CASE ~RowFree(r, i)
    BY <1>1, <2>2 DEF ReportInv, SubscribeCommit, ReportTyped, AffectedCounted
  <2>3. QED
    BY <2>1, <2>2
<1>5. ReportTyped'
  BY <1>1, <1>2, <1>3, <1>4 DEF ReportTyped, Goto
<1>6. DuplicateFound'
  BY <1>1, <1>2, <1>3 DEF DuplicateFound, ReportInv, ReportTyped, Goto
<1>7. KeysCounted' /\ AnswersStored'
  BY <1>2 DEF ReportInv, KeysCounted, KeysOf, AnswersStored, Response
<1>8. QED
  BY <1>4, <1>5, <1>6, <1>7 DEF ReportInv

LEMMA SettleStep == ReportInv /\ Settle => ReportInv'
<1> SUFFICES ASSUME ReportInv, Settle PROVE ReportInv'
  OBVIOUS
<1>1. active' \in [IssueId -> BOOLEAN]
  BY DEF Settle, ReportInv, ReportTyped, IssueId
<1>2. UNCHANGED <<created, affected, affectedCount, occurrences, keys, pc, found, answer>>
  BY DEF Settle
<1>3. ReportTyped' /\ DuplicateFound'
  BY <1>1, <1>2 DEF ReportInv, ReportTyped, DuplicateFound
<1>4. AffectedCounted' /\ KeysCounted' /\ AnswersStored'
  BY <1>2 DEF ReportInv, AffectedCounted, KeysCounted, KeysOf, AnswersStored, Response
<1>5. QED
  BY <1>3, <1>4 DEF ReportInv

LEMMA ReportInvStep == ReportInv /\ [ReportNext]_reportVars => ReportInv'
<1> SUFFICES ASSUME ReportInv, [ReportNext]_reportVars PROVE ReportInv'
  OBVIOUS
<1>1. CASE UNCHANGED reportVars
  <2>1. ReportTyped' /\ DuplicateFound'
    BY <1>1 DEF reportVars, recordVars, ReportInv, ReportTyped, DuplicateFound
  <2>2. AffectedCounted' /\ KeysCounted' /\ AnswersStored'
    BY <1>1 DEF reportVars, recordVars, ReportInv, AffectedCounted, KeysCounted, KeysOf,
                AnswersStored, Response
  <2>3. QED
    BY <2>1, <2>2 DEF ReportInv
<1>2. CASE ReportNext
  BY <1>2, ReplayStep, SearchStep, LinkStep, CreateStep, SubscribeReadStep,
     SubscribeCommitStep, SettleStep DEF ReportNext
<1>3. QED
  BY <1>1, <1>2

THEOREM ReportInductive == ReportSpec => []ReportInv
BY ReportInvInit, ReportInvStep, PTL DEF ReportSpec

(* The counter of affected users is exact for any number of users, reports  *)
(* and subscriptions in flight: only the primary key of the insert, and not *)
(* the look before it, stands between two equal subscriptions.              *)
THEOREM AffectedExact == ReportSpec => []AffectedCountExact
<1>1. ReportInv => AffectedCountExact
  BY DEF ReportInv, AffectedCounted, AffectedCountExact
<1>2. QED
  BY <1>1, ReportInductive, PTL

(* An issue has one occurrence for each key that was answered with it,      *)
(* however often and in whatever order reports are sent again.              *)
THEOREM RecordedOnce == ReportSpec => []ReportedOncePerKey
<1>1. ReportInv => ReportedOncePerKey
  BY DEF ReportInv, KeysCounted, KeysOf, ReportedOncePerKey
<1>2. QED
  BY <1>1, ReportInductive, PTL

(* Two reports of one user under one key are given the same issue.          *)
THEOREM OneAnswer == ReportSpec => []SameAnswer
<1>1. ReportInv => SameAnswer
  BY DEF ReportInv, AnswersStored, Response, SameAnswer
<1>2. QED
  BY <1>1, ReportInductive, PTL

=============================================================================
