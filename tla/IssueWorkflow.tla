---------------------------- MODULE IssueWorkflow ----------------------------
(***************************************************************************)
(* The working life of one reported issue, after                           *)
(* apps/api/src/modules/issues/issues.service.ts: status(), assign(),      *)
(* finish(), verify() and addTimeline().  Every request first reads the    *)
(* issue and decides, then commits one transaction; other requests commit  *)
(* in between.  Who may do what (permissions, team membership) is left to  *)
(* chance: some authorized user exists for every operation.                *)
(***************************************************************************)
EXTENDS Naturals

CONSTANTS
    Requests,     \* requests in flight at a time
    MaxVersion    \* bound: no request starts at a higher version of the row

ASSUME MaxVersionAssumption == MaxVersion \in Nat

VARIABLES
    status, version,   \* columns of the issues row
    latest,            \* newest row of issue_status_history
    resolution,        \* row of issue_resolutions: none, done, verified
    outbox,            \* idempotency keys of this issue in outbox_events
    req                \* what each request has read and wants

vars == <<status, version, latest, resolution, outbox, req>>

Waiting == {"WAITING_FOR_MATERIAL", "WAITING_FOR_PARTS", "WAITING_FOR_APPROVAL",
            "WAITING_FOR_VENDOR"}
IssueStatus ==
    Waiting \cup
    {"NEW", "NEEDS_MANUAL_ASSIGNMENT", "ASSIGNED", "ACKNOWLEDGED", "IN_PROGRESS",
     "ON_HOLD", "OVERDUE", "RESOLVED", "VERIFICATION_PENDING", "VERIFIED", "CLOSED",
     "REOPENED", "REJECTED", "CANCELLED"}

Transitions(s) ==
    CASE s = "NEW" -> {"ASSIGNED", "NEEDS_MANUAL_ASSIGNMENT", "CANCELLED", "REJECTED"}
      [] s = "NEEDS_MANUAL_ASSIGNMENT" -> {"ASSIGNED", "CANCELLED", "REJECTED"}
      [] s = "ASSIGNED"     -> {"ACKNOWLEDGED", "CANCELLED", "REJECTED"}
      [] s = "ACKNOWLEDGED" -> {"IN_PROGRESS", "ON_HOLD", "CANCELLED"}
      [] s = "IN_PROGRESS"  -> Waiting \cup {"ON_HOLD", "OVERDUE"}
      [] s \in Waiting      -> {"IN_PROGRESS", "ON_HOLD"}
      [] s = "ON_HOLD"      -> {"IN_PROGRESS", "CANCELLED"}
      [] s = "OVERDUE"      -> {"IN_PROGRESS", "ON_HOLD", "CANCELLED"}
      [] s = "RESOLVED"     -> {"VERIFICATION_PENDING", "VERIFIED", "REOPENED"}
      [] s = "VERIFICATION_PENDING" -> {"VERIFIED", "REOPENED"}
      [] s = "VERIFIED"     -> {"CLOSED", "REOPENED"}
      [] s = "CLOSED"       -> {"REOPENED"}
      [] s = "REOPENED"     -> {"ASSIGNED", "ACKNOWLEDGED", "IN_PROGRESS", "CANCELLED"}
      [] OTHER              -> {}

Finishable == Waiting \cup {"IN_PROGRESS", "ON_HOLD", "OVERDUE"}
Assignable == {"NEW", "NEEDS_MANUAL_ASSIGNMENT", "ASSIGNED", "REOPENED"}
AwaitsVerification == {"RESOLVED", "VERIFICATION_PENDING"}

(* status() leaves these to finish() and verify() *)
EvidenceStatus == {"RESOLVED", "VERIFICATION_PENDING", "VERIFIED", "CLOSED"}

NoRequest == [op |-> "none", status |-> "NEW", version |-> 0, target |-> "NEW"]

(* create(): routed to a person or a team, or left to an administrator *)
Init ==
    /\ status \in {"ASSIGNED", "NEEDS_MANUAL_ASSIGNMENT"}
    /\ version = 1
    /\ latest = [from |-> "NEW", to |-> status]
    /\ resolution = "none"
    /\ outbox = {}
    /\ req = [r \in Requests |-> NoRequest]

-----------------------------------------------------------------------------
(* The read of each operation, with the refusals it leads to *)

Read(r, op, target) ==
    /\ req[r].op = "none" /\ version <= MaxVersion
    /\ req' = [req EXCEPT ![r] = [op |-> op, status |-> status, version |-> version,
                                  target |-> target]]
    /\ UNCHANGED <<status, version, latest, resolution, outbox>>

AnyTarget(s)  == Transitions(s)        \* a slip: no status is set aside
Settable(s) == Transitions(s) \ EvidenceStatus

StatusRead(r) == \E target \in Settable(status) : Read(r, "status", target)
AssignRead(r) == status \in Assignable /\ Read(r, "assign", "ASSIGNED")
FinishRead(r) == status \in Finishable /\ Read(r, "finish", "VERIFICATION_PENDING")
VerifyRead(r) ==
    /\ status \in AwaitsVerification
    /\ \E target \in {"CLOSED", "REOPENED"} : Read(r, "verify", target)
TimelineRead(r) == Read(r, "timeline", status)

-----------------------------------------------------------------------------
(* The transactions *)

Answer(r) == req' = [req EXCEPT ![r] = NoRequest]

(* The transaction rolls back and the user sees an error *)
Refuse(r) == Answer(r) /\ UNCHANGED <<status, version, latest, resolution, outbox>>

AnyVersion(r) == TRUE      \* a slip: the version is not compared
(* The optimistic lock of updateMany({ where: { id, version } }) *)
Unchanged(r) == version = req[r].version

SameVersion(r) == version  \* a slip: the version is not incremented
(* Accepting a resolution stands for two changes, VERIFIED and CLOSED *)
NextVersion(r) == version + (IF req[r].target = "CLOSED" THEN 2 ELSE 1)

(* Writes the status with its history row and its outbox event; the key of *)
(* the event is unique, or the transaction rolls back                      *)
Move(r, key) ==
    /\ key \notin outbox
    /\ status' = req[r].target
    /\ latest' = [from |-> req[r].status, to |-> req[r].target]
    /\ outbox' = outbox \cup {key}

StatusCommit(r) ==
    /\ req[r].op = "status"
    /\ LET key == <<"issue.status", NextVersion(r)>>
       IN \/ /\ Unchanged(r) /\ Move(r, key) /\ version' = NextVersion(r)
             /\ Answer(r) /\ resolution' = resolution
          \/ ~(Unchanged(r) /\ key \notin outbox) /\ Refuse(r)

(* A slip: reassigning reopened work leaves no history *)
SkipReopened(r) == req[r].status \in {"ASSIGNED", "REOPENED"}
(* A reassignment is no change of status, so it leaves no history row *)
Reassigned(r) == req[r].status = "ASSIGNED"

AssignCommit(r) ==
    /\ req[r].op = "assign"
    /\ LET key == <<"issue.assigned", NextVersion(r)>>
       IN \/ /\ Unchanged(r) /\ status = req[r].status /\ key \notin outbox
             /\ status' = "ASSIGNED" /\ version' = NextVersion(r)
             /\ latest' = (IF Reassigned(r) THEN latest
                           ELSE [from |-> req[r].status, to |-> "ASSIGNED"])
             /\ outbox' = outbox \cup {key}
             /\ Answer(r) /\ resolution' = resolution
          \/ ~(Unchanged(r) /\ status = req[r].status /\ key \notin outbox) /\ Refuse(r)

(* No lock: the row is updated by its id.  The key names the resolution,   *)
(* one row per issue                                                       *)
FinishCommit(r) ==
    /\ req[r].op = "finish"
    /\ LET key == <<"issue.finished", 0>>
       IN \/ /\ Move(r, key) /\ version' = version + 1
             /\ resolution' = (IF resolution = "none" THEN "done" ELSE resolution)
             /\ Answer(r)
          \/ key \in outbox /\ Refuse(r)

Judged(r) == IF req[r].target = "CLOSED" /\ resolution # "none" THEN "verified"
             ELSE resolution

VerifyCommit(r) ==
    /\ req[r].op = "verify"
    /\ LET key == <<"issue.status", NextVersion(r)>>
       IN \/ /\ Unchanged(r) /\ status = req[r].status /\ Move(r, key)
             /\ version' = NextVersion(r) /\ resolution' = Judged(r) /\ Answer(r)
          \/ ~(Unchanged(r) /\ status = req[r].status /\ key \notin outbox) /\ Refuse(r)

TimelineCommit(r) ==
    /\ req[r].op = "timeline"
    /\ version' = version + 1
    /\ Answer(r) /\ UNCHANGED <<status, latest, resolution, outbox>>

-----------------------------------------------------------------------------
Request(r) ==
    \/ StatusRead(r) \/ AssignRead(r) \/ FinishRead(r) \/ VerifyRead(r) \/ TimelineRead(r)
Transaction(r) ==
    \/ StatusCommit(r) \/ AssignCommit(r) \/ FinishCommit(r) \/ VerifyCommit(r)
    \/ TimelineCommit(r)

Next == \E r \in Requests : Request(r) \/ Transaction(r)

Spec == Init /\ [][Next]_vars

-----------------------------------------------------------------------------
(* Properties *)

EventKey == {"issue.status", "issue.assigned", "issue.finished"} \X Nat
RequestType ==
    [op : {"none", "status", "assign", "finish", "verify", "timeline"},
     status : IssueStatus, version : Nat, target : IssueStatus]

(* The type of every variable. *)
TypeOK ==
    /\ status \in IssueStatus /\ version \in Nat
    /\ latest \in [from : IssueStatus, to : IssueStatus]
    /\ resolution \in {"none", "done", "verified"}
    /\ outbox \subseteq EventKey
    /\ req \in [Requests -> RequestType]

(* The newest history row ends in the status the issue has, whichever of   *)
(* the concurrent requests wrote last.                                     *)
HistoryEndsInStatus == latest.to = status

(* Nobody can verify or close an issue without completion evidence, and a  *)
(* closed issue carries an accepted resolution.                            *)
ClosedWithEvidence ==
    /\ status \in EvidenceStatus => resolution # "none"
    /\ status = "CLOSED" => resolution = "verified"

(* What assign() and verify() may do beyond the table of status() *)
Edges(s) == Settable(s) \cup (IF s \in Assignable THEN {"ASSIGNED"} ELSE {})
            \cup (IF s \in AwaitsVerification THEN {"CLOSED", "REOPENED"} ELSE {})

(* A decision taken on a state of the issue that another request has        *)
(* changed since is never applied: the history row starts at the status the *)
(* issue really had and its edge is allowed there.  finish() is left out:   *)
(* it updates by id alone, and moves even a cancelled issue to verification.*)
DecisionsAreFresh ==
    [][latest' # latest /\ status' # "VERIFICATION_PENDING"
         => latest'.from = status /\ status' \in Edges(status)]_vars

FreshSucceeds(ops) ==
    \A r \in Requests :
        /\ req[r].op \in ops /\ req'[r].op = "none"
        /\ version = req[r].version /\ status = req[r].status
        => version' > version

(* A status change, assignment or verification of an issue nobody touched  *)
(* since it was read goes through: the unique key of its outbox event is   *)
(* never taken already, however often the issue was reopened.  finish() is *)
(* left out: its key has no version, and the second finish is refused.     *)
FreshDecisionSucceeds == [][FreshSucceeds({"status", "assign", "verify"})]_vars
=============================================================================
