--------------------------- MODULE IssueEscalation ---------------------------
(***************************************************************************)
(* Escalation of overdue issues, after escalateOverdue() of                *)
(* apps/api/src/modules/delivery/delivery.service.ts.  A timer starts a    *)
(* scan every five seconds in every API process and does not wait for the  *)
(* one before, so scans overlap.  A scan reads a batch of overdue issues   *)
(* and takes them one by one: it looks for the deduplication key, then     *)
(* writes escalation, level, notification and outbox event in one          *)
(* transaction.  The recipient of each level is assumed to exist.          *)
(***************************************************************************)
EXTENDS Naturals, FiniteSets

CONSTANTS
    Issues,
    Rank,      \* Rank[i]: priority of issue i
    Sla,       \* issues reported under an SLA policy
    Scans,     \* scans that may overlap
    Batch,     \* issues one scan reads; 50 in the code
    NoRow

TopLevel == 3
Kind == {"ACKNOWLEDGEMENT_OVERDUE", "RESOLUTION_OVERDUE"}
Key  == [issue : Issues, kind : Kind, level : Nat]

ASSUME RankAssumption  == Rank \in [Issues -> Nat]
ASSUME SlaAssumption   == Sla \subseteq Issues
ASSUME BatchAssumption == Batch \in Nat \ {0}
ASSUME NoRowAssumption == NoRow \notin Key

VARIABLES
    open,          \* is the issue in a status that is escalated?
    ack,           \* AWAITED, OVERDUE once acknowledgementDueAt has passed, or
                   \* GIVEN: acknowledgedAt is set; reopening does not clear it
    resDue,        \* resolutionDueAt has passed; it is never moved
    late,          \* expectedCompletionAt has passed; NULL and a time to come: no
    level,         \* issues.escalation_level
    escalations,   \* deduplication keys in issue_escalations
    quiet,         \* nextEscalationAt of the newest escalation is to come
    rows,          \* what each scan has read and not yet treated
    current        \* the row each scan is about to write

issueVars == <<open, ack, resDue, late>>
levelVars == <<level, escalations, quiet>>
scanVars == <<rows, current>>
escalationVars == <<issueVars, levelVars, scanVars>>

EscalationInit ==
    /\ open = [i \in Issues |-> TRUE] /\ ack = [i \in Issues |-> "AWAITED"]
    /\ resDue = [i \in Issues |-> FALSE] /\ late = [i \in Issues |-> FALSE]
    /\ level = [i \in Issues |-> 0] /\ escalations = {}
    /\ quiet = [i \in Issues |-> FALSE]
    /\ rows = [s \in Scans |-> {}] /\ current = [s \in Scans |-> NoRow]

Idle(s) == rows[s] = {} /\ current[s] = NoRow

-----------------------------------------------------------------------------
AckOverdue(i) == ack[i] = "OVERDUE"
Overdue == {i \in Issues : open[i] /\ (AckOverdue(i) \/ resDue[i] \/ late[i])}

(* The first issues by priority; the order of equals is the database's *)
IsBatch(B) ==
    /\ B \subseteq Overdue
    /\ \/ B = Overdue /\ Cardinality(B) <= Batch
       \/ /\ Cardinality(B) = Batch
          /\ \A i \in B, j \in Overdue \ B : Rank[j] <= Rank[i]

(* Slips: the last level is never reached; the hour is not waited for *)
BelowTop(i)  == level[i] < TopLevel - 1 /\ ~quiet[i]
NotAtTop(i)  == level[i] < TopLevel
(* Neither at the top nor within the hour of the last escalation *)
MayEscalate(i) == level[i] < TopLevel /\ ~quiet[i]

(* The deduplication key of the next level *)
NextKey(i) ==
    [issue |-> i, level |-> level[i] + 1,
     kind |-> IF AckOverdue(i) THEN "ACKNOWLEDGEMENT_OVERDUE" ELSE "RESOLUTION_OVERDUE"]

(* Issues that may not be escalated are in the batch and then skipped *)
ScanRead(s) ==
    /\ Idle(s)
    /\ \E B \in SUBSET Issues :
          /\ IsBatch(B)
          /\ rows' = [rows EXCEPT ![s] = {NextKey(i) : i \in {j \in B : MayEscalate(j)}}]
    /\ UNCHANGED <<issueVars, levelVars, current>>

ScanCheck(s) ==
    /\ current[s] = NoRow
    /\ \E row \in rows[s] :
          /\ \A other \in rows[s] : Rank[other.issue] <= Rank[row.issue]
          /\ rows' = [rows EXCEPT ![s] = @ \ {row}]
          /\ current' = [current EXCEPT ![s] = IF row \in escalations THEN NoRow ELSE row]
    /\ UNCHANGED <<issueVars, levelVars>>

(* A slip: the level of the issue is counted up, whatever was read          *)
CountUp(row) == level[row.issue] + 1
LevelRead(row) == row.level

(* Status and level of the issue are not compared again.  The unique key   *)
(* makes the transaction of the slower of two equal scans fail, and the    *)
(* error ends its scan.                                                    *)
ScanWrite(s) ==
    /\ current[s] # NoRow
    /\ current' = [current EXCEPT ![s] = NoRow]
    /\ LET row == current[s]
       IN \/ /\ row \notin escalations /\ rows' = rows
             /\ escalations' = escalations \cup {row}
             /\ level' = [level EXCEPT ![row.issue] = LevelRead(row)]
             /\ quiet' = [quiet EXCEPT ![row.issue] = TRUE]
          \/ /\ row \in escalations /\ rows' = [rows EXCEPT ![s] = {}]
             /\ UNCHANGED levelVars
    /\ UNCHANGED issueVars

-----------------------------------------------------------------------------
(* Time.  A scan is over within the hour. *)
HourPasses(i) ==
    /\ quiet[i] /\ \A s \in Scans : Idle(s)
    /\ quiet' = [quiet EXCEPT ![i] = FALSE]
    /\ UNCHANGED <<issueVars, level, escalations, scanVars>>

(* The two deadlines of the policy are fixed when the issue is reported    *)
AckDeadline(i) ==
    /\ i \in Sla /\ ack[i] = "AWAITED"
    /\ ack' = [ack EXCEPT ![i] = "OVERDUE"]
    /\ UNCHANGED <<open, resDue, late, levelVars, scanVars>>

ResolutionDeadline(i) ==
    /\ i \in Sla /\ ~resDue[i]
    /\ resDue' = [resDue EXCEPT ![i] = TRUE]
    /\ UNCHANGED <<open, ack, late, levelVars, scanVars>>

(* A completion time that staff have promised passes ...                   *)
PromisePasses(i) ==
    /\ ~late[i] /\ late' = [late EXCEPT ![i] = TRUE]
    /\ UNCHANGED <<open, ack, resDue, levelVars, scanVars>>

(* ... and addTimeline promises one still to come, whatever the status     *)
Revise(i) ==
    /\ late[i] /\ late' = [late EXCEPT ![i] = FALSE]
    /\ UNCHANGED <<open, ack, resDue, levelVars, scanVars>>

(* Staff acknowledge an issue; without a policy no deadline waits for that *)
Acknowledge(i) ==
    /\ i \in Sla /\ open[i] /\ ack[i] # "GIVEN"
    /\ ack' = [ack EXCEPT ![i] = "GIVEN"]
    /\ UNCHANGED <<open, resDue, late, levelVars, scanVars>>

CloseOrReopen(i) ==
    /\ open' = [open EXCEPT ![i] = ~@]
    /\ UNCHANGED <<ack, resDue, late, levelVars, scanVars>>

Scan(s) == ScanRead(s) \/ ScanCheck(s) \/ ScanWrite(s)
EscalationNext ==
    \/ \E s \in Scans : Scan(s)
    \/ \E i \in Issues :
          \/ HourPasses(i) \/ AckDeadline(i) \/ ResolutionDeadline(i)
          \/ PromisePasses(i) \/ Revise(i) \/ Acknowledge(i) \/ CloseOrReopen(i)

EscalationSpec == EscalationInit /\ [][EscalationNext]_escalationVars
EscalationFairSpec ==
    /\ EscalationSpec
    /\ \A s \in Scans : WF_escalationVars(Scan(s))
    /\ \A i \in Issues : WF_escalationVars(HourPasses(i))

-----------------------------------------------------------------------------
(* Properties *)

(* The type of every variable; no issue goes beyond the last level. *)
EscalationTypeOK ==
    /\ open \in [Issues -> BOOLEAN] /\ ack \in [Issues -> {"AWAITED", "OVERDUE", "GIVEN"}]
    /\ resDue \in [Issues -> BOOLEAN] /\ late \in [Issues -> BOOLEAN]
    /\ quiet \in [Issues -> BOOLEAN]
    /\ level \in [Issues -> 0..TopLevel]
    /\ escalations \subseteq Key
    /\ rows \in [Scans -> SUBSET Key] /\ current \in [Scans -> Key \cup {NoRow}]

LevelsOf(i) == {e.level : e \in {e \in escalations : e.issue = i}}

(* The level of an issue agrees with its escalations: every level up to it  *)
(* has one, and none lies above.                                            *)
LevelsHaveNoGap == \A i \in Issues : LevelsOf(i) = 1..level[i]

(* However scans overlap, an issue rises by one level at a time and only    *)
(* when the hour of its last escalation is over.  What a second scan can    *)
(* still add within the hour is the level just written, under the other     *)
(* kind; the level of the issue stays as it is.                             *)
OneLevelPerHour ==
    [][/\ \A row \in escalations' \ escalations :
             /\ level'[row.issue] = row.level
             /\ row.level = IF quiet[row.issue] THEN level[row.issue]
                                                ELSE level[row.issue] + 1
       /\ \A i \in Issues : level'[i] # level[i] => ~quiet[i]]_escalationVars

(* A whole batch of other issues of at least this priority that are at the  *)
(* top already: a scan reads them first and skips them.                     *)
Crowded(i) ==
    Cardinality({j \in Overdue \ {i} : level[j] = TopLevel /\ Rank[j] >= Rank[i]}) >= Batch

(* An issue that stays overdue (open, past a deadline or a promise that is  *)
(* not moved on) reaches the principal, level 3, as long as the batch has   *)
(* room for it.                                                             *)
OverdueReachesTop ==
    \A i \in Issues :
        <>[](i \in Overdue /\ ~Crowded(i)) => <>(level[i] = TopLevel)

=============================================================================
