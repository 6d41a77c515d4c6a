--------------------------- MODULE IssueReporting ---------------------------
(***************************************************************************)
(* Reporting one problem at one place, after create() and subscribe() of   *)
(* apps/api/src/modules/issues/issues.service.ts with the idempotency keys *)
(* of common/idempotency.  A client sends a report under a key and sends   *)
(* it again, under the same key, after an error or a lost answer.  The     *)
(* replay of the key and the search for a duplicate happen before the      *)
(* transaction that creates an issue or adds the reporter to the open one. *)
(***************************************************************************)
EXTENDS Naturals, FiniteSets

CONSTANTS
    Users,
    Reports,      \* HTTP requests in flight; a retry may overtake the first
    UserOf,        \* UserOf[r]: who sends request r
    KeyOf,         \* KeyOf[r]: its Idempotency-Key; users choose their keys
    MaxIssues,     \* bound: issues created for this problem
    MaxRetries     \* bound: times one request is sent again

ASSUME ReportAssumption == UserOf \in [Reports -> Users]
ASSUME ReportBounds     == MaxIssues \in Nat \ {0} /\ MaxRetries \in Nat

VARIABLES
    created,       \* issues 1..created exist
    active,        \* active[i]: its status is in ACTIVE_STATUSES
    affected,      \* affected[i]: users in issue_affected_users
    affectedCount, occurrenceCount,     \* counters in the issues row
    occurrences,   \* occurrences[i]: rows in issue_occurrences
    keys,          \* idempotency_keys of this endpoint, with their response
    pc, found, answer, retries

recordVars == <<created, active, affected, affectedCount, occurrenceCount, occurrences, keys>>
reportVars == <<recordVars, pc, found, answer, retries>>

IssueId == 1..MaxIssues
NoIssue == 0
KeyRows == {KeyOf[r] : r \in Reports}
Unused  == NoIssue

ReportInit ==
    /\ created = 0
    /\ active = [i \in IssueId |-> FALSE]
    /\ affected = [i \in IssueId |-> {}]
    /\ affectedCount = [i \in IssueId |-> 0]
    /\ occurrenceCount = [i \in IssueId |-> 0]
    /\ occurrences = [i \in IssueId |-> 0]
    /\ keys = [u \in Users |-> [k \in KeyRows |-> Unused]]
    /\ pc = [r \in Reports |-> "idle"]
    /\ found = [r \in Reports |-> NoIssue]
    /\ answer = [r \in Reports |-> NoIssue]
    /\ retries = [r \in Reports |-> 0]

Goto(r, l) == pc' = [pc EXCEPT ![r] = l]
Response(r) == keys[UserOf[r]][KeyOf[r]]

-----------------------------------------------------------------------------
(* IdempotencyService.replay *)
Replay(r) ==
    /\ pc[r] = "idle"
    /\ \/ /\ Response(r) # Unused
          /\ answer' = [answer EXCEPT ![r] = Response(r)] /\ Goto(r, "done")
       \/ Response(r) = Unused /\ answer' = answer /\ Goto(r, "search")
    /\ UNCHANGED <<recordVars, found, retries>>

(* The newest open issue of the same place and kind, unless the user asks  *)
(* for a new one                                                           *)
Search(r) ==
    /\ pc[r] = "search"
    /\ LET duplicates == {i \in 1..created : active[i]}
       IN \/ /\ duplicates # {} /\ Goto(r, "link")
             /\ \E i \in duplicates :
                   /\ \A j \in duplicates : j <= i
                   /\ found' = [found EXCEPT ![r] = i]
          \/ Goto(r, "create") /\ found' = [found EXCEPT ![r] = NoIssue]
    /\ UNCHANGED <<recordVars, answer, retries>>

(* A transaction that fails, or whose answer is lost after the commit: the *)
(* client sends the request again                                          *)
TryAgain(r) ==
    /\ retries[r] < MaxRetries
    /\ retries' = [retries EXCEPT ![r] = @ + 1]
    /\ Goto(r, "idle") /\ answer' = answer
GiveUp(r) == Goto(r, "failed") /\ UNCHANGED <<answer, retries>>

Answered(r, i) ==
    \/ Goto(r, "done") /\ answer' = [answer EXCEPT ![r] = i] /\ retries' = retries
    \/ TryAgain(r)

AnyKey(r)  == TRUE                        \* a slip: the key is not unique
(* The unique constraint of idempotency_keys *)
KeyFree(r) == Response(r) = Unused

SaveKey(r, i) == keys' = [keys EXCEPT ![UserOf[r]][KeyOf[r]] = i]

IsNewReporter(r, i) == UserOf[r] \notin affected[i]

(* Adds the user and counts the user once *)
AddReporter(r, i) ==
    /\ affected' = [affected EXCEPT ![i] = @ \cup {UserOf[r]}]
    /\ affectedCount' = [affectedCount EXCEPT ![i] =
                            IF IsNewReporter(r, i) THEN @ + 1 ELSE @]

(* Serializable, so what it reads is what it commits on; the status of the *)
(* duplicate is not read again                                             *)
Link(r) ==
    /\ pc[r] = "link"
    /\ LET i == found[r]
       IN \/ /\ KeyFree(r) /\ SaveKey(r, i)
             /\ AddReporter(r, i)
             /\ occurrences' = [occurrences EXCEPT ![i] = @ + 1]
             /\ occurrenceCount' = [occurrenceCount EXCEPT ![i] = @ + 1]
             /\ Answered(r, i) /\ UNCHANGED <<created, active>>
          \/ UNCHANGED recordVars /\ (TryAgain(r) \/ GiveUp(r))
    /\ found' = found

Create(r) ==
    /\ pc[r] = "create"
    /\ LET i == created + 1
       IN \/ /\ created < MaxIssues /\ KeyFree(r) /\ SaveKey(r, i)
             /\ created' = i /\ active' = [active EXCEPT ![i] = TRUE]
             /\ affected' = [affected EXCEPT ![i] = {UserOf[r]}]
             /\ affectedCount' = [affectedCount EXCEPT ![i] = 1]
             /\ occurrences' = [occurrences EXCEPT ![i] = 1]
             /\ occurrenceCount' = [occurrenceCount EXCEPT ![i] = 1]
             /\ Answered(r, i)
          \/ UNCHANGED recordVars /\ (TryAgain(r) \/ GiveUp(r))
    /\ found' = found

-----------------------------------------------------------------------------
(* subscribe: the row is looked for in the transaction, at READ COMMITTED; *)
(* the primary key refuses the second of two equal subscriptions           *)
SubscribeRead(r) ==
    /\ pc[r] = "idle"
    /\ \E i \in 1..created :
          /\ active[i] /\ found' = [found EXCEPT ![r] = i]
          /\ IF UserOf[r] \in affected[i] THEN Goto(r, "done") ELSE Goto(r, "subscribe")
    /\ UNCHANGED <<recordVars, answer, retries>>

NoPrimaryKey(r, i) == TRUE                \* a slip: the insert never conflicts
RowFree(r, i) == UserOf[r] \notin affected[i]

SubscribeCommit(r) ==
    /\ pc[r] = "subscribe"
    /\ LET i == found[r]
       IN \/ /\ RowFree(r, i) /\ Goto(r, "done")
             /\ affected' = [affected EXCEPT ![i] = @ \cup {UserOf[r]}]
             /\ affectedCount' = [affectedCount EXCEPT ![i] = @ + 1]
             /\ occurrenceCount' = [occurrenceCount EXCEPT ![i] = @ + 1]
          \/ /\ ~RowFree(r, i) /\ (Goto(r, "failed") \/ Goto(r, "done"))
             /\ UNCHANGED <<affected, affectedCount, occurrenceCount>>
    /\ UNCHANGED <<created, active, occurrences, keys, found, answer, retries>>

(* The workflow settles an issue, or reopens it *)
Settle ==
    /\ \E i \in 1..created : active' = [active EXCEPT ![i] = ~@]
    /\ UNCHANGED <<created, affected, affectedCount, occurrenceCount, occurrences, keys,
                   pc, found, answer, retries>>

ReportNext ==
    \/ \E r \in Reports :
          \/ Replay(r) \/ Search(r) \/ Link(r) \/ Create(r)
          \/ SubscribeRead(r) \/ SubscribeCommit(r)
    \/ Settle

ReportSpec == ReportInit /\ [][ReportNext]_reportVars

-----------------------------------------------------------------------------
(* Properties *)

(* The counter shown to staff is the number of users on record, whether     *)
(* they reported or subscribed, and in whatever order.                      *)
AffectedCountExact == \A i \in IssueId : affectedCount[i] = Cardinality(affected[i])

(* However often a report is sent again, it is recorded once: each issue    *)
(* has as many occurrences as there are keys answered with it.              *)
ReportedOncePerKey ==
    \A i \in 1..created :
        occurrences[i] = Cardinality({uk \in Users \X KeyRows : keys[uk[1]][uk[2]] = i})

(* Requests with one key get one answer, also when they overtake each other *)
SameAnswer ==
    \A r1, r2 \in Reports :
        /\ UserOf[r1] = UserOf[r2] /\ KeyOf[r1] = KeyOf[r2]
        /\ answer[r1] # NoIssue /\ answer[r2] # NoIssue
        => answer[r1] = answer[r2]

=============================================================================
