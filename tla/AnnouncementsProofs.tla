------------------------- MODULE AnnouncementsProofs -------------------------
(***************************************************************************)
(* Proof that Announcements implements AnnouncementLifecycle, for every    *)
(* number of users, requests, keys, workers, attempts, sends and faults,   *)
(* and whether or not the update to FAILED may fail.                       *)
(***************************************************************************)
EXTENDS Announcements, TLAPS

Statuses == {"DRAFT", "PUBLISHING", "PUBLISHED", "FAILED", "UNPUBLISHED", "ARCHIVED"}
RequestRecord ==
    [pc : {"idle", "publish", "claim", "queue", "inline", "mark", "archive", "unpublish"},
     saw : Statuses, key : Keys \cup {NoKey}]

RequestsTyped ==
    /\ status \in Statuses /\ stored \subseteq Keys
    /\ req \in [Requests -> RequestRecord]

(* What a request decided to do it decided on a status that allowed it; a  *)
(* published announcement never becomes a draft again                      *)
Justified(r) ==
    /\ req[r].pc \in {"publish", "claim"} => req[r].saw \notin Outgoing
    /\ req[r].pc = "archive" => req[r].saw # "PUBLISHING"
    /\ req[r].pc = "unpublish" => status # "DRAFT"
DecisionsJustified == \A r \in Requests : Justified(r)

SendingInv == RequestsTyped /\ DecisionsJustified

-----------------------------------------------------------------------------
(* What the row may do in a step that decides nothing: nothing, be         *)
(* delivered, or fail and forget keys                                      *)
Delivered == status = "PUBLISHING" /\ (\E S \in SUBSET Users : Deliver(S)) /\ stored' = stored
Failed ==
    /\ status = "PUBLISHING" /\ status' = "FAILED" /\ UNCHANGED <<notified, receipts>>
    /\ stored' \in SUBSET stored
Undecided == UNCHANGED <<row, stored>> \/ Delivered \/ Failed

LEMMA CreateUndecided == CreateRecipients /\ stored' = stored => Undecided
BY DEF CreateRecipients, Claimed, Undecided, Delivered, row

LEMMA MarkUndecided == ASSUME NEW K, Fail(K) \/ FailingMark PROVE Undecided
BY DEF Fail, FailingMark, Undecided, Failed, row

LEMMA UndecidedImplements == Undecided => [Lifecycle!Next]_Lifecycle!lifecycle
<1>1. UNCHANGED <<row, stored>> => UNCHANGED Lifecycle!lifecycle
  BY DEF row, Lifecycle!lifecycle
<1>2. Delivered => Lifecycle!Next
  BY DEF Delivered, Deliver, Lifecycle!Next, Lifecycle!Deliver, Lifecycle!Notify
<1>3. Failed => Lifecycle!Next
  BY DEF Failed, Lifecycle!Next, Lifecycle!Fail, Lifecycle!Stays
<1> QED BY <1>1, <1>2, <1>3 DEF Undecided

(* It leaves the decisions of the requests justified                       *)
LEMMA UndecidedKeeps ==
    ASSUME SendingInv, Undecided,
           req' \in [Requests -> RequestRecord],
           \A r \in Requests : \/ req'[r] = req[r]
                               \/ req'[r].pc \in {"idle", "queue", "inline", "mark"}
    PROVE  SendingInv'
<1>1. status' = status \/ status' \in {"PUBLISHED", "FAILED"}
  BY DEF Undecided, Delivered, Deliver, Failed, row
<1>2. stored' \subseteq stored
  BY DEF Undecided, Delivered, Failed
<1>3. RequestsTyped'
  BY <1>1, <1>2 DEF SendingInv, RequestsTyped, Statuses
<1>4. DecisionsJustified'
  BY <1>1 DEF SendingInv, DecisionsJustified, Justified
<1> QED BY <1>3, <1>4 DEF SendingInv

-----------------------------------------------------------------------------
(* How a request moves                                                     *)
LEMMA IdleTyped == Idle \in RequestRecord
BY DEF Idle, RequestRecord, Statuses

LEMMA EndMoves ==
    ASSUME SendingInv, NEW r \in Requests, End(r)
    PROVE  /\ req' \in [Requests -> RequestRecord] /\ req'[r].pc = "idle"
           /\ \A q \in Requests : req'[q] = req[q] \/ req'[q].pc = "idle"
BY IdleTyped DEF SendingInv, RequestsTyped, End, Idle

LEMMA GotoMoves ==
    ASSUME SendingInv, NEW r \in Requests, NEW l \in {"queue", "inline", "mark"}, Goto(r, l)
    PROVE  /\ req' \in [Requests -> RequestRecord]
           /\ \A q \in Requests : req'[q] = req[q] \/ req'[q].pc = l
<1>1. PICK n \in RequestRecord :
        n = [pc |-> l, saw |-> "PUBLISHING", key |-> req[r].key]
  BY DEF SendingInv, RequestsTyped, RequestRecord, Statuses
<1>2. req'[r] = n /\ \A q \in Requests : q # r => req'[q] = req[q]
  <2>1. req \in [Requests -> RequestRecord]
    BY DEF SendingInv, RequestsTyped
  <2>2. req'[r] = [[req[r] EXCEPT !.pc = l] EXCEPT !.saw = "PUBLISHING"]
        /\ \A q \in Requests : q # r => req'[q] = req[q]
    BY <2>1 DEF Goto
  <2>3. req[r] \in RequestRecord
    BY <2>1
  <2> QED BY <1>1, <2>2, <2>3 DEF RequestRecord
<1>3. req' \in [Requests -> RequestRecord]
  BY <1>1, <1>2 DEF Goto, SendingInv, RequestsTyped
<1> QED BY <1>1, <1>2, <1>3

LEMMA BeginMoves ==
    ASSUME SendingInv, NEW r \in Requests, NEW k \in Keys \cup {NoKey},
           NEW l \in {"publish", "claim", "archive", "unpublish"}, Begin(r, l, k)
    PROVE  /\ req' \in [Requests -> RequestRecord]
           /\ req'[r].pc = l /\ req'[r].saw = status
           /\ \A q \in Requests : q # r => req'[q] = req[q]
BY DEF SendingInv, RequestsTyped, Begin, RequestRecord

(* A decision that is carried out leaves those of the others justified     *)
LEMMA DecidedKeeps ==
    ASSUME SendingInv, NEW r \in Requests, status' \in Statuses \ {"DRAFT"},
           stored' \subseteq Keys, req' \in [Requests -> RequestRecord],
           \A q \in Requests : req'[q] = req[q] \/ req'[q].pc \in {"idle", "queue"}
    PROVE  SendingInv'
BY DEF SendingInv, RequestsTyped, DecisionsJustified, Justified

-----------------------------------------------------------------------------
(* One lemma per decision                                                  *)

LEMMA ReadsImplement ==
    ASSUME SendingInv, NEW r \in Requests,
           \/ PublishRead(r) \/ ArchiveRead(r) \/ UnpublishRead(r)
           \/ \E k \in Keys \cup {NoKey} : SendRead(r, k)
    PROVE  SendingInv' /\ UNCHANGED Lifecycle!lifecycle
<1>1. UNCHANGED <<row, stored>>
  BY DEF PublishRead, ArchiveRead, UnpublishRead, SendRead
<1>2. PICK k \in Keys \cup {NoKey}, l \in {"publish", "claim", "archive", "unpublish"} :
          /\ Begin(r, l, k)
          /\ l \in {"publish", "claim"} => status \notin Outgoing
          /\ l = "archive" => status # "PUBLISHING"
          /\ l = "unpublish" => status = "PUBLISHED"
  BY Zenon DEF PublishRead, ArchiveRead, UnpublishRead, SendRead
<1>3. /\ req' \in [Requests -> RequestRecord] /\ req'[r].pc = l /\ req'[r].saw = status
      /\ \A q \in Requests : q # r => req'[q] = req[q]
  BY <1>2, BeginMoves
<1>4. RequestsTyped'
  BY <1>1, <1>3 DEF SendingInv, RequestsTyped, row
<1>5. DecisionsJustified'
  BY <1>1, <1>2, <1>3 DEF SendingInv, DecisionsJustified, Justified, row
<1> QED BY <1>1, <1>4, <1>5 DEF SendingInv, row, Lifecycle!lifecycle

LEMMA PublishImplements ==
    ASSUME SendingInv, NEW r \in Requests, PublishCommit(r)
    PROVE  SendingInv' /\ [Lifecycle!Next]_Lifecycle!lifecycle
<1>1. /\ req' \in [Requests -> RequestRecord]
      /\ \A q \in Requests : req'[q] = req[q] \/ req'[q].pc = "idle"
  BY EndMoves DEF PublishCommit
<1>2. CASE UNCHANGED <<row, sends>>
  <2>1. Undecided
    BY <1>2 DEF PublishCommit, Undecided, row
  <2> QED BY <1>1, <2>1, UndecidedKeeps, UndecidedImplements
<1>3. CASE Unchanged(r) /\ \E S \in (SUBSET Users) \ {{}} : Deliver(S)
  <2>1. PICK S \in (SUBSET Users) \ {{}} : Deliver(S)
    BY <1>3
  <2>2. status \notin Outgoing /\ stored' = stored
    BY <1>3 DEF PublishCommit, Unchanged, SendingInv, DecisionsJustified, Justified
  <2>3. Lifecycle!Publish(S)
    BY <2>1, <2>2 DEF Deliver, Outgoing, Lifecycle!Publish, Lifecycle!Notify, Lifecycle!Outgoing
  <2>4. SendingInv'
    BY <1>1, <2>1, <2>2, DecidedKeeps DEF Deliver, SendingInv, RequestsTyped, Statuses
  <2> QED BY <2>3, <2>4 DEF Lifecycle!Next
<1> QED BY <1>2, <1>3 DEF PublishCommit

LEMMA ClaimImplements ==
    ASSUME SendingInv, NEW r \in Requests, SendClaim(r)
    PROVE  SendingInv' /\ [Lifecycle!Next]_Lifecycle!lifecycle
<1>1. CASE Unchanged(r) /\ KeyFree(req[r].key)
  <2>1. /\ status' = "PUBLISHING" /\ UNCHANGED <<notified, receipts>> /\ Goto(r, "queue")
        /\ stored' = stored \cup ({req[r].key} \ {NoKey})
    BY <1>1 DEF SendClaim
  <2>2. status \notin Outgoing
    BY <1>1 DEF SendClaim, Unchanged, SendingInv, DecisionsJustified, Justified
  <2>3. req[r].key \in Keys \cup {NoKey}
    BY DEF SendingInv, RequestsTyped, RequestRecord
  <2>4. Lifecycle!Send(req[r].key)
    <3>1. CASE req[r].key = NoKey
      BY <2>1, <2>2, <3>1 DEF Lifecycle!Send, Lifecycle!Stays, Lifecycle!Outgoing, Outgoing
    <3>2. CASE req[r].key # NoKey
      BY <1>1, <2>1, <2>2, <2>3, <3>2 DEF Lifecycle!Send, Lifecycle!Stays, Lifecycle!Outgoing,
         Outgoing, KeyFree
    <3> QED BY <3>1, <3>2
  <2>5. SendingInv'
    <3>1. /\ req' \in [Requests -> RequestRecord]
          /\ \A q \in Requests : req'[q] = req[q] \/ req'[q].pc = "queue"
      BY <2>1, GotoMoves
    <3>2. stored' \subseteq Keys /\ status' \in Statuses \ {"DRAFT"}
      BY <2>1, <2>3 DEF SendingInv, RequestsTyped, Statuses
    <3> QED BY <3>1, <3>2, DecidedKeeps
  <2> QED BY <2>3, <2>4, <2>5 DEF Lifecycle!Next
<1>2. CASE ~(Unchanged(r) /\ KeyFree(req[r].key))
  <2>1. Undecided /\ End(r)
    BY <1>2 DEF SendClaim, Undecided, row
  <2>2. /\ req' \in [Requests -> RequestRecord]
        /\ \A q \in Requests : req'[q] = req[q] \/ req'[q].pc = "idle"
    BY <2>1, EndMoves
  <2> QED BY <2>1, <2>2, UndecidedKeeps, UndecidedImplements
<1> QED BY <1>1, <1>2
LEMMA WithdrawalImplements ==
    ASSUME SendingInv, NEW r \in Requests, ArchiveCommit(r) \/ UnpublishCommit(r)
    PROVE  SendingInv' /\ [Lifecycle!Next]_Lifecycle!lifecycle
<1>1. /\ req' \in [Requests -> RequestRecord]
      /\ \A q \in Requests : req'[q] = req[q] \/ req'[q].pc = "idle"
  BY EndMoves DEF ArchiveCommit, UnpublishCommit
<1>2. stored' = stored /\ stored \subseteq Keys
  BY DEF ArchiveCommit, UnpublishCommit, SendingInv, RequestsTyped
<1>3. CASE ArchiveCommit(r) /\ ~Unchanged(r)
  <2>1. Undecided
    BY <1>3 DEF ArchiveCommit, Undecided, row
  <2> QED BY <1>1, <2>1, UndecidedKeeps, UndecidedImplements
<1>4. CASE ArchiveCommit(r) /\ Unchanged(r)
  <2>1. status # "PUBLISHING"
    BY <1>4 DEF ArchiveCommit, Unchanged, SendingInv, DecisionsJustified, Justified
  <2>2. Lifecycle!Archive
    BY <1>2, <1>4, <2>1 DEF ArchiveCommit, Lifecycle!Archive
  <2>3. status' \in Statuses \ {"DRAFT"}
    BY <1>4 DEF ArchiveCommit, Statuses
  <2> QED BY <1>1, <1>2, <2>2, <2>3, DecidedKeeps DEF Lifecycle!Next
<1>5. CASE UnpublishCommit(r)
  <2>1. status # "DRAFT"
    BY <1>5 DEF UnpublishCommit, SendingInv, DecisionsJustified, Justified
  <2>2. Lifecycle!Unpublish
    BY <1>2, <1>5, <2>1 DEF UnpublishCommit, Lifecycle!Unpublish, Lifecycle!Stays
  <2>3. status' \in Statuses \ {"DRAFT"}
    BY <1>5 DEF UnpublishCommit, Statuses
  <2> QED BY <1>1, <1>2, <2>2, <2>3, DecidedKeeps DEF Lifecycle!Next
<1> QED BY <1>3, <1>4, <1>5

(* What sendAll does after its claim, and what happens to the process       *)
LEMMA SendingUndecided ==
    ASSUME NEW r \in Requests, SendQueue(r) \/ SendInline(r) \/ SendMark(r) \/ SenderDies(r)
    PROVE  Undecided
<1>1. CASE SendQueue(r) \/ SenderDies(r)
  BY <1>1 DEF SendQueue, SenderDies, Undecided
<1>2. CASE SendInline(r)
  BY <1>2, CreateUndecided DEF SendInline, Undecided
<1>3. CASE SendMark(r)
  BY <1>3, MarkUndecided DEF SendMark
<1> QED BY <1>1, <1>2, <1>3

LEMMA SendingImplements ==
    ASSUME SendingInv, NEW r \in Requests,
           SendQueue(r) \/ SendInline(r) \/ SendMark(r) \/ SenderDies(r)
    PROVE  SendingInv' /\ [Lifecycle!Next]_Lifecycle!lifecycle
<1>1. Undecided
  BY SendingUndecided
<1>2. End(r) \/ Goto(r, "inline") \/ Goto(r, "mark")
  BY DEF SendQueue, SendInline, SendMark, SenderDies
<1>3. /\ req' \in [Requests -> RequestRecord]
      /\ \A q \in Requests : req'[q] = req[q] \/ req'[q].pc \in {"idle", "inline", "mark"}
  BY <1>2, EndMoves, GotoMoves
<1> QED BY <1>1, <1>3, UndecidedKeeps, UndecidedImplements

(* The queue, the workers and their ends decide nothing                     *)
LEMMA WorkUndecided ==
    ASSUME \/ \E w \in Workers : Work(w) \/ WorkerDies(w)
           \/ Stall \/ BackoffElapsed
    PROVE  Undecided /\ req' = req
<1>1. ASSUME NEW w \in Workers, WorkerCreate(w) PROVE Undecided /\ req' = req
  BY <1>1, CreateUndecided DEF WorkerCreate, Undecided
<1>2. ASSUME NEW w \in Workers, WorkerCatch(w) PROVE Undecided /\ req' = req
  BY <1>2, MarkUndecided DEF WorkerCatch
<1>3. ASSUME NEW w \in Workers, Fetch(w) \/ WorkerRead(w) \/ Settle(w) \/ WorkerDies(w)
      PROVE  Undecided /\ req' = req
  BY <1>3 DEF Fetch, WorkerRead, Settle, WorkerDies, Undecided
<1>4. CASE Stall \/ BackoffElapsed
  BY <1>4 DEF Stall, BackoffElapsed, Undecided
<1> QED BY <1>1, <1>2, <1>3, <1>4 DEF Work

LEMMA WorkImplements ==
    ASSUME SendingInv,
           \/ \E w \in Workers : Work(w) \/ WorkerDies(w)
           \/ Stall \/ BackoffElapsed
    PROVE  SendingInv' /\ [Lifecycle!Next]_Lifecycle!lifecycle
<1>1. Undecided /\ req' = req
  BY WorkUndecided
<1> QED
  BY <1>1, UndecidedKeeps, UndecidedImplements DEF SendingInv, RequestsTyped

LEMMA SendingStep ==
    ASSUME SendingInv, [Next]_vars
    PROVE  SendingInv' /\ [Lifecycle!Next]_Lifecycle!lifecycle
<1>1. CASE UNCHANGED vars
  <2>1. Undecided /\ req' = req
    BY <1>1 DEF vars, row, Undecided
  <2> QED BY <2>1, UndecidedKeeps, UndecidedImplements DEF SendingInv, RequestsTyped
<1>2. ASSUME NEW r \in Requests,
             \/ PublishRead(r) \/ ArchiveRead(r) \/ UnpublishRead(r)
             \/ \E k \in Keys \cup {NoKey} : SendRead(r, k)
      PROVE  SendingInv' /\ [Lifecycle!Next]_Lifecycle!lifecycle
  BY <1>2, ReadsImplement
<1>3. ASSUME NEW r \in Requests,
             \/ PublishCommit(r) \/ Send(r) \/ SenderDies(r)
             \/ ArchiveCommit(r) \/ UnpublishCommit(r)
      PROVE  SendingInv' /\ [Lifecycle!Next]_Lifecycle!lifecycle
  BY <1>3, PublishImplements, ClaimImplements, SendingImplements, WithdrawalImplements DEF Send
<1> QED
  BY <1>1, <1>2, <1>3, WorkImplements DEF Next, Withdraw

LEMMA SendingInitially == Init => SendingInv
BY IdleTyped DEF Init, SendingInv, RequestsTyped, Statuses, DecisionsJustified, Justified, Idle

(* A publication, a sending and an archiving are carried out only on the   *)
(* status their request had read and that allowed them, and a published    *)
(* announcement is never a draft again.                                    *)
THEOREM SendingsJustified == Spec => [](RequestsTyped /\ DecisionsJustified)
<1>1. SendingInv /\ [Next]_vars => SendingInv'
  BY SendingStep
<1> QED BY SendingInitially, <1>1, PTL DEF Spec, SendingInv

(* However requests, the queue, its retries, the inline fallback and        *)
(* workers that lost their lock overlap, one decision to send notifies      *)
(* everyone at most once, in one step, and nobody after the sending failed  *)
(* or was withdrawn.                                                        *)
THEOREM Implementation == Spec => ImplementsLifecycle
<1>1. Init => Lifecycle!Init
  BY DEF Init, Lifecycle!Init
<1>2. SendingInv /\ [Next]_vars => SendingInv' /\ [Lifecycle!Next]_Lifecycle!lifecycle
  BY SendingStep
<1> QED
  BY SendingInitially, <1>1, <1>2, PTL DEF Spec, ImplementsLifecycle, Lifecycle!Spec
-----------------------------------------------------------------------------
(* Notifications are counted by decisions                                  *)

(* A sending under way may notify everybody once more                      *)
Underway == IF status = "PUBLISHING" THEN 1 ELSE 0
Counted ==
    /\ notified \in [Users -> Nat] /\ sends \in Nat
    /\ \A u \in Users : notified[u] + Underway <= sends

LEMMA OneMore ==
    ASSUME NEW n \in Nat, NEW k \in {0, 1}, NEW a \in Nat, NEW b \in Nat,
           n + k <= a, b + k = a + 1
    PROVE  n + 1 <= b
OBVIOUS

LEMMA DeliveredCounted ==
    ASSUME Counted, NEW S, Deliver(S), sends' \in Nat,
           sends' + Underway = sends + 1
    PROVE  Counted'
<1>1. notified' = [u \in Users |-> IF u \in S THEN notified[u] + 1 ELSE notified[u]]
      /\ Underway' = 0
  BY DEF Deliver, Underway
<1>2. Underway \in {0, 1} /\ sends \in Nat /\ notified \in [Users -> Nat]
  BY DEF Underway, Counted
<1>3. notified' \in [Users -> Nat]
  BY <1>1, <1>2
<1>4. ASSUME NEW u \in Users PROVE notified'[u] + Underway' <= sends'
  <2>1. /\ notified'[u] = notified[u] \/ notified'[u] = notified[u] + 1
        /\ notified[u] \in Nat
    BY <1>1, <1>2
  <2>2. notified[u] + Underway <= sends
    BY DEF Counted
  <2>3. notified[u] + 1 <= sends'
    BY <1>2, <2>1, <2>2, OneMore
  <2> QED BY <1>1, <2>1, <2>3
<1> QED BY <1>3, <1>4 DEF Counted

LEMMA UndecidedCounted ==
    ASSUME Counted, Undecided, sends' = sends
    PROVE  Counted'
<1>1. CASE UNCHANGED <<row, stored>>
  BY <1>1 DEF Counted, Underway, row
<1>2. CASE Delivered
  <2>1. Underway = 1 /\ \E S \in SUBSET Users : Deliver(S)
    BY <1>2 DEF Delivered, Underway
  <2> QED BY <2>1, DeliveredCounted DEF Counted
<1>3. CASE Failed
  <2>1. notified' = notified /\ Underway = 1 /\ Underway' = 0
    BY <1>3 DEF Failed, Underway
  <2> QED BY <2>1 DEF Counted
<1> QED BY <1>1, <1>2, <1>3 DEF Undecided

LEMMA CountedStep ==
    ASSUME SendingInv, Counted, [Next]_vars
    PROVE  Counted'
<1>1. CASE sends' = sends /\ Undecided
  BY <1>1, UndecidedCounted
<1>2. ASSUME NEW r \in Requests, PublishCommit(r) PROVE Counted'
  <2>1. CASE UNCHANGED <<row, sends>>
    BY <1>1, <1>2, <2>1 DEF PublishCommit, Undecided
  <2>2. CASE Unchanged(r) /\ sends' = sends + 1 /\ \E S \in (SUBSET Users) \ {{}} : Deliver(S)
    <3>1. status \notin Outgoing
      BY <1>2, <2>2 DEF PublishCommit, Unchanged, SendingInv, DecisionsJustified, Justified
    <3>2. Underway = 0
      BY <3>1 DEF Underway, Outgoing
    <3> QED BY <2>2, <3>2, DeliveredCounted DEF Counted
  <2> QED BY <1>2, <2>1, <2>2 DEF PublishCommit
<1>3. ASSUME NEW r \in Requests, SendClaim(r) PROVE Counted'
  <2>1. CASE UNCHANGED <<row, stored, sends>>
    BY <1>1, <2>1 DEF Undecided
  <2>2. CASE Unchanged(r) /\ sends' = sends + 1 /\ status' = "PUBLISHING" /\ notified' = notified
    <3>1. status \notin Outgoing
      BY <1>3, <2>2 DEF SendClaim, Unchanged, SendingInv, DecisionsJustified, Justified
    <3>2. Underway = 0 /\ Underway' = 1
      BY <2>2, <3>1 DEF Underway, Outgoing
    <3> QED BY <2>2, <3>2 DEF Counted
  <2> QED BY <1>3, <2>1, <2>2 DEF SendClaim
<1>4. ASSUME NEW r \in Requests, ArchiveCommit(r) \/ UnpublishCommit(r) PROVE Counted'
  <2>1. sends' = sends
    BY <1>4 DEF ArchiveCommit, UnpublishCommit
  <2>2. CASE status' = "ARCHIVED" /\ notified' = [u \in Users |-> 0]
    BY <2>1, <2>2 DEF Counted, Underway
  <2>3. CASE status' = "UNPUBLISHED" /\ notified' = notified
    BY <2>1, <2>3 DEF Counted, Underway
  <2>4. CASE UNCHANGED row
    BY <2>1, <2>4 DEF Counted, Underway, row
  <2> QED BY <1>4, <2>2, <2>3, <2>4 DEF ArchiveCommit, UnpublishCommit
<1>5. ASSUME NEW r \in Requests,
             \/ PublishRead(r) \/ ArchiveRead(r) \/ UnpublishRead(r)
             \/ \E k \in Keys \cup {NoKey} : SendRead(r, k)
      PROVE  Counted'
  BY <1>1, <1>5 DEF PublishRead, ArchiveRead, UnpublishRead, SendRead, Undecided
<1>6. ASSUME NEW r \in Requests, SendQueue(r) \/ SendInline(r) \/ SendMark(r) \/ SenderDies(r)
      PROVE  Counted'
  <2>1. sends' = sends
    BY <1>6 DEF SendQueue, SendInline, SendMark, SenderDies
  <2>2. Undecided
    BY <1>6, SendingUndecided
  <2> QED BY <1>1, <2>1, <2>2
<1>7. CASE (\E w \in Workers : Work(w) \/ WorkerDies(w)) \/ Stall \/ BackoffElapsed
  <2>1. sends' = sends
    BY <1>7 DEF Work, Fetch, WorkerRead, WorkerCreate, WorkerCatch, Settle, WorkerDies, Stall,
       BackoffElapsed
  <2>2. Undecided
    BY <1>7, WorkUndecided
  <2> QED BY <1>1, <2>1, <2>2
<1>8. CASE UNCHANGED vars
  BY <1>1, <1>8 DEF vars, Undecided
<1> QED BY <1>2, <1>3, <1>4, <1>5, <1>6, <1>7, <1>8 DEF Next, Send, Withdraw

(* No user has more notifications of an announcement than there were       *)
(* decisions to publish or send it, and while one is being sent, fewer:    *)
(* retries, takeovers and the inline fallback add none.                    *)
THEOREM NotifiedPerDecision == Spec => []Counted
<1>1. Init => Counted
  BY DEF Init, Counted, Underway
<1>2. SendingInv /\ Counted /\ [Next]_vars => SendingInv' /\ Counted'
  BY SendingStep, CountedStep
<1> QED BY SendingInitially, <1>1, <1>2, PTL DEF Spec
=============================================================================
