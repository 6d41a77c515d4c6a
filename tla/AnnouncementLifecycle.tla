----------------------- MODULE AnnouncementLifecycle -----------------------
(***************************************************************************)
(* What sending an announcement promises, without requests, queue or       *)
(* workers: between two decisions of an author every user is notified at   *)
(* most once, all of them in one step, never after the sending failed or   *)
(* was withdrawn; a key is carried out once unless the sending failed; and  *)
(* nobody keeps a notification of an archived one.                         *)
(***************************************************************************)
EXTENDS Naturals

CONSTANTS Users, Keys, NoKey

VARIABLES
    phase,        \* status of the announcement
    notified,     \* notified[u]: notifications of it that u has
    receipts,     \* users with a receipt of it
    spent         \* keys of requests that have been carried out

lifecycle == <<phase, notified, receipts, spent>>

Init ==
    /\ phase = "DRAFT" /\ notified = [u \in Users |-> 0]
    /\ receipts = {} /\ spent = {}

Outgoing == {"PUBLISHING", "PUBLISHED"}
Stays    == UNCHANGED <<notified, receipts>>
Notify(S) ==
    /\ phase' = "PUBLISHED" /\ receipts' = receipts \cup S /\ spent' = spent
    /\ notified' = [u \in Users |-> IF u \in S THEN notified[u] + 1 ELSE notified[u]]

Send(k) ==
    /\ phase \notin Outgoing /\ phase' = "PUBLISHING" /\ Stays
    /\ \/ k \in Keys \ spent /\ spent' = spent \cup {k}
       \/ k = NoKey /\ spent' = spent
Deliver(S) == phase = "PUBLISHING" /\ Notify(S)
Publish(S) == phase \notin Outgoing /\ S # {} /\ Notify(S)
Fail ==
    /\ phase = "PUBLISHING" /\ phase' = "FAILED" /\ Stays
    /\ spent' \in SUBSET spent
Unpublish == phase # "DRAFT" /\ phase' = "UNPUBLISHED" /\ Stays /\ spent' = spent
Archive ==
    /\ phase # "PUBLISHING" /\ phase' = "ARCHIVED"
    /\ notified' = [u \in Users |-> 0] /\ UNCHANGED <<receipts, spent>>

Next ==
    \/ \E k \in Keys \cup {NoKey} : Send(k)
    \/ Fail \/ Unpublish \/ Archive
    \/ \E S \in SUBSET Users : Deliver(S) \/ Publish(S)

Spec == Init /\ [][Next]_lifecycle
=============================================================================
