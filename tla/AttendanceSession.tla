-------------------------- MODULE AttendanceSession --------------------------
(***************************************************************************)
(* One attendance session, after                                           *)
(* apps/api/src/modules/attendance/attendance.service.ts: roster(),        *)
(* saveDraft(), submit(), requestCorrection(), reviewCorrection() and the  *)
(* lock that every reader applies, with the archiving of old sessions by   *)
(* apps/api/src/modules/admin/data-maintenance.service.ts.                 *)
(* A request reads, decides and then commits one serializable transaction; *)
(* other requests commit in between.  The statuses are a few codes without *)
(* notes and half days; who may do what is left to chance.                 *)
(***************************************************************************)
EXTENDS Naturals, FiniteSets

CONSTANTS
    Students,      \* the active roster of the section
    Codes,         \* attendance codes
    Requests,      \* panels of the web client, each with one request in flight
    Keys,          \* values of the Idempotency-Key header
    Corrections,   \* rows attendance_correction_requests may get
    MaxVersion     \* bound: no edit of the session starts at a higher version

ASSUME MaxVersionAssumption == MaxVersion \in Nat

VARIABLES
    status, version,   \* columns of the attendance_sessions row
    overdue,           \* submittedAt lies further back than the lock window
    archived,          \* archivedAt is set
    record,            \* attendance_records: status and version by student
    history,           \* newest row of attendance_change_histories by student
    correction,        \* attendance_correction_requests
    keys,              \* idempotency_keys: payload and stored response
    answers,           \* responses that submit() has given
    form,              \* the roster each panel shows
    req                \* what each request has read and wants

session == <<status, version, overdue, archived>>
data == <<record, history, correction, keys>>
vars == <<session, data, answers, form, req>>

NoCode == "none"
NoRecord == [status |-> NoCode, version |-> 0]
NoChange == [from |-> NoCode, to |-> NoCode, by |-> NoCode]
NoForm == [version |-> 0, shown |-> [s \in Students |-> NoCode]]
Unused == [state |-> "UNUSED"]
NoKey == [version |-> 0]
Idle == [op |-> "none"]

Init ==
    /\ status = "DRAFT" /\ version = 1 /\ overdue = FALSE /\ archived = FALSE
    /\ record = [s \in Students |-> NoRecord]
    /\ history = [s \in Students |-> NoChange]
    /\ correction = [c \in Corrections |-> Unused]
    /\ keys = [k \in Keys |-> NoKey]
    /\ answers = {}
    /\ form = [r \in Requests |-> NoForm]
    /\ req = [r \in Requests |-> Idle]

Free(r) == req[r] = Idle
Begin(r, q) == Free(r) /\ req' = [req EXCEPT ![r] = q]
End(r) == req' = [req EXCEPT ![r] = Idle]
Marks == [s \in Students |-> record[s].status]
IsPending(c) == correction[c].state = "PENDING"

-----------------------------------------------------------------------------
(* roster(): the session is read before the records *)

SessionFirst(r) ==
    /\ req[r] = Idle
    /\ req' = [req EXCEPT ![r] = [op |-> "roster", version |-> version]]
    /\ UNCHANGED <<session, data, answers, form>>
RecordsSecond(r) ==
    /\ req[r].op = "roster"
    /\ form' = [form EXCEPT ![r] = [version |-> req[r].version, shown |-> Marks]]
    /\ End(r)
    /\ UNCHANGED <<session, data, answers>>

-----------------------------------------------------------------------------
(* saveDraft() and submit() *)

(* Each mark becomes the status of the student's record; the change is     *)
(* recorded when there is one.                                             *)
WriteMarks(marks) ==
    /\ record' = [s \in Students |->
         IF s \in DOMAIN marks
         THEN [status |-> marks[s], version |-> record[s].version + 1] ELSE record[s]]
    /\ history' = [s \in Students |->
         IF s \in DOMAIN marks /\ record[s].status # marks[s]
         THEN [from |-> record[s].status, to |-> marks[s], by |-> "edit"] ELSE history[s]]

AnyStatus(was, expected)  == version = expected      \* a slip: the status is not compared
AnyVersion(was, expected) == status = was            \* a slip: the version is not compared
(* where: { status, version: expectedVersion } *)
Claimed(was, expected) == status = was /\ version = expected

Sendable(r) == form[r] # NoForm /\ version <= MaxVersion
DraftMarks == UNION {[S -> Codes] : S \in (SUBSET Students) \ {{}}}

DraftRead(r) ==
    /\ Sendable(r) /\ status = "DRAFT"
    /\ \E marks \in DraftMarks :
         Begin(r, [op |-> "draft", expected |-> form[r].version, marks |-> marks])
    /\ UNCHANGED <<session, data, answers, form>>

DraftCommit(r) ==
    /\ req[r].op = "draft"
    /\ IF Claimed("DRAFT", req[r].expected)
       THEN /\ version' = version + 1
            /\ WriteMarks(req[r].marks)
            /\ UNCHANGED <<status, overdue, archived, correction, keys>>
       ELSE UNCHANGED <<session, data>>
    /\ End(r)
    /\ UNCHANGED <<answers, form>>

Payload(r, marks) == [expected |-> form[r].version, marks |-> marks]

(* replay(): a known key is answered with the stored response, or refused  *)
(* when its payload is another one                                         *)
SubmitReplay(r) ==
    /\ Sendable(r) /\ Free(r)
    /\ \E k \in Keys, marks \in [Students -> Codes] :
         IF keys[k] # NoKey
         THEN /\ keys[k].payload = Payload(r, marks)
              /\ answers' = answers \cup {[key |-> k, version |-> keys[k].version]}
              /\ req' = req
         ELSE /\ req' = [req EXCEPT ![r] =
                          [op |-> "submit", key |-> k, payload |-> Payload(r, marks)]]
              /\ UNCHANGED answers
    /\ UNCHANGED <<session, data, form>>

(* a submitted session is edited by holders of attendance.edit_window *)
Editable(s) == s \in {"DRAFT", "SUBMITTED"}

SubmitRead(r) ==
    /\ req[r].op = "submit"
    /\ req' = [req EXCEPT ![r] =
                IF Editable(status)
                THEN [op |-> "submitting", key |-> @.key, payload |-> @.payload,
                      status |-> status]
                ELSE Idle]
    /\ UNCHANGED <<session, data, answers, form>>

KeyFree(k) == keys[k] = NoKey      \* unique (actorId, endpoint, key)
ForgetKey(k, p) == UNCHANGED keys  \* a slip: the key is not stored
SaveKey(k, p) ==
    keys' = [keys EXCEPT ![k] = [payload |-> p, version |-> p.expected + 1]]

SubmitCommit(r) ==
    /\ req[r].op = "submitting"
    /\ LET k == req[r].key  p == req[r].payload IN
       IF Claimed(req[r].status, p.expected) /\ KeyFree(k)
       THEN /\ status' = "SUBMITTED" /\ overdue' = FALSE
            /\ version' = version + 1
            /\ WriteMarks(p.marks)
            /\ SaveKey(k, p)
            /\ answers' = answers \cup {[key |-> k, version |-> p.expected + 1]}
            /\ UNCHANGED <<archived, correction>>
       ELSE UNCHANGED <<session, data, answers>>
    /\ End(r)
    /\ UNCHANGED form

-----------------------------------------------------------------------------
(* lockExpiredSessions(), which every request runs before it reads *)

WindowPasses ==
    /\ status = "SUBMITTED" /\ ~overdue /\ overdue' = TRUE
    /\ UNCHANGED <<status, version, archived, data, answers, form, req>>

LockRead(r) ==
    /\ status = "SUBMITTED" /\ overdue
    /\ Begin(r, [op |-> "lock", version |-> version])
    /\ UNCHANGED <<session, data, answers, form>>

LockCommit(r) ==
    /\ req[r].op = "lock"
    /\ IF Claimed("SUBMITTED", req[r].version)
       THEN status' = "LOCKED" /\ version' = version + 1 /\ UNCHANGED <<overdue, archived>>
       ELSE UNCHANGED session
    /\ End(r)
    /\ UNCHANGED <<data, answers, form>>

(* data maintenance locks an old session without a new version *)
Archive ==
    /\ ~archived /\ archived' = TRUE /\ status' = "LOCKED"
    /\ UNCHANGED <<version, overdue, data, answers, form, req>>

-----------------------------------------------------------------------------
(* Corrections *)

NonePending(s) == \A c \in Corrections : IsPending(c) => correction[c].student # s

Correctable == status # "DRAFT"

RequestRead(r) ==
    /\ Correctable
    /\ \E s \in Students, code \in Codes :
         /\ record[s] # NoRecord /\ record[s].status # code
         /\ NonePending(s)
         /\ Begin(r, [op |-> "request", student |-> s, code |-> code])
    /\ UNCHANGED <<session, data, answers, form>>

(* unique index on the record of a pending request *)
IndexFree(s) == NonePending(s)

RequestCommit(r) ==
    /\ req[r].op = "request"
    /\ IF IndexFree(req[r].student)
       THEN \E c \in Corrections :
              /\ correction[c] = Unused
              /\ correction' = [correction EXCEPT ![c] =
                   [state |-> "PENDING", student |-> req[r].student, code |-> req[r].code]]
       ELSE UNCHANGED correction
    /\ End(r)
    /\ UNCHANGED <<session, record, history, keys, answers, form>>

ReviewRead(r) ==
    /\ \E c \in Corrections, approved \in BOOLEAN :
         /\ IsPending(c)
         /\ Begin(r, [op |-> "review", correction |-> c, approved |-> approved,
                      seen |-> record[correction[c].student]])
    /\ UNCHANGED <<session, data, answers, form>>

Unreviewed(c)      == IsPending(c)
AnyRecord(s, seen) == TRUE         \* a slip: the record is updated by its id only
Unchanged(s, seen) == record[s].version = seen.version

(* an approval changes the record it was decided on, or nothing at all *)
ReviewCommit(r) ==
    /\ req[r].op = "review"
    /\ LET c == req[r].correction  seen == req[r].seen
           s == correction[c].student  code == correction[c].code IN
       IF /\ Unreviewed(c)
          /\ req[r].approved => seen.status # code /\ Unchanged(s, seen)
       THEN /\ correction' = [correction EXCEPT ![c].state =
                                IF req[r].approved THEN "APPROVED" ELSE "REJECTED"]
            /\ IF req[r].approved
               THEN /\ record' = [record EXCEPT ![s] =
                                   [status |-> code, version |-> @.version + 1]]
                    /\ history' = [history EXCEPT ![s] =
                                    [from |-> seen.status, to |-> code, by |-> "correction"]]
               ELSE UNCHANGED <<record, history>>
            /\ UNCHANGED keys
       ELSE UNCHANGED data
    /\ End(r)
    /\ UNCHANGED <<session, answers, form>>

-----------------------------------------------------------------------------
EditStep(r) ==
    DraftRead(r) \/ DraftCommit(r) \/ SubmitReplay(r) \/ SubmitRead(r) \/ SubmitCommit(r)
OtherStep(r) ==
    \/ SessionFirst(r) \/ RecordsSecond(r) \/ LockRead(r) \/ LockCommit(r)
    \/ RequestRead(r) \/ RequestCommit(r) \/ ReviewRead(r) \/ ReviewCommit(r)

Next == WindowPasses \/ Archive \/ \E r \in Requests : EditStep(r) \/ OtherStep(r)

Spec == Init /\ [][Next]_vars

-----------------------------------------------------------------------------
(* Properties *)

CodeOrNone == Codes \cup {NoCode}
RecordType == [status : CodeOrNone, version : Nat]
ChangeType == [from : CodeOrNone, to : CodeOrNone, by : {NoCode, "edit", "correction"}]
CorrectionType ==
    {Unused} \cup [state : {"PENDING", "APPROVED", "REJECTED"}, student : Students, code : Codes]
PayloadType == [expected : Nat, marks : [Students -> Codes]]
KeyType == {NoKey} \cup [payload : PayloadType, version : Nat]
FormType == [version : Nat, shown : [Students -> CodeOrNone]]
RequestType ==
    {Idle} \cup [op : {"roster", "lock"}, version : Nat]
    \cup [op : {"draft"}, expected : Nat, marks : DraftMarks]
    \cup [op : {"submit"}, key : Keys, payload : PayloadType]
    \cup [op : {"submitting"}, key : Keys, payload : PayloadType,
          status : {"DRAFT", "SUBMITTED"}]
    \cup [op : {"request"}, student : Students, code : Codes]
    \cup [op : {"review"}, correction : Corrections, approved : BOOLEAN, seen : RecordType]

SessionOK ==
    /\ status \in {"DRAFT", "SUBMITTED", "LOCKED"} /\ version \in Nat \ {0}
    /\ overdue \in BOOLEAN /\ archived \in BOOLEAN
DataOK ==
    /\ record \in [Students -> RecordType] /\ history \in [Students -> ChangeType]
    /\ correction \in [Corrections -> CorrectionType] /\ keys \in [Keys -> KeyType]
PanelsOK ==
    /\ answers \subseteq [key : Keys, version : Nat]
    /\ form \in [Requests -> FormType] /\ req \in [Requests -> RequestType]
DraftIsOpen ==
    status = "DRAFT" =>
        /\ overdue = FALSE /\ \A c \in Corrections : correction[c] = Unused
        /\ \A r \in Requests : req[r].op # "request"

(* Types; only a session that left the draft has corrections or an expired *)
(* window, although corrections are requested after an earlier look at it. *)
TypeOK == SessionOK /\ DataOK /\ PanelsOK /\ DraftIsOpen

(* The history explains every status: a record changes together with one   *)
(* row, which starts at the status the record really had, also when the    *)
(* change was decided on an earlier read.                                  *)
HistoryExplains ==
    [][\A s \in Students :
         IF record'[s].status = record[s].status THEN history'[s] = history[s]
         ELSE /\ history'[s].from = record[s].status
              /\ history'[s].to = record'[s].status]_vars

(* A locked session stays locked, and its records change by the approval   *)
(* of a pending correction only, whatever saves and submissions were under *)
(* way when the lock or the archive came.                                  *)
LockHolds ==
    [][status = "LOCKED" =>
         /\ status' = "LOCKED"
         /\ \A s \in Students : record'[s] # record[s] =>
              \E c \in Corrections :
                /\ IsPending(c) /\ correction'[c].state = "APPROVED"
                /\ correction[c].student = s
                /\ correction[c].code = record'[s].status]_vars

(* r's save or submission goes through *)
Edits(r) ==
    /\ req[r].op \in {"draft", "submitting"} /\ req'[r] = Idle
    /\ record' # record

(* A save or submission only goes over statuses its panel showed, unless a *)
(* correction was approved since: nobody's marks are lost unseen.          *)
EditsAreFresh ==
    [][\A r \in Requests : Edits(r) =>
         \A s \in Students :
           form[r].shown[s] = record[s].status \/ history[s].by = "correction"]_vars

(* At most one correction of a record is pending, although requests look   *)
(* for one before they insert theirs.                                      *)
OnePendingPerRecord ==
    \A b, c \in Corrections :
        IsPending(b) /\ IsPending(c) /\ b # c => correction[b].student # correction[c].student

(* A submission under one key takes effect once: every answer to the key   *)
(* is the same.                                                            *)
SameAnswer == \A a, b \in answers : a.key = b.key => a.version = b.version

(* A review is final, and an approval puts the requested status in place   *)
(* of another one in the same step.                                        *)
ReviewedOnce ==
    [][\A c \in Corrections : correction'[c] # correction[c] =>
         /\ correction[c] = Unused \/ IsPending(c)
         /\ correction'[c].state = "APPROVED" =>
              LET s == correction[c].student IN
              /\ record[s].status # correction[c].code
              /\ record'[s].status = correction[c].code]_vars

=============================================================================
