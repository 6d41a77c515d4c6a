----------------------- MODULE AttendanceSessionProofs -----------------------
(***************************************************************************)
(* Proofs about AttendanceSession, for any roster, codes, requests, keys   *)
(* and corrections.                                                        *)
(***************************************************************************)
EXTENDS AttendanceSession, TLAPS

(* A review in flight saw a version of the record that is not newer than   *)
(* the stored one; an equal version means that nothing changed since.      *)
SeenIsPast ==
    \A r \in Requests : req[r].op = "review" =>
        LET c == req[r].correction  seen == req[r].seen IN
        /\ correction[c] # Unused
        /\ seen.version <= record[correction[c].student].version
        /\ seen.version = record[correction[c].student].version
             => seen = record[correction[c].student]

(* An edit in flight expects the version its panel shows. *)
ExpectsForm ==
    \A r \in Requests :
        /\ req[r].op = "draft" => req[r].expected = form[r].version
        /\ req[r].op \in {"submit", "submitting"}
             => req[r].payload.expected = form[r].version

(* A panel that shows the current version shows the stored statuses, those *)
(* excepted that a correction changed last.                                *)
FormsFresh ==
    \A r \in Requests :
        /\ form[r].version <= version
        /\ req[r].op = "roster" => req[r].version <= version
        /\ form[r].version = version =>
             \A s \in Students :
               form[r].shown[s] = record[s].status \/ history[s].by = "correction"

(* Answers repeat what the key stores. *)
AnswersStored ==
    \A a \in answers : keys[a.key] # NoKey /\ keys[a.key].version = a.version

IInv ==
    /\ TypeOK
    /\ SeenIsPast
    /\ ExpectsForm
    /\ FormsFresh
    /\ AnswersStored
    /\ OnePendingPerRecord

-----------------------------------------------------------------------------
(* What the type says of a request in flight *)
LEMMA RequestShapes ==
  ASSUME NEW q \in RequestType
  PROVE  /\ q.op \in {"roster", "lock"} => q.version \in Nat
         /\ q.op = "draft" => q.expected \in Nat /\ q.marks \in DraftMarks
         /\ q.op \in {"submit", "submitting"} => q.key \in Keys /\ q.payload \in PayloadType
         /\ q.op = "submitting" => q.status \in {"DRAFT", "SUBMITTED"}
         /\ q.op = "request" => q.student \in Students /\ q.code \in Codes
         /\ q.op = "review" => /\ q.correction \in Corrections /\ q.approved \in BOOLEAN
                              /\ q.seen \in RecordType
BY DEF RequestType, Idle

(* Marks of students of the roster leave well-typed records. *)
LEMMA MarksTyped ==
  ASSUME NEW marks, DOMAIN marks \subseteq Students,
         \A s \in DOMAIN marks : marks[s] \in Codes,
         DataOK, WriteMarks(marks)
  PROVE  record' \in [Students -> RecordType] /\ history' \in [Students -> ChangeType]
<1>1. ASSUME NEW s \in Students
      PROVE  record[s] \in RecordType /\ history[s] \in ChangeType
  BY DEF DataOK
<1>2. ASSUME NEW s \in DOMAIN marks
      PROVE  /\ [status |-> marks[s], version |-> record[s].version + 1] \in RecordType
             /\ [from |-> record[s].status, to |-> marks[s], by |-> "edit"] \in ChangeType
  BY <1>1 DEF RecordType, ChangeType, CodeOrNone
<1>3. QED
  BY <1>1, <1>2 DEF WriteMarks

LEMMA DraftMarksShape ==
  ASSUME NEW marks \in DraftMarks
  PROVE  DOMAIN marks \subseteq Students /\ \A s \in DOMAIN marks : marks[s] \in Codes
BY DEF DraftMarks

Parts == SessionOK /\ DataOK /\ PanelsOK

(* An action that ends or begins something keeps the draft uncorrected.    *)
LEMMA OpenKept ==
  ASSUME NEW r \in Requests, NEW q, PanelsOK, DraftIsOpen,
         req' = [req EXCEPT ![r] = q],
         status' = "DRAFT" => /\ status = "DRAFT" /\ overdue' = overdue
                              /\ correction' = correction /\ q.op # "request"
  PROVE  DraftIsOpen'
BY DEF PanelsOK, DraftIsOpen

-----------------------------------------------------------------------------
LEMMA TypedInit == Init => TypeOK
<1> SUFFICES ASSUME Init PROVE TypeOK
  OBVIOUS
<1>1. SessionOK
  <2>1. overdue \in BOOLEAN /\ archived \in BOOLEAN
    BY Zenon DEF Init
  <2>2. QED
    BY <2>1 DEF Init, SessionOK
<1>5. \A r \in Requests : req[r] = Idle
  BY DEF Init
<1>6. DraftIsOpen
  BY <1>5 DEF Init, DraftIsOpen, Idle
<1>2. /\ NoRecord \in RecordType /\ NoChange \in ChangeType /\ Unused \in CorrectionType
      /\ NoKey \in KeyType /\ NoForm \in FormType /\ Idle \in RequestType
  BY DEF NoRecord, RecordType, NoChange, ChangeType, CorrectionType, KeyType, NoForm,
         FormType, RequestType, CodeOrNone
<1>3. DataOK /\ PanelsOK
  BY <1>2 DEF Init, DataOK, PanelsOK
<1>4. QED
  BY <1>1, <1>3, <1>6 DEF TypeOK

(* One step per action, with the value that each of them writes. *)
LEMMA PartsStep == TypeOK /\ [Next]_vars => Parts'
<1> SUFFICES ASSUME TypeOK, [Next]_vars PROVE Parts'
  OBVIOUS
<1> USE DEF session, data, Parts
<1>i. Idle \in RequestType
  BY DEF RequestType
<1>s. ASSUME NEW r \in Requests PROVE req[r] \in RequestType /\ form[r] \in FormType
  BY DEF TypeOK, PanelsOK
<1>1. CASE UNCHANGED vars
  BY <1>1 DEF vars, TypeOK, SessionOK, DataOK, PanelsOK
<1>2. CASE WindowPasses
  BY <1>2 DEF WindowPasses, TypeOK, SessionOK, DataOK, PanelsOK
<1>3. CASE Archive
  BY <1>3 DEF Archive, TypeOK, SessionOK, DataOK, PanelsOK
<1>4. ASSUME NEW r \in Requests, SessionFirst(r) PROVE Parts'
  <2>1. [op |-> "roster", version |-> version] \in RequestType
    BY DEF TypeOK, SessionOK, RequestType
  <2>2. QED
    BY <1>4, <2>1 DEF SessionFirst, TypeOK, SessionOK, DataOK, PanelsOK
<1>5. ASSUME NEW r \in Requests, RecordsSecond(r) PROVE Parts'
  <2>1. [version |-> req[r].version, shown |-> Marks] \in FormType
    <3>1. req[r].version \in Nat
      BY <1>5, <1>s, RequestShapes DEF RecordsSecond
    <3>2. Marks \in [Students -> CodeOrNone]
      BY DEF Marks, TypeOK, DataOK, RecordType
    <3>3. QED
      BY <3>1, <3>2 DEF FormType
  <2>2. PanelsOK'
    BY <1>5, <1>i, <2>1 DEF RecordsSecond, End, TypeOK, PanelsOK
  <2>3. QED
    BY <1>5, <2>2 DEF RecordsSecond, TypeOK, SessionOK, DataOK
<1>6. ASSUME NEW r \in Requests, LockRead(r) PROVE Parts'
  <2>1. [op |-> "lock", version |-> version] \in RequestType
    BY DEF TypeOK, SessionOK, RequestType
  <2>2. QED
    BY <1>6, <2>1 DEF LockRead, Begin, TypeOK, SessionOK, DataOK, PanelsOK
<1>7. ASSUME NEW r \in Requests, LockCommit(r) PROVE Parts'
  BY <1>7, <1>i DEF LockCommit, End, TypeOK, SessionOK, DataOK, PanelsOK
<1>8. ASSUME NEW r \in Requests, DraftRead(r) PROVE Parts'
  <2>1. PICK marks \in DraftMarks :
          Begin(r, [op |-> "draft", expected |-> form[r].version, marks |-> marks])
    BY <1>8 DEF DraftRead
  <2>2. [op |-> "draft", expected |-> form[r].version, marks |-> marks] \in RequestType
    BY <1>s DEF RequestType, FormType
  <2>3. PanelsOK'
    BY <1>8, <2>1, <2>2 DEF DraftRead, Begin, TypeOK, PanelsOK
  <2>4. QED
    BY <1>8, <2>3 DEF DraftRead, TypeOK, SessionOK, DataOK
<1>9. ASSUME NEW r \in Requests, DraftCommit(r) PROVE Parts'
  <2>1. PanelsOK'
    BY <1>9, <1>i DEF DraftCommit, End, TypeOK, PanelsOK
  <2>2. DataOK'
    BY <1>9, <1>s, RequestShapes, DraftMarksShape, MarksTyped DEF DraftCommit, TypeOK, DataOK
  <2>3. SessionOK'
    BY <1>9 DEF DraftCommit, TypeOK, SessionOK
  <2>4. QED
    BY <2>1, <2>2, <2>3 DEF Parts
<1>10. ASSUME NEW r \in Requests, SubmitReplay(r) PROVE Parts'
  <2>1. PICK k \in Keys, marks \in [Students -> Codes] :
         IF keys[k] # NoKey
         THEN /\ answers' = answers \cup {[key |-> k, version |-> keys[k].version]}
              /\ req' = req
         ELSE /\ req' = [req EXCEPT ![r] =
                          [op |-> "submit", key |-> k, payload |-> Payload(r, marks)]]
              /\ UNCHANGED answers
    BY <1>10 DEF SubmitReplay
  <2>2. [op |-> "submit", key |-> k, payload |-> Payload(r, marks)] \in RequestType
    BY <1>s DEF RequestType, Payload, PayloadType, FormType
  <2>3. [key |-> k, version |-> keys[k].version] \in [key : Keys, version : Nat]
    <3>1. keys[k] \in KeyType
      BY DEF TypeOK, DataOK
    <3>2. QED
      BY <3>1 DEF KeyType, NoKey
  <2>4. PanelsOK'
    BY <1>10, <2>1, <2>2, <2>3 DEF SubmitReplay, TypeOK, PanelsOK
  <2>5. QED
    BY <1>10, <2>4 DEF SubmitReplay, TypeOK, SessionOK, DataOK
<1>11. ASSUME NEW r \in Requests, SubmitRead(r) PROVE Parts'
  <2>1. Editable(status) =>
          [op |-> "submitting", key |-> req[r].key, payload |-> req[r].payload,
           status |-> status] \in RequestType
    BY <1>11, <1>s, RequestShapes DEF SubmitRead, Editable, RequestType
  <2>2. PanelsOK'
    BY <1>11, <1>i, <2>1 DEF SubmitRead, TypeOK, PanelsOK
  <2>3. QED
    BY <1>11, <2>2 DEF SubmitRead, TypeOK, SessionOK, DataOK
<1>12. ASSUME NEW r \in Requests, SubmitCommit(r) PROVE Parts'
  <2> DEFINE k == req[r].key
             p == req[r].payload
  <2>1. k \in Keys /\ p \in PayloadType
    BY <1>12, <1>s, RequestShapes DEF SubmitCommit
  <2>2. CASE Claimed(req[r].status, p.expected) /\ KeyFree(k)
    <3>1. DataOK'
      <4>1. [payload |-> p, version |-> p.expected + 1] \in KeyType
        BY <2>1 DEF KeyType, PayloadType
      <4>2. keys' \in [Keys -> KeyType]
        BY <1>12, <2>2, <4>1 DEF SubmitCommit, SaveKey, TypeOK, DataOK
      <4>3. record' \in [Students -> RecordType] /\ history' \in [Students -> ChangeType]
        BY <1>12, <2>1, <2>2, MarksTyped DEF SubmitCommit, PayloadType, TypeOK
      <4>4. QED
        BY <1>12, <2>2, <4>2, <4>3 DEF SubmitCommit, TypeOK, DataOK
    <3>2. PanelsOK'
      <4>1. [key |-> k, version |-> p.expected + 1] \in [key : Keys, version : Nat]
        BY <2>1 DEF PayloadType
      <4>2. QED
        BY <1>12, <1>i, <2>2, <4>1 DEF SubmitCommit, End, TypeOK, PanelsOK
    <3>3. /\ status' = "SUBMITTED" /\ overdue' = FALSE
          /\ version' = version + 1 /\ archived' = archived
      BY <1>12, <2>2 DEF SubmitCommit
    <3>4. overdue' \in BOOLEAN /\ archived' \in BOOLEAN
      BY <3>3, Zenon DEF TypeOK, SessionOK
    <3>5. QED
      BY <3>1, <3>2, <3>3, <3>4 DEF TypeOK, SessionOK
  <2>3. CASE ~(Claimed(req[r].status, p.expected) /\ KeyFree(k))
    BY <1>12, <1>i, <2>3 DEF SubmitCommit, End, TypeOK, SessionOK, DataOK, PanelsOK
  <2>4. QED
    BY <2>2, <2>3
<1>13. ASSUME NEW r \in Requests, RequestRead(r) PROVE Parts'
  <2>1. PICK s \in Students, code \in Codes :
          Begin(r, [op |-> "request", student |-> s, code |-> code])
    BY <1>13 DEF RequestRead
  <2>2. [op |-> "request", student |-> s, code |-> code] \in RequestType
    BY DEF RequestType
  <2>3. PanelsOK'
    BY <1>13, <2>1, <2>2 DEF RequestRead, Begin, TypeOK, PanelsOK
  <2>4. QED
    BY <1>13, <2>3 DEF RequestRead, TypeOK, SessionOK, DataOK
<1>14. ASSUME NEW r \in Requests, RequestCommit(r) PROVE Parts'
  <2>1. req[r].student \in Students /\ req[r].code \in Codes
    BY <1>14, <1>s, RequestShapes DEF RequestCommit, TypeOK
  <2>2. [state |-> "PENDING", student |-> req[r].student, code |-> req[r].code]
          \in CorrectionType
    BY <2>1 DEF CorrectionType
  <2>3. DataOK'
    BY <1>14, <2>2 DEF RequestCommit, TypeOK, DataOK
  <2>4. PanelsOK'
    BY <1>14, <1>i DEF RequestCommit, End, TypeOK, PanelsOK
  <2>5. QED
    BY <1>14, <2>1, <2>3, <2>4 DEF RequestCommit, TypeOK, SessionOK
<1>15. ASSUME NEW r \in Requests, ReviewRead(r) PROVE Parts'
  <2>1. PICK c \in Corrections, approved \in BOOLEAN :
          /\ IsPending(c)
          /\ Begin(r, [op |-> "review", correction |-> c, approved |-> approved,
                       seen |-> record[correction[c].student]])
    BY <1>15 DEF ReviewRead
  <2>2. record[correction[c].student] \in RecordType
    BY <2>1 DEF IsPending, Unused, TypeOK, DataOK, CorrectionType
  <2>3. [op |-> "review", correction |-> c, approved |-> approved,
         seen |-> record[correction[c].student]] \in RequestType
    BY <2>2 DEF RequestType
  <2>4. PanelsOK'
    BY <1>15, <2>1, <2>3 DEF ReviewRead, Begin, TypeOK, PanelsOK
  <2>5. QED
    BY <1>15, <2>1, <2>4 DEF ReviewRead, Begin, TypeOK, SessionOK, DataOK, PanelsOK
<1>16. ASSUME NEW r \in Requests, ReviewCommit(r) PROVE Parts'
  <2> DEFINE c == req[r].correction
             s == correction[c].student
             code == correction[c].code
  <2>1. c \in Corrections /\ req[r].seen \in RecordType
    BY <1>16, <1>s, RequestShapes DEF ReviewCommit
  <2>2. PanelsOK'
    BY <1>16, <1>i DEF ReviewCommit, End, TypeOK, PanelsOK
  <2>3. CASE UNCHANGED data
    BY <1>16, <2>2, <2>3 DEF ReviewCommit, End, TypeOK, SessionOK, DataOK, PanelsOK
  <2>4. CASE /\ Unreviewed(c)
             /\ req[r].approved => req[r].seen.status # code /\ Unchanged(s, req[r].seen)
    <3>1. /\ s \in Students /\ code \in Codes
          /\ correction[c] \in CorrectionType
      BY <2>1, <2>4 DEF Unreviewed, IsPending, Unused, TypeOK, DataOK, CorrectionType
    <3>2. \A state \in {"APPROVED", "REJECTED"} :
            [correction[c] EXCEPT !.state = state] \in CorrectionType
      BY <2>1, <2>4, <3>1 DEF Unreviewed, IsPending, Unused, CorrectionType
    <3>3. correction' \in [Corrections -> CorrectionType]
      BY <1>16, <2>4, <3>2 DEF ReviewCommit, TypeOK, DataOK
    <3>4. /\ [status |-> code, version |-> record[s].version + 1] \in RecordType
          /\ [from |-> req[r].seen.status, to |-> code, by |-> "correction"] \in ChangeType
      BY <2>1, <3>1 DEF TypeOK, DataOK, RecordType, ChangeType, CodeOrNone
    <3>5. record' \in [Students -> RecordType] /\ history' \in [Students -> ChangeType]
      BY <1>16, <2>4, <3>4 DEF ReviewCommit, TypeOK, DataOK
    <3>6. QED
      BY <1>16, <2>2, <2>4, <3>1, <3>3, <3>5 DEF ReviewCommit, TypeOK, SessionOK, DataOK
  <2>5. QED
    BY <1>16, <2>3, <2>4 DEF ReviewCommit
<1>17. QED
  BY <1>1, <1>2, <1>3, <1>4, <1>5, <1>6, <1>7, <1>8, <1>9, <1>10, <1>11, <1>12,
     <1>13, <1>14, <1>15, <1>16 DEF Next, EditStep, OtherStep

(* A session in the draft stays without corrections. *)
LEMMA OpenStep == TypeOK /\ [Next]_vars => DraftIsOpen'
<1> SUFFICES ASSUME TypeOK, [Next]_vars, status' = "DRAFT" PROVE DraftIsOpen'
  BY DEF DraftIsOpen
<1> USE DEF session, data, TypeOK, Idle
<1>1. CASE UNCHANGED vars
  BY <1>1 DEF vars, DraftIsOpen
<1>2. CASE WindowPasses
  BY <1>2 DEF WindowPasses
<1>3. CASE Archive
  BY <1>3 DEF Archive
<1>4. ASSUME NEW r \in Requests,
             \/ SessionFirst(r) \/ RecordsSecond(r) \/ LockRead(r) \/ LockCommit(r)
             \/ DraftRead(r) \/ DraftCommit(r) \/ SubmitRead(r)
      PROVE  DraftIsOpen'
  <2>1. \E q : /\ req' = [req EXCEPT ![r] = q] /\ q.op # "request"
               /\ status = "DRAFT" /\ overdue' = overdue /\ correction' = correction
    BY <1>4 DEF SessionFirst, RecordsSecond, LockRead, LockCommit, DraftRead, DraftCommit,
                SubmitRead, Begin, End
  <2>2. QED
    BY <2>1, OpenKept
<1>5. ASSUME NEW r \in Requests, SubmitReplay(r) PROVE DraftIsOpen'
  BY <1>5, OpenKept DEF SubmitReplay, DraftIsOpen
<1>6. ASSUME NEW r \in Requests, SubmitCommit(r) PROVE DraftIsOpen'
  BY <1>6, OpenKept DEF SubmitCommit, End
<1>7. ASSUME NEW r \in Requests, RequestRead(r) PROVE DraftIsOpen'
  BY <1>7 DEF RequestRead, Correctable
<1>8. ASSUME NEW r \in Requests, RequestCommit(r) PROVE DraftIsOpen'
  BY <1>8 DEF RequestCommit, DraftIsOpen
<1>9. ASSUME NEW r \in Requests, ReviewRead(r) PROVE DraftIsOpen'
  BY <1>9, OpenKept DEF ReviewRead, Begin
<1>10. ASSUME NEW r \in Requests, ReviewCommit(r) PROVE DraftIsOpen'
  <2>1. req[r].correction \in Corrections
    BY <1>10, RequestShapes DEF ReviewCommit, PanelsOK
  <2>2. correction' = correction
    BY <1>10, <2>1 DEF ReviewCommit, DraftIsOpen, Unreviewed, IsPending, Unused
  <2>3. QED
    BY <1>10, <2>2, OpenKept DEF ReviewCommit, End
<1>11. QED
  BY <1>1, <1>2, <1>3, <1>4, <1>5, <1>6, <1>7, <1>8, <1>9, <1>10 DEF Next, EditStep, OtherStep

LEMMA TypedStep == TypeOK /\ [Next]_vars => TypeOK'
BY PartsStep, OpenStep DEF Parts, TypeOK

(* The rows keep their types, and a draft session has no corrections.      *)
THEOREM AttendanceTyped == Spec => []TypeOK
BY TypedInit, TypedStep, PTL DEF Spec

-----------------------------------------------------------------------------
(* A request changes by its own steps only. *)
LEMMA OwnSteps ==
  ASSUME TypeOK, [Next]_vars, NEW r \in Requests, req'[r] # req[r]
  PROVE  EditStep(r) \/ OtherStep(r)
<1> USE DEF session, data
<1>1. ASSUME NEW p \in Requests, NEW q, req' = [req EXCEPT ![p] = q] PROVE p = r
  BY <1>1 DEF TypeOK, PanelsOK
<1>2. ASSUME NEW p \in Requests, EditStep(p) PROVE p = r
  <2>1. \E q : req' = [req EXCEPT ![p] = q]
    <3>1. CASE DraftRead(p)
      BY <3>1 DEF DraftRead, Begin
    <3>2. CASE DraftCommit(p) \/ SubmitCommit(p)
      BY <3>2 DEF DraftCommit, SubmitCommit, End
    <3>3. CASE SubmitReplay(p)
      BY <3>3 DEF SubmitReplay
    <3>4. CASE SubmitRead(p)
      BY <3>4 DEF SubmitRead
    <3>5. QED
      BY <1>2, <3>1, <3>2, <3>3, <3>4 DEF EditStep
  <2>2. QED
    BY <1>1, <2>1
<1>3. ASSUME NEW p \in Requests, OtherStep(p) PROVE p = r
  <2>1. \E q : req' = [req EXCEPT ![p] = q]
    <3>1. CASE SessionFirst(p) \/ RecordsSecond(p) \/ LockRead(p) \/ LockCommit(p)
      BY <3>1 DEF SessionFirst, RecordsSecond, LockRead, LockCommit, Begin, End
    <3>2. CASE RequestRead(p)
      BY <3>2 DEF RequestRead, Begin
    <3>3. CASE ReviewRead(p)
      BY <3>3 DEF ReviewRead, Begin
    <3>4. CASE RequestCommit(p) \/ ReviewCommit(p)
      BY <3>4 DEF RequestCommit, ReviewCommit, End
    <3>5. QED
      BY <1>3, <3>1, <3>2, <3>3, <3>4 DEF OtherStep
  <2>2. QED
    BY <1>1, <2>1
<1>4. QED
  BY <1>2, <1>3 DEF Next, vars, WindowPasses, Archive

(* The step that puts a request into each of its stages *)
LEMMA Stages ==
  ASSUME TypeOK, [Next]_vars, NEW r \in Requests, req'[r] # req[r]
  PROVE  \/ req'[r] = Idle
         \/ SessionFirst(r) /\ req'[r] = [op |-> "roster", version |-> version]
         \/ LockRead(r) /\ req'[r].op = "lock"
         \/ DraftRead(r) /\ req'[r].op = "draft" /\ req'[r].expected = form[r].version
         \/ /\ SubmitReplay(r) /\ req'[r].op = "submit"
            /\ req'[r].payload.expected = form[r].version
         \/ /\ SubmitRead(r) /\ req[r].op = "submit" /\ req'[r].op = "submitting"
            /\ req'[r].payload = req[r].payload /\ Editable(req'[r].status)
         \/ RequestRead(r) /\ req'[r].op = "request"
         \/ ReviewRead(r) /\ req'[r].op = "review"
<1> USE DEF session, data, TypeOK, PanelsOK
<1>1. EditStep(r) \/ OtherStep(r)
  BY OwnSteps
<1>2. CASE DraftCommit(r) \/ SubmitCommit(r) \/ RecordsSecond(r) \/ LockCommit(r)
           \/ RequestCommit(r) \/ ReviewCommit(r)
  BY <1>2 DEF DraftCommit, SubmitCommit, RecordsSecond, LockCommit, RequestCommit,
              ReviewCommit, End
<1>3. CASE SessionFirst(r) \/ LockRead(r)
  BY <1>3 DEF SessionFirst, LockRead, Begin
<1>4. CASE DraftRead(r)
  <2>1. PICK marks \in DraftMarks :
          req' = [req EXCEPT ![r] =
                   [op |-> "draft", expected |-> form[r].version, marks |-> marks]]
    BY <1>4 DEF DraftRead, Begin
  <2>2. req'[r] = [op |-> "draft", expected |-> form[r].version, marks |-> marks]
    BY <2>1
  <2>3. QED
    BY <1>4, <2>2
<1>5. CASE SubmitReplay(r)
  BY <1>5 DEF SubmitReplay, Payload
<1>6. CASE SubmitRead(r)
  BY <1>6 DEF SubmitRead
<1>7. CASE RequestRead(r)
  <2>1. PICK s \in Students, code \in Codes :
          req' = [req EXCEPT ![r] = [op |-> "request", student |-> s, code |-> code]]
    BY <1>7 DEF RequestRead, Begin
  <2>2. req'[r] = [op |-> "request", student |-> s, code |-> code]
    BY <2>1
  <2>3. QED
    BY <1>7, <2>2
<1>8. CASE ReviewRead(r)
  <2>1. PICK c \in Corrections, approved \in BOOLEAN :
          req' = [req EXCEPT ![r] = [op |-> "review", correction |-> c,
                   approved |-> approved, seen |-> record[correction[c].student]]]
    BY <1>8 DEF ReviewRead, Begin
  <2>2. req'[r] = [op |-> "review", correction |-> c,
                   approved |-> approved, seen |-> record[correction[c].student]]
    BY <2>1
  <2>3. QED
    BY <1>8, <2>2
<1>9. QED
  BY <1>1, <1>2, <1>3, <1>4, <1>5, <1>6, <1>7, <1>8 DEF EditStep, OtherStep

-----------------------------------------------------------------------------
(* What no step undoes *)

(* A record that changes gets its next version. *)
LEMMA RecordsGrow ==
  TypeOK /\ [Next]_vars =>
    \A s \in Students : record'[s] = record[s] \/ record'[s].version = record[s].version + 1
<1> SUFFICES ASSUME TypeOK, [Next]_vars, NEW s \in Students
             PROVE  record'[s] = record[s] \/ record'[s].version = record[s].version + 1
  OBVIOUS
<1> USE DEF session, data
<1>1. ASSUME NEW marks, WriteMarks(marks)
      PROVE  record'[s] = record[s] \/ record'[s].version = record[s].version + 1
  BY <1>1 DEF WriteMarks
<1>2. ASSUME NEW r \in Requests, DraftCommit(r) \/ SubmitCommit(r)
      PROVE  record'[s] = record[s] \/ record'[s].version = record[s].version + 1
  BY <1>1, <1>2 DEF DraftCommit, SubmitCommit
<1>3. ASSUME NEW r \in Requests, ReviewCommit(r)
      PROVE  record'[s] = record[s] \/ record'[s].version = record[s].version + 1
  BY <1>3 DEF ReviewCommit, TypeOK, DataOK
<1>4. QED
  BY <1>2, <1>3 DEF Next, EditStep, OtherStep, vars, WindowPasses, Archive, SessionFirst,
     RecordsSecond, LockRead, LockCommit, DraftRead, SubmitReplay, SubmitRead, RequestRead,
     RequestCommit, ReviewRead

(* A correction keeps its record and its code. *)
LEMMA CorrectionsStay ==
  TypeOK /\ [Next]_vars =>
    \A c \in Corrections : correction[c] # Unused =>
      /\ correction'[c] # Unused
      /\ correction'[c].student = correction[c].student
<1> SUFFICES ASSUME TypeOK, [Next]_vars, NEW c \in Corrections, correction[c] # Unused
             PROVE  /\ correction'[c] # Unused
                    /\ correction'[c].student = correction[c].student
  OBVIOUS
<1> USE DEF session, data
<1>1. ASSUME NEW r \in Requests, RequestCommit(r) PROVE correction'[c] = correction[c]
  BY <1>1 DEF RequestCommit, TypeOK, DataOK
<1>2. ASSUME NEW r \in Requests, ReviewCommit(r)
      PROVE  \/ correction'[c] = correction[c]
             \/ \E state \in {"APPROVED", "REJECTED"} :
                  correction'[c] = [correction[c] EXCEPT !.state = state]
  BY <1>2 DEF ReviewCommit, TypeOK, DataOK
<1>3. correction[c] \in CorrectionType
  BY DEF TypeOK, DataOK
<1>4. ASSUME NEW state \in {"APPROVED", "REJECTED"},
             correction'[c] = [correction[c] EXCEPT !.state = state]
      PROVE  /\ correction'[c] # Unused
             /\ correction'[c].student = correction[c].student
  BY <1>3, <1>4 DEF CorrectionType, Unused
<1>5. (\E r \in Requests : RequestCommit(r) \/ ReviewCommit(r)) \/ correction' = correction
  BY DEF Next, EditStep, OtherStep, vars, WindowPasses, Archive, SessionFirst,
     RecordsSecond, LockRead, LockCommit, DraftRead, DraftCommit, SubmitReplay, SubmitRead,
     SubmitCommit, RequestRead, ReviewRead
<1>6. QED
  BY <1>1, <1>2, <1>4, <1>5

-----------------------------------------------------------------------------
LEMMA SeenStep == TypeOK /\ SeenIsPast /\ [Next]_vars => SeenIsPast'
<1> SUFFICES ASSUME TypeOK, SeenIsPast, [Next]_vars,
                    NEW r \in Requests, req'[r].op = "review"
             PROVE  LET c == req'[r].correction  seen == req'[r].seen
                        s == correction'[c].student IN
                    /\ correction'[c] # Unused
                    /\ seen.version <= record'[s].version
                    /\ seen.version = record'[s].version => seen = record'[s]
  BY DEF SeenIsPast
<1> DEFINE c == req'[r].correction
           seen == req'[r].seen
           s == correction[c].student
<1> USE DEF session, data
<1>1. CASE ReviewRead(r)
  <2>1. PICK d \in Corrections, approved \in BOOLEAN :
          /\ IsPending(d)
          /\ req' = [req EXCEPT ![r] = [op |-> "review", correction |-> d,
                       approved |-> approved, seen |-> record[correction[d].student]]]
    BY <1>1 DEF ReviewRead, Begin
  <2>2. c = d /\ seen = record[correction[d].student]
    BY <2>1 DEF TypeOK, PanelsOK
  <2>3. correction[d] # Unused /\ correction[d].student \in Students
    BY <2>1 DEF IsPending, Unused, TypeOK, DataOK, CorrectionType
  <2>4. record[correction[d].student].version \in Nat
    BY <2>3 DEF TypeOK, DataOK, RecordType
  <2>5. QED
    BY <1>1, <2>2, <2>3, <2>4 DEF ReviewRead
<1>2. CASE req'[r] = req[r]
  <2>1. c \in Corrections /\ seen \in RecordType
    BY <1>2, RequestShapes DEF TypeOK, PanelsOK
  <2>2. /\ correction[c] # Unused /\ seen.version <= record[s].version
        /\ seen.version = record[s].version => seen = record[s]
    BY <1>2 DEF SeenIsPast
  <2>3. s \in Students
    BY <2>1, <2>2 DEF TypeOK, DataOK, CorrectionType
  <2>4. correction'[c] # Unused /\ correction'[c].student = s
    BY <2>1, <2>2, CorrectionsStay
  <2>5. record'[s] = record[s] \/ record'[s].version = record[s].version + 1
    BY <2>3, RecordsGrow
  <2>6. seen.version \in Nat /\ record[s].version \in Nat
    BY <2>1, <2>3 DEF TypeOK, DataOK, RecordType
  <2>7. CASE record'[s] = record[s]
    BY <1>2, <2>2, <2>4, <2>7
  <2>8. CASE record'[s].version = record[s].version + 1
    BY <1>2, <2>2, <2>4, <2>6, <2>8
  <2>9. QED
    BY <2>5, <2>7, <2>8
<1>3. ReviewRead(r) \/ req'[r] = req[r]
  BY Stages DEF Idle
<1>4. QED
  BY <1>1, <1>2, <1>3

LEMMA ExpectsStep == TypeOK /\ ExpectsForm /\ [Next]_vars => ExpectsForm'
<1> SUFFICES ASSUME TypeOK, ExpectsForm, [Next]_vars, NEW r \in Requests
             PROVE  /\ req'[r].op = "draft" => req'[r].expected = form'[r].version
                    /\ req'[r].op \in {"submit", "submitting"}
                         => req'[r].payload.expected = form'[r].version
  BY DEF ExpectsForm
<1>1. CASE req'[r] = req[r] /\ form'[r] = form[r]
  BY <1>1 DEF ExpectsForm
<1>2. CASE req'[r] = req[r] /\ form'[r] # form[r]
  <2>1. PICK p \in Requests : RecordsSecond(p)
    BY <1>2 DEF Next, EditStep, OtherStep, vars, WindowPasses, Archive, SessionFirst,
       LockRead, LockCommit, DraftRead, DraftCommit, SubmitReplay, SubmitRead, SubmitCommit,
       RequestRead, RequestCommit, ReviewRead, ReviewCommit
  <2>2. p = r
    BY <1>2, <2>1 DEF RecordsSecond, TypeOK, PanelsOK
  <2>3. QED
    BY <1>2, <2>1, <2>2 DEF RecordsSecond
<1>3. CASE req'[r] # req[r]
  <2>1. form' = form \/ req'[r] = Idle
    BY <1>3, Stages DEF SessionFirst, LockRead, DraftRead, SubmitReplay, SubmitRead,
                        RequestRead, ReviewRead
  <2>2. req'[r].op \in {"draft", "submit", "submitting"} => form' = form
    BY <2>1 DEF Idle
  <2>3. QED
    BY <1>3, <2>2, Stages DEF ExpectsForm, Idle
<1>4. QED
  BY <1>1, <1>2, <1>3

-----------------------------------------------------------------------------
(* An edit makes every panel outdated, a correction marks what it changes. *)
LEMMA RecordSteps ==
  ASSUME TypeOK, [Next]_vars
  PROVE  /\ version' = version \/ version' = version + 1
         /\ version' = version =>
              \A s \in Students :
                \/ record'[s] = record[s] /\ history'[s] = history[s]
                \/ history'[s].by = "correction"
<1> USE DEF session, data
<1>1. ASSUME NEW r \in Requests, DraftCommit(r) \/ SubmitCommit(r)
      PROVE  \/ version' = version + 1
             \/ version' = version /\ record' = record /\ history' = history
  <2>1. CASE DraftCommit(r)
    BY <2>1 DEF DraftCommit
  <2>2. CASE SubmitCommit(r)
    BY <2>2 DEF SubmitCommit
  <2>3. QED
    BY <1>1, <2>1, <2>2
<1>2. ASSUME NEW r \in Requests, LockCommit(r)
      PROVE  /\ version' = version \/ version' = version + 1
             /\ record' = record /\ history' = history
  BY <1>2 DEF LockCommit
<1>3. ASSUME NEW r \in Requests, ReviewCommit(r), NEW s \in Students
      PROVE  /\ version' = version
             /\ \/ record'[s] = record[s] /\ history'[s] = history[s]
                \/ history'[s].by = "correction"
  <2> DEFINE q    == correction[req[r].correction].student
             code == correction[req[r].correction].code
  <2>1. version' = version
    BY <1>3 DEF ReviewCommit
  <2>2. CASE record' = record /\ history' = history
    BY <2>1, <2>2
  <2>3. CASE /\ record' = [record EXCEPT ![q] = [status |-> code, version |-> @.version + 1]]
             /\ history' = [history EXCEPT ![q] =
                             [from |-> req[r].seen.status, to |-> code, by |-> "correction"]]
    BY <2>1, <2>3 DEF TypeOK, DataOK
  <2>4. QED
    BY <1>3, <2>2, <2>3 DEF ReviewCommit
<1>4. \/ \E r \in Requests : DraftCommit(r) \/ SubmitCommit(r) \/ LockCommit(r) \/ ReviewCommit(r)
      \/ version' = version /\ record' = record /\ history' = history
  BY DEF Next, EditStep, OtherStep, vars, WindowPasses, Archive, SessionFirst, RecordsSecond,
     LockRead, DraftRead, SubmitReplay, SubmitRead, RequestRead, RequestCommit, ReviewRead
<1>5. version \in Nat
  BY DEF TypeOK, SessionOK
<1>6. CASE \E r \in Requests : DraftCommit(r) \/ SubmitCommit(r) \/ LockCommit(r)
  BY <1>1, <1>2, <1>5, <1>6
<1>7. CASE \E r \in Requests : ReviewCommit(r)
  <2>1. PICK r \in Requests : ReviewCommit(r)
    BY <1>7
  <2>2. version' = version
    BY <2>1 DEF ReviewCommit
  <2>3. QED
    BY <1>3, <2>1, <2>2
<1>8. QED
  BY <1>4, <1>6, <1>7

LEMMA FreshStep == TypeOK /\ FormsFresh /\ [Next]_vars => FormsFresh'
<1> SUFFICES ASSUME TypeOK, FormsFresh, [Next]_vars, NEW r \in Requests
             PROVE  /\ form'[r].version <= version'
                    /\ req'[r].op = "roster" => req'[r].version <= version'
                    /\ form'[r].version = version' =>
                         \A s \in Students :
                           form'[r].shown[s] = record'[s].status \/ history'[s].by = "correction"
  BY DEF FormsFresh
<1> USE DEF session, data
<1>1. /\ version \in Nat /\ form[r].version \in Nat
      /\ req[r].op = "roster" => req[r].version \in Nat
  BY RequestShapes DEF TypeOK, SessionOK, PanelsOK, FormType
<1>2. req'[r].op = "roster" => req'[r].version <= version'
  <2>1. CASE req'[r] = req[r]
    BY <1>1, <2>1, RecordSteps DEF FormsFresh
  <2>2. CASE req'[r] # req[r]
    BY <1>1, <2>2, Stages, RecordSteps DEF Idle
  <2>3. QED
    BY <2>1, <2>2
<1>3. CASE form'[r] = form[r]
  BY <1>1, <1>2, <1>3, RecordSteps DEF FormsFresh
<1>4. CASE form'[r] # form[r]
  <2>1. PICK p \in Requests : RecordsSecond(p)
    BY <1>4 DEF Next, EditStep, OtherStep, vars, WindowPasses, Archive, SessionFirst,
       LockRead, LockCommit, DraftRead, DraftCommit, SubmitReplay, SubmitRead, SubmitCommit,
       RequestRead, RequestCommit, ReviewRead, ReviewCommit
  <2>2. p = r
    BY <1>4, <2>1 DEF RecordsSecond, TypeOK, PanelsOK
  <2>3. form'[r] = [version |-> req[r].version, shown |-> Marks]
    BY <2>1, <2>2 DEF RecordsSecond, TypeOK, PanelsOK
  <2>4. req[r].op = "roster" /\ version' = version /\ record' = record
    BY <2>1, <2>2 DEF RecordsSecond
  <2>5. QED
    BY <1>2, <2>3, <2>4 DEF FormsFresh, Marks
<1>5. QED
  BY <1>3, <1>4

(* Answers and stored responses are written together, and never rewritten. *)
LEMMA StoredStep == TypeOK /\ AnswersStored /\ [Next]_vars => AnswersStored'
<1> SUFFICES ASSUME TypeOK, AnswersStored, [Next]_vars PROVE AnswersStored'
  OBVIOUS
<1> USE DEF session, data
<1>1. ASSUME NEW a \in answers PROVE a.key \in Keys
  BY <1>1 DEF TypeOK, PanelsOK
<1>2. ASSUME NEW r \in Requests, SubmitReplay(r) PROVE AnswersStored'
  BY <1>2 DEF SubmitReplay, AnswersStored
<1>3. ASSUME NEW r \in Requests, SubmitCommit(r) PROVE AnswersStored'
  <2> DEFINE k == req[r].key
             p == req[r].payload
  <2>1. k \in Keys /\ p.expected \in Nat
    BY <1>3, RequestShapes DEF SubmitCommit, TypeOK, PanelsOK, PayloadType
  <2>2. CASE Claimed(req[r].status, p.expected) /\ KeyFree(k)
    <3>1. /\ keys' = [keys EXCEPT ![k] = [payload |-> p, version |-> p.expected + 1]]
          /\ answers' = answers \cup {[key |-> k, version |-> p.expected + 1]}
      BY <1>3, <2>2 DEF SubmitCommit, SaveKey
    <3>2. keys'[k] = [payload |-> p, version |-> p.expected + 1]
          /\ \A j \in Keys : j # k => keys'[j] = keys[j]
      BY <2>1, <3>1 DEF TypeOK, DataOK
    <3>3. [payload |-> p, version |-> p.expected + 1] # NoKey
      BY <2>1 DEF NoKey
    <3>4. \A a \in answers : a.key # k
      BY <2>2 DEF KeyFree, AnswersStored
    <3>5. QED
      BY <1>1, <3>1, <3>2, <3>3, <3>4 DEF AnswersStored
  <2>3. CASE ~(Claimed(req[r].status, p.expected) /\ KeyFree(k))
    BY <1>3, <2>3 DEF SubmitCommit, AnswersStored
  <2>4. QED
    BY <2>2, <2>3
<1>4. (\E r \in Requests : SubmitReplay(r) \/ SubmitCommit(r)) \/ UNCHANGED <<keys, answers>>
  BY DEF Next, EditStep, OtherStep, vars, WindowPasses, Archive, SessionFirst, RecordsSecond,
     LockRead, LockCommit, DraftRead, DraftCommit, SubmitRead, RequestRead, RequestCommit,
     ReviewRead, ReviewCommit
<1>5. QED
  BY <1>2, <1>3, <1>4 DEF AnswersStored

(* A pending correction is inserted where there is none, and stays the     *)
(* only one of its record until it is reviewed.                            *)
LEMMA PendingStep == TypeOK /\ OnePendingPerRecord /\ [Next]_vars => OnePendingPerRecord'
<1> SUFFICES ASSUME TypeOK, OnePendingPerRecord, [Next]_vars PROVE OnePendingPerRecord'
  OBVIOUS
<1> USE DEF session, data
<1>1. ASSUME NEW r \in Requests, RequestCommit(r) PROVE OnePendingPerRecord'
  <2>1. CASE correction' = correction
    BY <2>1 DEF OnePendingPerRecord, IsPending
  <2>2. CASE correction' # correction
    <3>1. PICK c \in Corrections :
            correction' = [correction EXCEPT ![c] =
              [state |-> "PENDING", student |-> req[r].student, code |-> req[r].code]]
      BY <1>1, <2>2 DEF RequestCommit
    <3>2. NonePending(req[r].student)
      BY <1>1, <2>2 DEF RequestCommit, IndexFree
    <3>3. correction'[c].student = req[r].student
          /\ \A d \in Corrections : d # c => correction'[d] = correction[d]
      BY <3>1 DEF TypeOK, DataOK
    <3>4. QED
      BY <3>2, <3>3 DEF OnePendingPerRecord, NonePending, IsPending
  <2>3. QED
    BY <2>1, <2>2
<1>2. ASSUME NEW r \in Requests, ReviewCommit(r) PROVE OnePendingPerRecord'
  <2>1. \A c \in Corrections :
          correction'[c] = correction[c] \/ correction'[c].state # "PENDING"
    <3>1. CASE correction' = correction
      BY <3>1
    <3>2. CASE correction' # correction
      <4>1. PICK state \in {"APPROVED", "REJECTED"} :
              correction' = [correction EXCEPT ![req[r].correction].state = state]
        BY <1>2, <3>2 DEF ReviewCommit
      <4>2. /\ req[r].correction \in Corrections
            /\ IsPending(req[r].correction)
        BY <1>2, <3>2, RequestShapes DEF ReviewCommit, Unreviewed, TypeOK, PanelsOK
      <4>3. correction[req[r].correction] \in CorrectionType \ {Unused}
        BY <4>2 DEF IsPending, Unused, TypeOK, DataOK
      <4>4. correction'[req[r].correction].state = state
        BY <4>1, <4>2, <4>3 DEF CorrectionType, TypeOK, DataOK
      <4>5. QED
        BY <4>1, <4>2, <4>4 DEF TypeOK, DataOK
    <3>3. QED
      BY <3>1, <3>2
  <2>2. QED
    BY <2>1 DEF OnePendingPerRecord, IsPending
<1>3. (\E r \in Requests : RequestCommit(r) \/ ReviewCommit(r)) \/ correction' = correction
  BY DEF Next, EditStep, OtherStep, vars, WindowPasses, Archive, SessionFirst, RecordsSecond,
     LockRead, LockCommit, DraftRead, DraftCommit, SubmitReplay, SubmitRead, SubmitCommit,
     RequestRead, ReviewRead
<1>4. QED
  BY <1>1, <1>2, <1>3 DEF OnePendingPerRecord, IsPending

-----------------------------------------------------------------------------
LEMMA IInvInit == Init => IInv
<1> SUFFICES ASSUME Init PROVE IInv
  OBVIOUS
<1>1. \A r \in Requests : req[r].op = "none" /\ form[r].version = 0
  BY DEF Init, Idle, NoForm
<1>2. SeenIsPast /\ ExpectsForm
  BY <1>1 DEF SeenIsPast, ExpectsForm
<1>3. FormsFresh
  BY <1>1 DEF FormsFresh, Init
<1>4. AnswersStored
  BY DEF Init, AnswersStored
<1>5. OnePendingPerRecord
  BY DEF Init, OnePendingPerRecord, IsPending, Unused
<1>6. QED
  BY <1>2, <1>3, <1>4, <1>5, TypedInit DEF IInv

LEMMA IInvStep == IInv /\ [Next]_vars => IInv'
BY TypedStep, SeenStep, ExpectsStep, FreshStep, StoredStep, PendingStep DEF IInv

(* The invariant above holds for any interleaving of requests. *)
THEOREM AttendanceInductive == Spec => []IInv
BY IInvInit, IInvStep, PTL DEF Spec

(* At most one correction of a record is pending, however many requests    *)
(* look for one at the same time.                                          *)
THEOREM OnePending == Spec => []OnePendingPerRecord
<1>1. IInv => OnePendingPerRecord
  BY DEF IInv
<1>2. QED
  BY <1>1, AttendanceInductive, PTL

(* All answers to one idempotency key are the same.                        *)
THEOREM AnsweredAlike == Spec => []SameAnswer
<1>1. IInv => SameAnswer
  BY DEF IInv, AnswersStored, SameAnswer
<1>2. QED
  BY <1>1, AttendanceInductive, PTL

-----------------------------------------------------------------------------
(* The steps that write records *)
LEMMA Writers ==
  ASSUME [Next]_vars, <<record, history>>' # <<record, history>>
  PROVE  \E r \in Requests : DraftCommit(r) \/ SubmitCommit(r) \/ ReviewCommit(r)
BY DEF Next, EditStep, OtherStep, vars, session, data, WindowPasses, Archive, SessionFirst,
   RecordsSecond, LockRead, LockCommit, DraftRead, SubmitReplay, SubmitRead, RequestRead,
   RequestCommit, ReviewRead

(* An approval writes the record as it was read. *)
LEMMA ApprovalWrites ==
  ASSUME IInv, NEW r \in Requests, ReviewCommit(r), <<record, history>>' # <<record, history>>
  PROVE  LET c == req[r].correction  s == correction[c].student IN
         /\ c \in Corrections /\ s \in Students
         /\ IsPending(c) /\ correction'[c].state = "APPROVED"
         /\ record[s].status # correction[c].code
         /\ record'[s].status = correction[c].code
         /\ history'[s] = [from |-> record[s].status, to |-> correction[c].code,
                         by |-> "correction"]
         /\ \A t \in Students : t # s => record'[t] = record[t] /\ history'[t] = history[t]
<1> DEFINE c == req[r].correction
           s == correction[c].student
<1>1. /\ Unreviewed(c) /\ req[r].approved
      /\ req[r].seen.status # correction[c].code /\ Unchanged(s, req[r].seen)
      /\ correction' = [correction EXCEPT ![c].state = "APPROVED"]
      /\ record' = [record EXCEPT ![s] =
                     [status |-> correction[c].code, version |-> @.version + 1]]
      /\ history' = [history EXCEPT ![s] =
                      [from |-> req[r].seen.status, to |-> correction[c].code,
                       by |-> "correction"]]
  BY DEF ReviewCommit, data
<1>2. c \in Corrections
  BY RequestShapes DEF ReviewCommit, IInv, TypeOK, PanelsOK
<1>3. IsPending(c) /\ correction[c] \in CorrectionType \ {Unused}
  <2>1. correction[c] \in CorrectionType \cup {Unused}
    BY <1>2 DEF IInv, TypeOK, DataOK
  <2>2. IsPending(c)
    BY <1>1 DEF Unreviewed, IsPending
  <2>3. QED
    BY <2>1, <2>2 DEF IsPending, Unused
<1>4. s \in Students
  BY <1>3 DEF CorrectionType
<1>5. req[r].seen = record[s]
  BY <1>1 DEF ReviewCommit, IInv, SeenIsPast, Unchanged
<1>6. correction'[c].state = "APPROVED"
  BY <1>1, <1>2, <1>3 DEF IInv, TypeOK, DataOK, CorrectionType
<1>7. /\ record'[s].status = correction[c].code
      /\ history'[s] = [from |-> req[r].seen.status, to |-> correction[c].code, by |-> "correction"]
      /\ \A t \in Students : t # s => record'[t] = record[t] /\ history'[t] = history[t]
  BY <1>1, <1>4 DEF IInv, TypeOK, DataOK
<1>8. QED
  BY <1>1, <1>2, <1>3, <1>4, <1>5, <1>6, <1>7

(* A record changes together with a row of the history that starts at the  *)
(* status the record had, for edits and for approvals decided earlier.     *)
THEOREM HistoryTrue == Spec => HistoryExplains
<1> DEFINE Explained(s) ==
      IF record'[s].status = record[s].status THEN history'[s] = history[s]
      ELSE history'[s].from = record[s].status /\ history'[s].to = record'[s].status
<1>1. ASSUME IInv, [Next]_vars, NEW s \in Students PROVE Explained(s)
  <2>1. CASE <<record, history>>' = <<record, history>>
    BY <2>1
  <2>2. CASE <<record, history>>' # <<record, history>>
    <3>1. PICK r \in Requests : DraftCommit(r) \/ SubmitCommit(r) \/ ReviewCommit(r)
      BY <1>1, <2>2, Writers
    <3>2. ASSUME NEW marks, WriteMarks(marks) PROVE Explained(s)
      BY <3>2 DEF WriteMarks
    <3>3. CASE DraftCommit(r)
      BY <2>2, <3>2, <3>3 DEF DraftCommit, data
    <3>4. CASE SubmitCommit(r)
      BY <2>2, <3>2, <3>4 DEF SubmitCommit, data
    <3>5. CASE ReviewCommit(r)
      <4>1. CASE s = correction[req[r].correction].student
        <5> DEFINE code == correction[req[r].correction].code
        <5>1. /\ record[s].status # code /\ record'[s].status = code
              /\ history'[s] = [from |-> record[s].status, to |-> code, by |-> "correction"]
          BY <1>1, <2>2, <3>5, <4>1, ApprovalWrites
        <5>2. QED
          BY <5>1
      <4>2. CASE s # correction[req[r].correction].student
        BY <1>1, <2>2, <3>5, <4>2, ApprovalWrites
      <4>3. QED
        BY <4>1, <4>2
    <3>6. QED
      BY <3>1, <3>3, <3>4, <3>5
  <2>3. QED
    BY <2>1, <2>2
<1> DEFINE AllExplained == \A s \in Students :
      IF record'[s].status = record[s].status THEN history'[s] = history[s]
      ELSE /\ history'[s].from = record[s].status
           /\ history'[s].to = record'[s].status
<1>2. IInv /\ [Next]_vars => [AllExplained]_vars
  BY <1>1
<1>3. QED
  BY <1>2, AttendanceInductive, PTL DEF Spec, HistoryExplains

(* A locked session stays locked; after that, only the approval of a       *)
(* pending correction changes a record.                                    *)
THEOREM LockKept == Spec => LockHolds
<1> DEFINE Held ==
      status = "LOCKED" =>
         /\ status' = "LOCKED"
         /\ \A s \in Students : record'[s] # record[s] =>
              \E c \in Corrections :
                /\ IsPending(c) /\ correction'[c].state = "APPROVED"
                /\ correction[c].student = s
                /\ correction[c].code = record'[s].status
<1>1. ASSUME IInv, [Next]_vars, status = "LOCKED" PROVE Held
  <2>1. ASSUME NEW r \in Requests, DraftCommit(r) PROVE UNCHANGED <<session, data>>
    BY <1>1, <2>1 DEF DraftCommit, Claimed
  <2>2. ASSUME NEW r \in Requests, SubmitCommit(r) PROVE UNCHANGED <<session, data>>
    <3>1. req[r].status \in {"DRAFT", "SUBMITTED"}
      BY <1>1, <2>2, RequestShapes DEF SubmitCommit, IInv, TypeOK, PanelsOK
    <3>2. QED
      BY <1>1, <2>2, <3>1 DEF SubmitCommit, Claimed
  <2>3. status' = "LOCKED"
    BY <1>1, <2>1, <2>2 DEF Next, EditStep, OtherStep, vars, session, data, WindowPasses,
       Archive, SessionFirst, RecordsSecond, LockRead, LockCommit, DraftRead, SubmitReplay,
       SubmitRead, RequestRead, RequestCommit, ReviewRead, ReviewCommit
  <2>4. ASSUME NEW s \in Students, record'[s] # record[s]
        PROVE  \E c \in Corrections :
                /\ IsPending(c) /\ correction'[c].state = "APPROVED"
                /\ correction[c].student = s
                /\ correction[c].code = record'[s].status
    <3>1. <<record, history>>' # <<record, history>>
      BY <2>4
    <3>2. PICK r \in Requests : ReviewCommit(r)
      BY <1>1, <2>1, <2>2, <2>4, <3>1, Writers DEF data
    <3>3. QED
      BY <1>1, <2>4, <3>1, <3>2, ApprovalWrites
  <2>5. QED
    BY <2>3, <2>4
<1>2. IInv /\ [Next]_vars => [Held]_vars
  BY <1>1
<1>3. QED
  BY <1>2, AttendanceInductive, PTL DEF Spec, LockHolds

(* A save or submission that is accepted goes over statuses its panel      *)
(* showed, or over approved corrections.                                   *)
THEOREM EditsFresh == Spec => EditsAreFresh
<1> DEFINE Fresh ==
      \A r \in Requests : Edits(r) =>
         \A s \in Students :
           form[r].shown[s] = record[s].status \/ history[s].by = "correction"
<1>1. ASSUME IInv, [Next]_vars, NEW r \in Requests, Edits(r), NEW s \in Students
      PROVE  form[r].shown[s] = record[s].status \/ history[s].by = "correction"
  <2>1. EditStep(r) \/ OtherStep(r)
    <3>1. req'[r] # req[r]
      BY <1>1 DEF Edits, Idle
    <3>2. QED
      BY <1>1, <3>1, OwnSteps DEF IInv
  <2>2. DraftCommit(r) \/ SubmitCommit(r)
    BY <1>1, <2>1 DEF Edits, EditStep, OtherStep, data, DraftRead, SubmitReplay, SubmitRead,
       SessionFirst, RecordsSecond, LockRead, LockCommit, RequestRead, RequestCommit,
       ReviewRead, ReviewCommit
  <2>3. form[r].version = version
    BY <1>1, <2>2 DEF Edits, DraftCommit, SubmitCommit, Claimed, data, IInv, ExpectsForm
  <2>4. QED
    BY <1>1, <2>3 DEF IInv, FormsFresh
<1>2. IInv /\ [Next]_vars => [Fresh]_vars
  BY <1>1
<1>3. QED
  BY <1>2, AttendanceInductive, PTL DEF Spec, EditsAreFresh

(* A reviewed correction is reviewed for good, and an approval replaces    *)
(* another status by the requested one in the same step.                   *)
THEOREM ReviewsFinal == Spec => ReviewedOnce
<1> DEFINE Final ==
      \A c \in Corrections : correction'[c] # correction[c] =>
         /\ correction[c] = Unused \/ IsPending(c)
         /\ correction'[c].state = "APPROVED" =>
              LET s == correction[c].student IN
              /\ record[s].status # correction[c].code
              /\ record'[s].status = correction[c].code
<1>1. ASSUME IInv, [Next]_vars, NEW c \in Corrections, correction'[c] # correction[c]
      PROVE  /\ correction[c] = Unused \/ IsPending(c)
             /\ correction'[c].state = "APPROVED" =>
                  LET s == correction[c].student IN
                  /\ record[s].status # correction[c].code
                  /\ record'[s].status = correction[c].code
  <2>1. PICK r \in Requests : RequestCommit(r) \/ ReviewCommit(r)
    BY <1>1 DEF Next, EditStep, OtherStep, vars, session, data, WindowPasses, Archive,
       SessionFirst, RecordsSecond, LockRead, LockCommit, DraftRead, DraftCommit, SubmitReplay,
       SubmitRead, SubmitCommit, RequestRead, ReviewRead
  <2>2. CASE RequestCommit(r)
    BY <1>1, <2>2 DEF RequestCommit, IInv, TypeOK, DataOK
  <2>3. CASE ReviewCommit(r)
    <3>1. /\ c = req[r].correction /\ IsPending(c)
          /\ correction' = [correction EXCEPT ![c].state =
                              IF req[r].approved THEN "APPROVED" ELSE "REJECTED"]
          /\ req[r].approved => /\ req[r].seen.status # correction[c].code
                               /\ Unchanged(correction[c].student, req[r].seen)
          /\ req[r].approved => record' = [record EXCEPT ![correction[c].student] =
                                   [status |-> correction[c].code, version |-> @.version + 1]]
      BY <1>1, <2>3 DEF ReviewCommit, Unreviewed, data, IInv, TypeOK, DataOK
    <3>2. correction[c] \in CorrectionType \ {Unused}
      BY <1>1, <3>1 DEF IsPending, Unused, IInv, TypeOK, DataOK
    <3>3. correction'[c].state = "APPROVED" => req[r].approved
      BY <1>1, <3>1, <3>2 DEF IInv, TypeOK, DataOK, CorrectionType
    <3>4. correction[c].student \in Students
      BY <3>2 DEF CorrectionType
    <3>5. req[r].approved => req[r].seen = record[correction[c].student]
      BY <1>1, <2>3, <3>1 DEF ReviewCommit, IInv, SeenIsPast, Unchanged
    <3>6. ASSUME req[r].approved
          PROVE  LET s == correction[c].student IN
                 /\ record[s].status # correction[c].code
                 /\ record'[s].status = correction[c].code
      <4>1. record \in [Students -> RecordType]
        BY <1>1 DEF IInv, TypeOK, DataOK
      <4>2. req[r].seen.status # correction[c].code /\ req[r].seen = record[correction[c].student]
        BY <3>1, <3>5, <3>6
      <4>3. record'[correction[c].student].status = correction[c].code
        BY <3>1, <3>4, <3>6, <4>1
      <4>4. QED
        BY <4>2, <4>3
    <3>7. QED
      BY <3>1, <3>3, <3>6
  <2>4. QED
    BY <2>1, <2>2, <2>3
<1>2. IInv /\ [Next]_vars => [Final]_vars
  BY <1>1
<1>3. QED
  BY <1>2, AttendanceInductive, PTL DEF Spec, ReviewedOnce

=============================================================================
