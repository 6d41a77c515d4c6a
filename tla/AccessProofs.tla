---------------------------- MODULE AccessProofs ----------------------------
(***************************************************************************)
(* Proofs about what a request is allowed to do: AccessCache, for every    *)
(* number of sessions, tokens and checks, every lifetime of an entry and   *)
(* any number of changes; and AccountAdmin, where the permissions come     *)
(* from, for every number of users, requests, roles and changes.           *)
(***************************************************************************)
EXTENDS AccessCache, AccountAdmin, TLAPS

(* ---- The cache of the access check ---- *)

(* Entries and checks are about tokens that exist, in sessions that exist  *)
Known ==
    /\ \A k \in Tokens : Issued(k) => state[owner[k]] # "NONE"
    /\ \A k \in Tokens : cache[k].kept => Issued(k)
    /\ \A r \in Readers : reader[r].pc # "REST" => reader[r].token \in Tokens
                                                  /\ Issued(reader[r].token)

(* What a check has read of the account of a live session is still so      *)
ReadersAreCurrent ==
    \A r \in Readers : reader[r].pc = "STORE" /\ LiveToken(reader[r].token) =>
        active /\ reader[r].access = access

CacheIInv == CacheTypeOK /\ Known /\ ReadersAreCurrent /\ CacheIsCurrent

-----------------------------------------------------------------------------
(* What requests and administrators do to the rows                         *)
RowsKept ==
    /\ state' \in [Sessions -> {"NONE", "LIVE", "ENDED"}]
    /\ owner' \in [Tokens -> Sessions \cup {NoSession}]
    /\ \A s \in Sessions : state[s] # "NONE" => state'[s] \in {state[s], "ENDED"}
    /\ \A k \in Tokens : Issued(k) => owner'[k] = owner[k]
    /\ \A k \in Tokens : ~Issued(k) /\ Issued(k)' => owner'[k] \in Sessions
                                                    /\ state[owner'[k]] # "NONE"

LEMMA EndedInKeeps ==
    ASSUME CacheTypeOK, NEW S \in SUBSET Sessions
    PROVE  /\ EndedIn(S) \in [Sessions -> {"NONE", "LIVE", "ENDED"}]
           /\ \A s \in Sessions : state[s] # "NONE" => EndedIn(S)[s] \in {state[s], "ENDED"}
BY DEF CacheTypeOK, EndedIn

LEMMA SessionRequestsKeep ==
    ASSUME CacheTypeOK, SessionRequests
    PROVE  RowsKept /\ active' = active
<1>1. ASSUME NEW s \in Sessions, Open(s) PROVE RowsKept /\ active' = active
  BY <1>1 DEF Open, RowsKept, CacheTypeOK, Issued
<1>2. ASSUME NEW S \in SUBSET Sessions, End(S) PROVE RowsKept /\ active' = active
  BY <1>2, EndedInKeeps DEF End, RowsKept, CacheTypeOK, Issued
<1>3. ASSUME NEW S \in SUBSET Sessions, NEW k \in Tokens, NEW s \in Sessions, Issue(S, k, s)
      PROVE  RowsKept /\ active' = active
  BY <1>3, EndedInKeeps DEF Issue, RowsKept, CacheTypeOK, Issued
<1> QED BY <1>1, <1>2, <1>3 DEF SessionRequests

(* Nothing is live that was there when the administrator came, unless the  *)
(* account was not active before                                           *)
LEMMA AdministeredKeeps ==
    ASSUME CacheTypeOK, Known, Administered
    PROVE  /\ RowsKept /\ active' \in BOOLEAN
           /\ active => \A k \in Tokens : Issued(k) => ~LiveToken(k)'
<1>1. state' = state \/ state' = EndedIn(Sessions)
  BY DEF Administered
<1>2. owner' = owner /\ active' \in BOOLEAN
  BY DEF Administered
<1>3. RowsKept
  BY <1>1, <1>2, EndedInKeeps DEF RowsKept, CacheTypeOK, Issued
<1>4. ASSUME active, NEW k \in Tokens, Issued(k) PROVE ~LiveToken(k)'
  <2>1. state' = EndedIn(Sessions)
    BY <1>4 DEF Administered
  <2>2. owner[k] \in Sessions
    BY <1>4 DEF CacheTypeOK, Issued
  <2> QED BY <1>2, <2>1, <2>2 DEF LiveToken, Issued, EndedIn
<1> QED BY <1>2, <1>3, <1>4

-----------------------------------------------------------------------------
(* A token that exists and is live after the rows moved was live before    *)
LEMMA LiveBefore ==
    ASSUME CacheTypeOK, Known, RowsKept, NEW k \in Tokens, Issued(k), LiveToken(k)'
    PROVE  LiveToken(k)
<1>1. owner'[k] = owner[k] /\ owner[k] \in Sessions /\ state[owner[k]] # "NONE"
  BY DEF RowsKept, Issued, CacheTypeOK, Known
<1> QED BY <1>1 DEF RowsKept, LiveToken

LEMMA KnownKept ==
    ASSUME CacheTypeOK, Known, RowsKept,
           \A k \in Tokens : cache'[k].kept => Issued(k),
           \A r \in Readers : reader'[r].pc # "REST" =>
               reader'[r].token \in Tokens /\ Issued(reader'[r].token)
    PROVE  Known'
<1>1. ASSUME NEW k \in Tokens, Issued(k)
      PROVE  Issued(k)' /\ owner'[k] = owner[k] /\ owner[k] \in Sessions
  BY <1>1 DEF RowsKept, Issued, CacheTypeOK
<1>2. ASSUME NEW k \in Tokens, Issued(k)' PROVE state'[owner'[k]] # "NONE"
  <2>1. CASE Issued(k)
    BY <1>1, <2>1 DEF RowsKept, Known
  <2>2. CASE ~Issued(k)
    BY <1>2, <2>2 DEF RowsKept
  <2> QED BY <2>1, <2>2
<1>3. \A k \in Tokens : cache'[k].kept => Issued(k)'
  BY <1>1
<1>4. \A r \in Readers : reader'[r].pc # "REST" =>
        reader'[r].token \in Tokens /\ (owner'[reader'[r].token] # NoSession)
  BY <1>1 DEF Issued
<1> QED BY <1>2, <1>3, <1>4 DEF Known, Issued

LEMMA RowsSame ==
    ASSUME CacheTypeOK, UNCHANGED rowsVars
    PROVE  RowsKept /\ active' = active
BY DEF rowsVars, RowsKept, CacheTypeOK, Issued

-----------------------------------------------------------------------------
LEMMA CacheIInvInit == CacheInit => CacheIInv
BY RowsAssumption, CacheAssumption
DEF CacheInit, RowsInit, CacheIInv, CacheTypeOK, Known, ReadersAreCurrent, CacheIsCurrent, Issued,
    LiveToken, NoEntry, Resting, Entry, ReaderRecord

LEMMA StepTyped ==
    ASSUME CacheIInv, CacheNext
    PROVE  CacheTypeOK'
<1> USE DEF CacheIInv
<1>1. CASE SessionRequests /\ UNCHANGED cacheVars
  BY <1>1, SessionRequestsKeep DEF RowsKept, CacheTypeOK, cacheVars
<1>2. CASE Access
  <2>1. RowsKept /\ active' \in BOOLEAN
    BY <1>2, AdministeredKeeps DEF Access
  <2> QED BY <1>2, <2>1 DEF Access, RowsKept, CacheTypeOK
<1>3. CASE ChangeRoles
  BY <1>3 DEF ChangeRoles, CacheTypeOK, rowsVars
<1>4. NoEntry \in Entry /\ Resting \in ReaderRecord
  BY CacheAssumption DEF NoEntry, Resting, Entry, ReaderRecord
<1>5. ASSUME NEW k \in Tokens, Refuse(k) \/ Hit(k) \/ Drop(k) PROVE CacheTypeOK'
  BY <1>4, <1>5 DEF Refuse, Hit, AfterHit, Drop, CacheTypeOK, rowsVars
<1>6. ASSUME NEW k \in Tokens, Tick(k) PROVE CacheTypeOK'
  <2>1. [cache[k] EXCEPT !.age = @ + 1] \in Entry
    BY <1>6, CacheAssumption DEF Tick, Usable, CacheTypeOK, Entry
  <2> QED BY <1>6, <2>1 DEF Tick, CacheTypeOK, rowsVars
<1>7. ASSUME NEW r \in Readers, NEW k \in Tokens, Miss(r, k) PROVE CacheTypeOK'
  <2>1. [Resting EXCEPT !.pc = "LOAD", !.token = k] \in ReaderRecord
    BY DEF Resting, ReaderRecord
  <2> QED BY <1>7, <2>1 DEF Miss, CacheTypeOK, rowsVars
<1>8. ASSUME NEW r \in Readers, Load(r) PROVE CacheTypeOK'
  <2>1. [[[reader[r] EXCEPT !.pc = "STORE"] EXCEPT !.access = access] EXCEPT !.roles = roles]
          \in ReaderRecord
    BY DEF CacheTypeOK, ReaderRecord
  <2>2. reader' = [reader EXCEPT ![r] =
          [[[reader[r] EXCEPT !.pc = "STORE"] EXCEPT !.access = access] EXCEPT !.roles = roles]]
    BY <1>8 DEF Load, CacheTypeOK
  <2> QED BY <1>8, <2>1, <2>2 DEF Load, CacheTypeOK, rowsVars
<1>9. ASSUME NEW r \in Readers, LoadInactive(r) PROVE CacheTypeOK'
  BY <1>4, <1>9 DEF LoadInactive, CacheTypeOK, rowsVars
<1>10. ASSUME NEW r \in Readers, Store(r) PROVE CacheTypeOK'
  <2>1. [kept |-> TRUE, access |-> reader[r].access, roles |-> reader[r].roles, age |-> 0]
          \in Entry
    BY CacheAssumption DEF CacheTypeOK, Entry, ReaderRecord
  <2> QED BY <1>4, <1>10, <2>1 DEF Store, CacheTypeOK, rowsVars
<1> QED BY <1>1, <1>2, <1>3, <1>5, <1>6, <1>7, <1>8, <1>9, <1>10 DEF CacheNext

LEMMA StepKept ==
    ASSUME CacheIInv, CacheNext
    PROVE  Known' /\ ReadersAreCurrent' /\ CacheIsCurrent'
<1> USE DEF CacheIInv
<1>1. CASE SessionRequests /\ UNCHANGED cacheVars
  <2>1. RowsKept /\ active' = active
    BY <1>1, SessionRequestsKeep
  <2>2. cache' = cache /\ reader' = reader /\ access' = access
    BY <1>1 DEF cacheVars
  <2>3. Known'
    BY <2>1, <2>2, KnownKept DEF Known
  <2>4. \A k \in Tokens : Issued(k) /\ LiveToken(k)' => LiveToken(k)
    BY <2>1, LiveBefore
  <2> QED BY <2>1, <2>2, <2>3, <2>4 DEF Known, ReadersAreCurrent, CacheIsCurrent
<1>2. CASE Access
  <2>1. /\ RowsKept /\ active' \in BOOLEAN
        /\ active => \A k \in Tokens : Issued(k) => ~LiveToken(k)'
    BY <1>2, AdministeredKeeps DEF Access
  <2>2. cache' = cache /\ reader' = reader
    BY <1>2 DEF Access
  <2>3. Known'
    BY <2>1, <2>2, KnownKept DEF Known
  <2>4. \A k \in Tokens : Issued(k) /\ LiveToken(k)' => LiveToken(k)
    BY <2>1, LiveBefore
  <2> QED BY <2>1, <2>2, <2>3, <2>4 DEF Known, ReadersAreCurrent, CacheIsCurrent
<1>3. CASE ChangeRoles
  <2>1. /\ RowsKept /\ active' = active /\ cache' = cache /\ reader' = reader /\ access' = access
        /\ state' = state /\ owner' = owner
    BY <1>3, RowsSame DEF ChangeRoles, rowsVars
  <2>2. Known'
    BY <2>1, KnownKept DEF Known
  <2> QED BY <2>1, <2>2 DEF ReadersAreCurrent, CacheIsCurrent, LiveToken, Issued
<1>4. ASSUME UNCHANGED rowsVars, access' = access, reader' = reader, NEW k \in Tokens,
             cache' = [cache EXCEPT ![k] = NoEntry] \/ cache' = [cache EXCEPT ![k] = cache[k]]
               \/ cache' = [cache EXCEPT ![k].age = @ + 1]
      PROVE  Known' /\ ReadersAreCurrent' /\ CacheIsCurrent'
  <2>1. /\ RowsKept /\ active' = active /\ state' = state /\ owner' = owner
    BY <1>4, RowsSame DEF rowsVars
  <2>2. \A n \in Tokens : cache'[n].kept => cache[n].kept /\ cache'[n].access = cache[n].access
    BY <1>4 DEF CacheTypeOK, Entry, NoEntry
  <2>3. Known'
    BY <1>4, <2>1, <2>2, KnownKept DEF Known
  <2> QED BY <1>4, <2>1, <2>2, <2>3 DEF ReadersAreCurrent, CacheIsCurrent, LiveToken, Issued
<1>5. ASSUME NEW k \in Tokens, Refuse(k) \/ Hit(k) \/ Drop(k) \/ Tick(k)
      PROVE  Known' /\ ReadersAreCurrent' /\ CacheIsCurrent'
  BY <1>4, <1>5 DEF Refuse, Hit, AfterHit, Drop, Tick
<1>6. ASSUME UNCHANGED rowsVars, access' = access, NEW r \in Readers,
             NEW n \in ReaderRecord, reader' = [reader EXCEPT ![r] = n],
             \A k \in Tokens : cache'[k].kept =>
                Issued(k) /\ (LiveToken(k) => active /\ cache'[k].access = access),
             n.pc # "REST" => n.token \in Tokens /\ Issued(n.token),
             n.pc = "STORE" => active /\ n.access = access
      PROVE  Known' /\ ReadersAreCurrent' /\ CacheIsCurrent'
  <2>1. /\ RowsKept /\ active' = active /\ state' = state /\ owner' = owner
    BY <1>6, RowsSame DEF rowsVars
  <2>2. reader'[r] = n /\ \A q \in Readers \ {r} : reader'[q] = reader[q]
    BY <1>6 DEF CacheTypeOK
  <2>3. Known'
    BY <1>6, <2>1, <2>2, KnownKept DEF Known
  <2> QED BY <1>6, <2>1, <2>2, <2>3 DEF ReadersAreCurrent, CacheIsCurrent, LiveToken, Issued
<1>7. Resting \in ReaderRecord /\ Resting.pc = "REST"
  BY CacheAssumption DEF Resting, ReaderRecord
<1>8. ASSUME NEW r \in Readers, NEW k \in Tokens, Miss(r, k)
      PROVE  Known' /\ ReadersAreCurrent' /\ CacheIsCurrent'
  <2>1. PICK n \in ReaderRecord : n = [Resting EXCEPT !.pc = "LOAD", !.token = k]
    BY DEF Resting, ReaderRecord
  <2>2. n.pc = "LOAD" /\ n.token = k
    BY <2>1 DEF Resting
  <2> QED BY <1>6, <1>8, <2>1, <2>2 DEF Miss, LiveToken, Known, CacheIsCurrent
<1>9. ASSUME NEW r \in Readers, Load(r)
      PROVE  Known' /\ ReadersAreCurrent' /\ CacheIsCurrent'
  <2>1. PICK n \in ReaderRecord :
          n = [[[reader[r] EXCEPT !.pc = "STORE"] EXCEPT !.access = access] EXCEPT !.roles = roles]
    BY DEF CacheTypeOK, ReaderRecord
  <2>2. n.pc = "STORE" /\ n.access = access /\ n.token = reader[r].token
    BY <2>1 DEF CacheTypeOK, ReaderRecord
  <2>3. reader' = [reader EXCEPT ![r] = n]
    BY <1>9, <2>1 DEF Load, CacheTypeOK
  <2>4. reader[r].pc = "LOAD" /\ active
    BY <1>9 DEF Load
  <2>5. reader[r].token \in Tokens /\ Issued(reader[r].token)
    BY <2>4 DEF Known
  <2>6. \A k \in Tokens : cache'[k].kept =>
          Issued(k) /\ (LiveToken(k) => active /\ cache'[k].access = access)
    BY <1>9 DEF Load, Known, CacheIsCurrent
  <2>7. UNCHANGED rowsVars /\ access' = access
    BY <1>9 DEF Load
  <2> QED BY <1>6, <2>2, <2>3, <2>4, <2>5, <2>6, <2>7
<1>10. ASSUME NEW r \in Readers, LoadInactive(r)
       PROVE  Known' /\ ReadersAreCurrent' /\ CacheIsCurrent'
  <2>1. \A k \in Tokens : cache'[k].kept => cache'[k] = cache[k]
    BY <1>10 DEF LoadInactive, NoEntry, CacheTypeOK
  <2> QED BY <1>6, <1>7, <1>10, <2>1 DEF LoadInactive, Known, CacheIsCurrent
<1>11. ASSUME NEW r \in Readers, Store(r)
       PROVE  Known' /\ ReadersAreCurrent' /\ CacheIsCurrent'
  <2> DEFINE k == reader[r].token
  <2>1. k \in Tokens /\ Issued(k) /\ (LiveToken(k) => active /\ reader[r].access = access)
    BY <1>11 DEF Store, Known, ReadersAreCurrent
  <2>2. \A n \in Tokens : cache'[n] = cache[n] \/ (n = k /\ cache'[n].access = reader[r].access)
    BY <1>11, <2>1 DEF Store, CacheTypeOK
  <2>3. \A n \in Tokens : cache'[n].kept =>
            Issued(n) /\ (LiveToken(n) => active /\ cache'[n].access = access)
    BY <2>1, <2>2 DEF Known, CacheIsCurrent
  <2> QED BY <1>6, <1>7, <1>11, <2>3 DEF Store
<1> QED BY <1>1, <1>2, <1>3, <1>5, <1>8, <1>9, <1>10, <1>11 DEF CacheNext

LEMMA CacheIInvStep == CacheIInv /\ [CacheNext]_allVars => CacheIInv'
<1>1. ASSUME CacheIInv, UNCHANGED allVars PROVE CacheIInv'
  BY <1>1 DEF allVars, rowsVars, cacheVars, CacheIInv, CacheTypeOK, Known, ReadersAreCurrent,
              CacheIsCurrent, Issued, LiveToken
<1> QED BY <1>1, StepTyped, StepKept DEF CacheIInv

-----------------------------------------------------------------------------
(* What is kept for a live session is what the account may do now          *)
THEOREM CachedAccessIsCurrent == CacheSpec => []CacheIsCurrent
<1>1. CacheIInv => CacheIsCurrent
  BY DEF CacheIInv
<1> QED BY <1>1, CacheIInvInit, CacheIInvStep, PTL DEF CacheSpec

THEOREM CacheTyped == CacheSpec => []CacheTypeOK
<1>1. CacheIInv => CacheTypeOK
  BY DEF CacheIInv
<1> QED BY <1>1, CacheIInvInit, CacheIInvStep, PTL DEF CacheSpec

-----------------------------------------------------------------------------
(* ---- Administrators and their roles ---- *)

(* A request under way is one that the endpoints accept                    *)
RequestsAsked ==
    \A c \in Requests : request[c].kind # "REST" =>
        /\ request[c].actor \in Users /\ request[c].target \in Users
        /\ request[c] \in Asked(request[c].actor, request[c].target)

AdminIInv == TypeOK /\ RequestsAsked /\ EveryoneHasRole

-----------------------------------------------------------------------------
LEMMA AskedIsRequest ==
    ASSUME NEW a \in Users, NEW t \in Users, NEW q \in Asked(a, t)
    PROVE  q \in Request /\ q.actor = a /\ q.target = t /\ q.kind # "REST"
BY AdminAssumption DEF Asked, Request, Statuses, Validity

LEMMA RestIsRequest == Rest \in Request /\ Rest.kind = "REST"
BY DEF Rest, Request, Validity

(* What a transaction writes is of the right type, and leaves a role       *)
LEMMA SetStatusSafe ==
    ASSUME AdminIInv, NEW c \in Requests, SetStatus(c)
    PROVE  /\ account' \in [Users -> Statuses] /\ row' \in [Users -> [Roles -> Validity]]
           /\ EveryoneHasRole'
<1> DEFINE q == request[c]
<1>1. q.target \in Users /\ q \in Asked(q.actor, q.target) /\ q.kind = "STATUS"
  BY DEF AdminIInv, RequestsAsked, SetStatus
<1>2. q.to \in Statuses
  BY <1>1 DEF Asked
<1>3. account' \in [Users -> Statuses]
  BY <1>1, <1>2 DEF SetStatus, AdminIInv, TypeOK
<1>4. CASE row' = row
  BY <1>3, <1>4 DEF AdminIInv, TypeOK, EveryoneHasRole, RowsOf
<1>5. CASE row' = [row EXCEPT ![q.target][ClassRepresentative] = "OVER"]
  <2>1. row' \in [Users -> [Roles -> Validity]]
    BY <1>1, <1>5, AdminAssumption DEF AdminIInv, TypeOK, Validity
  <2>2. \A u \in Users, r \in Roles : row[u][r] # "NONE" => row'[u][r] # "NONE"
    BY <1>1, <1>5, AdminAssumption DEF AdminIInv, TypeOK, Validity
  <2> QED BY <1>3, <2>1, <2>2 DEF AdminIInv, EveryoneHasRole, RowsOf
<1> QED BY <1>4, <1>5 DEF SetStatus

LEMMA ReplaceRolesSafe ==
    ASSUME AdminIInv, NEW c \in Requests, ReplaceRoles(c)
    PROVE  row' \in [Users -> [Roles -> Validity]] /\ EveryoneHasRole'
<1> DEFINE q == request[c]
<1>1. q.target \in Users /\ q \in Asked(q.actor, q.target) /\ q.kind = "REPLACE"
  BY DEF AdminIInv, RequestsAsked, ReplaceRoles
<1>2. q.roles \subseteq Roles /\ q.roles # {}
  BY <1>1 DEF Asked
<1>3. row' = [row EXCEPT ![q.target] =
                 [r \in Roles |-> IF r \in q.roles THEN "VALID" ELSE "NONE"]]
  BY DEF ReplaceRoles
<1>4. row' \in [Users -> [Roles -> Validity]]
  BY <1>1, <1>3 DEF AdminIInv, TypeOK, Validity
<1>5. ASSUME NEW u \in Users PROVE \E r \in Roles : row'[u][r] # "NONE"
  <2>1. CASE u = q.target
    <3>1. PICK r \in Roles : r \in q.roles
      BY <1>2
    <3>2. row'[u][r] = "VALID"
      BY <1>1, <1>3, <2>1, <3>1 DEF AdminIInv, TypeOK
    <3> QED BY <3>2
  <2>2. CASE u # q.target
    BY <1>1, <1>3, <2>2 DEF AdminIInv, TypeOK, EveryoneHasRole, RowsOf
  <2> QED BY <2>1, <2>2
<1> QED BY <1>4, <1>5 DEF EveryoneHasRole, RowsOf

LEMMA WriteRoleSafe ==
    ASSUME AdminIInv, NEW c \in Requests, WriteRole(c)
    PROVE  row' \in [Users -> [Roles -> Validity]] /\ EveryoneHasRole'
<1> DEFINE q == request[c]
<1>1. q.target \in Users /\ q \in Asked(q.actor, q.target) /\ q.kind \in {"ADD", "REMOVE"}
  BY DEF AdminIInv, RequestsAsked, WriteRole
<1>2. /\ q.to \in Validity /\ q.roles \in SUBSET Roles /\ q.roles # {}
      /\ q.kind = "ADD" => q.to # "NONE"
  BY <1>1 DEF Asked, Validity
<1>3. row' = [row EXCEPT ![q.target] =
                 [r \in Roles |-> IF r \in q.roles THEN q.to ELSE row[q.target][r]]]
  BY DEF WriteRole
<1>4. row' \in [Users -> [Roles -> Validity]]
  BY <1>1, <1>2, <1>3 DEF AdminIInv, TypeOK
<1>5. q.kind = "REMOVE" => \E r \in Roles \ q.roles : row[q.target][r] # "NONE"
  BY <1>1 DEF WriteRole, Judged, Permitted, KeepsRole, RowsOf
<1>6. ASSUME NEW u \in Users PROVE \E r \in Roles : row'[u][r] # "NONE"
  <2>1. CASE u = q.target /\ q.kind = "ADD"
    BY <1>1, <1>2, <1>3, <2>1 DEF AdminIInv, TypeOK
  <2>2. CASE u = q.target /\ q.kind = "REMOVE"
    BY <1>1, <1>3, <1>5, <2>2 DEF AdminIInv, TypeOK
  <2>3. CASE u # q.target
    BY <1>1, <1>3, <2>3 DEF AdminIInv, TypeOK, EveryoneHasRole, RowsOf
  <2> QED BY <1>1, <2>1, <2>2, <2>3
<1> QED BY <1>4, <1>6 DEF EveryoneHasRole, RowsOf

LEMMA TimePassesSafe ==
    ASSUME AdminIInv, NEW u \in Users, NEW r \in Roles, TimePasses(u, r)
    PROVE  row' \in [Users -> [Roles -> Validity]] /\ EveryoneHasRole'
<1>1. PICK v \in {"VALID", "DATED", "OVER"} : row' = [row EXCEPT ![u][r] = v]
  BY DEF TimePasses
<1>2. row' \in [Users -> [Roles -> Validity]]
  BY <1>1 DEF AdminIInv, TypeOK, Validity
<1>3. \A w \in Users, s \in Roles : row[w][s] # "NONE" => row'[w][s] # "NONE"
  BY <1>1 DEF AdminIInv, TypeOK
<1> QED BY <1>2, <1>3 DEF AdminIInv, EveryoneHasRole, RowsOf

-----------------------------------------------------------------------------
LEMMA AdminIInvInit == Init => AdminIInv
BY RestIsRequest, AdminAssumption
DEF Init, AdminIInv, TypeOK, RequestsAsked, EveryoneHasRole, Statuses, Validity

(* A request that is done is at rest                                       *)
LEMMA RequestEnds ==
    ASSUME AdminIInv, NEW c \in Requests, request' = [request EXCEPT ![c] = Rest]
    PROVE  request' \in [Requests -> Request] /\ RequestsAsked'
<1>1. \A d \in Requests : request'[d] = Rest \/ request'[d] = request[d]
  BY DEF AdminIInv, TypeOK
<1>2. request' \in [Requests -> Request]
  BY RestIsRequest DEF AdminIInv, TypeOK
<1> QED BY <1>1, <1>2, RestIsRequest DEF AdminIInv, RequestsAsked, Asked

LEMMA CountedTyped == ASSUME AdminIInv, Counted PROVE changes' \in 0 .. MaxChanges
BY AdminAssumption DEF AdminIInv, TypeOK, Counted

LEMMA AdminIInvStep == AdminIInv /\ [Next]_vars => AdminIInv'
<1> SUFFICES ASSUME AdminIInv, [Next]_vars PROVE AdminIInv'
  OBVIOUS
<1>1. ASSUME NEW c \in Requests, NEW a \in Users, NEW t \in Users, NEW q \in Asked(a, t),
             Arrive(c, q)
      PROVE  AdminIInv'
  <2>1. q \in Request /\ q.actor = a /\ q.target = t
    BY AskedIsRequest
  <2>2. request' = [request EXCEPT ![c] = q] /\ UNCHANGED <<account, row, changes>>
    BY <1>1 DEF Arrive
  <2>3. TypeOK' /\ EveryoneHasRole'
    BY <2>1, <2>2 DEF AdminIInv, TypeOK, EveryoneHasRole, RowsOf
  <2>4. \A d \in Requests : request'[d] = q \/ request'[d] = request[d]
    BY <2>2 DEF AdminIInv, TypeOK
  <2>5. RequestsAsked'
    BY <2>1, <2>4 DEF AdminIInv, RequestsAsked, Asked
  <2> QED BY <2>3, <2>5 DEF AdminIInv
<1>2. ASSUME NEW c \in Requests, SetStatus(c) PROVE AdminIInv'
  BY <1>2, SetStatusSafe, RequestEnds, CountedTyped DEF SetStatus, AdminIInv, TypeOK
<1>3. ASSUME NEW c \in Requests, ReplaceRoles(c) PROVE AdminIInv'
  BY <1>3, ReplaceRolesSafe, RequestEnds, CountedTyped DEF ReplaceRoles, AdminIInv, TypeOK
<1>4. ASSUME NEW c \in Requests, WriteRole(c) PROVE AdminIInv'
  BY <1>4, WriteRoleSafe, RequestEnds, CountedTyped DEF WriteRole, AdminIInv, TypeOK
<1>5. ASSUME NEW c \in Requests, Refused(c) PROVE AdminIInv'
  <2>1. request' \in [Requests -> Request] /\ RequestsAsked'
    BY <1>5, RequestEnds DEF Refused
  <2> QED BY <1>5, <2>1 DEF Refused, AdminIInv, TypeOK, EveryoneHasRole, RowsOf
<1>6. ASSUME NEW u \in Users, NEW r \in Roles, TimePasses(u, r) PROVE AdminIInv'
  <2>1. RequestsAsked'
    BY <1>6 DEF TimePasses, AdminIInv, RequestsAsked, Asked
  <2> QED BY <1>6, <2>1, TimePassesSafe, CountedTyped DEF TimePasses, AdminIInv, TypeOK
<1>7. CASE UNCHANGED vars
  BY <1>7 DEF vars, AdminIInv, TypeOK, RequestsAsked, Asked, EveryoneHasRole, RowsOf
<1> QED BY <1>1, <1>2, <1>3, <1>4, <1>5, <1>6, <1>7 DEF Next

LEMMA Invariant == Spec => []AdminIInv
BY AdminIInvInit, AdminIInvStep, PTL DEF Spec

-----------------------------------------------------------------------------
(* Who may edit a Super Admin is one                                       *)
LEMMA EditorIsSuper ==
    ASSUME TypeOK, NEW a \in Users, NEW t \in Users, MayEdit(a, t), SuperAdmin \in Held(t)
    PROVE  SuperAdmin \in Held(a)
<1>1. CASE Above(Held(a), Held(t))
  <2>1. PICK r \in Held(a) : \A q \in Held(t) : RoleRank[q] < RoleRank[r]
    BY <1>1 DEF Above
  <2>2. r \in Roles /\ RoleRank[SuperAdmin] < RoleRank[r]
    BY <2>1 DEF Held
  <2>3. RoleRank[r] \in Nat /\ RoleRank[SuperAdmin] \in Nat
    BY <2>2, AdminAssumption
  <2>4. r = SuperAdmin \/ RoleRank[r] < RoleRank[SuperAdmin]
    BY <2>2, AdminAssumption
  <2> QED BY <2>2, <2>3, <2>4
<1> QED BY <1>1 DEF MayEdit

(* A transaction that was judged leaves an active Super Admin: its own     *)
(* actor, if the account it changes was one                                *)
LEMMA CommitLeavesSuper ==
    ASSUME AdminIInv, NEW c \in Requests, SetStatus(c) \/ ReplaceRoles(c) \/ WriteRole(c),
           NEW u \in Users, ActiveSuper(u)
    PROVE  \E w \in Users : ActiveSuper(w)'
<1> DEFINE q == request[c]
<1>1. q.kind # "REST" /\ Permitted(q)
  BY DEF SetStatus, ReplaceRoles, WriteRole, Judged
<1>2. q.actor \in Users /\ q.target \in Users
  BY <1>1 DEF AdminIInv, RequestsAsked
<1>3. \A w \in Users \ {q.target} : account'[w] = account[w] /\ row'[w] = row[w]
  BY <1>2 DEF SetStatus, ReplaceRoles, WriteRole, AdminIInv, TypeOK
<1>4. ASSUME NEW w \in Users \ {q.target}, ActiveSuper(w) PROVE ActiveSuper(w)'
  BY <1>3, <1>4 DEF ActiveSuper, Held
<1>5. CASE u # q.target
  BY <1>4, <1>5
<1>6. CASE u = q.target /\ q.actor # q.target
  <2>1. ActiveSuper(q.actor)
    BY <1>1, <1>2, <1>6, EditorIsSuper DEF AdminIInv, Permitted, ActiveSuper
  <2> QED BY <1>2, <1>4, <1>6, <2>1
<1>7. CASE u = q.target /\ q.actor = q.target
  <2>1. q.kind = "STATUS" /\ q.to = "ACTIVE"
    BY <1>1, <1>7 DEF Permitted
  <2>2. account'[u] = "ACTIVE" /\ row' = row
    BY <1>2, <1>7, <2>1 DEF SetStatus, ReplaceRoles, WriteRole, AdminIInv, TypeOK
  <2>3. ActiveSuper(u)'
    BY <2>2 DEF ActiveSuper, Held
  <2> QED BY <2>3
<1> QED BY <1>5, <1>6, <1>7

-----------------------------------------------------------------------------
THEOREM AdminTyped == Spec => []TypeOK
<1>1. AdminIInv => TypeOK
  BY DEF AdminIInv
<1> QED BY <1>1, Invariant, PTL

(* Nobody is left without a role assignment                                *)
THEOREM RolesRemain == Spec => []EveryoneHasRole
<1>1. AdminIInv => EveryoneHasRole
  BY DEF AdminIInv
<1> QED BY <1>1, Invariant, PTL

(* The last active Super Admin stays: for any number of administrators who *)
(* change one another at once.  The proof does not use the count of Super  *)
(* Admins (SuperStays): that the actor is judged again is enough           *)
THEOREM LastSuperStays == Spec => NoRequestEndsTheLastSuper
<1> DEFINE Stays == \A c \in Requests :
              request[c].kind # "REST" /\ request'[c].kind = "REST"
                /\ (\E u \in Users : ActiveSuper(u)) => (\E u \in Users : ActiveSuper(u))'
<1>1. ASSUME AdminIInv, Next PROVE Stays
  <2> SUFFICES ASSUME NEW d \in Requests, request[d].kind # "REST", request'[d].kind = "REST",
                      NEW u \in Users, ActiveSuper(u)
               PROVE  \E w \in Users : ActiveSuper(w)'
    OBVIOUS
  <2>1. ASSUME NEW c \in Requests, SetStatus(c) \/ ReplaceRoles(c) \/ WriteRole(c)
        PROVE  \E w \in Users : ActiveSuper(w)'
    BY <1>1, <2>1, CommitLeavesSuper
  <2>2. CASE UNCHANGED <<account, row>>
    BY <2>2 DEF ActiveSuper, Held
  <2>3. request' # request
    OBVIOUS
  <2> QED BY <1>1, <2>1, <2>2, <2>3 DEF Next, Arrive, Refused, TimePasses
<1>2. AdminIInv /\ [Next]_vars => [Stays]_vars
  BY <1>1
<1> QED BY <1>2, Invariant, PTL DEF Spec, NoRequestEndsTheLastSuper

=============================================================================
