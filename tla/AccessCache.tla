---------------------------- MODULE AccessCache ----------------------------
(***************************************************************************)
(* What every request is allowed to do, after JwtStrategy of               *)
(* apps/api/src/modules/auth, composed with what AuthService and           *)
(* UsersService promise of the sessions it looks at (SessionRows).  The    *)
(* session of an access token is looked up on every request; the account,  *)
(* its roles and its scopes are kept in memory for CACHE_TTL_MS under the  *)
(* nonce of the token, so here a token stands for the pair that            *)
(* createTokens signs.  Between the two reads, and between the second and  *)
(* the entry in memory, other requests run.                                *)
(***************************************************************************)
EXTENDS SessionRows, Naturals

CONSTANTS
    NoToken,
    Readers,     \* requests that are checked at once
    Ttl,         \* ticks for which an entry in memory is used
    MaxAccess,   \* bound on what administrators do to the account
    MaxRoles     \* bound on changes that leave the sessions alone

ASSUME CacheAssumption ==
    NoToken \notin Tokens /\ Ttl \in Nat \ {0} /\ MaxAccess \in Nat /\ MaxRoles \in Nat

VARIABLES
    access,      \* version of the account's own roles, scopes and status
    roles,       \* version of what its roles permit
    cache,       \* JwtStrategy.cache: what is kept for each access token
    reader       \* what each check is doing

cacheVars == <<access, roles, cache, reader>>
allVars   == <<rowsVars, cacheVars>>

Entry        == [kept : BOOLEAN, access : Nat, roles : Nat, age : 0 .. Ttl]
ReaderRecord == [pc : {"REST", "LOAD", "STORE"}, token : Tokens \cup {NoToken},
                 access : Nat, roles : Nat]

NoEntry == [kept |-> FALSE, access |-> 0, roles |-> 0, age |-> 0]
Resting == [pc |-> "REST", token |-> NoToken, access |-> 0, roles |-> 0]

CacheInit ==
    /\ RowsInit
    /\ access = 0 /\ roles = 0
    /\ cache = [k \in Tokens |-> NoEntry] /\ reader = [r \in Readers |-> Resting]

-----------------------------------------------------------------------------
Issued(k)    == owner[k] # NoSession
LiveToken(k) == Issued(k) /\ state[owner[k]] = "LIVE"
Usable(k)    == cache[k].kept /\ cache[k].age < Ttl

(* validate: the session is no longer live, and the entry is dropped ...   *)
Refuse(k) ==
    /\ Issued(k) /\ ~LiveToken(k) /\ cache[k].kept
    /\ cache' = [cache EXCEPT ![k] = NoEntry]
    /\ UNCHANGED <<rowsVars, access, roles, reader>>

(* An entry that is renewed each time it answers                           *)
AfterHitRenewed(k) == [cache[k] EXCEPT !.age = 0]

(* ... or it is, and a young entry answers, which does not renew it ...    *)
AfterHit(k) == cache[k]

Hit(k) ==
    /\ LiveToken(k) /\ Usable(k)
    /\ cache' = [cache EXCEPT ![k] = AfterHit(k)]
    /\ UNCHANGED <<rowsVars, access, roles, reader>>

(* ... or the account is to be read ...                                    *)
Miss(r, k) ==
    /\ reader[r].pc = "REST" /\ LiveToken(k) /\ ~Usable(k)
    /\ reader' = [reader EXCEPT ![r] = [Resting EXCEPT !.pc = "LOAD", !.token = k]]
    /\ UNCHANGED <<rowsVars, access, roles, cache>>

(* ... which refuses an account that is not active ...                     *)
Load(r) ==
    /\ reader[r].pc = "LOAD" /\ active
    /\ reader' = [reader EXCEPT ![r].pc = "STORE", ![r].access = access, ![r].roles = roles]
    /\ UNCHANGED <<rowsVars, access, roles, cache>>

LoadInactive(r) ==
    /\ reader[r].pc = "LOAD" /\ ~active
    /\ cache'  = [cache EXCEPT ![reader[r].token] = NoEntry]
    /\ reader' = [reader EXCEPT ![r] = Resting]
    /\ UNCHANGED <<rowsVars, access, roles>>

(* ... and what was read is kept, unless the password must be changed or   *)
(* the profile completed first                                             *)
Store(r) ==
    /\ reader[r].pc = "STORE"
    /\ \E keep \in BOOLEAN :
        cache' = IF keep THEN [cache EXCEPT ![reader[r].token] =
                                   [kept |-> TRUE, access |-> reader[r].access,
                                    roles |-> reader[r].roles, age |-> 0]]
                 ELSE cache
    /\ reader' = [reader EXCEPT ![r] = Resting]
    /\ UNCHANGED <<rowsVars, access, roles>>

Tick(k) ==
    /\ Usable(k)
    /\ cache' = [cache EXCEPT ![k].age = @ + 1]
    /\ UNCHANGED <<rowsVars, access, roles, reader>>

(* A full map drops its oldest entry; a restart drops them all             *)
Drop(k) ==
    /\ cache[k].kept
    /\ cache' = [cache EXCEPT ![k] = NoEntry]
    /\ UNCHANGED <<rowsVars, access, roles, reader>>

(* What an administrator does to the account, in one transaction           *)
Access ==
    /\ access < MaxAccess
    /\ access' = access + 1
    /\ Administered
    /\ UNCHANGED <<roles, cache, reader>>

(* updateRole, a role that lapses, a scope that follows a placement:       *)
(* what the account may do changes, and its sessions go on                 *)
ChangeRoles ==
    /\ roles < MaxRoles
    /\ roles' = roles + 1
    /\ UNCHANGED <<rowsVars, access, cache, reader>>

CacheNext ==
    \/ SessionRequests /\ UNCHANGED cacheVars
    \/ Access \/ ChangeRoles
    \/ \E k \in Tokens : Refuse(k) \/ Hit(k) \/ Tick(k) \/ Drop(k)
    \/ \E r \in Readers : (\E k \in Tokens : Miss(r, k)) \/ Load(r) \/ LoadInactive(r) \/ Store(r)

(* The clock goes on                                                       *)
CacheSpec == CacheInit /\ [][CacheNext]_allVars /\ \A k \in Tokens : WF_allVars(Tick(k))

-----------------------------------------------------------------------------
CacheTypeOK ==
    /\ active \in BOOLEAN
    /\ state \in [Sessions -> {"NONE", "LIVE", "ENDED"}]
    /\ owner \in [Tokens -> Sessions \cup {NoSession}]
    /\ access \in Nat /\ roles \in Nat
    /\ cache \in [Tokens -> Entry] /\ reader \in [Readers -> ReaderRecord]

(* What is kept in memory for a session that is live was read after the    *)
(* last thing an administrator did to the account, although neither the    *)
(* read nor the entry is part of that transaction                          *)
CacheIsCurrent ==
    \A k \in Tokens : LiveToken(k) /\ cache[k].kept => active /\ cache[k].access = access

(* What changes without ending the sessions reaches every one of them:     *)
(* once such changes cease, no entry made before the last stays in use     *)
StalePermissionsExpire ==
    \A k \in Tokens : <>[]~(LiveToken(k) /\ Usable(k) /\ cache[k].roles < roles)
=============================================================================
