---------------------------- MODULE SessionRows ----------------------------
(***************************************************************************)
(* What AuthService and UsersService promise to those who look at the      *)
(* sessions of an account: an ended session never comes back, a token      *)
(* belongs to one session for good, and what an administrator does to the  *)
(* account ends, in the same step, every session it has.                   *)
(***************************************************************************)
CONSTANTS Sessions, Tokens, NoSession

ASSUME RowsAssumption == NoSession \notin Sessions

VARIABLES
    active,     \* the account is ACTIVE
    state,      \* sessions: "NONE", "LIVE", "ENDED"
    owner       \* the session of each token

rowsVars == <<active, state, owner>>

RowsInit ==
    /\ active = TRUE
    /\ state = [s \in Sessions |-> "NONE"] /\ owner = [k \in Tokens |-> NoSession]

EndedIn(S) == [s \in Sessions |-> IF s \in S /\ state[s] = "LIVE" THEN "ENDED" ELSE state[s]]

(* A sign-in creates a session                                             *)
Open(s) ==
    /\ state[s] = "NONE"
    /\ state' = [state EXCEPT ![s] = "LIVE"]
    /\ UNCHANGED <<active, owner>>

(* A request ends some sessions, a new token is created, or both at once;  *)
(* a token may still be written to a session that has just been ended      *)
End(S) ==
    /\ state' = EndedIn(S)
    /\ UNCHANGED <<active, owner>>

Issue(S, k, s) ==
    /\ owner[k] = NoSession /\ state[s] # "NONE"
    /\ state' = EndedIn(S)
    /\ owner' = [owner EXCEPT ![k] = s]
    /\ UNCHANGED active

(* If the sessions were ended by a later request                           *)
AdministeredOnly == active' \in BOOLEAN /\ UNCHANGED <<state, owner>>

(* Only reactivation leaves the sessions alone                             *)
Administered ==
    /\ active' \in BOOLEAN
    /\ state' = IF active' /\ ~active THEN state ELSE EndedIn(Sessions)
    /\ UNCHANGED owner

SessionRequests ==
    \/ \E s \in Sessions : Open(s)
    \/ \E S \in SUBSET Sessions : End(S) \/ \E k \in Tokens, s \in Sessions : Issue(S, k, s)

RowsNext == SessionRequests \/ Administered

RowsSpec == RowsInit /\ [][RowsNext]_rowsVars
=============================================================================
