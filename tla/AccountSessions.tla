-------------------------- MODULE AccountSessions --------------------------
(***************************************************************************)
(* The sessions of one account, after AuthService of                       *)
(* apps/api/src/modules/auth: sign in, refresh, sign out, change and reset *)
(* of the password.  Requests run at once; each one reads, goes back to    *)
(* the event loop, and writes.  A request whose answer times out goes on,  *)
(* and its client may present the same token again.  What administrators   *)
(* do to the account (UsersService) is one step.                           *)
(***************************************************************************)
EXTENDS Naturals

CONSTANTS
    Sessions, Tokens, Links,   \* rows that may come to exist; tokens are numbered
    Calls,                     \* requests that run at once
    NoSession, NoToken

ASSUME SessionsAssumption ==
    NoSession \notin Sessions /\ NoToken \notin Tokens /\ Tokens \subseteq Nat

VARIABLES
    active,     \* the account is ACTIVE
    session,    \* sessions: "NONE", "LIVE", or why it was ended
    token,      \* refresh_tokens: session, token it replaces, usedAt and revokedAt set
    link,       \* password_reset_tokens: "NONE", "OPEN", "USED"
    call,       \* what each request is doing
    shown,      \* history: how often a refresh found the token, up to 2
    excused,    \* history: sessions in which the password was changed, or a token
                \* expired between being found and being claimed
    resets      \* history: how often a link set a password, up to 2

rows == <<active, session, token, link>>
past == <<shown, excused, resets>>
vars == <<rows, call, past>>

-----------------------------------------------------------------------------
(* Records.  ORDERLY stands for every revokeReason but the one of reuse.   *)
SessionState == {"NONE", "LIVE", "ORDERLY", "REUSE"}
TokenRecord  == [session : Sessions \cup {NoSession}, of : Tokens \cup {NoToken},
                 used : BOOLEAN, revoked : BOOLEAN]
Steps        == {"REST", "OPEN", "MINT", "CLAIM", "REUSE", "BLOCK", "END", "CHANGE",
                 "REPLACE", "RESET"}
CallRecord   == [pc : Steps, session : Sessions \cup {NoSession},
                 token : Tokens \cup {NoToken}, links : SUBSET Links, todo : SUBSET Sessions]

Unissued == [session |-> NoSession, of |-> NoToken, used |-> FALSE, revoked |-> FALSE]
Idle     == [pc |-> "REST", session |-> NoSession, token |-> NoToken, links |-> {}, todo |-> {}]

Init ==
    /\ active = TRUE
    /\ session = [s \in Sessions |-> "NONE"]
    /\ token = [k \in Tokens |-> Unissued]
    /\ link = [l \in Links |-> "NONE"]
    /\ call = [c \in Calls |-> Idle]
    /\ shown = [k \in Tokens |-> 0] /\ excused = {} /\ resets = [l \in Links |-> 0]

-----------------------------------------------------------------------------
(* The statements the handlers share                                       *)
Live          == {s \in Sessions : session[s] = "LIVE"}
Issued(k)     == token[k].session # NoSession
LiveToken(k)  == Issued(k) /\ session[token[k].session] = "LIVE"
Fresh         == {k \in Tokens : ~Issued(k) /\ \A n \in Tokens : n < k => Issued(n)}
Twice(n)      == IF n = 0 THEN 1 ELSE 2
Goes(c, step) == call' = [call EXCEPT ![c] = step]
At(c, pc)     == call[c].pc = pc

(* As it would be without the condition                                    *)
EndedAgain(S, why) ==
    [s \in Sessions |-> IF s \in S /\ session[s] # "NONE" THEN why ELSE session[s]]

(* session.updateMany where revokedAt is null                              *)
Ended(S, why) ==
    [s \in Sessions |-> IF s \in S /\ session[s] = "LIVE" THEN why ELSE session[s]]

(* If only the sessions were written                                       *)
RevokedNone(S) == token

(* refreshToken.updateMany on the tokens of S                              *)
Revoked(S) ==
    [k \in Tokens |-> IF token[k].session \in S THEN [token[k] EXCEPT !.revoked = TRUE]
                                                ELSE token[k]]

(* refreshToken.create                                                     *)
Minted(k, s, of) == [session |-> s, of |-> of, used |-> FALSE, revoked |-> FALSE]

(* revokeSession, and what each change by an administrator repeats         *)
EndSessions(S) ==
    /\ session' = Ended(S, "ORDERLY")
    /\ token'   = Revoked(S)

-----------------------------------------------------------------------------
(* login: the account is read and the password verified ...                *)
SignIn(c) ==
    /\ At(c, "REST") /\ active
    /\ Goes(c, [Idle EXCEPT !.pc = "OPEN"])
    /\ UNCHANGED <<rows, past>>

(* ... the session is created ...                                          *)
OpenSession(c) ==
    /\ At(c, "OPEN")
    /\ \E s \in Sessions :
        /\ session[s] = "NONE"
        /\ session' = [session EXCEPT ![s] = "LIVE"]
        /\ Goes(c, [Idle EXCEPT !.pc = "MINT", !.session = s])
    /\ UNCHANGED <<active, token, link, past>>

(* ... and a transaction records its first refresh token                   *)
FirstToken(c) ==
    /\ At(c, "MINT")
    /\ \E k \in Fresh : token' = [token EXCEPT ![k] = Minted(k, call[c].session, NoToken)]
    /\ Goes(c, Idle)
    /\ UNCHANGED <<active, session, link, past>>

-----------------------------------------------------------------------------
(* refresh: the token is found with its session and its account            *)
FindToken(c, k) ==
    /\ At(c, "REST") /\ LiveToken(k) /\ ~token[k].revoked
    /\ shown' = [shown EXCEPT ![k] = Twice(@)]
    /\ Goes(c, [Idle EXCEPT !.session = token[k].session, !.token = k,
                            !.pc = IF token[k].used THEN "REUSE"
                                   ELSE IF ~active THEN "BLOCK" ELSE "CLAIM"])
    /\ UNCHANGED <<rows, excused, resets>>

(* If usedAt were only looked at when the token is found                   *)
ClaimableAgain(k) == ~token[k].revoked

(* The condition under which the transaction claims the token              *)
Claimable(k) == ~token[k].used /\ ~token[k].revoked

Rotate(c) ==
    LET k == call[c].token IN
    /\ At(c, "CLAIM") /\ Claimable(k)
    /\ \E n \in Fresh :
        token' = [token EXCEPT ![k].used = TRUE, ![n] = Minted(n, token[k].session, k)]
    /\ Goes(c, Idle)
    /\ UNCHANGED <<active, session, link, past>>

NotRotated(c) ==
    /\ At(c, "CLAIM") /\ ~Claimable(call[c].token)
    /\ Goes(c, [call[c] EXCEPT !.pc = "REUSE"])
    /\ UNCHANGED <<rows, past>>

(* The token was found in time, and expired before it was claimed          *)
Lapses(c) ==
    /\ At(c, "CLAIM")
    /\ excused' = excused \cup {call[c].session}
    /\ Goes(c, [call[c] EXCEPT !.pc = "REUSE"])
    /\ UNCHANGED <<rows, shown, resets>>

(* A token found used, or not claimed, ends its family: the session        *)
EndFamily(c) ==
    /\ At(c, "REUSE")
    /\ session' = Ended({call[c].session}, "REUSE")
    /\ Goes(c, Idle)
    /\ UNCHANGED <<active, token, link, past>>

Block(c) ==
    /\ At(c, "BLOCK")
    /\ EndSessions({call[c].session})
    /\ Goes(c, Idle)
    /\ UNCHANGED <<active, link, past>>

-----------------------------------------------------------------------------
(* logout needs no more than a refresh token that was signed by the server *)
SignOut(k) ==
    /\ Issued(k)
    /\ EndSessions({token[k].session})
    /\ UNCHANGED <<active, link, call, past>>

(* revokeOwnSession and revokeOtherSessions read the other live sessions   *)
(* and then end them one by one                                            *)
PickSessions(c, own) ==
    /\ At(c, "REST") /\ own \in Live /\ Live # {own}
    /\ \E S \in {Live \ {own}} \cup {{s} : s \in Live \ {own}} :
        Goes(c, [Idle EXCEPT !.pc = "END", !.todo = S])
    /\ UNCHANGED <<rows, past>>

EndPicked(c, s) ==
    /\ At(c, "END") /\ s \in call[c].todo
    /\ EndSessions({s})
    /\ Goes(c, IF call[c].todo = {s} THEN Idle ELSE [call[c] EXCEPT !.todo = @ \ {s}])
    /\ UNCHANGED <<active, link, past>>

(* changePassword: the old password is verified in a session that was live *)
(* when the request came in ...                                            *)
VerifyOld(c, own) ==
    /\ At(c, "REST") /\ own \in Live /\ active
    /\ Goes(c, [Idle EXCEPT !.pc = "CHANGE", !.session = own])
    /\ UNCHANGED <<rows, past>>

(* ... and a transaction ends the others, revokes the tokens of this one   *)
(* and gives it another token                                              *)
ChangePassword(c) ==
    LET own == call[c].session IN
    /\ At(c, "CHANGE")
    /\ session' = Ended(Sessions \ {own}, "ORDERLY")
    /\ \E n \in Fresh : token' = [Revoked(Sessions) EXCEPT ![n] = Minted(n, own, NoToken)]
    /\ excused' = excused \cup {own}
    /\ Goes(c, Idle)
    /\ UNCHANGED <<active, link, shown, resets>>

(* forgotPassword: one statement uses up the links it finds open, and a    *)
(* link created meanwhile is not among them ...                            *)
FindOpenLinks(c) ==
    /\ At(c, "REST") /\ active
    /\ Goes(c, [Idle EXCEPT !.pc = "REPLACE", !.links = {l \in Links : link[l] = "OPEN"}])
    /\ UNCHANGED <<rows, past>>

(* ... and the new one is committed with it                                *)
ReplaceLinks(c) ==
    /\ At(c, "REPLACE")
    /\ \E n \in Links :
        /\ link[n] = "NONE"
        /\ link' = [l \in Links |-> IF l = n THEN "OPEN"
                                    ELSE IF l \in call[c].links THEN "USED" ELSE link[l]]
    /\ Goes(c, Idle)
    /\ UNCHANGED <<active, session, token, past>>

(* resetPassword: the link is found unused ...                             *)
FindLink(c, l) ==
    /\ At(c, "REST") /\ link[l] = "OPEN"
    /\ Goes(c, [Idle EXCEPT !.pc = "RESET", !.links = {l}])
    /\ UNCHANGED <<rows, past>>

(* If the link were only looked at when it is found                        *)
LinkFound(l) == link[l] # "NONE"

(* ... and claimed in the transaction that sets the password               *)
LinkClaimable(l) == link[l] = "OPEN"

ResetPassword(c, l) ==
    /\ At(c, "RESET") /\ l \in call[c].links
    /\ IF LinkClaimable(l)
       THEN /\ link' = [link EXCEPT ![l] = "USED"]
            /\ EndSessions(Sessions)
            /\ resets' = [resets EXCEPT ![l] = Twice(@)]
       ELSE UNCHANGED <<link, session, token, resets>>
    /\ Goes(c, Idle)
    /\ UNCHANGED <<active, shown, excused>>

-----------------------------------------------------------------------------
(* If a change of status left the sessions alone                           *)
AdministerStatus ==
    active' \in BOOLEAN /\ UNCHANGED <<session, token, link, call, past>>

(* UsersService.updateAccess, addRole, removeRole, resetPassword,          *)
(* revokeSessions and status: the change and the end of all sessions are   *)
(* one serializable transaction; only reactivation leaves them alone       *)
Administer ==
    /\ active' \in BOOLEAN
    /\ IF active' /\ ~active THEN UNCHANGED <<session, token>> ELSE EndSessions(Sessions)
    /\ UNCHANGED <<link, call, past>>

(* A request ends early: an error of the database, or a crash              *)
Stops(c) ==
    /\ ~At(c, "REST")
    /\ Goes(c, Idle)
    /\ UNCHANGED <<rows, past>>

-----------------------------------------------------------------------------
SignInNext  == \E c \in Calls : SignIn(c) \/ OpenSession(c) \/ FirstToken(c)
RefreshNext == \E c \in Calls : \/ \E k \in Tokens : FindToken(c, k)
                                \/ Rotate(c) \/ NotRotated(c) \/ Lapses(c)
                                \/ EndFamily(c) \/ Block(c)
EndNext     == \/ \E k \in Tokens : SignOut(k)
               \/ \E c \in Calls, s \in Sessions : PickSessions(c, s) \/ EndPicked(c, s)
PasswordNext ==
    \E c \in Calls :
        \/ \E s \in Sessions : VerifyOld(c, s)
        \/ ChangePassword(c) \/ FindOpenLinks(c) \/ ReplaceLinks(c)
        \/ \E l \in Links : FindLink(c, l) \/ ResetPassword(c, l)

Next == \/ SignInNext \/ RefreshNext \/ EndNext \/ PasswordNext \/ Administer
        \/ \E c \in Calls : Stops(c)

Spec == Init /\ [][Next]_vars

-----------------------------------------------------------------------------
TypeOK ==
    /\ active \in BOOLEAN
    /\ session \in [Sessions -> SessionState]
    /\ token \in [Tokens -> TokenRecord]
    /\ link \in [Links -> {"NONE", "OPEN", "USED"}]
    /\ call \in [Calls -> CallRecord]
    /\ shown \in [Tokens -> 0 .. 2] /\ excused \subseteq Sessions
    /\ resets \in [Links -> 0 .. 2]

(* A refresh token is exchanged for at most one other, however many        *)
(* requests present it at once                                             *)
TokenExchangedOnce ==
    \A k, n \in Tokens : token[k].of # NoToken /\ token[k].of = token[n].of => k = n

(* A session is only ended as reused when a token of it was presented      *)
(* twice, expired under way, or was replaced by a change of the password:  *)
(* a sign-out or an administrator's change is never recorded as reuse      *)
ReuseMeansReplay ==
    \A s \in Sessions : session[s] = "REUSE" =>
        s \in excused \/ \E k \in Tokens : token[k].session = s /\ shown[k] = 2

(* A reset link sets a password at most once                               *)
LinkUsedOnce == \A l \in Links : resets[l] < 2

(* No refresh hands out a token in a session that was ended by a sign-out, *)
(* a change of password or an administrator, although it does not look at  *)
(* the session again when it claims its token                              *)
RotationStopsWithSession ==
    [][\A k \in Tokens : ~Issued(k) /\ token'[k].of # NoToken =>
            session[token'[k].session] # "ORDERLY"]_vars

(* What the other parts rely on: a session that was ended stays so, a      *)
(* token stays in its session, and administration ends every session       *)
RowState(s) == IF session[s] \in {"ORDERLY", "REUSE"} THEN "ENDED" ELSE session[s]

Rows == INSTANCE SessionRows WITH state <- [s \in Sessions |-> RowState(s)],
                                  owner <- [k \in Tokens |-> token[k].session]

SessionsAreRows == Rows!RowsSpec
=============================================================================
