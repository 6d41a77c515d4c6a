----------------------- MODULE AccountSessionsProofs -----------------------
(***************************************************************************)
(* Proofs about AccountSessions, for every number of sessions, tokens,     *)
(* links and requests.                                                     *)
(***************************************************************************)
EXTENDS AccountSessions, TLAPS

-----------------------------------------------------------------------------
(* The types of what the handlers write                                    *)

LEMMA EndedTyped ==
    ASSUME TypeOK, NEW S, NEW why \in SessionState
    PROVE  Ended(S, why) \in [Sessions -> SessionState]
BY DEF TypeOK, Ended

LEMMA MintedTyped ==
    ASSUME TypeOK, NEW k \in Tokens, NEW s \in Sessions, NEW of \in Tokens \cup {NoToken}
    PROVE  Minted(k, s, of) \in TokenRecord
BY DEF Minted, TokenRecord

LEMMA UsedTyped ==
    ASSUME NEW x \in TokenRecord
    PROVE  [x EXCEPT !.used = TRUE] \in TokenRecord
BY DEF TokenRecord

LEMMA RevokedTyped ==
    ASSUME TypeOK, NEW S
    PROVE  Revoked(S) \in [Tokens -> TokenRecord]
<1>1. ASSUME NEW k \in Tokens PROVE [token[k] EXCEPT !.revoked = TRUE] \in TokenRecord
  BY DEF TypeOK, TokenRecord
<1> QED BY <1>1 DEF TypeOK, Revoked

LEMMA IdleTyped == Idle \in CallRecord
BY DEF Idle, CallRecord, Steps

LEMMA EndSessionsTyped ==
    ASSUME TypeOK, NEW S, EndSessions(S)
    PROVE  session' \in [Sessions -> SessionState] /\ token' \in [Tokens -> TokenRecord]
BY EndedTyped, RevokedTyped DEF EndSessions, SessionState

LEMMA GoesTyped ==
    ASSUME TypeOK, NEW c \in Calls, NEW r \in CallRecord, Goes(c, r)
    PROVE  call' \in [Calls -> CallRecord]
BY DEF TypeOK, Goes

-----------------------------------------------------------------------------
(* Rows that requests refer to exist, and a token that was not created is  *)
(* blank                                                                   *)
Existing ==
    /\ \A k \in Tokens : ~Issued(k) => token[k] = Unissued
    /\ \A k \in Tokens : Issued(k) => session[token[k].session] # "NONE"
    /\ \A c \in Calls : call[c].pc \in {"MINT", "CLAIM", "REUSE", "BLOCK", "CHANGE"} =>
            call[c].session \in Sessions /\ session[call[c].session] # "NONE"
    /\ \A c \in Calls : At(c, "CLAIM") =>
            call[c].token \in Tokens /\ token[call[c].token].session = call[c].session

(* What any step may do to a session and to a token                        *)
SessionMoves(s) ==
    \/ session'[s] = session[s]
    \/ session[s] = "NONE" /\ session'[s] = "LIVE"
    \/ session[s] = "LIVE" /\ session'[s] \in {"ORDERLY", "REUSE"}

Grows(k) ==
    /\ token'[k].session = token[k].session /\ token'[k].of = token[k].of
    /\ token[k].used => token'[k].used
    /\ token[k].revoked => token'[k].revoked

(* A new token may replace one that a request has claimed                  *)
Appears(k, s, p) ==
    /\ ~Issued(k) /\ session[s] # "NONE"
    /\ token'[k] = Minted(k, s, p)
    /\ p # NoToken => /\ p \in Tokens /\ Issued(p) /\ s = token[p].session
                      /\ Claimable(p) /\ token'[p].used
                      /\ \E c \in Calls : At(c, "CLAIM") /\ call[c].token = p

TokenMoves(k) ==
    \/ Issued(k) /\ Grows(k)
    \/ ~Issued(k) /\ token'[k] = token[k]
    \/ \E s \in Sessions, p \in Tokens \cup {NoToken} : Appears(k, s, p)

OneAppears ==
    \A k, n \in Tokens : ~Issued(k) /\ ~Issued(n) /\ token'[k] # token[k] /\ token'[n] # token[n]
        => k = n

Moves == /\ \A s \in Sessions : SessionMoves(s)
         /\ \A k \in Tokens : TokenMoves(k)
         /\ OneAppears

-----------------------------------------------------------------------------
LEMMA EndMoves ==
    ASSUME TypeOK, Existing, NEW S \in SUBSET Sessions, EndSessions(S)
    PROVE  Moves
<1>1. \A s \in Sessions : SessionMoves(s)
  BY DEF EndSessions, Ended, SessionMoves, TypeOK
<1>2. ASSUME NEW k \in Tokens
      PROVE  TokenMoves(k) /\ (~Issued(k) => token'[k] = token[k])
  <2>1. token'[k] = IF token[k].session \in S THEN [token[k] EXCEPT !.revoked = TRUE]
                                               ELSE token[k]
    BY DEF EndSessions, Revoked
  <2>2. token[k] \in TokenRecord
    BY DEF TypeOK
  <2>3. CASE Issued(k)
    BY <2>1, <2>2, <2>3 DEF TokenMoves, Grows, TokenRecord
  <2>4. CASE ~Issued(k)
    BY <2>1, <2>4, SessionsAssumption DEF TokenMoves, Issued
  <2> QED BY <2>3, <2>4
<1> QED BY <1>1, <1>2 DEF Moves, OneAppears

LEMMA StaySame ==
    ASSUME TypeOK, UNCHANGED <<session, token>>
    PROVE  Moves
BY DEF TypeOK, Moves, SessionMoves, TokenMoves, Grows, OneAppears, Issued

LEMMA NextMoves ==
    ASSUME TypeOK, Existing, Next
    PROVE  Moves
<1>1. ASSUME NEW c \in Calls, OpenSession(c) PROVE Moves
  BY <1>1 DEF OpenSession, Moves, SessionMoves, TokenMoves, Grows, OneAppears, TypeOK, Issued
<1>2. ASSUME NEW c \in Calls, FirstToken(c) PROVE Moves
  <2>1. PICK k \in Fresh : token' = [token EXCEPT ![k] = Minted(k, call[c].session, NoToken)]
    BY <1>2 DEF FirstToken
  <2>2. k \in Tokens /\ ~Issued(k) /\ session' = session
        /\ call[c].session \in Sessions /\ session[call[c].session] # "NONE"
    BY <1>2 DEF FirstToken, Fresh, Existing, At
  <2>3. token'[k] = Minted(k, call[c].session, NoToken)
        /\ \A n \in Tokens \ {k} : token'[n] = token[n]
    BY <2>1, <2>2 DEF TypeOK
  <2>4. Appears(k, call[c].session, NoToken)
    BY <2>2, <2>3 DEF Appears
  <2> QED BY <2>2, <2>3, <2>4 DEF Moves, SessionMoves, TokenMoves, Grows, OneAppears
<1>3. ASSUME NEW c \in Calls, Rotate(c) PROVE Moves
  <2> DEFINE p == call[c].token
  <2>1. PICK k \in Fresh :
          token' = [token EXCEPT ![p].used = TRUE, ![k] = Minted(k, token[p].session, p)]
    BY <1>3 DEF Rotate
  <2>2. /\ k \in Tokens /\ ~Issued(k) /\ session' = session /\ Claimable(p) /\ At(c, "CLAIM")
        /\ p \in Tokens /\ token[p].session = call[c].session /\ call[c].session \in Sessions
        /\ session[call[c].session] # "NONE"
    BY <1>3 DEF Rotate, Fresh, Existing, At
  <2>3. Issued(p) /\ p # k
    BY <2>2, SessionsAssumption DEF Issued
  <2>4. /\ token'[k] = Minted(k, token[p].session, p)
        /\ token'[p] = [token[p] EXCEPT !.used = TRUE]
        /\ \A n \in Tokens \ {k, p} : token'[n] = token[n]
    BY <2>1, <2>2, <2>3 DEF TypeOK
  <2>5. token[p] \in TokenRecord
    BY <2>2 DEF TypeOK
  <2>6. Grows(p) /\ token'[p].used
    BY <2>4, <2>5 DEF Grows, TokenRecord
  <2>7. Appears(k, token[p].session, p)
    BY <2>2, <2>3, <2>4, <2>6 DEF Appears
  <2>8. \A s \in Sessions : SessionMoves(s)
    BY <2>2 DEF SessionMoves
  <2>9. \A n \in Tokens : TokenMoves(n)
    <3>1. TokenMoves(k) /\ TokenMoves(p)
      BY <2>2, <2>3, <2>6, <2>7 DEF TokenMoves
    <3>2. ASSUME NEW n \in Tokens \ {k, p} PROVE TokenMoves(n)
      BY <2>4 DEF TokenMoves, Grows
    <3> QED BY <3>1, <3>2
  <2>10. OneAppears
    BY <2>3, <2>4, <2>6 DEF OneAppears, Grows
  <2> QED BY <2>8, <2>9, <2>10 DEF Moves
<1>4. ASSUME NEW c \in Calls, EndFamily(c) PROVE Moves
  BY <1>4 DEF EndFamily, Ended, Moves, SessionMoves, TokenMoves, Grows, OneAppears, TypeOK, Issued
<1>5. ASSUME NEW c \in Calls, Block(c) PROVE Moves
  BY <1>5, EndMoves DEF Block, Existing, At
<1>6. ASSUME NEW k \in Tokens, SignOut(k) PROVE Moves
  BY <1>6, EndMoves DEF SignOut, Issued, TypeOK, TokenRecord
<1>7. ASSUME NEW c \in Calls, NEW s \in Sessions, EndPicked(c, s) PROVE Moves
  BY <1>7, EndMoves DEF EndPicked
<1>8. ASSUME NEW c \in Calls, ChangePassword(c) PROVE Moves
  <2> DEFINE own == call[c].session
  <2>1. PICK k \in Fresh : token' = [Revoked(Sessions) EXCEPT ![k] = Minted(k, own, NoToken)]
    BY <1>8 DEF ChangePassword
  <2>2. /\ k \in Tokens /\ ~Issued(k) /\ own \in Sessions /\ session[own] # "NONE"
        /\ session' = Ended(Sessions \ {own}, "ORDERLY")
    BY <1>8 DEF ChangePassword, Fresh, Existing, At
  <2>3. /\ token'[k] = Minted(k, own, NoToken)
        /\ \A n \in Tokens \ {k} : token'[n] = Revoked(Sessions)[n]
    BY <2>1, <2>2 DEF Revoked
  <2>4. Appears(k, own, NoToken)
    BY <2>2, <2>3 DEF Appears
  <2>5. ASSUME NEW n \in Tokens \ {k}
        PROVE  (Issued(n) /\ Grows(n)) \/ (~Issued(n) /\ token'[n] = token[n])
    <3>1. token'[n] = IF token[n].session \in Sessions
                      THEN [token[n] EXCEPT !.revoked = TRUE] ELSE token[n]
      BY <2>3 DEF Revoked
    <3>2. token[n] \in TokenRecord
      BY DEF TypeOK
    <3>3. CASE Issued(n)
      BY <3>1, <3>2, <3>3 DEF Grows, TokenRecord
    <3>4. CASE ~Issued(n)
      BY <3>1, <3>4, SessionsAssumption DEF Issued
    <3> QED BY <3>3, <3>4
  <2>6. \A s \in Sessions : SessionMoves(s)
    BY <2>2 DEF Ended, SessionMoves, TypeOK
  <2>7. \A n \in Tokens : TokenMoves(n)
    BY <2>2, <2>4, <2>5 DEF TokenMoves
  <2>8. OneAppears
    BY <2>5 DEF OneAppears
  <2> QED BY <2>6, <2>7, <2>8 DEF Moves
<1>9. ASSUME NEW c \in Calls, NEW l \in Links, ResetPassword(c, l) PROVE Moves
  BY <1>9, EndMoves, StaySame DEF ResetPassword
<1>10. ASSUME Administer PROVE Moves
  BY <1>10, EndMoves, StaySame DEF Administer
<1>11. CASE UNCHANGED <<session, token>>
  BY <1>11, StaySame
<1> QED
  BY <1>1, <1>2, <1>3, <1>4, <1>5, <1>6, <1>7, <1>8, <1>9, <1>10, <1>11
  DEF Next, SignInNext, RefreshNext, EndNext, PasswordNext, SignIn, FindToken, NotRotated, Lapses,
      PickSessions, VerifyOld, FindOpenLinks, ReplaceLinks, FindLink, Stops, rows

-----------------------------------------------------------------------------
(* A request is left as it is, or moves on to something that exists        *)
CallMoves(c) ==
    \/ call'[c] = call[c]
    \/ call'[c].pc \notin {"MINT", "CLAIM", "REUSE", "BLOCK", "CHANGE"}
    \/ /\ call'[c].pc \in {"MINT", "CHANGE"}
       /\ call'[c].session \in Sessions /\ session'[call'[c].session] # "NONE"
    \/ /\ At(c, "REST") /\ LiveToken(call'[c].token) /\ call'[c].token \in Tokens
       /\ ~token[call'[c].token].revoked
       /\ call'[c].session = token[call'[c].token].session
       /\ call'[c].pc = IF token[call'[c].token].used THEN "REUSE"
                        ELSE IF ~active THEN "BLOCK" ELSE "CLAIM"
       /\ shown' = [shown EXCEPT ![call'[c].token] = Twice(@)]
       /\ \A d \in Calls \ {c} : call'[d] = call[d]
    \/ /\ At(c, "CLAIM") /\ call'[c].pc = "REUSE" /\ call'[c].session = call[c].session
       /\ ~Claimable(call[c].token) \/ call[c].session \in excused'

LEMMA GoesOne ==
    ASSUME TypeOK, NEW c \in Calls, NEW r, Goes(c, r)
    PROVE  call'[c] = r /\ \A d \in Calls \ {c} : call'[d] = call[d]
BY DEF TypeOK, Goes

LEMMA CallsMove ==
    ASSUME TypeOK, Existing, Next, NEW c \in Calls
    PROVE  CallMoves(c)
<1> USE DEF Goes, At, Idle
<1>1. ASSUME NEW d \in Calls, NEW r, Goes(d, r),
             r.pc \notin {"MINT", "CLAIM", "REUSE", "BLOCK", "CHANGE"}
      PROVE  CallMoves(c)
  BY <1>1, GoesOne DEF CallMoves
<1>2. ASSUME NEW d \in Calls, Goes(d, Idle) PROVE CallMoves(c)
  BY <1>1, <1>2
<1>3. ASSUME NEW d \in Calls, SignIn(d) PROVE CallMoves(c)
  <2>1. Goes(d, [Idle EXCEPT !.pc = "OPEN"]) /\ [Idle EXCEPT !.pc = "OPEN"].pc = "OPEN"
    BY <1>3 DEF SignIn
  <2> QED BY <1>1, <2>1
<1>4. ASSUME NEW d \in Calls, FindOpenLinks(d) PROVE CallMoves(c)
  <2>1. PICK L : Goes(d, [Idle EXCEPT !.pc = "REPLACE", !.links = L])
    BY <1>4 DEF FindOpenLinks
  <2>2. [Idle EXCEPT !.pc = "REPLACE", !.links = L].pc = "REPLACE"
    OBVIOUS
  <2> QED BY <1>1, <2>1, <2>2
<1>5. ASSUME NEW d \in Calls, OpenSession(d) PROVE CallMoves(c)
  BY <1>5 DEF TypeOK, CallMoves, OpenSession
<1>6. ASSUME NEW d \in Calls, NEW k \in Tokens, FindToken(d, k) PROVE CallMoves(c)
  <2>1. CASE c # d
    BY <1>6, <2>1 DEF TypeOK, CallMoves, FindToken
  <2>2. CASE c = d
    BY <1>6, <2>2 DEF TypeOK, CallMoves, FindToken
  <2> QED BY <2>1, <2>2
<1>7. ASSUME NEW d \in Calls, NotRotated(d) PROVE CallMoves(c)
  BY <1>7 DEF TypeOK, CallRecord, CallMoves, NotRotated
<1>8. ASSUME NEW d \in Calls, Lapses(d) PROVE CallMoves(c)
  BY <1>8 DEF TypeOK, CallRecord, CallMoves, Lapses
<1>9. ASSUME NEW d \in Calls, NEW s \in Sessions, PickSessions(d, s) PROVE CallMoves(c)
  <2>1. PICK S : Goes(d, [Idle EXCEPT !.pc = "END", !.todo = S])
    BY <1>9 DEF PickSessions
  <2>2. [Idle EXCEPT !.pc = "END", !.todo = S].pc = "END"
    OBVIOUS
  <2> QED BY <1>1, <2>1, <2>2
<1>10. ASSUME NEW d \in Calls, NEW s \in Sessions, EndPicked(d, s) PROVE CallMoves(c)
  <2>1. PICK r : Goes(d, r) /\ (r = Idle \/ r = [call[d] EXCEPT !.todo = @ \ {s}])
    BY <1>10 DEF EndPicked
  <2>2. r.pc \in {"REST", "END"}
    BY <1>10, <2>1 DEF EndPicked, TypeOK, CallRecord
  <2> QED BY <1>1, <2>1, <2>2
<1>11. ASSUME NEW d \in Calls, NEW s \in Sessions, VerifyOld(d, s) PROVE CallMoves(c)
  <2>1. Goes(d, [Idle EXCEPT !.pc = "CHANGE", !.session = s]) /\ session' = session
        /\ session[s] = "LIVE"
    BY <1>11 DEF VerifyOld, rows, Live
  <2>2. [Idle EXCEPT !.pc = "CHANGE", !.session = s].pc = "CHANGE"
        /\ [Idle EXCEPT !.pc = "CHANGE", !.session = s].session = s
    OBVIOUS
  <2> QED BY <2>1, <2>2, GoesOne DEF CallMoves
<1>12. ASSUME NEW d \in Calls, NEW l \in Links, FindLink(d, l) PROVE CallMoves(c)
  <2>1. Goes(d, [Idle EXCEPT !.pc = "RESET", !.links = {l}])
        /\ [Idle EXCEPT !.pc = "RESET", !.links = {l}].pc = "RESET"
    BY <1>12 DEF FindLink
  <2> QED BY <1>1, <2>1
<1>13. CASE call' = call
  BY <1>13 DEF CallMoves
<1> QED
  BY <1>2, <1>3, <1>4, <1>5, <1>6, <1>7, <1>8, <1>9, <1>10, <1>11, <1>12, <1>13
  DEF Next, SignInNext, RefreshNext, EndNext, PasswordNext, SignOut, Administer, FirstToken, Rotate,
      EndFamily, Block, ChangePassword, ReplaceLinks, ResetPassword, Stops

LEMMA ExistingStep ==
    ASSUME TypeOK, Existing, Next
    PROVE  Existing'
<1>1. Moves
  BY NextMoves
<1>2. \A s \in Sessions : session[s] # "NONE" => session'[s] # "NONE"
  BY <1>1 DEF Moves, SessionMoves
<1>3. ASSUME NEW k \in Tokens
      PROVE  /\ Issued(k) => token'[k].session = token[k].session
             /\ ~Issued(k)' => token'[k] = Unissued
             /\ Issued(k)' => token'[k].session \in Sessions /\ session'[token'[k].session] # "NONE"
  <2>1. CASE Issued(k) /\ Grows(k)
    BY <1>2, <2>1 DEF Grows, Issued, Existing, TypeOK, TokenRecord
  <2>2. CASE ~Issued(k) /\ token'[k] = token[k]
    BY <2>2 DEF Issued, Existing
  <2>3. ASSUME NEW s \in Sessions, NEW p, Appears(k, s, p)
        PROVE  ~Issued(k) /\ token'[k].session = s /\ session[s] # "NONE"
    BY <2>3 DEF Appears, Minted
  <2>4. QED
    BY <1>1, <1>2, <2>1, <2>2, <2>3, SessionsAssumption DEF Moves, TokenMoves, Issued
<1>4. ASSUME NEW c \in Calls
      PROVE  /\ call'[c].pc \in {"MINT", "CLAIM", "REUSE", "BLOCK", "CHANGE"} =>
                  call'[c].session \in Sessions /\ session'[call'[c].session] # "NONE"
             /\ call'[c].pc = "CLAIM" =>
                  call'[c].token \in Tokens /\ token'[call'[c].token].session = call'[c].session
  <2>1. CallMoves(c)
    BY CallsMove
  <2>2. \A k \in Tokens : Issued(k) => token[k].session \in Sessions
    BY DEF TypeOK, TokenRecord, Issued
  <2>3. CASE call'[c] = call[c]
    <3>1. CASE call[c].pc = "CLAIM"
      <4>1. Issued(call[c].token) /\ call[c].token \in Tokens
        BY <3>1, SessionsAssumption DEF Existing, At, Issued
      <4> QED BY <1>2, <1>3, <2>3, <3>1, <4>1 DEF Existing, At, Issued
    <3>2. CASE call[c].pc # "CLAIM"
      BY <1>2, <2>3, <3>2 DEF Existing
    <3> QED BY <3>1, <3>2
  <2>4. CASE call'[c].pc \notin {"MINT", "CLAIM", "REUSE", "BLOCK", "CHANGE"}
    BY <2>4
  <2>5. CASE At(c, "REST") /\ LiveToken(call'[c].token) /\ call'[c].token \in Tokens
             /\ call'[c].session = token[call'[c].token].session
    BY <1>2, <1>3, <2>2, <2>5 DEF LiveToken
  <2>6. CASE At(c, "CLAIM") /\ call'[c].pc = "REUSE" /\ call'[c].session = call[c].session
    BY <1>2, <2>6 DEF Existing, At
  <2> QED BY <2>1, <2>3, <2>4, <2>5, <2>6 DEF CallMoves
<1> QED
  BY <1>3, <1>4 DEF Existing, Issued, At

-----------------------------------------------------------------------------
(* Types                                                                   *)
LEMMA TypedStep ==
    ASSUME TypeOK, Existing, Next
    PROVE  TypeOK'
<1> USE DEF TypeOK, rows, past
<1>1. ASSUME NEW c \in Calls, NEW r \in CallRecord, Goes(c, r)
      PROVE  call' \in [Calls -> CallRecord]
  BY <1>1, GoesTyped
<1>2. \A k \in Tokens : Twice(shown[k]) \in 0 .. 2
  BY DEF Twice
<1>3. ASSUME NEW c \in Calls, SignIn(c) PROVE TypeOK'
  <2>1. [Idle EXCEPT !.pc = "OPEN"] \in CallRecord
    BY DEF Idle, CallRecord, Steps
  <2> QED BY <1>1, <1>3, <2>1 DEF SignIn
<1>4. ASSUME NEW c \in Calls, OpenSession(c) PROVE TypeOK'
  <2>1. PICK s \in Sessions : /\ session' = [session EXCEPT ![s] = "LIVE"]
                              /\ Goes(c, [Idle EXCEPT !.pc = "MINT", !.session = s])
    BY <1>4 DEF OpenSession
  <2>2. [Idle EXCEPT !.pc = "MINT", !.session = s] \in CallRecord
    BY DEF Idle, CallRecord, Steps
  <2>3. session' \in [Sessions -> SessionState]
    BY <2>1 DEF SessionState
  <2> QED BY <1>1, <1>4, <2>1, <2>2, <2>3 DEF OpenSession
<1>5. ASSUME NEW c \in Calls, FirstToken(c) PROVE TypeOK'
  <2>1. PICK k \in Tokens : token' = [token EXCEPT ![k] = Minted(k, call[c].session, NoToken)]
    BY <1>5 DEF FirstToken, Fresh
  <2>2. Minted(k, call[c].session, NoToken) \in TokenRecord
    BY <1>5, MintedTyped DEF FirstToken, Existing, At
  <2> QED BY <1>1, <1>5, <2>1, <2>2, IdleTyped DEF FirstToken
<1>6. ASSUME NEW c \in Calls, NEW k \in Tokens, FindToken(c, k) PROVE TypeOK'
  <2>1. ASSUME NEW pc \in Steps
        PROVE  [Idle EXCEPT !.session = token[k].session, !.token = k, !.pc = pc] \in CallRecord
    BY <2>1 DEF Idle, CallRecord, TokenRecord
  <2>2. PICK pc \in Steps :
          Goes(c, [Idle EXCEPT !.session = token[k].session, !.token = k, !.pc = pc])
    BY <1>6 DEF FindToken, Steps
  <2> QED BY <1>1, <1>2, <1>6, <2>1, <2>2 DEF FindToken
<1>7. ASSUME NEW c \in Calls, Rotate(c) PROVE TypeOK'
  <2> DEFINE p == call[c].token
  <2>1. PICK k \in Tokens :
          token' = [token EXCEPT ![p].used = TRUE, ![k] = Minted(k, token[p].session, p)]
    BY <1>7 DEF Rotate, Fresh
  <2>2. p \in Tokens /\ token[p].session \in Sessions
    BY <1>7 DEF Rotate, Existing, At
  <2>3. Minted(k, token[p].session, p) \in TokenRecord
    BY <2>2, MintedTyped
  <2>4. token[p] \in TokenRecord
    BY <2>2
  <2>5. [token[p] EXCEPT !.used = TRUE] \in TokenRecord
    BY <2>4, UsedTyped
  <2>6. token' \in [Tokens -> TokenRecord]
    BY <2>1, <2>2, <2>3, <2>5
  <2> QED BY <1>1, <1>7, <2>6, IdleTyped DEF Rotate
<1>8. ASSUME NEW c \in Calls, NotRotated(c) \/ Lapses(c) PROVE TypeOK'
  <2>1. [call[c] EXCEPT !.pc = "REUSE"] \in CallRecord
    BY DEF CallRecord, Steps
  <2>2. call[c].session \in Sessions
    BY <1>8 DEF NotRotated, Lapses, Existing, At
  <2> QED BY <1>1, <1>8, <2>1, <2>2 DEF NotRotated, Lapses
<1>9. ASSUME NEW c \in Calls, EndFamily(c) PROVE TypeOK'
  BY <1>1, <1>9, IdleTyped, EndedTyped DEF EndFamily, SessionState
<1>10. ASSUME NEW c \in Calls, Block(c) PROVE TypeOK'
  BY <1>1, <1>10, IdleTyped, EndSessionsTyped DEF Block
<1>11. ASSUME NEW k \in Tokens, SignOut(k) PROVE TypeOK'
  BY <1>11, EndSessionsTyped DEF SignOut
<1>12. ASSUME NEW c \in Calls, NEW s \in Sessions, PickSessions(c, s) PROVE TypeOK'
  <2>1. PICK S \in SUBSET Sessions : Goes(c, [Idle EXCEPT !.pc = "END", !.todo = S])
    BY <1>12 DEF PickSessions, Live
  <2>2. [Idle EXCEPT !.pc = "END", !.todo = S] \in CallRecord
    BY DEF Idle, CallRecord, Steps
  <2> QED BY <1>1, <1>12, <2>1, <2>2 DEF PickSessions
<1>13. ASSUME NEW c \in Calls, NEW s \in Sessions, EndPicked(c, s) PROVE TypeOK'
  <2>1. [call[c] EXCEPT !.todo = @ \ {s}] \in CallRecord
    BY DEF CallRecord
  <2> QED BY <1>1, <1>13, <2>1, IdleTyped, EndSessionsTyped DEF EndPicked
<1>14. ASSUME NEW c \in Calls, NEW s \in Sessions, VerifyOld(c, s) PROVE TypeOK'
  <2>1. [Idle EXCEPT !.pc = "CHANGE", !.session = s] \in CallRecord
    BY DEF Idle, CallRecord, Steps
  <2> QED BY <1>1, <1>14, <2>1 DEF VerifyOld
<1>15. ASSUME NEW c \in Calls, ChangePassword(c) PROVE TypeOK'
  <2> DEFINE own == call[c].session
  <2>1. PICK k \in Tokens : token' = [Revoked(Sessions) EXCEPT ![k] = Minted(k, own, NoToken)]
    BY <1>15 DEF ChangePassword, Fresh
  <2>2. own \in Sessions /\ Minted(k, own, NoToken) \in TokenRecord
    BY <1>15, MintedTyped DEF ChangePassword, Existing, At
  <2>3. token' \in [Tokens -> TokenRecord]
    BY <2>1, <2>2, RevokedTyped
  <2>4. session' \in [Sessions -> SessionState]
    BY <1>15, EndedTyped DEF ChangePassword, SessionState
  <2> QED BY <1>1, <1>15, <2>2, <2>3, <2>4, IdleTyped DEF ChangePassword
<1>16. ASSUME NEW c \in Calls, FindOpenLinks(c) PROVE TypeOK'
  <2>1. PICK L \in SUBSET Links : Goes(c, [Idle EXCEPT !.pc = "REPLACE", !.links = L])
    BY <1>16 DEF FindOpenLinks
  <2>2. [Idle EXCEPT !.pc = "REPLACE", !.links = L] \in CallRecord
    BY DEF Idle, CallRecord, Steps
  <2> QED BY <1>1, <1>16, <2>1, <2>2 DEF FindOpenLinks
<1>17. ASSUME NEW c \in Calls, ReplaceLinks(c) PROVE TypeOK'
  <2>1. link' \in [Links -> {"NONE", "OPEN", "USED"}]
    BY <1>17 DEF ReplaceLinks
  <2> QED BY <1>1, <1>17, <2>1, IdleTyped DEF ReplaceLinks
<1>18. ASSUME NEW c \in Calls, NEW l \in Links, FindLink(c, l) PROVE TypeOK'
  <2>1. [Idle EXCEPT !.pc = "RESET", !.links = {l}] \in CallRecord
    BY DEF Idle, CallRecord, Steps
  <2> QED BY <1>1, <1>18, <2>1 DEF FindLink
<1>19. ASSUME NEW c \in Calls, NEW l \in Links, ResetPassword(c, l) PROVE TypeOK'
  <2>1. CASE LinkClaimable(l)
    BY <1>1, <1>19, <2>1, IdleTyped, EndSessionsTyped DEF ResetPassword, Twice
  <2>2. CASE ~LinkClaimable(l)
    BY <1>1, <1>19, <2>2, IdleTyped DEF ResetPassword
  <2> QED BY <2>1, <2>2
<1>20. ASSUME Administer PROVE TypeOK'
  BY <1>20, EndSessionsTyped DEF Administer
<1>21. ASSUME NEW c \in Calls, Stops(c) PROVE TypeOK'
  BY <1>1, <1>21, IdleTyped DEF Stops
<1> QED
  BY <1>3, <1>4, <1>5, <1>6, <1>7, <1>8, <1>9, <1>10, <1>11, <1>12, <1>13, <1>14, <1>15, <1>16,
     <1>17, <1>18, <1>19, <1>20, <1>21
  DEF Next, SignInNext, RefreshNext, EndNext, PasswordNext

-----------------------------------------------------------------------------
(* A token that has been exchanged is used                                 *)
ExchangedIsUsed ==
    \A k \in Tokens : token[k].of # NoToken => token[k].of \in Tokens /\ token[token[k].of].used

LEMMA ExchangeStep ==
    ASSUME TypeOK, Existing, Next, ExchangedIsUsed, TokenExchangedOnce
    PROVE  ExchangedIsUsed' /\ TokenExchangedOnce'
<1>1. Moves
  BY NextMoves
<1>2. \A k \in Tokens : token[k].used \/ token[k].of # NoToken => Issued(k)
  BY DEF Existing, Unissued
<1>3. \A k \in Tokens : Issued(k) => Grows(k)
  BY <1>1 DEF Moves, TokenMoves, Appears
<1>4. ASSUME NEW k \in Tokens, token'[k].of # NoToken
      PROVE  \/ Issued(k) /\ token'[k].of = token[k].of
             \/ /\ ~Issued(k) /\ token'[k] # token[k]
                /\ token'[k].of \in Tokens /\ ~token[token'[k].of].used /\ token'[token'[k].of].used
  <2>1. CASE Issued(k)
    BY <1>3, <2>1 DEF Grows
  <2>2. CASE ~Issued(k)
    <3>1. token[k].of = NoToken
      BY <2>2 DEF Existing, Unissued
    <3>2. PICK s \in Sessions, q \in Tokens \cup {NoToken} : Appears(k, s, q)
      BY <1>1, <1>4, <2>2, <3>1 DEF Moves, TokenMoves
    <3>3. token'[k].of = q
      BY <3>2 DEF Appears, Minted
    <3> QED BY <1>4, <2>2, <3>1, <3>2, <3>3 DEF Appears, Claimable
  <2> QED BY <2>1, <2>2
<1>5. ExchangedIsUsed'
  <2> SUFFICES ASSUME NEW k \in Tokens, token'[k].of # NoToken
               PROVE  token'[k].of \in Tokens /\ token'[token'[k].of].used
    BY DEF ExchangedIsUsed
  <2> QED BY <1>2, <1>3, <1>4 DEF ExchangedIsUsed, Grows
<1>6. TokenExchangedOnce'
  <2> SUFFICES ASSUME NEW k \in Tokens, NEW n \in Tokens, token'[k].of # NoToken,
                      token'[k].of = token'[n].of
               PROVE  k = n
    BY DEF TokenExchangedOnce
  <2>1. CASE Issued(k) /\ Issued(n)
    BY <1>4, <2>1 DEF TokenExchangedOnce
  <2>2. CASE ~Issued(k) /\ ~Issued(n)
    BY <1>1, <1>4, <2>2 DEF Moves, OneAppears
  <2>3. CASE ~(Issued(k) <=> Issued(n))
    BY <1>4, <2>3 DEF ExchangedIsUsed
  <2> QED BY <2>1, <2>2, <2>3
<1> QED BY <1>5, <1>6

-----------------------------------------------------------------------------
(* Who uses a token, revokes it, or ends a session                         *)
Stopped(s) == session[s] \in {"ORDERLY", "REUSE"}
Doubted(s) == s \in excused \/ \E k \in Tokens : token[k].session = s /\ shown[k] = 2

Causes ==
    /\ \A k \in Tokens : token'[k].used /\ ~token[k].used =>
            \E c \in Calls : At(c, "CLAIM") /\ call[c].token = k /\ ~At(c, "CLAIM")'
    /\ \A k \in Tokens : token'[k].revoked /\ ~token[k].revoked =>
            \/ session'[token[k].session] \in {"ORDERLY", "REUSE"}
            \/ token[k].session \in excused'
    /\ \A s \in Sessions : session'[s] = "REUSE" /\ session[s] # "REUSE" =>
            session[s] = "LIVE" /\ \E c \in Calls : At(c, "REUSE") /\ call[c].session = s
    /\ \A k \in Tokens : Issued(k) /\ session'[token[k].session] = "ORDERLY"
                              /\ session[token[k].session] # "ORDERLY" => token'[k].revoked
    /\ \A k \in Tokens : shown'[k] \in {shown[k], Twice(shown[k])}
    /\ excused \subseteq excused'

LEMMA CausesSame ==
    ASSUME TypeOK, UNCHANGED <<session, token>>, excused \subseteq excused',
           shown' = shown \/ \E k \in Tokens : shown' = [shown EXCEPT ![k] = Twice(@)]
    PROVE  Causes
BY DEF TypeOK, Causes

LEMMA EndCauses ==
    ASSUME TypeOK, Existing, NEW S \in SUBSET Sessions, EndSessions(S), UNCHANGED <<shown, excused>>
    PROVE  Causes
<1>1. ASSUME NEW s \in Sessions
      PROVE  session'[s] = IF s \in S /\ session[s] = "LIVE" THEN "ORDERLY" ELSE session[s]
  BY DEF EndSessions, Ended
<1>2. ASSUME NEW k \in Tokens
      PROVE  /\ token'[k].used = token[k].used
             /\ token[k].session \in S => token'[k].revoked
             /\ token[k].session \notin S => token'[k] = token[k]
  <2>1. token'[k] = IF token[k].session \in S THEN [token[k] EXCEPT !.revoked = TRUE]
                                               ELSE token[k]
    BY DEF EndSessions, Revoked
  <2> QED BY <2>1 DEF TypeOK, TokenRecord
<1>3. ASSUME NEW k \in Tokens, token[k].session \in S
      PROVE  session'[token[k].session] \in {"ORDERLY", "REUSE"}
  <2>1. session[token[k].session] \in SessionState \ {"NONE"}
    BY <1>3, SessionsAssumption DEF TypeOK, Existing, Issued
  <2> QED BY <1>1, <1>3, <2>1 DEF SessionState
<1>4. ASSUME NEW k \in Tokens, Issued(k) PROVE token[k].session \in Sessions
  BY <1>4 DEF TypeOK, TokenRecord, Issued
<1> QED BY <1>1, <1>2, <1>3, <1>4 DEF Causes, TypeOK

LEMMA NextCauses ==
    ASSUME TypeOK, Existing, Next
    PROVE  Causes
<1>1. ASSUME NEW c \in Calls, OpenSession(c) PROVE Causes
  <2>1. PICK s \in Sessions : session[s] = "NONE" /\ session' = [session EXCEPT ![s] = "LIVE"]
    BY <1>1 DEF OpenSession
  <2> QED BY <1>1, <2>1 DEF OpenSession, past, Causes, TypeOK, TokenRecord, Issued
<1>2. ASSUME NEW c \in Calls, FirstToken(c) PROVE Causes
  <2>1. PICK k \in Tokens : /\ ~Issued(k)
                            /\ token' = [token EXCEPT ![k] = Minted(k, call[c].session, NoToken)]
    BY <1>2 DEF FirstToken, Fresh
  <2>2. \A n \in Tokens : IF n = k THEN ~token'[n].used /\ ~token'[n].revoked
                                   ELSE token'[n] = token[n]
    BY <2>1 DEF TypeOK, Minted
  <2> QED BY <1>2, <2>1, <2>2 DEF FirstToken, past, Causes, TypeOK
<1>3. ASSUME NEW c \in Calls, Rotate(c) PROVE Causes
  <2> DEFINE p == call[c].token
  <2>1. PICK k \in Tokens : /\ ~Issued(k)
          /\ token' = [token EXCEPT ![p].used = TRUE, ![k] = Minted(k, token[p].session, p)]
    BY <1>3 DEF Rotate, Fresh
  <2>2. p \in Tokens /\ p # k /\ At(c, "CLAIM")
    BY <1>3, <2>1, SessionsAssumption DEF Rotate, Existing, At, Issued
  <2>3. ~At(c, "CLAIM")'
    BY <1>3 DEF Rotate, Goes, At, Idle, TypeOK
  <2>4. \A n \in Tokens : IF n = k THEN ~token'[n].used /\ ~token'[n].revoked
                          ELSE /\ token'[n].revoked = token[n].revoked
                               /\ n # p => token'[n] = token[n]
    BY <2>1, <2>2 DEF TypeOK, Minted, TokenRecord
  <2> QED BY <1>3, <2>1, <2>2, <2>3, <2>4 DEF Rotate, past, Causes, TypeOK
<1>4. ASSUME NEW c \in Calls, EndFamily(c) PROVE Causes
  <2>1. session' = [s \in Sessions |-> IF s = call[c].session /\ session[s] = "LIVE"
                                       THEN "REUSE" ELSE session[s]]
    BY <1>4 DEF EndFamily, Ended
  <2> QED BY <1>4, <2>1 DEF EndFamily, past, Causes, TypeOK, TokenRecord, Issued
<1>5. ASSUME NEW c \in Calls, Block(c) PROVE Causes
  BY <1>5, EndCauses DEF Block, Existing, At, past
<1>6. ASSUME NEW k \in Tokens, SignOut(k) PROVE Causes
  BY <1>6, EndCauses DEF SignOut, Issued, TypeOK, TokenRecord, past
<1>7. ASSUME NEW c \in Calls, NEW s \in Sessions, EndPicked(c, s) PROVE Causes
  BY <1>7, EndCauses DEF EndPicked, past
<1>8. ASSUME NEW c \in Calls, ChangePassword(c) PROVE Causes
  <2> DEFINE own == call[c].session
  <2>1. PICK k \in Tokens : /\ ~Issued(k)
                            /\ token' = [Revoked(Sessions) EXCEPT ![k] = Minted(k, own, NoToken)]
    BY <1>8 DEF ChangePassword, Fresh
  <2>2. own \in excused' /\ excused \subseteq excused' /\ shown' = shown
    BY <1>8 DEF ChangePassword
  <2>3. ASSUME NEW s \in Sessions
        PROVE  session'[s] = IF s # own /\ session[s] = "LIVE" THEN "ORDERLY" ELSE session[s]
    BY <1>8 DEF ChangePassword, Ended
  <2>4. ASSUME NEW n \in Tokens
        PROVE  IF n = k THEN ~token'[n].used /\ ~token'[n].revoked
               ELSE token'[n].used = token[n].used /\ (Issued(n) => token'[n].revoked)
                    /\ (~Issued(n) => token'[n] = token[n])
    <3>1. CASE n = k
      BY <2>1, <3>1 DEF Minted, Revoked
    <3>2. CASE n # k
      <4>1. token'[n] = IF token[n].session \in Sessions
                        THEN [token[n] EXCEPT !.revoked = TRUE] ELSE token[n]
        BY <2>1, <3>2 DEF Revoked
      <4> QED BY <3>2, <4>1, SessionsAssumption DEF TypeOK, TokenRecord, Issued
    <3> QED BY <3>1, <3>2
  <2>5. ASSUME NEW n \in Tokens, Issued(n)
        PROVE  /\ token[n].session \in Sessions
               /\ session[token[n].session] \in SessionState \ {"NONE"}
    BY <2>5 DEF Existing, TypeOK, TokenRecord, Issued
  <2> QED BY <2>1, <2>2, <2>3, <2>4, <2>5 DEF Causes, SessionState, TypeOK
<1>9. ASSUME NEW c \in Calls, NEW l \in Links, ResetPassword(c, l) PROVE Causes
  BY <1>9, EndCauses, CausesSame DEF ResetPassword
<1>10. ASSUME Administer PROVE Causes
  BY <1>10, EndCauses, CausesSame DEF Administer, past
<1>11. ASSUME NEW c \in Calls, NEW k \in Tokens, FindToken(c, k) PROVE Causes
  BY <1>11, CausesSame DEF FindToken, rows
<1>12. ASSUME NEW c \in Calls, Lapses(c) PROVE Causes
  BY <1>12, CausesSame DEF Lapses, rows
<1>13. CASE UNCHANGED <<session, token, past>>
  BY <1>13, CausesSame DEF past
<1> QED
  BY <1>1, <1>2, <1>3, <1>4, <1>5, <1>6, <1>7, <1>8, <1>9, <1>10, <1>11, <1>12, <1>13
  DEF Next, SignInNext, RefreshNext, EndNext, PasswordNext, SignIn, NotRotated, PickSessions,
      VerifyOld, FindOpenLinks, ReplaceLinks, FindLink, Stops, rows

-----------------------------------------------------------------------------
(* What is known of tokens that were found, used or revoked                *)
ClaimOf(c, k) == At(c, "CLAIM") /\ call[c].token = k

Found ==
    /\ \A k \in Tokens : token[k].used => shown[k] # 0
    /\ \A c \in Calls, k \in Tokens : ClaimOf(c, k) => shown[k] # 0
    /\ \A c \in Calls, k \in Tokens : ClaimOf(c, k) /\ token[k].used => shown[k] = 2
    /\ \A c, d \in Calls, k \in Tokens : ClaimOf(c, k) /\ ClaimOf(d, k) /\ c # d => shown[k] = 2

(* A claim comes from an earlier claim or from finding the token now       *)
LEMMA ClaimMoves ==
    ASSUME TypeOK, Existing, Next, NEW c \in Calls, NEW k \in Tokens, ClaimOf(c, k)'
    PROVE  \/ ClaimOf(c, k)
           \/ /\ ~At(c, "CLAIM") /\ LiveToken(k) /\ ~token[k].used
              /\ shown' = [shown EXCEPT ![k] = Twice(@)]
              /\ \A d \in Calls \ {c} : call'[d] = call[d]
BY CallsMove DEF CallMoves, ClaimOf, At

LEMMA FoundStep ==
    ASSUME TypeOK, Existing, Next, Found
    PROVE  Found'
<1>1. Causes
  BY NextCauses
<1>2. ASSUME NEW k \in Tokens
      PROVE  /\ shown[k] # 0 => shown'[k] # 0
             /\ shown[k] = 2 => shown'[k] = 2
  BY <1>1 DEF Causes, Twice
<1>3. ASSUME NEW k \in Tokens, token'[k].used, ~token[k].used
      PROVE  \E c \in Calls : ClaimOf(c, k) /\ ~At(c, "CLAIM")'
  BY <1>1, <1>3 DEF Causes, ClaimOf
<1>4. \A k \in Tokens : token'[k].used => shown'[k] # 0
  BY <1>2, <1>3 DEF Found
<1>5. \A c \in Calls, k \in Tokens : ClaimOf(c, k)' => shown'[k] # 0
  <2> SUFFICES ASSUME NEW c \in Calls, NEW k \in Tokens, ClaimOf(c, k)' PROVE shown'[k] # 0
    OBVIOUS
  <2>1. CASE ClaimOf(c, k)
    BY <1>2, <2>1 DEF Found
  <2>2. CASE shown' = [shown EXCEPT ![k] = Twice(@)]
    BY <2>2 DEF TypeOK, Twice
  <2> QED BY <2>1, <2>2, ClaimMoves
<1>6. \A c \in Calls, k \in Tokens : ClaimOf(c, k)' /\ token'[k].used => shown'[k] = 2
  <2> SUFFICES ASSUME NEW c \in Calls, NEW k \in Tokens, ClaimOf(c, k)', token'[k].used
               PROVE  shown'[k] = 2
    OBVIOUS
  <2>1. ASSUME NEW d \in Calls, ClaimOf(d, k), d # c PROVE shown'[k] = 2
    <3>1. CASE ClaimOf(c, k)
      BY <1>2, <2>1, <3>1 DEF Found
    <3>2. CASE shown' = [shown EXCEPT ![k] = Twice(@)]
      BY <2>1, <3>2 DEF Found, TypeOK, Twice
    <3> QED BY <3>1, <3>2, ClaimMoves
  <2>2. CASE token[k].used
    <3>1. ClaimOf(c, k)
      BY <2>2, ClaimMoves
    <3> QED BY <1>2, <2>2, <3>1 DEF Found
  <2>3. CASE ~token[k].used
    <3>1. PICK d \in Calls : ClaimOf(d, k) /\ ~At(d, "CLAIM")'
      BY <1>3, <2>3
    <3>2. d # c
      BY <3>1 DEF ClaimOf
    <3> QED BY <2>1, <3>1, <3>2
  <2> QED BY <2>2, <2>3
<1>7. \A c, d \in Calls, k \in Tokens : ClaimOf(c, k)' /\ ClaimOf(d, k)' /\ c # d => shown'[k] = 2
  <2> SUFFICES ASSUME NEW c \in Calls, NEW d \in Calls, NEW k \in Tokens,
                      ClaimOf(c, k)', ClaimOf(d, k)', c # d
               PROVE  shown'[k] = 2
    OBVIOUS
  <2>1. CASE ClaimOf(c, k) /\ ClaimOf(d, k)
    BY <1>2, <2>1 DEF Found
  <2>2. ASSUME NEW a \in Calls, NEW b \in Calls, a # b, ClaimOf(b, k)',
               shown' = [shown EXCEPT ![k] = Twice(@)],
               \A e \in Calls \ {a} : call'[e] = call[e]
        PROVE  shown'[k] = 2
    <3>1. ClaimOf(b, k)
      BY <2>2 DEF ClaimOf, At
    <3>2. shown[k] # 0
      BY <3>1 DEF Found
    <3> QED BY <2>2, <3>2 DEF TypeOK, Twice
  <2>3. CASE ~ClaimOf(c, k)
    BY <2>2, <2>3, ClaimMoves
  <2>4. CASE ~ClaimOf(d, k)
    BY <2>2, <2>4, ClaimMoves
  <2> QED BY <2>1, <2>3, <2>4
<1> QED BY <1>4, <1>5, <1>6, <1>7 DEF Found

-----------------------------------------------------------------------------
(* Why a token may be revoked, and why a request may end a session as one  *)
(* that was reused                                                         *)
Known ==
    /\ \A k \in Tokens : token[k].revoked =>
            Stopped(token[k].session) \/ token[k].session \in excused
    /\ \A c \in Calls : At(c, "REUSE") => Stopped(call[c].session) \/ Doubted(call[c].session)

LEMMA DoubtStays ==
    ASSUME TypeOK, Existing, Next, NEW s \in Sessions
    PROVE  (Stopped(s) => Stopped(s)') /\ (Doubted(s) => Doubted(s)')
<1>1. Moves /\ Causes
  BY NextMoves, NextCauses
<1>2. Stopped(s) => Stopped(s)'
  BY <1>1 DEF Moves, SessionMoves, Stopped
<1>3. ASSUME NEW k \in Tokens, token[k].session = s, shown[k] = 2
      PROVE  token'[k].session = s /\ shown'[k] = 2
  <2>1. Issued(k)
    BY <1>3, SessionsAssumption DEF Issued
  <2> QED BY <1>1, <1>3, <2>1 DEF Moves, TokenMoves, Grows, Appears, Causes, Twice
<1> QED BY <1>1, <1>2, <1>3 DEF Doubted, Causes

LEMMA KnownStep ==
    ASSUME TypeOK, Existing, Next, Found, Known
    PROVE  Known'
<1>1. Moves /\ Causes
  BY NextMoves, NextCauses
<1>2. ASSUME NEW k \in Tokens, token'[k].revoked
      PROVE  (Stopped(token[k].session) \/ token[k].session \in excused)'
  <2>1. Issued(k) /\ Grows(k)
    <3>1. CASE ~Issued(k)
      <4>1. ~token[k].revoked
        BY <3>1 DEF Existing, Unissued
      <4>2. TokenMoves(k)
        BY <1>1 DEF Moves
      <4>3. token'[k] # token[k]
        BY <1>2, <4>1
      <4>4. PICK s \in Sessions, p \in Tokens \cup {NoToken} : token'[k] = Minted(k, s, p)
        BY <3>1, <4>2, <4>3 DEF TokenMoves, Appears
      <4> QED BY <1>2, <4>4 DEF Minted
    <3>2. CASE Issued(k)
      BY <1>1, <3>2 DEF Moves, TokenMoves, Appears
    <3> QED BY <3>1, <3>2
  <2>2. token'[k].session = token[k].session /\ token[k].session \in Sessions
    BY <2>1 DEF Grows, Issued, TypeOK, TokenRecord
  <2>3. CASE token[k].revoked
    <3>1. Stopped(token[k].session) => session'[token[k].session] \in {"ORDERLY", "REUSE"}
      BY <1>1, <2>2 DEF Stopped, Moves, SessionMoves
    <3> QED BY <1>1, <2>2, <2>3, <3>1 DEF Known, Stopped, Causes
  <2>4. CASE ~token[k].revoked
    BY <1>1, <1>2, <2>2, <2>4 DEF Causes, Stopped
  <2> QED BY <2>3, <2>4
<1>3. ASSUME NEW c \in Calls, At(c, "REUSE")'
      PROVE  (Stopped(call[c].session) \/ Doubted(call[c].session))'
  <2>1. PICK s \in Sessions : s = call'[c].session
    BY <1>3, ExistingStep DEF Existing, At
  <2> SUFFICES Stopped(s)' \/ Doubted(s)'
    BY <2>1 DEF Stopped, Doubted
  <2>2. CASE call'[c] = call[c]
    <3>1. Stopped(s) \/ Doubted(s)
      BY <1>3, <2>1, <2>2 DEF Known, At
    <3> QED BY <3>1, DoubtStays
  <2>3. CASE /\ At(c, "REST") /\ call'[c].token \in Tokens /\ LiveToken(call'[c].token)
             /\ call'[c].session = token[call'[c].token].session
             /\ token[call'[c].token].used
             /\ shown' = [shown EXCEPT ![call'[c].token] = Twice(@)]
    <3>1. shown[call'[c].token] # 0
      BY <2>3 DEF Found
    <3>2. shown'[call'[c].token] = 2
      BY <2>3, <3>1 DEF TypeOK, Twice
    <3>3. token'[call'[c].token].session = s
      BY <1>1, <2>1, <2>3 DEF Moves, TokenMoves, Grows, Appears, LiveToken
    <3> QED BY <2>3, <3>2, <3>3 DEF Doubted
  <2>4. CASE At(c, "CLAIM") /\ call'[c].session = call[c].session /\ ~Claimable(call[c].token)
    <3> DEFINE k == call[c].token
    <3>1. k \in Tokens /\ token[k].session = s
      BY <2>1, <2>4 DEF Existing
    <3>2. CASE token[k].used
      BY <2>4, <3>1, <3>2, DoubtStays DEF Found, ClaimOf, Doubted
    <3>3. CASE token[k].revoked
      BY <3>1, <3>3, DoubtStays DEF Known, Doubted
    <3> QED BY <2>4, <3>2, <3>3 DEF Claimable
  <2>5. CASE At(c, "CLAIM") /\ call'[c].session = call[c].session /\ call[c].session \in excused'
    BY <2>1, <2>5 DEF Doubted
  <2>6. CallMoves(c)
    BY CallsMove
  <2> QED BY <1>3, <2>2, <2>3, <2>4, <2>5, <2>6 DEF CallMoves, At
<1> QED BY <1>2, <1>3 DEF Known

LEMMA ReuseStep ==
    ASSUME TypeOK, Existing, Next, Known, ReuseMeansReplay
    PROVE  ReuseMeansReplay'
<1> SUFFICES ASSUME NEW s \in Sessions, session'[s] = "REUSE" PROVE Doubted(s)'
  BY DEF ReuseMeansReplay, Doubted
<1>1. CASE session[s] = "REUSE"
  BY <1>1, DoubtStays DEF ReuseMeansReplay, Doubted
<1>2. CASE session[s] # "REUSE"
  <2>1. session[s] = "LIVE" /\ \E c \in Calls : At(c, "REUSE") /\ call[c].session = s
    BY <1>2, NextCauses DEF Causes
  <2> QED BY <2>1, DoubtStays DEF Known, Stopped
<1> QED BY <1>1, <1>2

-----------------------------------------------------------------------------
(* A claim in a session that was ended in order is bound to fail           *)
ClaimsEnd ==
    \A c \in Calls, k \in Tokens :
        ClaimOf(c, k) /\ session[token[k].session] = "ORDERLY" => token[k].revoked

LEMMA ClaimsEndStep ==
    ASSUME TypeOK, Existing, Next, ClaimsEnd
    PROVE  ClaimsEnd'
<1> SUFFICES ASSUME NEW c \in Calls, NEW k \in Tokens, ClaimOf(c, k)',
                    session'[token'[k].session] = "ORDERLY"
             PROVE  token'[k].revoked
  BY DEF ClaimsEnd
<1>1. Moves /\ Causes
  BY NextMoves, NextCauses
<1>2. Issued(k)
  <2>1. CASE ClaimOf(c, k)
    <3>1. token[k].session \in Sessions
      BY <2>1 DEF Existing, ClaimOf, At
    <3> QED BY <3>1, SessionsAssumption DEF Issued
  <2>2. CASE ~ClaimOf(c, k)
    BY <2>2, ClaimMoves DEF LiveToken
  <2> QED BY <2>1, <2>2
<1>3. Grows(k)
  BY <1>1, <1>2 DEF Moves, TokenMoves, Appears
<1>4. CASE session[token[k].session] = "ORDERLY"
  <2>1. ClaimOf(c, k)
    BY <1>4, ClaimMoves DEF LiveToken
  <2> QED BY <1>3, <1>4, <2>1 DEF ClaimsEnd, Grows
<1>5. CASE session[token[k].session] # "ORDERLY"
  BY <1>1, <1>2, <1>3, <1>5 DEF Causes, Grows
<1> QED BY <1>4, <1>5

LEMMA RotationStep ==
    ASSUME TypeOK, Existing, ClaimsEnd, Next, NEW k \in Tokens, ~Issued(k), token'[k].of # NoToken
    PROVE  session[token'[k].session] # "ORDERLY"
<1>1. token[k].of = NoToken
  BY DEF Existing, Unissued
<1>2. PICK s \in Sessions, p \in Tokens \cup {NoToken} : Appears(k, s, p)
  BY <1>1, NextMoves DEF Moves, TokenMoves
<1>3. token'[k].session = s /\ p # NoToken
  BY <1>2 DEF Appears, Minted
<1> QED BY <1>2, <1>3 DEF Appears, ClaimsEnd, ClaimOf, Claimable

-----------------------------------------------------------------------------
(* A link that has set a password is used up                               *)
LinksSpent == \A l \in Links : resets[l] # 0 => link[l] = "USED" /\ resets[l] = 1

LEMMA LinksStep ==
    ASSUME TypeOK, Next, LinksSpent
    PROVE  LinksSpent'
<1>1. ASSUME NEW c \in Calls, NEW l \in Links, ResetPassword(c, l) PROVE LinksSpent'
  BY <1>1 DEF ResetPassword, LinkClaimable, LinksSpent, TypeOK, Twice
<1>2. ASSUME NEW c \in Calls, ReplaceLinks(c) PROVE LinksSpent'
  BY <1>2 DEF ReplaceLinks, LinksSpent, TypeOK, past
<1>3. CASE UNCHANGED <<link, resets>>
  BY <1>3 DEF LinksSpent
<1> QED
  BY <1>1, <1>2, <1>3
  DEF Next, SignInNext, RefreshNext, EndNext, PasswordNext, SignIn, OpenSession, FirstToken,
      FindToken, Rotate, NotRotated, Lapses, EndFamily, Block, SignOut, PickSessions, EndPicked,
      VerifyOld, ChangePassword, FindOpenLinks, FindLink, Administer, Stops, rows, past

-----------------------------------------------------------------------------
(* The inductive invariant: what the properties say, with what makes them  *)
(* last.  TokenExchangedOnce needs that an exchanged token is used;        *)
(* ReuseMeansReplay needs what a request that found or failed to claim a   *)
(* token knows of its session (Found, Known); and that no token appears    *)
(* in a session that was ended needs that ending a session revoked what    *)
(* the open claims hold (ClaimsEnd).                                       *)
IInv == /\ TypeOK /\ Existing
        /\ ExchangedIsUsed /\ TokenExchangedOnce
        /\ Found /\ Known /\ ReuseMeansReplay
        /\ ClaimsEnd /\ LinksSpent

LEMMA InitIInv == Init => IInv
<1> SUFFICES ASSUME Init PROVE IInv
  OBVIOUS
<1>1. TypeOK
  BY SessionsAssumption, IdleTyped DEF Init, TypeOK, SessionState, TokenRecord, Unissued
<1>2. \A c \in Calls : ~At(c, "CLAIM") /\ ~At(c, "REUSE") /\ call[c].pc = "REST"
  BY DEF Init, At, Idle
<1>3. \A k \in Tokens : token[k] = Unissued /\ ~Issued(k)
  BY DEF Init, Unissued, Issued
<1>4. Existing
  BY <1>2, <1>3 DEF Existing
<1>5. ExchangedIsUsed /\ TokenExchangedOnce
  BY <1>3 DEF ExchangedIsUsed, TokenExchangedOnce, Unissued
<1>6. Found /\ Known /\ ClaimsEnd
  BY <1>2, <1>3 DEF Found, Known, ClaimsEnd, ClaimOf, Unissued
<1>7. ReuseMeansReplay /\ LinksSpent
  BY DEF Init, ReuseMeansReplay, LinksSpent
<1> QED BY <1>1, <1>4, <1>5, <1>6, <1>7 DEF IInv

LEMMA StutterIInv == IInv /\ UNCHANGED vars => IInv'
<1> SUFFICES ASSUME IInv, UNCHANGED vars PROVE IInv'
  OBVIOUS
<1>1. TypeOK' /\ Existing'
  BY DEF IInv, vars, rows, past, TypeOK, Existing, Issued, At
<1>2. ExchangedIsUsed' /\ TokenExchangedOnce' /\ ReuseMeansReplay' /\ LinksSpent'
  BY DEF IInv, vars, rows, past, ExchangedIsUsed, TokenExchangedOnce, ReuseMeansReplay, LinksSpent
<1>3. Found' /\ Known' /\ ClaimsEnd'
  BY DEF IInv, vars, rows, past, Found, Known, ClaimsEnd, ClaimOf, At, Stopped, Doubted
<1> QED BY <1>1, <1>2, <1>3 DEF IInv

LEMMA StepIInv == IInv /\ [Next]_vars => IInv'
<1> SUFFICES ASSUME IInv, [Next]_vars PROVE IInv'
  OBVIOUS
<1>1. CASE UNCHANGED vars
  BY <1>1, StutterIInv
<1>2. CASE Next
  BY <1>2, TypedStep, ExistingStep, ExchangeStep, FoundStep, KnownStep, ReuseStep, ClaimsEndStep,
     LinksStep DEF IInv
<1> QED BY <1>1, <1>2

LEMMA Invariant == Spec => []IInv
BY InitIInv, StepIInv, PTL DEF Spec

-----------------------------------------------------------------------------
(* The state of every request is one it can be in                          *)
THEOREM SessionsTyped == Spec => []TypeOK
<1>1. IInv => TypeOK
  BY DEF IInv
<1> QED BY <1>1, Invariant, PTL

(* A refresh token is exchanged once, whatever runs at the same time       *)
THEOREM ExchangedOnce == Spec => []TokenExchangedOnce
<1>1. IInv => TokenExchangedOnce
  BY DEF IInv
<1> QED BY <1>1, Invariant, PTL

(* A session recorded as reused had a token presented twice, expired under *)
(* way or replaced                                                         *)
THEOREM ReuseJustified == Spec => []ReuseMeansReplay
<1>1. IInv => ReuseMeansReplay
  BY DEF IInv
<1> QED BY <1>1, Invariant, PTL

(* A reset link sets a password at most once                               *)
THEOREM LinkOnce == Spec => []LinkUsedOnce
<1>1. IInv => LinkUsedOnce
  BY DEF IInv, LinksSpent, LinkUsedOnce
<1> QED BY <1>1, Invariant, PTL

(* No refresh hands out a token in a session that was ended in order       *)
THEOREM RotationStops == Spec => RotationStopsWithSession
<1> DEFINE Stays == \A k \in Tokens : ~Issued(k) /\ token'[k].of # NoToken =>
                        session[token'[k].session] # "ORDERLY"
<1>1. IInv /\ [Next]_vars => [Stays]_vars
  BY RotationStep DEF IInv
<1> QED BY <1>1, Invariant, PTL DEF Spec, RotationStopsWithSession

-----------------------------------------------------------------------------
(* The refinement: what a step does to the rows is one step of SessionRows *)
StateMap == [s \in Sessions |-> RowState(s)]
OwnerMap == [k \in Tokens |-> token[k].session]

LEMMA EndedMaps ==
    ASSUME TypeOK, NEW S, NEW why \in {"ORDERLY", "REUSE"}, session' = Ended(S, why)
    PROVE  StateMap' = Rows!EndedIn(S)
<1>1. ASSUME NEW s \in Sessions
      PROVE  RowState(s)' = IF s \in S /\ RowState(s) = "LIVE" THEN "ENDED" ELSE RowState(s)
  <2>1. session'[s] = IF s \in S /\ session[s] = "LIVE" THEN why ELSE session[s]
    BY DEF Ended
  <2>2. session[s] \in SessionState
    BY DEF TypeOK
  <2> QED BY <2>1, <2>2 DEF RowState, SessionState
<1> QED BY <1>1 DEF StateMap, Rows!EndedIn

LEMMA RevokedMaps ==
    ASSUME TypeOK, NEW S, token' = Revoked(S)
    PROVE  OwnerMap' = OwnerMap
<1>1. \A k \in Tokens : token'[k].session = token[k].session
  BY DEF TypeOK, Revoked, TokenRecord
<1> QED BY <1>1 DEF OwnerMap

LEMMA EndMaps ==
    ASSUME TypeOK, NEW S \in SUBSET Sessions, EndSessions(S), UNCHANGED active
    PROVE  Rows!End(S)
BY EndedMaps, RevokedMaps DEF EndSessions, Rows!End, StateMap, OwnerMap

LEMMA IssueMaps ==
    ASSUME TypeOK, NEW S \in SUBSET Sessions, NEW k \in Tokens, NEW s \in Sessions,
           ~Issued(k), session[s] # "NONE", StateMap' = Rows!EndedIn(S), active' = active,
           token'[k].session = s, \A n \in Tokens \ {k} : token'[n].session = token[n].session
    PROVE  Rows!RowsNext
<1>1. OwnerMap[k] = NoSession
  BY DEF OwnerMap, Issued
<1>2. StateMap[s] # "NONE"
  BY DEF StateMap, RowState, TypeOK, SessionState
<1>3. OwnerMap' = [OwnerMap EXCEPT ![k] = s]
  BY DEF OwnerMap
<1>4. Rows!Issue(S, k, s)
  BY <1>1, <1>2, <1>3 DEF Rows!Issue, StateMap, OwnerMap
<1>5. \E n \in Tokens, r \in Sessions : Rows!Issue(S, n, r)
  BY <1>4
<1> QED BY <1>5 DEF Rows!RowsNext, Rows!SessionRequests

LEMMA SameRows ==
    ASSUME UNCHANGED <<active, session, token>>
    PROVE  UNCHANGED Rows!rowsVars
BY DEF Rows!rowsVars, RowState

LEMMA NobodyEnds == ASSUME TypeOK, UNCHANGED session PROVE StateMap' = Rows!EndedIn({})
BY DEF StateMap, RowState, Rows!EndedIn

LEMMA RowsStep ==
    ASSUME TypeOK, Existing, Next
    PROVE  [Rows!RowsNext]_(Rows!rowsVars)
<1> USE DEF Rows!RowsNext, Rows!SessionRequests
<1>1. ASSUME NEW c \in Calls, OpenSession(c) PROVE Rows!RowsNext
  <2>1. PICK s \in Sessions : session[s] = "NONE" /\ session' = [session EXCEPT ![s] = "LIVE"]
    BY <1>1 DEF OpenSession
  <2>2. StateMap[s] = "NONE" /\ StateMap' = [StateMap EXCEPT ![s] = "LIVE"]
    BY <2>1 DEF StateMap, RowState, TypeOK
  <2>3. Rows!Open(s)
    BY <1>1, <2>2 DEF OpenSession, Rows!Open, StateMap
  <2> QED BY <2>3
<1>2. ASSUME NEW c \in Calls, FirstToken(c) PROVE Rows!RowsNext
  <2>1. PICK k \in Fresh : token' = [token EXCEPT ![k] = Minted(k, call[c].session, NoToken)]
    BY <1>2 DEF FirstToken
  <2>2. /\ k \in Tokens /\ ~Issued(k) /\ UNCHANGED <<active, session>>
        /\ call[c].session \in Sessions /\ session[call[c].session] # "NONE"
    BY <1>2 DEF FirstToken, Fresh, Existing, At
  <2>3. /\ token'[k].session = call[c].session
        /\ \A n \in Tokens \ {k} : token'[n].session = token[n].session
    BY <2>1, <2>2 DEF TypeOK, Minted
  <2>4. StateMap' = Rows!EndedIn({})
    BY <2>2, NobodyEnds
  <2>5. {} \in SUBSET Sessions
    OBVIOUS
  <2> QED BY <2>2, <2>3, <2>4, <2>5, IssueMaps
<1>3. ASSUME NEW c \in Calls, Rotate(c) PROVE Rows!RowsNext
  <2> DEFINE p == call[c].token
  <2>1. PICK k \in Fresh :
          token' = [token EXCEPT ![p].used = TRUE, ![k] = Minted(k, token[p].session, p)]
    BY <1>3 DEF Rotate
  <2>2. /\ k \in Tokens /\ ~Issued(k) /\ UNCHANGED <<active, session>>
        /\ p \in Tokens /\ token[p].session = call[c].session
        /\ call[c].session \in Sessions /\ session[call[c].session] # "NONE"
    BY <1>3 DEF Rotate, Fresh, Existing, At
  <2>3. p # k
    BY <2>2, SessionsAssumption DEF Issued
  <2>4. token'[k].session = call[c].session
    BY <2>1, <2>2, <2>3 DEF TypeOK, Minted
  <2>5. \A n \in Tokens \ {k} : token'[n].session = token[n].session
    BY <2>1, <2>2, <2>3 DEF TypeOK, TokenRecord
  <2>6. StateMap' = Rows!EndedIn({})
    BY <2>2, NobodyEnds
  <2>7. {} \in SUBSET Sessions
    OBVIOUS
  <2> QED BY <2>2, <2>4, <2>5, <2>6, <2>7, IssueMaps
<1>4. ASSUME NEW c \in Calls, EndFamily(c) PROVE Rows!RowsNext
  <2>1. StateMap' = Rows!EndedIn({call[c].session}) /\ call[c].session \in Sessions
    BY <1>4, EndedMaps DEF EndFamily, Existing, At
  <2>2. Rows!End({call[c].session})
    BY <1>4, <2>1 DEF EndFamily, Rows!End, StateMap
  <2> QED BY <2>1, <2>2
<1>5. ASSUME NEW c \in Calls, Block(c) PROVE Rows!RowsNext
  <2>1. call[c].session \in Sessions
    BY <1>5 DEF Block, Existing, At
  <2>2. Rows!End({call[c].session})
    BY <1>5, <2>1, EndMaps DEF Block
  <2> QED BY <2>1, <2>2
<1>6. ASSUME NEW k \in Tokens, SignOut(k) PROVE Rows!RowsNext
  <2>1. token[k].session \in Sessions
    BY <1>6 DEF SignOut, Issued, TypeOK, TokenRecord
  <2>2. Rows!End({token[k].session})
    BY <1>6, <2>1, EndMaps DEF SignOut
  <2> QED BY <2>1, <2>2
<1>7. ASSUME NEW c \in Calls, NEW s \in Sessions, EndPicked(c, s) PROVE Rows!RowsNext
  <2>1. Rows!End({s})
    BY <1>7, EndMaps DEF EndPicked
  <2> QED BY <2>1
<1>8. ASSUME NEW c \in Calls, ChangePassword(c) PROVE Rows!RowsNext
  <2> DEFINE own == call[c].session
             S   == Sessions \ {own}
  <2>1. own \in Sessions /\ session[own] # "NONE" /\ UNCHANGED active
    BY <1>8 DEF ChangePassword, Existing, At
  <2>2. StateMap' = Rows!EndedIn(S)
    BY <1>8, EndedMaps DEF ChangePassword
  <2>3. PICK n \in Fresh : token' = [Revoked(Sessions) EXCEPT ![n] = Minted(n, own, NoToken)]
    BY <1>8 DEF ChangePassword
  <2>4. n \in Tokens /\ ~Issued(n)
    BY <2>3 DEF Fresh
  <2>5. token'[n].session = own
    BY <2>3, <2>4 DEF Revoked, Minted
  <2>6. \A k \in Tokens \ {n} : token'[k].session = token[k].session
    BY <2>3, <2>4 DEF Revoked, TypeOK, TokenRecord
  <2>7. S \in SUBSET Sessions
    OBVIOUS
  <2> QED BY <2>1, <2>2, <2>4, <2>5, <2>6, <2>7, IssueMaps
<1>9. ASSUME NEW c \in Calls, NEW l \in Links, ResetPassword(c, l)
      PROVE  [Rows!RowsNext]_(Rows!rowsVars)
  <2>1. CASE LinkClaimable(l)
    <3>1. Rows!End(Sessions)
      BY <1>9, <2>1, EndMaps DEF ResetPassword
    <3> QED BY <3>1
  <2>2. CASE ~LinkClaimable(l)
    BY <1>9, <2>2, SameRows DEF ResetPassword
  <2> QED BY <2>1, <2>2
<1>10. CASE Administer
  <2>1. CASE active' /\ ~active
    BY <1>10, <2>1 DEF Administer, Rows!Administered, RowState
  <2>2. CASE ~(active' /\ ~active)
    <3>1. EndSessions(Sessions) /\ active' \in BOOLEAN
      BY <1>10, <2>2 DEF Administer
    <3>2. StateMap' = Rows!EndedIn(Sessions) /\ OwnerMap' = OwnerMap
      BY <3>1, EndedMaps, RevokedMaps DEF EndSessions
    <3> QED BY <2>2, <3>1, <3>2 DEF Rows!Administered, StateMap, OwnerMap
  <2> QED BY <2>1, <2>2
<1>11. CASE UNCHANGED <<active, session, token>>
  BY <1>11, SameRows
<1> QED
  BY <1>1, <1>2, <1>3, <1>4, <1>5, <1>6, <1>7, <1>8, <1>9, <1>10, <1>11
  DEF Next, SignInNext, RefreshNext, EndNext, PasswordNext, SignIn, FindToken, NotRotated, Lapses,
      PickSessions, VerifyOld, FindOpenLinks, ReplaceLinks, FindLink, Stops, rows, past

(* What the requests of the account do to its sessions and tokens is what  *)
(* SessionRows allows                                                      *)
THEOREM ImplementsRows == Spec => SessionsAreRows
<1>1. Init => Rows!RowsInit
  BY DEF Init, Rows!RowsInit, RowState, Unissued
<1>2. IInv /\ [Next]_vars => [Rows!RowsNext]_(Rows!rowsVars)
  <2>1. ASSUME UNCHANGED vars PROVE UNCHANGED Rows!rowsVars
    BY <2>1, SameRows DEF vars, rows
  <2> QED BY <2>1, RowsStep DEF IInv
<1> QED BY <1>1, <1>2, Invariant, PTL DEF Spec, SessionsAreRows, Rows!RowsSpec
=============================================================================
