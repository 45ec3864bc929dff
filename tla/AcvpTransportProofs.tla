------------------------ MODULE AcvpTransportProofs ------------------------
(***************************************************************************)
(* Proofs about a network call for every set of actions and every number   *)
(* of tokens the server issues: types, the bound on the exchanges, the     *)
(* freshness of the retried token, the report of what was accepted and the *)
(* refinement of AcvpCall.                                                 *)
(***************************************************************************)
EXTENDS AcvpTransport, TLAPS

\* What the rest of the proof needs of a reply: a 200 always means that the
\* request took effect, a 400 or a 401 that it did not, and "JWT expired" is
\* only said of an expired token.
LEMMA RepliesFacts ==
    \A r \in Replies :
        /\ r.code \in Codes
        /\ r.effect \in {0, 1}
        /\ r.code = "OK" => r.effect = 1
        /\ r.code \in {"BAD_REQ", "UNAUTH"} => r.effect = 0
        /\ r.code = "UNAUTH" /\ r.body = "jwt_expired" => jwt \in expired
<1> TAKE r \in Replies
<1>1. \/ r = Reply("NONE", "none", 0) \/ r = Reply("ERROR", "json", 0)
      \/ r = Reply("NONE", "none", 1) \/ r = Reply("ERROR", "json", 1)
      \/ r = Reply("UNAUTH", "other", 0)
      \/ r = Reply("UNAUTH", "jwt_expired", 0) /\ jwt \in expired
      \/ r = Reply("OK", "json", 1) \/ r = Reply("BAD_REQ", "json", 0)
      \/ r = Reply("UNAUTH", "jwt_mismatch", 0)
  BY DEF Replies, LostReplies
<1> QED
  BY <1>1 DEF Reply, Codes

\* The same for logins: a 200 always means that a token was issued.
LEMMA LoginRepliesFacts ==
    \A r \in LoginReplies :
        /\ r.code \in Codes
        /\ r.effect \in {0, 1}
        /\ r.code = "OK" => r.effect = 1
<1> TAKE r \in LoginReplies
<1>1. \/ r = Reply("NONE", "none", 0) \/ r = Reply("ERROR", "json", 0)
      \/ r = Reply("NONE", "none", 1) \/ r = Reply("ERROR", "json", 1)
      \/ r = Reply("BAD_REQ", "json", 0) \/ r = Reply("UNAUTH", "other", 0)
      \/ r = Reply("UNAUTH", "jwt_expired", 0)
      \/ \E b \in {"json", "malformed", "no_token", "long_token"} : r = Reply("OK", b, 1)
  BY DEF LoginReplies, LostReplies
<1> QED
  BY <1>1 DEF Reply, Codes

\* inspect_http_code reports SUCCESS for 200 only, UNSUPPORTED_OP for 400 only
\* and JWT_EXPIRED only for a 401 that says so.
LEMMA InspectFacts ==
    ASSUME NEW code \in Codes, NEW body
    PROVE  /\ inspect_http_code(code, body) \in Results
           /\ inspect_http_code(code, body) = "SUCCESS" => code = "OK"
           /\ inspect_http_code(code, body) = "UNSUPPORTED_OP" => code = "BAD_REQ"
           /\ inspect_http_code(code, body) = "JWT_EXPIRED"
                => code = "UNAUTH" /\ body = "jwt_expired"
BY DEF inspect_http_code, Results, Codes

----------------------------------------------------------------------------
\* The inductive invariant.  Until it ends, a call has had no effect; a refresh
\* runs only behind a 401 for a token that was present; and each stage of the
\* call has used up at most the exchanges before it.
Budget ==
    /\ pc = "exec" => exchanges = 0
    /\ pc = "put" => exchanges <= 1
    /\ pc \in {"build", "login"} => exchanges <= 2
    /\ pc = "exec2" => exchanges <= 3
    /\ pc = "put2" => exchanges <= 4
    /\ exchanges <= 5

NoEffectYet == pc \notin {"idle", "done"} => effects = 0

BehindRefresh ==
    /\ pc \in {"exec", "put", "exec2", "put2"} => act # "LOGIN"
    /\ pc = "put" => sent = jwt
    /\ pc \in {"build", "login"} /\ act # "LOGIN" => sent # NoToken /\ rc = "UNAUTH"
    /\ pc = "exec2" => rc = "UNAUTH"

TransportInv ==
    /\ TypeOK
    /\ Budget
    /\ NoEffectYet
    /\ BehindRefresh
    /\ RetryCarriesFreshToken

\* The initial states satisfy the invariant.
LEMMA TransportInvInit == Init => TransportInv
BY DEF Init, TransportInv, TypeOK, Budget, NoEffectYet, BehindRefresh,
       RetryCarriesFreshToken, NoToken, AllActions, Results, Codes

\* An exchange of the call's request keeps what only it may change typed, and
\* counts an effect exactly when the reply says so.
LEMMA ExchangeFacts ==
    ASSUME TransportInv, NEW r \in Replies, Exchange(r)
    PROVE  /\ effects' \in Nat /\ answer' \in Codes /\ exchanges' \in Nat
           /\ exchanges' = exchanges + 1
           /\ act' = act /\ jwt' = jwt /\ issued' = issued /\ expired' = expired
           /\ effects' = effects + r.effect
<1>1. r.effect \in {0, 1} /\ r.code \in Codes
  BY RepliesFacts
<1>2. effects \in Nat /\ exchanges \in Nat
  BY DEF TransportInv, TypeOK
<1> QED
  BY <1>1, <1>2 DEF Exchange

\* The first exchange.
LEMMA ExecuteKeepsInv ==
    ASSUME TransportInv, Execute
    PROVE  TransportInv'
<1>1. PICK r \in Replies :
        /\ Exchange(r)
        /\ rc' = r.code
        /\ IF act = "VS_RESP" /\ inspect_http_code(r.code, r.body) = "UNSUPPORTED_OP"
           THEN pc' = "put" /\ UNCHANGED result
           ELSE Peek(r)
  BY DEF Execute
<1>2. pc = "exec" /\ sent' = jwt
  BY DEF Execute
<1>3. /\ r.code \in Codes
      /\ r.code \in {"BAD_REQ", "UNAUTH"} => r.effect = 0
      /\ r.code = "UNAUTH" /\ r.body = "jwt_expired" => jwt \in expired
  BY RepliesFacts
<1> DEFINE i == inspect_http_code(r.code, r.body)
<1>4. /\ i \in Results
      /\ i = "UNSUPPORTED_OP" => r.code = "BAD_REQ"
      /\ i = "JWT_EXPIRED" => r.code = "UNAUTH" /\ jwt \in expired
  <2>1. r.code \in Codes
    BY <1>3
  <2> QED
    BY <1>3, <2>1, InspectFacts
<1>5. /\ pc' \in {"put", "build", "done"}
      /\ result' \in Results
      /\ pc' = "put" => r.code = "BAD_REQ"
      /\ pc' = "build" => r.code = "UNAUTH" /\ jwt \in expired
  BY <1>1, <1>4 DEF Peek, TransportInv, TypeOK
<1>6. /\ effects' \in Nat /\ answer' \in Codes /\ exchanges' \in Nat
      /\ exchanges' = exchanges + 1
      /\ act' = act /\ jwt' = jwt /\ issued' = issued /\ expired' = expired
      /\ effects' = effects + r.effect
  BY <1>1, ExchangeFacts
<1> HIDE DEF i
<1>7. TypeOK'
  BY <1>1, <1>2, <1>3, <1>5, <1>6 DEF TransportInv, TypeOK, Codes
<1>8. Budget'
  BY <1>2, <1>5, <1>6 DEF TransportInv, Budget
<1>9. NoEffectYet'
  BY <1>2, <1>3, <1>5, <1>6 DEF TransportInv, NoEffectYet
<1>10. jwt \in expired => jwt # NoToken
  BY DEF TransportInv, TypeOK, NoToken
<1>11. BehindRefresh'
  BY <1>1, <1>2, <1>5, <1>6, <1>10 DEF TransportInv, BehindRefresh
<1>12. RetryCarriesFreshToken'
  BY <1>5 DEF RetryCarriesFreshToken
<1> QED
  BY <1>7, <1>8, <1>9, <1>11, <1>12 DEF TransportInv

\* The re-upload after a 400.
LEMMA ReuploadKeepsInv ==
    ASSUME TransportInv, Reupload
    PROVE  TransportInv'
<1>1. PICK r \in Replies : Exchange(r) /\ rc' = r.code /\ Peek(r)
  BY DEF Reupload
<1>2. pc = "put" /\ sent' = sent /\ sent = jwt /\ act # "LOGIN"
  BY DEF Reupload, TransportInv, BehindRefresh
<1>3. /\ r.code \in Codes
      /\ r.code \in {"BAD_REQ", "UNAUTH"} => r.effect = 0
      /\ r.code = "UNAUTH" /\ r.body = "jwt_expired" => jwt \in expired
  BY RepliesFacts
<1>4. /\ pc' \in {"build", "done"}
      /\ result' \in Results
      /\ pc' = "build" => r.code = "UNAUTH" /\ jwt \in expired
  BY <1>1, <1>3, InspectFacts DEF Peek
<1>5. /\ effects' \in Nat /\ answer' \in Codes /\ exchanges' \in Nat
      /\ exchanges' = exchanges + 1
      /\ act' = act /\ jwt' = jwt /\ issued' = issued /\ expired' = expired
      /\ effects' = effects + r.effect
  BY <1>1, ExchangeFacts
<1>6. TypeOK'
  BY <1>1, <1>2, <1>3, <1>4, <1>5 DEF TransportInv, TypeOK
<1>7. Budget'
  BY <1>2, <1>4, <1>5 DEF TransportInv, TypeOK, Budget
<1>8. NoEffectYet'
  BY <1>2, <1>3, <1>4, <1>5 DEF TransportInv, NoEffectYet
<1>9. jwt \in expired => jwt # NoToken
  BY DEF TransportInv, TypeOK, NoToken
<1>10. BehindRefresh'
  BY <1>1, <1>2, <1>4, <1>5, <1>9 DEF BehindRefresh
<1>11. RetryCarriesFreshToken'
  BY <1>4 DEF RetryCarriesFreshToken
<1> QED
  BY <1>6, <1>7, <1>8, <1>10, <1>11 DEF TransportInv

\* The login of a refresh, or a login of its own.
LEMMA LoginKeepsInv ==
    ASSUME TransportInv, Login
    PROVE  TransportInv'
<1>1. PICK r \in LoginReplies :
        /\ issued' = issued + r.effect
        /\ effects' = effects + (IF act = "LOGIN" THEN r.effect ELSE 0)
        /\ jwt' = IF r.code = "OK" THEN parse_login(r).token ELSE NoToken
        /\ result' = IF r.code = "OK" THEN parse_login(r).rv
                     ELSE inspect_http_code(r.code, r.body)
        /\ pc' = AfterLogin(r)
  BY DEF Login
<1>2. /\ pc = "login" /\ exchanges' = exchanges + 1
      /\ act' = act /\ rc' = rc /\ expired' = expired /\ answer' = answer
      /\ sent' = sent
  BY DEF Login
<1>3. /\ r.code \in Codes /\ r.effect \in {0, 1}
      /\ r.code = "OK" => r.effect = 1
  BY LoginRepliesFacts
<1>4. /\ parse_login(r).rv \in {"SUCCESS", "JSON_ERR", "JWT_MISSING", "JWT_INVALID"}
      /\ parse_login(r).rv = "SUCCESS" => parse_login(r).token = issued + 1
      /\ parse_login(r).rv # "SUCCESS" => parse_login(r).token = 0
  BY DEF parse_login, NoToken
<1>5. /\ pc' \in {"exec2", "done"}
      /\ pc' = "exec2" => /\ r.code = "OK" /\ act # "LOGIN"
                         /\ parse_login(r).rv = "SUCCESS"
  BY <1>1 DEF AfterLogin
<1>6. inspect_http_code(r.code, r.body) \in Results
  BY <1>3, InspectFacts
<1>7. result' \in Results
  BY <1>1, <1>4, <1>6 DEF Results
<1>8. issued' \in Nat /\ issued <= issued' /\ jwt' \in 0..issued'
  BY <1>1, <1>3, <1>4 DEF TransportInv, TypeOK, NoToken
<1>9. effects' \in Nat /\ exchanges' \in Nat
  BY <1>1, <1>2, <1>3 DEF TransportInv, TypeOK
<1>10. TypeOK'
  BY <1>2, <1>5, <1>7, <1>8, <1>9 DEF TransportInv, TypeOK
<1>11. Budget'
  BY <1>2, <1>5, <1>9 DEF TransportInv, TypeOK, Budget
<1>12. NoEffectYet'
  BY <1>1, <1>2, <1>5 DEF TransportInv, TypeOK, NoEffectYet
<1>13. BehindRefresh'
  BY <1>2, <1>5 DEF TransportInv, BehindRefresh
<1>14. RetryCarriesFreshToken'
  <2> SUFFICES ASSUME pc' \in {"exec2", "put2"}
               PROVE  jwt' > sent' /\ sent' # NoToken
    BY DEF RetryCarriesFreshToken
  <2>1. r.code = "OK" /\ act # "LOGIN" /\ jwt' = issued + 1
    BY <1>1, <1>4, <1>5
  <2>2. sent # NoToken /\ sent <= issued /\ sent \in Nat /\ issued \in Nat
    BY <1>2, <2>1 DEF TransportInv, BehindRefresh, TypeOK
  <2> QED
    BY <1>2, <2>1, <2>2
<1> QED
  BY <1>10, <1>11, <1>12, <1>13, <1>14 DEF TransportInv

\* The second try and its re-upload.
LEMMA RetryKeepsInv ==
    ASSUME TransportInv, Retry
    PROVE  TransportInv'
<1>1. PICK r \in Replies :
        /\ Exchange(r)
        /\ rc' = RetriedCode(r)
        /\ IF act = "VS_RESP" /\ inspect_http_code(r.code, r.body) = "UNSUPPORTED_OP"
           THEN pc' = "put2" /\ UNCHANGED result
           ELSE Finish(inspect_http_code(RetriedCode(r), r.body))
  BY DEF Retry
<1>2. pc = "exec2" /\ sent' = sent /\ act # "LOGIN"
  BY DEF Retry, TransportInv, BehindRefresh
<1>3. /\ r.code \in Codes
      /\ r.code \in {"BAD_REQ", "UNAUTH"} => r.effect = 0
  BY RepliesFacts
<1>4. RetriedCode(r) \in Codes
  BY <1>3 DEF RetriedCode, TransportInv, TypeOK
<1>5. inspect_http_code(RetriedCode(r), r.body) \in Results
  BY <1>4, InspectFacts
<1>6. inspect_http_code(r.code, r.body) = "UNSUPPORTED_OP" => r.code = "BAD_REQ"
  BY <1>3, InspectFacts
<1>7. /\ pc' \in {"put2", "done"}
      /\ result' \in Results
      /\ pc' = "put2" => r.code = "BAD_REQ"
  BY <1>1, <1>5, <1>6 DEF Finish, TransportInv, TypeOK
<1>8. /\ effects' \in Nat /\ answer' \in Codes /\ exchanges' \in Nat
      /\ exchanges' = exchanges + 1
      /\ act' = act /\ jwt' = jwt /\ issued' = issued /\ expired' = expired
      /\ effects' = effects + r.effect
  BY <1>1, ExchangeFacts
<1>9. TypeOK'
  BY <1>1, <1>2, <1>4, <1>7, <1>8 DEF TransportInv, TypeOK
<1>10. Budget'
  BY <1>2, <1>7, <1>8 DEF TransportInv, TypeOK, Budget
<1>11. NoEffectYet'
  BY <1>2, <1>3, <1>7, <1>8 DEF TransportInv, NoEffectYet
<1>12. BehindRefresh' /\ RetryCarriesFreshToken'
  BY <1>2, <1>7, <1>8 DEF TransportInv, BehindRefresh, RetryCarriesFreshToken
<1> QED
  BY <1>9, <1>10, <1>11, <1>12 DEF TransportInv

LEMMA RetryReuploadKeepsInv ==
    ASSUME TransportInv, RetryReupload
    PROVE  TransportInv'
<1>1. PICK r \in Replies :
        Exchange(r) /\ rc' = r.code /\ Finish(inspect_http_code(r.code, r.body))
  BY DEF RetryReupload
<1>2. pc = "put2" /\ sent' = sent
  BY DEF RetryReupload
<1>3. r.code \in Codes
  BY RepliesFacts
<1>4. pc' = "done" /\ result' \in Results
  BY <1>1, <1>3, InspectFacts DEF Finish
<1>5. /\ effects' \in Nat /\ answer' \in Codes /\ exchanges' \in Nat
      /\ exchanges' = exchanges + 1
      /\ act' = act /\ jwt' = jwt /\ issued' = issued /\ expired' = expired
  BY <1>1, ExchangeFacts
<1> QED
  BY <1>1, <1>2, <1>3, <1>4, <1>5
     DEF TransportInv, TypeOK, Budget, NoEffectYet, BehindRefresh,
         RetryCarriesFreshToken

\* The steps that exchange nothing with the server, and the server's clock.
LEMMA OtherStepsKeepInv ==
    ASSUME TransportInv,
           \/ \E a \in Actions : Call(a)
           \/ Reject \/ BuildLoginFails \/ SendLogin \/ Return \/ Expire
    PROVE  TransportInv'
<1> USE TransportAssumption DEF TransportInv, Budget, NoEffectYet,
        BehindRefresh, RetryCarriesFreshToken
<1>1. ASSUME NEW a \in Actions, Call(a)
      PROVE  TransportInv'
  BY <1>1 DEF Call, TypeOK, AllActions, Results, Codes
<1>2. CASE Reject
  BY <1>2 DEF Reject, Refusals, Finish, TypeOK, Results
<1>3. CASE BuildLoginFails
  BY <1>3 DEF BuildLoginFails, Finish, TypeOK, Results
<1>4. CASE SendLogin
  BY <1>4 DEF SendLogin, TypeOK, NoToken
<1>5. CASE Return
  BY <1>5 DEF Return, TypeOK
<1>6. CASE Expire
  BY <1>6 DEF Expire, TypeOK
<1> QED
  BY <1>1, <1>2, <1>3, <1>4, <1>5, <1>6

\* The invariant holds in every reachable state.
THEOREM TransportInvariant == Spec => []TransportInv
<1>1. TransportInv /\ [Next]_vars => TransportInv'
  <2> SUFFICES ASSUME TransportInv, [Next]_vars PROVE TransportInv'
    OBVIOUS
  <2>1. CASE Execute
    BY <2>1, ExecuteKeepsInv
  <2>2. CASE Reupload
    BY <2>2, ReuploadKeepsInv
  <2>3. CASE Login
    BY <2>3, LoginKeepsInv
  <2>4. CASE Retry
    BY <2>4, RetryKeepsInv
  <2>5. CASE RetryReupload
    BY <2>5, RetryReuploadKeepsInv
  <2>6. CASE \/ \E a \in Actions : Call(a)
             \/ Reject \/ BuildLoginFails \/ SendLogin \/ Return \/ Expire
    BY <2>6, OtherStepsKeepInv
  <2>7. CASE UNCHANGED vars
    BY <2>7 DEF vars, TransportInv, TypeOK, Budget, NoEffectYet, BehindRefresh,
                RetryCarriesFreshToken
  <2> QED
    BY <2>1, <2>2, <2>3, <2>4, <2>5, <2>6, <2>7 DEF Next, Client
<1> QED
  BY <1>1, TransportInvInit, PTL DEF Spec

\* Type correctness of a network call.
THEOREM TransportTypeCorrect == Spec => []TypeOK
<1>1. TransportInv => TypeOK
  BY DEF TransportInv
<1> QED
  BY <1>1, TransportInvariant, PTL

\* No call takes more than five exchanges, however often tokens expire.
THEOREM TransportNoRefreshLoop == Spec => []NoRefreshLoop
<1>1. TransportInv => NoRefreshLoop
  BY DEF TransportInv, Budget, NoRefreshLoop
<1> QED
  BY <1>1, TransportInvariant, PTL

\* The retried request always carries a token newer than the expired one.
THEOREM TransportRetryFresh == Spec => []RetryCarriesFreshToken
<1>1. TransportInv => RetryCarriesFreshToken
  BY DEF TransportInv
<1> QED
  BY <1>1, TransportInvariant, PTL

----------------------------------------------------------------------------
(* What the server accepted is reported *)

\* AcceptedIsReported is not inductive: it needs that a call that goes on has
\* not been answered with 200, so that a login in between, which leaves the
\* answer of the interrupted request alone, cannot end the call behind one.
Unaccepted == pc \notin {"idle", "done"} => answer # "OK"

AnswerInv == Unaccepted /\ AcceptedIsReported

\* An exchange of the request establishes both, provided that the call goes on
\* only after a 400 or a 401 and otherwise reports what the reply says.
LEMMA ExchangeAnswers ==
    ASSUME NEW r \in Replies, Exchange(r),
           \/ pc' = "done" /\ (act = "DELETE" \/ result' = inspect_http_code(r.code, r.body))
           \/ pc' \notin {"idle", "done"} /\ r.code \in {"BAD_REQ", "UNAUTH"}
    PROVE  AnswerInv'
<1>1. answer' = r.code /\ act' = act
  BY DEF Exchange
<1>2. r.code = "OK" => inspect_http_code(r.code, r.body) = "SUCCESS"
  BY DEF inspect_http_code
<1> QED
  BY <1>1, <1>2 DEF AnswerInv, Unaccepted, AcceptedIsReported

\* The first try and its re-upload.
LEMMA FirstTryAnswers ==
    ASSUME TransportInv, Execute \/ Reupload
    PROVE  AnswerInv'
<1>1. PICK r \in Replies :
        /\ Exchange(r)
        /\ \/ /\ inspect_http_code(r.code, r.body) = "UNSUPPORTED_OP"
              /\ pc' = "put"
           \/ Peek(r)
  BY DEF Execute, Reupload
<1>2. r.code \in Codes
  BY RepliesFacts
<1>3. /\ inspect_http_code(r.code, r.body) = "UNSUPPORTED_OP" => r.code = "BAD_REQ"
      /\ inspect_http_code(r.code, r.body) = "JWT_EXPIRED" => r.code = "UNAUTH"
  BY <1>2, InspectFacts
<1>4. \/ pc' = "done" /\ result' = inspect_http_code(r.code, r.body)
      \/ pc' \in {"put", "build"} /\ r.code \in {"BAD_REQ", "UNAUTH"}
  BY <1>1, <1>3 DEF Peek
<1> QED
  BY <1>1, <1>4, ExchangeAnswers

\* The second try and its re-upload; the DELETE that does not store its code
\* is the exception.
LEMMA SecondTryAnswers ==
    ASSUME TransportInv, Retry \/ RetryReupload
    PROVE  AnswerInv'
<1>1. PICK r \in Replies :
        /\ Exchange(r)
        /\ \/ /\ inspect_http_code(r.code, r.body) = "UNSUPPORTED_OP"
              /\ pc' = "put2"
           \/ Finish(inspect_http_code(RetriedCode(r), r.body))
           \/ Finish(inspect_http_code(r.code, r.body))
  BY DEF Retry, RetryReupload
<1>2. r.code \in Codes
  BY RepliesFacts
<1>3. inspect_http_code(r.code, r.body) = "UNSUPPORTED_OP" => r.code = "BAD_REQ"
  BY <1>2, InspectFacts
<1>4. act = "DELETE" \/ RetriedCode(r) = r.code
  BY DEF RetriedCode
<1>5. \/ pc' = "done" /\ (act = "DELETE" \/ result' = inspect_http_code(r.code, r.body))
      \/ pc' = "put2" /\ r.code \in {"BAD_REQ", "UNAUTH"}
  BY <1>1, <1>3, <1>4 DEF Finish
<1> QED
  BY <1>1, <1>5, ExchangeAnswers

\* Whenever the server accepted the request of a call other than DELETE, at the
\* first try or after a re-upload, a refresh or both, the call reports success.
THEOREM TransportAcceptedReported == Spec => []AcceptedIsReported
<1>1. Init => AnswerInv
  BY DEF Init, AnswerInv, Unaccepted, AcceptedIsReported
<1>2. ASSUME TransportInv, AnswerInv, [Next]_vars
      PROVE  AnswerInv'
  <2>1. CASE Execute \/ Reupload
    BY <1>2, <2>1, FirstTryAnswers
  <2>2. CASE Retry \/ RetryReupload
    BY <1>2, <2>2, SecondTryAnswers
  <2>3. CASE Login \/ Reject \/ BuildLoginFails \/ SendLogin
    <3>1. pc \notin {"idle", "done"} /\ answer' = answer
      BY <2>3 DEF Login, Reject, BuildLoginFails, SendLogin
    <3> QED
      BY <1>2, <3>1 DEF AnswerInv, Unaccepted, AcceptedIsReported
  <2>4. CASE Return \/ \E a \in Actions : Call(a)
    BY <2>4 DEF Return, Call, AnswerInv, Unaccepted, AcceptedIsReported
  <2>5. CASE Expire \/ UNCHANGED vars
    BY <1>2, <2>5 DEF Expire, vars, AnswerInv, Unaccepted, AcceptedIsReported
  <2> QED
    BY <1>2, <2>1, <2>2, <2>3, <2>4, <2>5 DEF Next, Client
<1>3. AnswerInv => AcceptedIsReported
  BY DEF AnswerInv
<1> QED
  BY <1>1, <1>2, <1>3, TransportInvariant, PTL DEF Spec

----------------------------------------------------------------------------
(* The refinement of AcvpCall *)

\* An exchange that ends the call applies the request or refuses it; the result
\* is SUCCESS only for a request that took effect.
LEMMA EndOfExchange ==
    ASSUME TransportInv, pc \notin {"idle", "done"}, pc' = "done",
           NEW e \in {0, 1}, effects' = effects + e,
           result' = "SUCCESS" => e = 1
    PROVE  AbstractCall!Apply \/ AbstractCall!Refuse
<1>1. effects = 0
  BY DEF TransportInv, NoEffectYet
<1>2. CallState = "pending" /\ CallState' \in {"ok", "failed"}
  BY DEF CallState
<1>3. CASE e = 1
  BY <1>1, <1>2, <1>3 DEF AbstractCall!Apply
<1>4. CASE e = 0
  <2>1. CallState' = "failed"
    BY <1>4 DEF CallState
  <2> QED
    BY <1>1, <1>2, <1>4, <2>1 DEF AbstractCall!Refuse
<1> QED
  BY <1>3, <1>4

\* An exchange that does not end the call had no effect and does not show.
LEMMA MidOfExchange ==
    ASSUME pc \notin {"idle", "done"}, pc' \notin {"idle", "done"},
           effects' = effects
    PROVE  UNCHANGED AbstractCall!callVars
BY DEF CallState, AbstractCall!callVars

\* What both tries of the request have in common.
LEMMA ExchangeRefines ==
    ASSUME TransportInv, pc \notin {"idle", "done"},
           NEW r \in Replies, Exchange(r),
           \/ pc' = "done" /\ (result' = "SUCCESS" => r.code = "OK")
           \/ pc' \notin {"idle", "done"} /\ r.code \in {"BAD_REQ", "UNAUTH"}
    PROVE  [AbstractCall!Next]_AbstractCall!callVars
<1>1. /\ r.effect \in {0, 1}
      /\ r.code = "OK" => r.effect = 1
      /\ r.code \in {"BAD_REQ", "UNAUTH"} => r.effect = 0
  BY RepliesFacts
<1>2. effects' = effects + r.effect /\ effects \in Nat
  BY ExchangeFacts DEF TransportInv, TypeOK
<1>3. CASE pc' = "done" /\ (result' = "SUCCESS" => r.code = "OK")
  BY <1>1, <1>2, <1>3, EndOfExchange DEF AbstractCall!Next
<1>4. CASE pc' \notin {"idle", "done"} /\ r.code \in {"BAD_REQ", "UNAUTH"}
  BY <1>1, <1>2, <1>4, MidOfExchange
<1> QED
  BY <1>3, <1>4

\* Every step of the transport is a step of AcvpCall or does not show there.
LEMMA StepRefines ==
    ASSUME TransportInv, [Next]_vars
    PROVE  [AbstractCall!Next]_AbstractCall!callVars
<1>1. CASE Execute
  <2>1. PICK r \in Replies :
          /\ Exchange(r)
          /\ IF act = "VS_RESP" /\ inspect_http_code(r.code, r.body) = "UNSUPPORTED_OP"
             THEN pc' = "put" /\ UNCHANGED result
             ELSE Peek(r)
    BY <1>1 DEF Execute
  <2>2. r.code \in Codes
    BY RepliesFacts
  <2>3. \/ pc' = "done" /\ (result' = "SUCCESS" => r.code = "OK")
        \/ pc' \in {"put", "build"} /\ r.code \in {"BAD_REQ", "UNAUTH"}
    BY <2>1, <2>2, InspectFacts DEF Peek
  <2> QED
    BY <1>1, <2>1, <2>3, ExchangeRefines DEF Execute
<1>2. CASE Reupload
  <2>1. PICK r \in Replies : Exchange(r) /\ Peek(r)
    BY <1>2 DEF Reupload
  <2>2. r.code \in Codes
    BY RepliesFacts
  <2>3. \/ pc' = "done" /\ (result' = "SUCCESS" => r.code = "OK")
        \/ pc' = "build" /\ r.code \in {"BAD_REQ", "UNAUTH"}
    BY <2>1, <2>2, InspectFacts DEF Peek
  <2> QED
    BY <1>2, <2>1, <2>3, ExchangeRefines DEF Reupload
<1>3. CASE Retry
  <2>1. PICK r \in Replies :
          /\ Exchange(r)
          /\ IF act = "VS_RESP" /\ inspect_http_code(r.code, r.body) = "UNSUPPORTED_OP"
             THEN pc' = "put2" /\ UNCHANGED result
             ELSE Finish(inspect_http_code(RetriedCode(r), r.body))
    BY <1>3 DEF Retry
  <2>2. r.code \in Codes
    BY RepliesFacts
  <2>3. pc = "exec2" /\ rc = "UNAUTH"
    BY <1>3 DEF Retry, TransportInv, BehindRefresh
  <2>4. RetriedCode(r) \in Codes /\ (RetriedCode(r) = "OK" => r.code = "OK")
    BY <2>2, <2>3 DEF RetriedCode, Codes
  <2>5. \/ pc' = "done" /\ (result' = "SUCCESS" => r.code = "OK")
        \/ pc' = "put2" /\ r.code \in {"BAD_REQ", "UNAUTH"}
    BY <2>1, <2>2, <2>4, InspectFacts DEF Finish
  <2> QED
    BY <2>1, <2>3, <2>5, ExchangeRefines
<1>4. CASE RetryReupload
  <2>1. PICK r \in Replies :
          Exchange(r) /\ Finish(inspect_http_code(r.code, r.body))
    BY <1>4 DEF RetryReupload
  <2>2. r.code \in Codes
    BY RepliesFacts
  <2>3. pc' = "done" /\ (result' = "SUCCESS" => r.code = "OK")
    BY <2>1, <2>2, InspectFacts DEF Finish
  <2> QED
    BY <1>4, <2>1, <2>3, ExchangeRefines DEF RetryReupload
<1>5. CASE Login
  <2>1. PICK r \in LoginReplies :
        /\ effects' = effects + (IF act = "LOGIN" THEN r.effect ELSE 0)
        /\ result' = IF r.code = "OK" THEN parse_login(r).rv
                     ELSE inspect_http_code(r.code, r.body)
        /\ pc' = AfterLogin(r)
    BY <1>5 DEF Login
  <2>2. pc = "login"
    BY <1>5 DEF Login
  <2>3. r.code \in Codes /\ r.effect \in {0, 1} /\ (r.code = "OK" => r.effect = 1)
    BY LoginRepliesFacts
  <2>4. parse_login(r).rv \in {"SUCCESS", "JSON_ERR", "JWT_MISSING", "JWT_INVALID"}
    BY DEF parse_login
  <2>5. result' = "SUCCESS" => r.code = "OK" /\ parse_login(r).rv = "SUCCESS"
    BY <2>1, <2>3, InspectFacts
  <2>6. effects \in Nat
    BY DEF TransportInv, TypeOK
  <2>7. CASE act = "LOGIN"
    <3>1. pc' = "done" /\ effects' = effects + r.effect
      BY <2>1, <2>7 DEF AfterLogin
    <3> QED
      BY <2>2, <2>3, <2>5, <3>1, EndOfExchange DEF AbstractCall!Next
  <2>8. CASE act # "LOGIN" /\ pc' = "exec2"
    BY <2>1, <2>2, <2>6, <2>8, MidOfExchange
  <2>9. CASE act # "LOGIN" /\ pc' # "exec2"
    <3>1. pc' = "done" /\ ~(r.code = "OK" /\ parse_login(r).rv = "SUCCESS")
      BY <2>1, <2>9 DEF AfterLogin
    <3>2. result' # "SUCCESS" /\ effects' = effects + 0
      BY <2>1, <2>5, <2>9, <3>1
    <3> QED
      BY <2>2, <3>1, <3>2, EndOfExchange DEF AbstractCall!Next
  <2> QED
    BY <2>7, <2>8, <2>9
<1>6. CASE Reject \/ BuildLoginFails
  <2>1. pc \in {"exec", "build"} /\ pc' = "done" /\ result' # "SUCCESS"
        /\ effects' = effects
    BY <1>6 DEF Reject, BuildLoginFails, Finish, Refusals
  <2>2. CallState = "pending" /\ CallState' = "failed"
    BY <2>1 DEF CallState
  <2> QED
    BY <2>1, <2>2 DEF AbstractCall!Refuse, AbstractCall!Next
<1>7. CASE \E a \in Actions : Call(a)
  BY <1>7 DEF Call, CallState, AbstractCall!Start, AbstractCall!Next
<1>8. CASE SendLogin
  BY <1>8, MidOfExchange DEF SendLogin
<1>9. CASE Return
  BY <1>9 DEF Return, CallState, AbstractCall!Return, AbstractCall!Next
<1>10. CASE Expire \/ UNCHANGED vars
  BY <1>10 DEF Expire, vars, CallState, AbstractCall!callVars
<1> QED
  BY <1>1, <1>2, <1>3, <1>4, <1>5, <1>6, <1>7, <1>8, <1>9, <1>10
     DEF Next, Client

\* A network call, with its re-upload, refresh and retry, implements AcvpCall:
\* whatever expires or gets lost in between, the request takes effect at most
\* once and a reported success is a success of the request itself.
THEOREM TransportRefinesCall == Spec => CallIsAtomic
<1>1. Init => AbstractCall!Init
  BY DEF Init, AbstractCall!Init, CallState
<1> QED
  BY <1>1, StepRefines, TransportInvariant, PTL
     DEF Spec, CallIsAtomic, AbstractCall!Spec
=============================================================================
