--------------------------- MODULE AcvpTransport ---------------------------
(***************************************************************************)
(* A network call of libacvp (src/src/acvp_transport.c): one HTTP exchange,*)
(* the re-upload of a vector set response as a PUT, the refresh of an      *)
(* expired JWT and the single retry that follows it, together with the     *)
(* login code of src/src/acvp.c that the refresh runs.                     *)
(*                                                                         *)
(* Every exchange with the server is one step; between two exchanges the   *)
(* server's clock may expire any token.  The server is external: a reply   *)
(* is a record of the HTTP code, of what the body says and of whether the  *)
(* request took effect (1) or not (0), chosen among the replies an ACVP    *)
(* server can give to the token the request carries.  Tokens are numbered  *)
(* as issued.                                                              *)
(***************************************************************************)
EXTENDS Naturals

CONSTANTS
    Actions,        \* the generic actions this instance performs
    MaxTokens       \* bound: tokens the server issues

AllActions == {"GET", "POST", "PUT", "VS_RESP", "DELETE", "LOGIN"}

ASSUME TransportAssumption ==
    /\ Actions \subseteq AllActions
    /\ MaxTokens \in Nat

NoToken == 0

VARIABLES
    pc,         \* the call's next step, "idle" outside a call
    act,        \* the generic_action of the call
    jwt,        \* ctx->jwt_token, NoToken for NULL
    rc,         \* the HTTP code execute_network_action holds
    result,     \* its result
    issued,     \* server: tokens issued so far
    expired,    \* server: tokens that have expired
    effects,    \* history: times the call's own request took effect
    answer,     \* history: the code the last exchange of that request got
    exchanges,  \* history: HTTP exchanges of this call, logins included
    sent        \* history: the token the first exchange carried

vars == <<pc, act, jwt, rc, result, issued, expired,
          effects, answer, exchanges, sent>>

----------------------------------------------------------------------------
(* The server *)

\* HTTP 200, 400, 401, any other code, and curl's 0 when there was no response.
Codes == {"OK", "BAD_REQ", "UNAUTH", "ERROR", "NONE"}

Reply(code, body, effect) == [code |-> code, body |-> body, effect |-> effect]

\* No reply at all, or an error that leaves open
\* whether the request took effect.
LostReplies(effect) == {Reply("NONE", "none", effect), Reply("ERROR", "json", effect)}

\* What a request carrying the client's token may get back.
Replies ==
    LostReplies(0) \cup
    (IF jwt = NoToken
     THEN {Reply("UNAUTH", "other", 0)}
     ELSE IF jwt \in expired
     THEN {Reply("UNAUTH", "jwt_expired", 0)}
     ELSE LostReplies(1) \cup
          {Reply("OK", "json", 1), Reply("BAD_REQ", "json", 0),
           Reply("UNAUTH", "jwt_mismatch", 0)})

\* What a login may get back; its effect is a new token, and the body of a
\* 200 may fail to parse, lack an accessToken or carry one that is too long.
LoginReplies ==
    LostReplies(0) \cup
    {Reply("BAD_REQ", "json", 0), Reply("UNAUTH", "jwt_expired", 0),
     Reply("UNAUTH", "other", 0)} \cup
    (IF issued < MaxTokens
     THEN LostReplies(1) \cup {Reply("OK", b, 1) : b \in {"json", "malformed", "no_token", "long_token"}}
     ELSE {})

\* The server's clock passes the expiry of a token, at any moment.
Expire ==
    /\ \E t \in 1..issued : t \notin expired /\ expired' = expired \cup {t}
    /\ UNCHANGED <<pc, act, jwt, rc, result, issued, effects, answer,
                   exchanges, sent>>

----------------------------------------------------------------------------
(* The client *)

RetryOnErrorMutant(code, body) ==
    IF code = "OK" THEN "SUCCESS"
    ELSE IF code = "BAD_REQ" THEN "UNSUPPORTED_OP"
    ELSE IF code = "ERROR" \/ (code = "UNAUTH" /\ body = "jwt_expired") THEN "JWT_EXPIRED"
    ELSE "TRANSPORT_FAIL"

inspect_http_code(code, body) ==
    IF code = "OK" THEN "SUCCESS"
    ELSE IF code = "BAD_REQ" THEN "UNSUPPORTED_OP"
    ELSE IF code = "UNAUTH" /\ body = "jwt_expired" THEN "JWT_EXPIRED"
    ELSE IF code = "UNAUTH" /\ body = "jwt_mismatch" THEN "JWT_INVALID"
    ELSE "TRANSPORT_FAIL"

Init ==
    /\ pc = "idle" /\ act = "LOGIN" /\ result = "none" /\ rc = "NONE"
    /\ jwt = NoToken /\ issued = 0 /\ expired = {}
    /\ effects = 0 /\ answer = "NONE" /\ exchanges = 0 /\ sent = NoToken

\* A function of the transport layer is called; a call to acvp_login (or
\* acvp_refresh) first builds its message.
Call(a) ==
    /\ pc = "idle"
    /\ pc' = IF a = "LOGIN" THEN "build" ELSE "exec"
    /\ act' = a
    /\ rc' = "NONE" /\ result' = "none"
    /\ effects' = 0 /\ answer' = "NONE" /\ exchanges' = 0 /\ sent' = jwt
    /\ UNCHANGED <<jwt, issued, expired>>

\* The call ends with r.
Finish(r) == pc' = "done" /\ result' = r

\* Arguments are refused before anything is sent: no server, path segment or
\* URL; no data to POST or PUT; no response to serialize.
Refusals(a) ==
    {"MISSING_ARG"} \cup (IF a \in {"POST", "PUT"} THEN {"NO_DATA"} ELSE {})
                   \cup (IF a = "VS_RESP" THEN {"JSON_ERR"} ELSE {})

Reject ==
    /\ pc = "exec"
    /\ \E r \in Refusals(act) : Finish(r)
    /\ UNCHANGED <<act, jwt, rc, issued, expired, effects, answer,
                   exchanges, sent>>

\* One exchange of the call's own request: acvp_curl_http_get, _post, _put or
\* _delete with the header of acvp_add_auth_hdr.
Exchange(r) ==
    /\ r \in Replies
    /\ effects' = effects + r.effect
    /\ answer' = r.code
    /\ exchanges' = exchanges + 1
    /\ UNCHANGED <<act, jwt, issued, expired>>

\* Peek at the HTTP code: an expired JWT starts a refresh, anything else ends
\* the call.
Peek(r) ==
    /\ result' = inspect_http_code(r.code, r.body)
    /\ pc' = IF result' = "JWT_EXPIRED" THEN "build" ELSE "done"

\* The first switch of execute_network_action.  A vector set response that the
\* server already holds is refused with 400 and has to be PUT instead.
Execute ==
    /\ pc = "exec"
    /\ \E r \in Replies :
         /\ Exchange(r)
         /\ rc' = r.code
         /\ IF act = "VS_RESP" /\ inspect_http_code(r.code, r.body) = "UNSUPPORTED_OP"
            THEN pc' = "put" /\ UNCHANGED result
            ELSE Peek(r)
    /\ sent' = jwt

Reupload ==
    /\ pc = "put"
    /\ \E r \in Replies : Exchange(r) /\ rc' = r.code /\ Peek(r)
    /\ UNCHANGED sent

\* acvp_build_login fails (the TOTP callback) or acvp_send_with_path_seg finds
\* no path segment: nothing is sent and the token stays.
BuildLoginFails ==
    /\ pc = "build"
    /\ \E r \in {"TOTP_FAIL", "MISSING_ARG"} : Finish(r)
    /\ UNCHANGED <<act, jwt, rc, issued, expired, effects, answer,
                   exchanges, sent>>

\* acvp_network_action clears the token before the login is sent.
SendLogin ==
    /\ pc = "build"
    /\ pc' = "login"
    /\ jwt' = NoToken
    /\ UNCHANGED <<act, rc, result, issued, expired, effects, answer,
                   exchanges, sent>>

\* acvp_parse_login
WrongTokenMutant(r) == [rv |-> "SUCCESS", token |-> issued + 2]

parse_login(r) ==
    CASE r.body = "json"      -> [rv |-> "SUCCESS", token |-> issued + 1]
      [] r.body = "malformed" -> [rv |-> "JSON_ERR", token |-> NoToken]
      [] r.body = "no_token"  -> [rv |-> "JWT_MISSING", token |-> NoToken]
      [] OTHER                -> [rv |-> "JWT_INVALID", token |-> NoToken]

\* The login is answered.  A 401 never starts another refresh here.  After a
\* successful refresh the interrupted action is tried again.
RecursiveLoginMutant(r) ==
    IF r.code = "OK" THEN (IF act = "LOGIN" THEN "done" ELSE "exec2")
    ELSE IF r.body = "jwt_expired" THEN "build" ELSE "done"

CarelessRefreshMutant(r) ==
    IF act = "LOGIN" THEN "done" ELSE "exec2"

AfterLogin(r) ==
    IF r.code = "OK" /\ parse_login(r).rv = "SUCCESS" /\ act # "LOGIN"
    THEN "exec2" ELSE "done"

Login ==
    /\ pc = "login"
    /\ \E r \in LoginReplies :
         /\ issued' = issued + r.effect
         /\ effects' = effects + (IF act = "LOGIN" THEN r.effect ELSE 0)
         /\ jwt' = IF r.code = "OK" THEN parse_login(r).token ELSE NoToken
         /\ result' = IF r.code = "OK" THEN parse_login(r).rv
                      ELSE inspect_http_code(r.code, r.body)
         /\ pc' = AfterLogin(r)
    /\ exchanges' = exchanges + 1
    /\ UNCHANGED <<act, rc, expired, answer, sent>>

\* The code the second inspection looks at: the retried DELETE does not store
\* the code it gets, so the 401 of the first try is inspected again.
StaleCodeMutant(r) == rc

RetriedCode(r) == IF act = "DELETE" THEN rc ELSE r.code

\* The second switch of execute_network_action, after the refresh.
Retry ==
    /\ pc = "exec2"
    /\ \E r \in Replies :
         /\ Exchange(r)
         /\ rc' = RetriedCode(r)
         /\ IF act = "VS_RESP" /\ inspect_http_code(r.code, r.body) = "UNSUPPORTED_OP"
            THEN pc' = "put2" /\ UNCHANGED result
            ELSE Finish(inspect_http_code(RetriedCode(r), r.body))
    /\ UNCHANGED sent

RetryReupload ==
    /\ pc = "put2"
    /\ \E r \in Replies :
         Exchange(r) /\ rc' = r.code /\ Finish(inspect_http_code(r.code, r.body))
    /\ UNCHANGED sent

\* acvp_network_action logs the exchange and returns.
Return ==
    /\ pc = "done"
    /\ pc' = "idle"
    /\ UNCHANGED <<act, jwt, rc, result, issued, expired, effects, answer,
                   exchanges, sent>>

Client == \/ Reject \/ Execute \/ Reupload \/ BuildLoginFails \/ SendLogin
          \/ Login \/ Retry \/ RetryReupload \/ Return

Next == (\E a \in Actions : Call(a)) \/ Client \/ Expire

Spec == Init /\ [][Next]_vars

----------------------------------------------------------------------------
(* Properties *)

Results == {"none", "SUCCESS", "UNSUPPORTED_OP", "JWT_EXPIRED", "JWT_INVALID",
            "TRANSPORT_FAIL", "TOTP_FAIL", "JWT_MISSING", "NO_DATA",
            "JSON_ERR", "MISSING_ARG"}

\* Types; the client never holds a token the server has not issued.
TypeOK ==
    /\ pc \in {"idle", "exec", "put", "build", "login", "exec2", "put2", "done"}
    /\ act \in AllActions
    /\ issued \in Nat
    /\ jwt \in 0..issued
    /\ sent \in 0..issued
    /\ rc \in Codes
    /\ result \in Results
    /\ expired \subseteq 1..issued
    /\ effects \in Nat
    /\ answer \in Codes
    /\ exchanges \in Nat

\* Everything a call does implements AcvpCall: its request takes effect at
\* most once in spite of the re-upload and of the retry, no step of the call
\* follows the effect, and a success of the refresh is never reported as a
\* success of the request.
CallState ==
    IF pc = "idle" THEN "idle"
    ELSE IF pc # "done" THEN "pending"
    ELSE IF result = "SUCCESS" THEN "ok" ELSE "failed"

AbstractCall == INSTANCE AcvpCall WITH call <- CallState, effects <- effects
CallIsAtomic == AbstractCall!Spec

\* The request that follows a refresh carries a token issued after the one
\* that had expired, never that one again and never none.
RetryCarriesFreshToken ==
    pc \in {"exec2", "put2"} => jwt > sent /\ sent # NoToken

\* If the server accepted the last request of a call, the call reports success
\* (all actions but DELETE).
AcceptedIsReported ==
    pc = "done" /\ answer = "OK" /\ act # "DELETE" => result = "SUCCESS"

\* A call ends after at most five exchanges (POST, PUT, login, POST, PUT): an
\* expired token, or one that expires again before the retry or is reported as
\* expired by the login itself, never starts a second refresh.
NoRefreshLoop == exchanges <= 5

\* acvp_transport.c, before the second switch: "Try action again after the
\* refresh": the action's result is then that of the second try.
RetriedRequestCounts ==
    pc = "done" /\ answer = "OK" => result = "SUCCESS"
=============================================================================
