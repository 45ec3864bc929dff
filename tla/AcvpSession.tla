---------------------------- MODULE AcvpSession ----------------------------
(***************************************************************************)
(* A test session from registration to validation (src/src/acvp.c):        *)
(* acvp_run, acvp_resume_test_session, acvp_get_results_from_server and    *)
(* acvp_cancel_test_session, against a server that generates, grades and   *)
(* expires vector sets on its own, with a client process that can die at   *)
(* any point and a session info file that survives it.                     *)
(*                                                                         *)
(* Every network call is one step that keeps the promise of AcvpCall: it   *)
(* succeeds, it fails without effect, or it fails with the effect done     *)
(* (`lost').  The server is external and permissive: it accepts a second   *)
(* response to a vector set (the PUT of a re-upload, graded anew) and a    *)
(* validation request for any session, so that what it never gets is the   *)
(* client's merit.                                                         *)
(*                                                                         *)
(* The list of vector set URLs is a set: its order is the server's.  The   *)
(* request-only mode (vector_req) and the upload of response files are not *)
(* part of this module.                                                    *)
(***************************************************************************)
EXTENDS Naturals

CONSTANTS
    VectorSets,     \* the vector sets of the session
    MaxPolls,       \* requests a polling loop makes before it gives up: the
                    \* abstraction of acvp_retry_handler (see AcvpRetry)
    MaxFaults       \* bound: failed calls, writes and handlers, and crashes

ASSUME SessionAssumption ==
    /\ VectorSets # {}
    /\ MaxPolls \in Nat /\ MaxFaults \in Nat

NoVS == "none"

ASSUME NoVSAssumption == NoVS \notin VectorSets

VARIABLES
    \* the client process: gone when it crashes or returns
    pc,             \* its next step, "off" when there is no process
    op,             \* the API call it makes
    fips,           \* the argument fips_validation, 0 or 1
    put,            \* ctx->put, set by acvp_mark_as_put_after_test
    todo,           \* ctx->vsid_url_list, the entries not yet answered
    cur,            \* the vector set acvp_process_vsid works on
    session_passed, \* ctx->session_passed
    has_file,       \* ctx->session_file_path is set
    polls,          \* requests made by the current polling loop
    rv,             \* what the API call returned
    \* the disk
    file,           \* session info file: "absent", "broken", "ok", "final"
    \* the server
    session,        \* "none", "open" or "cancelled"
    status,         \* status of each vector set
    ready,          \* the vector sets it has generated
    requests,       \* validations acvp_validate_test_session has got accepted
    puts,           \* files of acvp_put_data_from_ctx it has accepted
    faults          \* what has gone wrong so far

client == <<op, fips, put, todo, cur, session_passed, has_file>>
server == <<session, status, ready, requests, puts>>
vars == <<pc, client, polls, rv, file, server, faults>>

----------------------------------------------------------------------------
(* The server, external *)

\* It has generated the vectors of v.
Generate(v) ==
    /\ session = "open" /\ v \notin ready
    /\ ready' = ready \cup {v}
    /\ UNCHANGED <<pc, client, polls, rv, file, session, status, requests,
                   puts, faults>>

\* It has graded the response to v.
Grade(v) ==
    /\ session = "open" /\ status[v] = "incomplete"
    /\ \E s \in {"passed", "fail"} : status' = [status EXCEPT ![v] = s]
    /\ UNCHANGED <<pc, client, polls, rv, file, session, ready, requests,
                   puts, faults>>

\* It stops waiting for a response to v.
Lapse(v) ==
    /\ session = "open" /\ status[v] = "unreceived"
    /\ status' = [status EXCEPT ![v] = "expired"]
    /\ UNCHANGED <<pc, client, polls, rv, file, session, ready, requests,
                   puts, faults>>

----------------------------------------------------------------------------
(* Control flow shared by the operations *)

Init ==
    /\ pc = "off" /\ op = "none" /\ fips = 0 /\ put = 0
    /\ todo = {} /\ cur = NoVS /\ session_passed = 0 /\ has_file = 0
    /\ polls = 0 /\ rv = "none"
    /\ file = "absent"
    /\ session = "none" /\ status = [v \in VectorSets |-> "unreceived"]
    /\ ready = {} /\ requests = 0 /\ puts = 0
    /\ faults = 0

Goto(p) == pc' = p /\ UNCHANGED rv

\* The operation ends and its result reaches the application.
ReturnWith(r) == pc' = "returned" /\ rv' = r

\* Only a bounded number of things goes wrong.
Fault == faults < MaxFaults /\ faults' = faults + 1

Calling == {"login", "register", "fetch", "submit", "check", "validate", "put",
            "refresh", "list", "delete"}

\* A call fails without effect (or its reply does not parse): every operation
\* then returns the error, of which TRANSPORT_FAIL stands for all.  Once the
\* session is cancelled every call but the login fails.
CallFails ==
    /\ pc \in Calling
    /\ IF session = "cancelled" /\ pc \notin {"login", "refresh"}
       THEN UNCHANGED faults ELSE Fault
    /\ ReturnWith("TRANSPORT_FAIL")
    /\ UNCHANGED <<client, polls, file, server>>

\* A call that reached the server and changed it: its reply arrives and the
\* client goes on as in `next', or is lost and the operation returns an error.
Answered(next) ==
    \/ next /\ UNCHANGED faults
    \/ Fault /\ ReturnWith("TRANSPORT_FAIL") /\ UNCHANGED client

\* The process and its context are gone; only files remain.
Gone ==
    /\ pc' = "off" /\ op' = "none" /\ fips' = 0 /\ put' = 0
    /\ todo' = {} /\ cur' = NoVS /\ session_passed' = 0 /\ has_file' = 0
    /\ polls' = 0 /\ rv' = "none"
    /\ UNCHANGED <<file, server>>

Crash ==
    /\ pc \notin {"off", "returned"}
    /\ Fault
    /\ Gone

\* The application frees the context and exits.
Exit ==
    /\ pc = "returned"
    /\ Gone
    /\ UNCHANGED faults

\* A new process, with a new context, makes the API call o.
NewProcess(o, f, p, start) ==
    /\ pc = "off"
    /\ pc' = start /\ op' = o /\ fips' = f /\ put' = p
    /\ UNCHANGED <<todo, cur, session_passed, has_file, polls, rv, file,
                   server, faults>>

----------------------------------------------------------------------------
(* acvp_run *)

StartRun(f, p) == session = "none" /\ NewProcess("run", f, p, "login")

Login ==
    /\ pc = "login"
    /\ Goto("register")
    /\ UNCHANGED <<client, polls, file, server, faults>>

\* acvp_verify_fips_validation_metadata rejects what the operator supplied:
\* the run ends before it registers.
MetadataRejected ==
    /\ pc = "register" /\ fips = 1
    /\ Fault
    /\ ReturnWith("UNSUPPORTED_OP")
    /\ UNCHANGED <<client, polls, file, server>>

\* acvp_register and acvp_parse_test_session_register: the server opens the
\* session and names its vector sets.  A run that will PUT afterwards writes
\* no session info file.
Register ==
    /\ pc = "register"
    /\ session' = "open"
    /\ Answered(/\ Goto(IF put = 1 THEN "fetch" ELSE "save")
                /\ todo' = VectorSets
                /\ UNCHANGED <<op, fips, put, cur, session_passed, has_file>>)
    /\ UNCHANGED <<polls, file, status, ready, requests, puts>>

\* acvp_write_session_info truncates the file and writes the object, then
\* appends the closing bracket.  A write error is logged and the run goes on.
WriteSessionInfo ==
    /\ pc = "save"
    /\ file' = "broken"
    /\ Goto("saveEnd")
    /\ UNCHANGED <<client, polls, server, faults>>

CloseSessionInfo ==
    /\ pc = "saveEnd"
    /\ file' = "ok"
    /\ has_file' = 1
    /\ Goto("fetch")
    /\ UNCHANGED <<op, fips, put, todo, cur, session_passed, polls, server,
                   faults>>

SessionInfoError ==
    /\ pc \in {"save", "saveEnd"}
    /\ Fault
    /\ file' \in {file, "broken"}
    /\ Goto("fetch")
    /\ UNCHANGED <<client, polls, server>>

----------------------------------------------------------------------------
(* acvp_process_tests, used by acvp_run and acvp_resume_test_session *)

\* acvp_process_vsid asks for a vector set that is not ready: it waits and asks
\* again, or the maximum wait is over.
Choose(v) == IF cur = NoVS THEN v \in todo ELSE v = cur

PatientFetchMutant(v) ==
    /\ pc = "fetch" /\ session = "open" /\ Choose(v)
    /\ v \notin ready
    /\ cur' = v
    /\ IF polls <= MaxPolls
       THEN polls' = polls + 1 /\ Goto("fetch")
       ELSE polls' = polls /\ ReturnWith("TRANSPORT_FAIL")
    /\ UNCHANGED <<op, fips, put, todo, session_passed, has_file, file, server,
                   faults>>

FetchWait(v) ==
    /\ pc = "fetch" /\ session = "open" /\ Choose(v)
    /\ v \notin ready
    /\ cur' = v
    /\ IF polls < MaxPolls
       THEN polls' = polls + 1 /\ Goto("fetch")
       ELSE polls' = polls /\ ReturnWith("TRANSPORT_FAIL")
    /\ UNCHANGED <<op, fips, put, todo, session_passed, has_file, file, server,
                   faults>>

\* The vectors arrive and acvp_process_vector_set runs the algorithm's handler.
FetchReady(v) ==
    /\ pc = "fetch" /\ session = "open" /\ Choose(v)
    /\ v \in ready
    /\ cur' = v
    /\ polls' = 0
    /\ Goto("submit")
    /\ UNCHANGED <<op, fips, put, todo, session_passed, has_file, file, server,
                   faults>>

\* The server reports an error instead of vectors, the algorithm is unknown or
\* its handler fails: the whole operation ends.
HandlerFails(v) ==
    /\ pc = "fetch" /\ session = "open" /\ Choose(v)
    /\ v \in ready
    /\ Fault
    /\ \E r \in {"NO_DATA", "JSON_ERR", "UNSUPPORTED_OP", "CRYPTO_MODULE_FAIL"} :
         ReturnWith(r)
    /\ UNCHANGED <<client, polls, file, server>>

\* What the server makes of a response to v.
Received(v) == IF status[v] = "expired" THEN status
               ELSE [status EXCEPT ![v] = "incomplete"]

\* acvp_submit_vector_responses, the end of acvp_process_vsid; after the last
\* vector set acvp_check_test_results follows.  An expired vector set no longer
\* takes a response.
SkipFailedMutant ==
    /\ pc = "submit" /\ session = "open"
    /\ \E s \in {status, Received(cur)} : status' = s
    /\ todo' = todo \ {cur} /\ cur' = NoVS
    /\ Goto(IF todo' = {} THEN "check" ELSE "fetch")
    /\ UNCHANGED <<op, fips, put, session_passed, has_file>>
    /\ UNCHANGED <<polls, file, session, ready, requests, puts, faults>>

Submit ==
    /\ pc = "submit" /\ session = "open"
    /\ status[cur] # "expired"
    /\ status' = Received(cur)
    /\ Answered(/\ todo' = todo \ {cur} /\ cur' = NoVS
                /\ Goto(IF todo' = {} THEN "check" ELSE "fetch")
                /\ UNCHANGED <<op, fips, put, session_passed, has_file>>)
    /\ UNCHANGED <<polls, file, session, ready, requests, puts>>

SubmitExpired ==
    /\ pc = "submit" /\ session = "open"
    /\ status[cur] = "expired"
    /\ ReturnWith("TRANSPORT_FAIL")
    /\ UNCHANGED <<client, polls, file, server, faults>>

----------------------------------------------------------------------------
(* acvp_check_test_results, the loop of acvp_get_result_test_session *)

Some(s) == \E v \in VectorSets : status[v] = s
AllPassed == \A v \in VectorSets : status[v] = "passed"

\* Where the operation goes when the results call has returned SUCCESS.
AfterCheck ==
    IF op = "results" THEN ReturnWith("SUCCESS")
    ELSE IF fips = 1 THEN Goto("validate")
    ELSE IF put = 1 THEN Goto("put")
    ELSE ReturnWith("SUCCESS")

\* A vector set is expired or has no response: the loop stops at it and returns
\* the result of the last call it made.
CheckUnfinished ==
    /\ pc = "check" /\ session = "open"
    /\ Some("expired") \/ Some("unreceived")
    /\ AfterCheck
    /\ UNCHANGED <<client, polls, file, server, faults>>

\* Everything is graded and the session has passed.
CheckPassed ==
    /\ pc = "check" /\ session = "open"
    /\ AllPassed
    /\ session_passed' = 1
    /\ AfterCheck
    /\ UNCHANGED <<op, fips, put, todo, cur, has_file, polls, file, server,
                   faults>>

Graded == \A v \in VectorSets : status[v] \in {"passed", "fail"}

\* Everything is graded and some vector set has failed: reported, no error.
CheckFailed ==
    /\ pc = "check" /\ session = "open"
    /\ Graded /\ ~AllPassed
    /\ AfterCheck
    /\ UNCHANGED <<client, polls, file, server, faults>>

\* Something is not graded yet, or the name of a failed algorithm could not be
\* fetched: wait and ask again, or the maximum wait is over.
EndlessCheckMutant ==
    /\ pc = "check" /\ session = "open"
    /\ ~Some("expired") /\ ~Some("unreceived")
    /\ Some("incomplete")
    /\ Goto("check")
    /\ UNCHANGED <<client, polls, file, server, faults>>

CheckWait ==
    /\ pc = "check" /\ session = "open"
    /\ ~Some("expired") /\ ~Some("unreceived")
    /\ IF Some("incomplete") THEN UNCHANGED faults ELSE Some("fail") /\ Fault
    /\ IF polls < MaxPolls
       THEN polls' = polls + 1 /\ Goto("check")
       ELSE polls' = polls /\ ReturnWith("TRANSPORT_FAIL")
    /\ UNCHANGED <<client, file, server>>

----------------------------------------------------------------------------
(* acvp_validate_test_session and acvp_put_data_from_ctx *)

AfterValidate == IF put = 1 THEN Goto("put") ELSE ReturnWith("SUCCESS")

\* The session did not pass: "technically no error occurred".
ValidateRefused ==
    /\ pc = "validate" /\ session_passed = 0
    /\ AfterValidate
    /\ UNCHANGED <<client, polls, file, server, faults>>

\* The validation is PUT; acvp_parse_validation then adds the URL of the request
\* to the session info file, if this context wrote one.
UncheckedValidateMutant ==
    /\ pc = "validate" /\ session = "open"
    /\ requests' = requests + 1
    /\ Answered((IF has_file = 1 THEN Goto("addUrl") ELSE AfterValidate)
                /\ UNCHANGED client)
    /\ UNCHANGED <<polls, file, session, status, ready, puts>>

Validate ==
    /\ pc = "validate" /\ session_passed = 1 /\ session = "open"
    /\ requests' = requests + 1
    /\ Answered((IF has_file = 1 THEN Goto("addUrl") ELSE AfterValidate)
                /\ UNCHANGED client)
    /\ UNCHANGED <<polls, file, session, status, ready, puts>>

\* The file is truncated and rewritten ...
AddRequestUrl ==
    /\ pc = "addUrl"
    /\ file' = "broken"
    /\ Goto("addUrlEnd")
    /\ UNCHANGED <<client, polls, server, faults>>

AddRequestUrlFails ==
    /\ pc = "addUrl"
    /\ Fault
    /\ file' \in {file, "broken"}
    /\ ReturnWith("JSON_ERR")
    /\ UNCHANGED <<client, polls, server>>

\* ... and closed; the result of this write is ignored.
CloseRequestUrl ==
    /\ pc = "addUrlEnd"
    /\ \/ file' = "final" /\ UNCHANGED faults
       \/ file' = file /\ Fault
    /\ AfterValidate
    /\ UNCHANGED <<client, polls, server>>

\* The operator's own file is PUT to the session, whether it passed or not.  No
\* context that gets here has a session info file to add a URL to.
PutData ==
    /\ pc = "put" /\ session = "open"
    /\ puts' = puts + 1
    /\ Answered(ReturnWith("SUCCESS") /\ UNCHANGED client)
    /\ UNCHANGED <<polls, file, session, status, ready, requests>>

----------------------------------------------------------------------------
(* acvp_resume_test_session, acvp_get_results_from_server and               *)
(* acvp_cancel_test_session                                                 *)

StartFromFile(o, f, p) ==
    /\ file # "absent"
    /\ NewProcess(o, f, p, "parse")

\* acvp_parse_session_info_file
ParseSessionInfo ==
    /\ pc = "parse"
    /\ IF file = "broken" THEN ReturnWith("MALFORMED_JSON") ELSE Goto("refresh")
    /\ UNCHANGED <<client, polls, file, server, faults>>

RewriteFileMutant ==
    /\ pc = "refresh"
    /\ Goto("save")
    /\ UNCHANGED <<client, polls, file, server, faults>>

Refresh ==
    /\ pc = "refresh"
    /\ Goto(CASE op = "resume" -> "list"
              [] op = "results" -> "check"
              [] op = "cancel" -> "delete")
    /\ UNCHANGED <<client, polls, file, server, faults>>

\* A resumed session asks once for the results and works on every vector set the
\* server has no response to.
EagerMissingMutant == {v \in VectorSets : status[v] \in {"unreceived", "incomplete"}}

Missing == {v \in VectorSets : status[v] = "unreceived"}

RepeatPutMutant ==
    /\ pc = "list" /\ session = "open"
    /\ ~Some("expired")
    /\ todo' = Missing
    /\ IF Missing # {} THEN Goto("fetch")
       ELSE IF put = 1 THEN Goto("put") ELSE ReturnWith("SUCCESS")
    /\ UNCHANGED <<op, fips, put, cur, session_passed, has_file, polls, file,
                   server, faults>>

ListMissing ==
    /\ pc = "list" /\ session = "open"
    /\ ~Some("expired")
    /\ todo' = Missing
    /\ IF Missing = {} THEN ReturnWith("SUCCESS") ELSE Goto("fetch")
    /\ UNCHANGED <<op, fips, put, cur, session_passed, has_file, polls, file,
                   server, faults>>

ListExpired ==
    /\ pc = "list" /\ session = "open"
    /\ Some("expired")
    /\ ReturnWith("INVALID_ARG")
    /\ UNCHANGED <<client, polls, file, server, faults>>

\* The metadata of a resumed validation is rejected.
ListMetadataRejected ==
    /\ pc = "list" /\ session = "open" /\ fips = 1
    /\ Fault
    /\ ReturnWith("UNSUPPORTED_OP")
    /\ UNCHANGED <<client, polls, file, server>>

Delete ==
    /\ pc = "delete" /\ session = "open"
    /\ session' = "cancelled"
    /\ Answered(ReturnWith("SUCCESS") /\ UNCHANGED client)
    /\ UNCHANGED <<polls, file, status, ready, requests, puts>>

----------------------------------------------------------------------------
Resume == \E f, p \in {0, 1} : StartFromFile("resume", f, p)

Operator == \/ \E f, p \in {0, 1} : StartRun(f, p)
            \/ Resume
            \/ \E o \in {"results", "cancel"} : StartFromFile(o, 0, 0)

Server == \E v \in VectorSets : Generate(v) \/ Grade(v) \/ Lapse(v)

Fetch == \E v \in VectorSets : FetchWait(v) \/ FetchReady(v) \/ HandlerFails(v)

Check == CheckUnfinished \/ CheckPassed \/ CheckFailed \/ CheckWait

Run == \/ Login \/ MetadataRejected \/ Register
       \/ WriteSessionInfo \/ CloseSessionInfo \/ SessionInfoError
       \/ Fetch \/ Submit \/ SubmitExpired \/ Check
       \/ ValidateRefused \/ Validate
       \/ AddRequestUrl \/ AddRequestUrlFails \/ CloseRequestUrl \/ PutData

FromFile == \/ ParseSessionInfo \/ Refresh
            \/ ListMissing \/ ListExpired \/ ListMetadataRejected \/ Delete

Client == Run \/ FromFile \/ CallFails \/ Exit

Next == Operator \/ Server \/ Client \/ Crash

Safety == Init /\ [][Next]_vars

\* The client is sequential code whose calls time out and return: it never just
\* stops.  Nothing is assumed of the server.
ClientSpec == Safety /\ WF_vars(Client)

\* What it takes to complete a session: the server generates and grades eventually,
\* though it owes nobody an answer in time, and the operator resumes an
\* interrupted session again and again, whatever else is done in between.
Diligence ==
    /\ \A v \in VectorSets : WF_vars(Generate(v)) /\ WF_vars(Grade(v))
    /\ SF_vars(Resume)

----------------------------------------------------------------------------
(* Properties *)

Statuses == {"unreceived", "incomplete", "passed", "fail", "expired"}

\* Types.
TypeOK ==
    /\ pc \in Calling \cup {"off", "returned", "save", "saveEnd", "addUrl",
                            "addUrlEnd", "parse"}
    /\ op \in {"none", "run", "resume", "results", "cancel"}
    /\ fips \in {0, 1} /\ put \in {0, 1}
    /\ session_passed \in {0, 1} /\ has_file \in {0, 1}
    /\ todo \subseteq VectorSets
    /\ cur \in VectorSets \cup {NoVS}
    /\ pc = "submit" => cur \in VectorSets
    /\ polls \in 0..MaxPolls
    /\ rv \in {"none", "SUCCESS", "TRANSPORT_FAIL", "UNSUPPORTED_OP", "NO_DATA",
               "JSON_ERR", "CRYPTO_MODULE_FAIL", "MALFORMED_JSON", "INVALID_ARG"}
    /\ file \in {"absent", "broken", "ok", "final"}
    /\ session \in {"none", "open", "cancelled"}
    /\ status \in [VectorSets -> Statuses]
    /\ ready \subseteq VectorSets
    /\ requests \in Nat /\ puts \in Nat
    /\ faults \in 0..MaxFaults

\* Whatever is lost, crashes or is resumed, the server sees what AcvpCertification
\* allows: one response per vector set (acvp_resume_test_session answers none
\* twice), and at most one validation, of a session that has passed entirely.
Certification == INSTANCE AcvpCertification
ImplementsCertification == Certification!Spec

HasResponse(v) == status[v] \in {"incomplete", "passed", "fail"}

\* acvp_run and acvp_resume_test_session return ACVP_SUCCESS only when the server
\* holds a response to every vector set, of this process or of an earlier one,
\* and acvp_run only when all are graded.
SuccessMeansAnswered ==
    pc = "returned" /\ rv = "SUCCESS" =>
        /\ op \in {"run", "resume"} => \A v \in VectorSets : HasResponse(v)
        /\ op = "run" => Graded

\* The operator's file of acvp_mark_as_put_after_test reaches the server at most
\* once, and only after the last response, however often the run was resumed.
PutComesLast ==
    /\ puts <= 1
    /\ puts = 1 => \A v \in VectorSets : HasResponse(v)

\* A session info file that a crash may still make necessary is never put at
\* risk: once complete it is only rewritten when the validation was requested,
\* so no response is missing any more.
NeededFileIsKept ==
    [][file = "ok" /\ file' # "ok" => requests > 0 /\ Missing = {}]_vars

\* Every API call returns, whatever the server does and however often it says
\* "not yet" (ClientSpec).
OperationReturns == pc # "off" ~> pc = "off"

\* A session whose info file was completed loses no vector set: if the operator
\* keeps resuming, every vector set is answered in the end, unless the session
\* is cancelled or one vector set expires: acvp_resume_test_session then refuses
\* to go on with the others.
SessionRecovers ==
    Diligence =>
        (file = "ok" ~> Missing = {} \/ Some("expired") \/ session = "cancelled")

\* acvp.h on acvp_resume_test_session: "fips_validation Should be != 0 in case of
\* fips validation": a resumed validation that succeeds on a passed session has
\* requested the certificate.
ResumeValidates ==
    pc = "returned" /\ op = "resume" /\ fips = 1 /\ rv = "SUCCESS" /\ AllPassed
        => requests > 0
=============================================================================
