---------------------------- MODULE AcvpOffline ----------------------------
(***************************************************************************)
(* Offline testing (src/src/acvp.c): a run or a resumed run with vector_req *)
(* saves the vector sets to a request file, acvp_run_vectors_from_file     *)
(* turns it into a response file on a machine without a network, and       *)
(* acvp_upload_vectors_from_file sends the responses.  The two files are   *)
(* the only link between the processes, each of which can die at any step  *)
(* and be repeated.                                                        *)
(*                                                                         *)
(* A file is the list of vector set URLs followed by one entry per vector  *)
(* set, and parses once its closing bracket is written.  URLs and entries  *)
(* are matched by position only, so the order matters: Orders are those in *)
(* which the server may list the vector sets, at registration or later.    *)
(*                                                                         *)
(* Network calls are as in AcvpSession; a server that is not ready in time *)
(* is a call that fails.                                                   *)
(***************************************************************************)
EXTENDS Naturals, Sequences

CONSTANTS
    VectorSets,     \* the vector sets of the session
    Orders,         \* the orders in which the server lists them
    MaxFaults       \* bound: failed calls, writes and handlers, and crashes

NoVS == "none"

ASSUME OfflineAssumption ==
    /\ \A s \in Orders : /\ s \in Seq(VectorSets) /\ Len(s) > 0
                         /\ \A v \in VectorSets : \E i \in 1..Len(s) : s[i] = v
    /\ NoVS \notin VectorSets
    /\ MaxFaults \in Nat

VARIABLES
    \* the client process
    pc,             \* its next step, "off" when there is no process
    op,             \* "download", "resume", "process" or "upload"
    fips,           \* the argument fips_validation, 0 or 1
    list,           \* ctx->vsid_url_list
    n,              \* position in the list and in the file
    session_passed, \* ctx->session_passed
    rv,             \* what the API call returned
    \* the disk
    info,           \* the session info file is complete, 0 or 1
    req,            \* the request file, ctx->vector_req_file
    rsp,            \* the response file
    \* the server
    session,        \* "none" or "open"
    skipped,        \* vector sets that hold an error instead of vectors
    status,         \* status of each vector set
    answer,         \* the vector set whose response it holds for each one
    requests,       \* validations it has accepted
    faults,         \* what has gone wrong so far
    short           \* history: a reply without a vector set was saved "now", by the
                    \* latest download, or only "before" it, or "never"

client == <<op, fips, list, n, session_passed>>
disk == <<info, req, rsp>>
server == <<session, skipped, status, answer, requests>>
vars == <<pc, client, rv, disk, server, faults, short>>

\* A file that is absent and one that does not parse are treated alike.
NoFile == [urls |-> <<>>, entries |-> <<>>, closed |-> 0]

Init ==
    /\ pc = "off" /\ op = "none" /\ fips = 0 /\ list = <<>> /\ n = 1
    /\ session_passed = 0 /\ rv = "none"
    /\ info = 0 /\ req = NoFile /\ rsp = NoFile
    /\ session = "none" /\ skipped = {}
    /\ status = [v \in VectorSets |-> "unreceived"]
    /\ answer = [v \in VectorSets |-> NoVS]
    /\ requests = 0 /\ faults = 0 /\ short = "never"

----------------------------------------------------------------------------
(* The server, external *)

Grade(v) ==
    /\ status[v] = "incomplete"
    /\ \E s \in {"passed", "fail"} : status' = [status EXCEPT ![v] = s]
    /\ UNCHANGED <<pc, client, rv, disk, session, skipped, answer, requests,
                   faults, short>>

Lapse(v) ==
    /\ session = "open" /\ status[v] = "unreceived"
    /\ status' = [status EXCEPT ![v] = "expired"]
    /\ UNCHANGED <<pc, client, rv, disk, session, skipped, answer, requests,
                   faults, short>>

----------------------------------------------------------------------------
(* Control flow shared by the operations *)

Goto(p) == pc' = p /\ UNCHANGED rv

ReturnWith(r) == pc' = "returned" /\ rv' = r

Fault == faults < MaxFaults /\ faults' = faults + 1

\* The process and its context are gone; only files remain.
Gone ==
    /\ pc' = "off" /\ op' = "none" /\ fips' = 0 /\ list' = <<>> /\ n' = 1
    /\ session_passed' = 0 /\ rv' = "none"
    /\ UNCHANGED <<disk, server, short>>

Crash == pc \notin {"off", "returned"} /\ Fault /\ Gone

Exit == pc = "returned" /\ Gone /\ UNCHANGED faults

NewProcess(o, f, start) ==
    /\ pc = "off"
    /\ pc' = start /\ op' = o /\ fips' = f
    /\ UNCHANGED <<list, n, session_passed, rv, disk, server, faults, short>>

\* A call without effect at the server fails, or the wait for it is over.
CallFails ==
    /\ pc \in {"register", "list", "fetch", "validate"}
    /\ Fault
    /\ ReturnWith("TRANSPORT_FAIL")
    /\ UNCHANGED <<client, disk, server, short>>

\* Files are written piecewise: the first write truncates the file and leaves
\* the URLs and the first entry, the others append an entry each, the last one
\* appends the bracket that makes it parse.  What follows the bracket is not read.
Started(urls) == [urls |-> urls, entries |-> <<>>, closed |-> 0]
Opened(file, urls) == IF n = 1 THEN Started(urls) ELSE file
WithEntry(file, e) ==
    IF file.closed = 1 THEN file
    ELSE [urls |-> file.urls, entries |-> Append(file.entries, e), closed |-> 0]
Closed(file) == [file EXCEPT !.closed = 1]

----------------------------------------------------------------------------
(* acvp_run and acvp_resume_test_session with vector_req *)

StartDownload == session = "none" /\ NewProcess("download", 0, "register")

StartResume == info = 1 /\ NewProcess("resume", 0, "list")

\* The server opens the session; some algorithms it may have failed to generate
\* vectors for.
Register ==
    /\ pc = "register"
    /\ session' = "open"
    /\ skipped' \in SUBSET VectorSets
    /\ \/ list' \in Orders /\ Goto("save") /\ UNCHANGED faults
       \/ Fault /\ ReturnWith("TRANSPORT_FAIL") /\ UNCHANGED list
    /\ UNCHANGED <<op, fips, n, session_passed, disk, status, answer, requests, short>>

\* acvp_write_session_info; an error is logged and the run goes on.
Save ==
    /\ pc = "save"
    /\ \/ info' = 1 /\ UNCHANGED faults
       \/ UNCHANGED info /\ Fault
    /\ Goto("fetch")
    /\ UNCHANGED <<client, req, rsp, server, short>>

\* A resumed download takes every vector set again, in the order of the results.
ListAll ==
    /\ pc = "list"
    /\ list' \in Orders
    /\ short' = IF short = "now" THEN "before" ELSE short
    /\ Goto("fetch")
    /\ UNCHANGED <<op, fips, n, session_passed, disk, server, faults>>

\* acvp_process_vsid saves a vector set and leaves it at that.
AppendToOldMutant ==
    /\ pc = "fetch"
    /\ req' = WithEntry(IF req.urls # <<>> THEN req ELSE Started(list), list[n])
    /\ n' = n + 1
    /\ Goto(IF n < Len(list) THEN "fetch" ELSE "closeReq")
    /\ UNCHANGED <<op, fips, list, session_passed, info, rsp, server, faults, short>>

SkipFailedMutant ==
    /\ pc = "fetch"
    /\ req' \in {WithEntry(Opened(req, list), list[n]), Opened(req, list)}
    /\ n' = n + 1
    /\ Goto(IF n < Len(list) THEN "fetch" ELSE "closeReq")
    /\ UNCHANGED <<op, fips, list, session_passed, info, rsp, server, faults, short>>

SaveVectorSet ==
    /\ pc = "fetch"
    /\ req' = WithEntry(Opened(req, list), list[n])
    /\ n' = n + 1
    /\ Goto(IF n < Len(list) THEN "fetch" ELSE "closeReq")
    /\ UNCHANGED <<op, fips, list, session_passed, info, rsp, server, faults, short>>

\* The reply parses but has no vector set: NULL is appended, which is the way to
\* write the closing bracket, and the download goes on.
SaveNothing ==
    /\ pc = "fetch"
    /\ Fault
    /\ req' = Closed(Opened(req, list))
    /\ n' = n + 1
    /\ short' = "now"
    /\ Goto(IF n < Len(list) THEN "fetch" ELSE "closeReq")
    /\ UNCHANGED <<op, fips, list, session_passed, info, rsp, server>>

\* A write fails; at the first one the file may already be truncated.
SaveFails ==
    /\ pc \in {"fetch", "closeReq"}
    /\ Fault
    /\ req' \in {req, Opened(req, list)}
    /\ ReturnWith("JSON_ERR")
    /\ UNCHANGED <<client, info, rsp, server, short>>

\* The end of acvp_process_tests.
CloseRequest ==
    /\ pc = "closeReq"
    /\ req' = Closed(req)
    /\ ReturnWith("SUCCESS")
    /\ UNCHANGED <<client, info, rsp, server, faults, short>>

----------------------------------------------------------------------------
(* acvp_run_vectors_from_file *)

StartProcess == NewProcess("process", 0, "parse")

\* A request file that does not parse, or has no entry, is logged, and rv is
\* still ACVP_SUCCESS.
ParseRequest ==
    /\ pc = "parse"
    /\ IF req.closed = 1 /\ Len(req.entries) > 0
       THEN list' = req.urls /\ Goto("process")
       ELSE UNCHANGED list /\ ReturnWith("SUCCESS")
    /\ UNCHANGED <<op, fips, n, session_passed, disk, server, faults, short>>

\* acvp_dispatch_vector_set and the write of its response.  The loop ends with
\* the entries of the file, or when the URLs run out before them.
ProcessVectorSet ==
    /\ pc = "process"
    /\ req.entries[n] \notin skipped
    /\ rsp' = WithEntry(Opened(rsp, req.urls), req.entries[n])
    /\ n' = n + 1
    /\ IF n = Len(req.entries) THEN Goto("closeRsp")
       ELSE IF n = Len(list) THEN ReturnWith("SUCCESS")
       ELSE Goto("process")
    /\ UNCHANGED <<op, fips, list, session_passed, info, req, server, faults, short>>

\* The entry is the server's error: everything ends with it.
ProcessSkipped ==
    /\ pc = "process"
    /\ req.entries[n] \in skipped
    /\ ReturnWith("NO_DATA")
    /\ UNCHANGED <<client, disk, server, faults, short>>

\* The handler fails, or a write.
ProcessFails ==
    /\ pc \in {"process", "closeRsp"}
    /\ Fault
    /\ \/ pc = "process" /\ UNCHANGED rsp /\ ReturnWith("CRYPTO_MODULE_FAIL")
       \/ rsp' \in {rsp, Opened(rsp, req.urls)} /\ ReturnWith("JSON_ERR")
    /\ UNCHANGED <<client, info, req, server, short>>

NoBracketMutant ==
    /\ pc = "closeRsp"
    /\ ReturnWith("SUCCESS")
    /\ UNCHANGED <<client, disk, server, faults, short>>

CloseResponse ==
    /\ pc = "closeRsp"
    /\ rsp' = Closed(rsp)
    /\ ReturnWith("SUCCESS")
    /\ UNCHANGED <<client, info, req, server, faults, short>>

----------------------------------------------------------------------------
(* acvp_upload_vectors_from_file *)

StartUpload(f) == NewProcess("upload", f, "parseRsp")

ParseResponse ==
    /\ pc = "parseRsp"
    /\ IF rsp.closed = 1
       THEN list' = rsp.urls /\ Goto("submit")
       ELSE UNCHANGED list /\ ReturnWith("MALFORMED_JSON")
    /\ UNCHANGED <<op, fips, n, session_passed, disk, server, faults, short>>

\* acvp_verify_fips_validation_metadata rejects what the operator supplied.
MetadataRejected ==
    /\ pc = "parseRsp" /\ fips = 1 /\ rsp.closed = 1
    /\ Fault
    /\ ReturnWith("UNSUPPORTED_OP")
    /\ UNCHANGED <<client, disk, server, short>>

\* The loop goes on after a submission, whether it failed or not.
OneMoreMutant ==
    /\ n' = n + 1
    /\ Goto(IF n <= Len(list) THEN "submit" ELSE "check")
    /\ UNCHANGED <<op, fips, list, session_passed>>

NextSubmission ==
    /\ n' = n + 1
    /\ Goto(IF n < Len(list) THEN "submit" ELSE "check")
    /\ UNCHANGED <<op, fips, list, session_passed>>

\* The loop runs over the URLs; past the last entry it sends no response.
EntryAt(i) == IF i <= Len(rsp.entries) THEN rsp.entries[i] ELSE NoVS

\* The server takes the n-th entry as the response to the n-th URL, the first
\* one or a new one (POST, then PUT); the reply may be lost.
Received(v, e) ==
    /\ status' = [status EXCEPT ![v] = "incomplete"]
    /\ answer' = [answer EXCEPT ![v] = e]
    /\ UNCHANGED <<session, skipped, requests>>

Submit ==
    /\ pc = "submit" /\ status[list[n]] # "expired"
    /\ Received(list[n], EntryAt(n))
    /\ UNCHANGED faults \/ Fault
    /\ NextSubmission
    /\ UNCHANGED <<disk, short>>

\* "Failed to submit test results for vector set - skipping...": the call fails,
\* or the server refuses what it is sent.
SubmitSkipped ==
    /\ pc = "submit"
    /\ IF status[list[n]] = "expired" \/ EntryAt(n) = NoVS THEN UNCHANGED faults ELSE Fault
    /\ NextSubmission
    /\ UNCHANGED <<disk, server, short>>

----------------------------------------------------------------------------
(* acvp_check_test_results and acvp_validate_test_session, as in AcvpSession *)

AllPassed == \A v \in VectorSets : status[v] = "passed"
Some(s) == \E v \in VectorSets : status[v] = s

\* After the check its result is only kept when no validation follows.
AfterCheck(r) == IF fips = 1 THEN Goto("validate") ELSE ReturnWith(r)

\* All is graded, or some vector set has no response: the loop returns SUCCESS.
HopefulCheckMutant ==
    /\ pc = "check"
    /\ Some("unreceived") \/ Some("expired") \/ ~Some("incomplete")
    /\ session_passed' = IF ~Some("fail") THEN 1 ELSE session_passed
    /\ AfterCheck("SUCCESS")
    /\ UNCHANGED <<op, fips, list, n, disk, server, faults, short>>

CheckResults ==
    /\ pc = "check"
    /\ Some("unreceived") \/ Some("expired") \/ ~Some("incomplete")
    /\ session_passed' = IF AllPassed THEN 1 ELSE session_passed
    /\ AfterCheck("SUCCESS")
    /\ UNCHANGED <<op, fips, list, n, disk, server, faults, short>>

\* The call fails, or grading takes longer than the maximum wait.
CheckFails ==
    /\ pc = "check"
    /\ IF Some("incomplete") THEN UNCHANGED faults ELSE Fault
    /\ AfterCheck("TRANSPORT_FAIL")
    /\ UNCHANGED <<client, disk, server, short>>

\* A session that did not pass is not validated: "technically no error occurred".
ValidateRefused ==
    /\ pc = "validate" /\ session_passed = 0
    /\ ReturnWith("SUCCESS")
    /\ UNCHANGED <<client, disk, server, faults, short>>

Validate ==
    /\ pc = "validate" /\ session_passed = 1
    /\ requests' = 1
    /\ \/ ReturnWith("SUCCESS") /\ UNCHANGED faults
       \/ Fault /\ ReturnWith("TRANSPORT_FAIL")
    /\ UNCHANGED <<client, disk, session, skipped, status, answer, short>>

----------------------------------------------------------------------------
Operator == StartDownload \/ StartResume \/ StartProcess
            \/ \E f \in {0, 1} : StartUpload(f)

Server == \E v \in VectorSets : Grade(v) \/ Lapse(v)

Download == Register \/ Save \/ ListAll \/ SaveVectorSet \/ SaveNothing
            \/ SaveFails \/ CloseRequest

Process == ParseRequest \/ ProcessVectorSet \/ ProcessSkipped \/ ProcessFails
           \/ CloseResponse

Upload == ParseResponse \/ MetadataRejected \/ Submit \/ SubmitSkipped
          \/ CheckResults \/ CheckFails \/ ValidateRefused \/ Validate

Client == Download \/ Process \/ Upload \/ CallFails \/ Exit

Next == Operator \/ Server \/ Client \/ Crash

Safety == Init /\ [][Next]_vars

\* The client never just stops, and the operator repeats every stage again and
\* again.  Nothing is assumed of the server.
Spec ==
    /\ Safety
    /\ WF_vars(Client)
    /\ SF_vars(StartResume) /\ SF_vars(StartProcess)
    /\ SF_vars(\E f \in {0, 1} : StartUpload(f))

----------------------------------------------------------------------------
(* Properties *)

Files == [urls : Seq(VectorSets), entries : Seq(VectorSets), closed : {0, 1}]

\* Types; in particular no loop runs past the end of the list or of the file.
TypeOK ==
    /\ pc \in {"off", "register", "save", "list", "fetch", "closeReq", "parse",
               "process", "closeRsp", "parseRsp", "submit", "check", "validate",
               "returned"}
    /\ op \in {"none", "download", "resume", "process", "upload"}
    /\ fips \in {0, 1} /\ session_passed \in {0, 1} /\ info \in {0, 1}
    /\ list \in Seq(VectorSets) /\ n \in Nat
    /\ pc \in {"fetch", "process", "submit"} => n \in 1..Len(list)
    /\ pc = "process" => n \in 1..Len(req.entries)
    /\ rv \in {"none", "SUCCESS", "TRANSPORT_FAIL", "JSON_ERR", "NO_DATA",
               "CRYPTO_MODULE_FAIL", "MALFORMED_JSON", "UNSUPPORTED_OP"}
    /\ req \in Files /\ rsp \in Files
    /\ session \in {"none", "open"} /\ skipped \in SUBSET VectorSets
    /\ status \in [VectorSets -> {"unreceived", "incomplete", "passed", "fail",
                                  "expired"}]
    /\ answer \in [VectorSets -> VectorSets \cup {NoVS}]
    /\ requests \in {0, 1} /\ faults \in 0..MaxFaults
    /\ short \in {"never", "before", "now"}

\* The upload matches responses and URLs by position: however the stages failed,
\* died and were repeated, a vector set is only ever answered with its own
\* response.  It is sent without one only if a download has met a reply without
\* a vector set.
ResponsesMatch ==
    \A v \in VectorSets :
        \/ answer[v] = IF status[v] \in {"unreceived", "expired"} THEN NoVS ELSE v
        \/ answer[v] = NoVS /\ short # "never"

\* A download that returns ACVP_SUCCESS has left a request file that parses and
\* holds every vector set of the session, whatever earlier downloads left in it;
\* unless one of its replies had no vector set.
DownloadIsComplete ==
    pc = "returned" /\ rv = "SUCCESS" /\ op \in {"download", "resume"} /\ short # "now" =>
        /\ req.closed = 1
        /\ \A v \in VectorSets : \E i \in 1..Len(req.entries) : req.entries[i] = v

\* Uploads can be repeated and skip what fails, and the result of the check is
\* overwritten by that of the validation: still the validation is only requested
\* in a state in which every vector set has passed.
ValidatesOnlyPassed == [][requests' # requests => AllPassed]_vars

\* A session whose info file was written is answered completely if the operator
\* keeps repeating the stages, unless the server skipped an algorithm (its error
\* in the file stops acvp_run_vectors_from_file for all) or a vector set expires.
OfflineCompletes ==
    info = 1 ~> \/ \A v \in VectorSets : answer[v] = v
                \/ skipped # {} \/ Some("expired")
=============================================================================
