------------------------- MODULE AcvpSessionProofs -------------------------
(***************************************************************************)
(* Proofs about AcvpSession, for any set of vector sets, any number of     *)
(* faults and any number of processes.  The inductive invariant IInv ties  *)
(* the step the client is at to what the server holds: what is on the list *)
(* has no response yet, what is off it has one, and nothing was requested  *)
(* before the last response.                                               *)
(***************************************************************************)
EXTENDS AcvpSession, TLAPS

AllAnswered == \A v \in VectorSets : HasResponse(v)

\* Before registration the server holds nothing and the disk is empty.
Fresh ==
    /\ session = "none" =>
         /\ \A v \in VectorSets : status[v] = "unreceived"
         /\ requests = 0 /\ puts = 0 /\ file = "absent"
    /\ pc \in {"login", "register"} => session = "none" /\ op = "run"

\* No vector set is chosen before the list is complete.
Starting ==
    pc \in {"off", "login", "register", "parse", "refresh", "list"} => cur = NoVS

\* While the session info file is written for the first time.
Saving ==
    /\ pc \in {"save", "saveEnd"} =>
         file # "ok" /\ todo = VectorSets /\ cur = NoVS

\* While vector sets are processed: the list holds exactly those to answer.
Working ==
    pc \in {"save", "saveEnd", "fetch", "submit"} =>
        /\ op \in {"run", "resume"}
        /\ session # "none" /\ requests = 0 /\ puts = 0
        /\ todo # {}
        /\ \A v \in todo : status[v] \in {"unreceived", "expired"}
        /\ \A v \in VectorSets \ todo : HasResponse(v)
        /\ cur \in todo \cup {NoVS}

\* While results are checked, and after.
Checking ==
    pc = "check" =>
        /\ op \in {"run", "resume", "results"}
        /\ op # "results" => AllAnswered /\ requests = 0 /\ puts = 0

Closing ==
    /\ pc \in {"validate", "put", "addUrl", "addUrlEnd"} =>
         Graded /\ puts = 0 /\ op \in {"run", "resume"}
    /\ pc = "validate" => requests = 0
    /\ pc \in {"addUrl", "addUrlEnd"} => requests > 0

\* The operations that start from the file.
Reading ==
    /\ pc \in {"parse", "refresh"} => op \in {"resume", "results", "cancel"}
    /\ pc = "list" => op = "resume"
    /\ pc = "delete" => op = "cancel"

\* A session that is passed for the client or validated has passed.
Passing ==
    /\ session_passed = 1 => AllPassed
    /\ requests > 0 => AllPassed

IInv ==
    /\ TypeOK /\ Fresh /\ Starting /\ Saving /\ Working /\ Checking /\ Closing /\ Reading
    /\ Passing /\ PutComesLast /\ SuccessMeansAnswered

\* What each step shows.
Kept == IInv' /\ (Certification!Next \/ UNCHANGED <<status, requests>>)
              /\ (file = "ok" /\ file' # "ok" => requests > 0 /\ Missing = {})

USE SessionAssumption, NoVSAssumption

\* The initial states satisfy the invariant.
LEMMA InitIInv == Init => IInv
BY DEF Init, IInv, TypeOK, Fresh, Starting, Saving, Working, Checking, Closing, Reading,
       Passing, PutComesLast, SuccessMeansAnswered, Calling, NoVS, Statuses,
       AllPassed, Graded

----------------------------------------------------------------------------
(* One lemma per action: it keeps the invariant, is a step or a stutter of *)
(* AcvpCertification, and keeps a file that is needed.  The parts of the   *)
(* invariant are visible in all of them.                                   *)

USE DEF Kept, IInv, TypeOK, Fresh, Starting, Saving, Working, Checking, Closing, Reading,
        Passing, PutComesLast, SuccessMeansAnswered, AllAnswered, HasResponse,
        AllPassed, Graded, Missing, client, server, Calling, Statuses

\* The server generating vectors keeps the invariant.
LEMMA GenerateKept == ASSUME IInv, NEW v \in VectorSets, Generate(v) PROVE Kept
BY DEF Generate

\* Grading changes one status, of a vector set that has a response.
LEMMA GradeKept == ASSUME IInv, NEW v \in VectorSets, Grade(v) PROVE Kept
<1>1. PICK s \in {"passed", "fail"} : status' = [status EXCEPT ![v] = s]
  BY DEF Grade
<1>2. /\ \A u \in VectorSets : status'[u] = IF u = v THEN s ELSE status[u]
      /\ status' \in [VectorSets -> Statuses]
      /\ status[v] = "incomplete"
  BY <1>1 DEF Grade
<1>3. ~AllPassed /\ session_passed = 0 /\ requests = 0
  BY <1>2
<1>4. Certification!Next
  BY <1>1, <1>2 DEF Grade, Certification!Next, Certification!Grade
<1> QED
  BY <1>2, <1>3, <1>4 DEF Grade

\* Only a vector set without a response lapses, so none was requested.
LEMMA LapseKept == ASSUME IInv, NEW v \in VectorSets, Lapse(v) PROVE Kept
<1>1. /\ \A u \in VectorSets : status'[u] = IF u = v THEN "expired" ELSE status[u]
      /\ status' \in [VectorSets -> Statuses]
      /\ status[v] = "unreceived"
  BY DEF Lapse
<1>2. ~AllPassed /\ session_passed = 0 /\ requests = 0 /\ puts = 0
  BY <1>1
<1>3. Certification!Next
  BY DEF Lapse, Certification!Next, Certification!Lapse
<1> QED
  BY <1>1, <1>2, <1>3 DEF Lapse

\* Starting acvp_run keeps the invariant: there is no session yet.
LEMMA StartRunKept ==
    ASSUME IInv, NEW f \in {0, 1}, NEW p \in {0, 1}, StartRun(f, p) PROVE Kept
BY DEF StartRun, NewProcess

\* acvp_login, the first step of acvp_run, keeps the invariant.
LEMMA LoginKept == ASSUME IInv, Login PROVE Kept
BY DEF Login, Goto

\* Rejected validation metadata end acvp_run before it registers.
LEMMA MetadataRejectedKept == ASSUME IInv, MetadataRejected PROVE Kept
BY DEF MetadataRejected, ReturnWith, Fault

\* acvp_register puts every vector set on the list, all unanswered.
LEMMA RegisterKept == ASSUME IInv, Register PROVE Kept
BY DEF Register, Goto, Answered, ReturnWith, Fault

\* acvp_write_session_info only ever truncates a file that is not complete.
LEMMA WriteSessionInfoKept == ASSUME IInv, WriteSessionInfo PROVE Kept
BY DEF WriteSessionInfo, Goto

\* Completing the session info file keeps the invariant.
LEMMA CloseSessionInfoKept == ASSUME IInv, CloseSessionInfo PROVE Kept
BY DEF CloseSessionInfo, Goto

\* A failed write of the session info file leaves no complete file worse.
LEMMA SessionInfoErrorKept == ASSUME IInv, SessionInfoError PROVE Kept
BY DEF SessionInfoError, Goto, Fault

\* Polling for a vector set in acvp_process_vsid keeps the invariant.
LEMMA FetchWaitKept ==
    ASSUME IInv, NEW v \in VectorSets, FetchWait(v) PROVE Kept
BY DEF FetchWait, Goto, ReturnWith, Choose, NoVS

\* The vector set that is processed is on the list.
LEMMA FetchReadyKept ==
    ASSUME IInv, NEW v \in VectorSets, FetchReady(v) PROVE Kept
BY DEF FetchReady, Goto, Choose, NoVS

\* A failing handler ends the operation and changes nothing else.
LEMMA HandlerFailsKept ==
    ASSUME IInv, NEW v \in VectorSets, HandlerFails(v) PROVE Kept
BY DEF HandlerFails, ReturnWith, Fault, Choose, NoVS

\* acvp_submit_vector_responses answers a vector set that had no response.
LEMMA SubmitKept == ASSUME IInv, Submit PROVE Kept
<1>1. /\ cur \in VectorSets /\ cur \in todo /\ status[cur] = "unreceived"
      /\ status' = [status EXCEPT ![cur] = "incomplete"]
  BY DEF Submit, Received, NoVS
<1>2. /\ \A u \in VectorSets : status'[u] = IF u = cur THEN "incomplete" ELSE status[u]
      /\ status' \in [VectorSets -> Statuses]
  BY <1>1
<1>3. ~AllPassed /\ session_passed = 0 /\ requests = 0 /\ puts = 0
  BY <1>1 DEF Submit
<1>4. Certification!Next
  BY <1>1 DEF Submit, Certification!Next, Certification!Receive
<1>5. CASE pc' = "returned"
  BY <1>1, <1>2, <1>3, <1>4, <1>5 DEF Submit, Answered, Goto, ReturnWith, Fault
<1>6. CASE pc' # "returned"
  <2>1. /\ todo' = todo \ {cur} /\ cur' = NoVS
        /\ pc' = IF todo' = {} THEN "check" ELSE "fetch"
        /\ UNCHANGED <<op, fips, put, session_passed, has_file, faults, rv>>
    BY <1>6 DEF Submit, Answered, Goto, ReturnWith
  <2>2. Working'
    BY <1>1, <1>2, <1>3, <2>1 DEF Submit
  <2>3. Checking'
    BY <1>1, <1>2, <1>3, <2>1 DEF Submit
  <2> QED
    BY <1>1, <1>2, <1>3, <1>4, <2>1, <2>2, <2>3 DEF Submit
<1> QED
  BY <1>5, <1>6

\* A response refused because the vector set expired ends the operation.
LEMMA SubmitExpiredKept == ASSUME IInv, SubmitExpired PROVE Kept
BY DEF SubmitExpired, ReturnWith

\* A run or a resumed run never checks a session with a response missing.
LEMMA CheckUnfinishedKept == ASSUME IInv, CheckUnfinished PROVE Kept
BY DEF CheckUnfinished, Some, AfterCheck, Goto, ReturnWith

\* acvp_check_test_results notes a pass only of a session that has passed.
LEMMA CheckPassedKept == ASSUME IInv, CheckPassed PROVE Kept
BY DEF CheckPassed, AfterCheck, Goto, ReturnWith

\* A failed session is completely graded.
LEMMA CheckFailedKept == ASSUME IInv, CheckFailed PROVE Kept
BY DEF CheckFailed, AfterCheck, Goto, ReturnWith

\* Polling for the results keeps the invariant.
LEMMA CheckWaitKept == ASSUME IInv, CheckWait PROVE Kept
BY DEF CheckWait, Goto, ReturnWith, Fault, Some

\* acvp_validate_test_session sends nothing for a session that did not pass.
LEMMA ValidateRefusedKept == ASSUME IInv, ValidateRefused PROVE Kept
BY DEF ValidateRefused, AfterValidate, Goto, ReturnWith

\* The validation is requested once, of a session that has passed.
LEMMA ValidateKept == ASSUME IInv, Validate PROVE Kept
BY DEF Validate, Goto, Answered, ReturnWith, Fault, AfterValidate,
       Certification!Next, Certification!Certify

\* acvp_parse_validation rewrites the file of a session that is complete.
LEMMA AddRequestUrlKept == ASSUME IInv, AddRequestUrl PROVE Kept
BY DEF AddRequestUrl, Goto

\* A failed rewrite leaves the invariant.
LEMMA AddRequestUrlFailsKept == ASSUME IInv, AddRequestUrlFails PROVE Kept
BY DEF AddRequestUrlFails, ReturnWith, Fault

\* Completing the rewritten file keeps the invariant.
LEMMA CloseRequestUrlKept == ASSUME IInv, CloseRequestUrl PROVE Kept
BY DEF CloseRequestUrl, Fault, AfterValidate, Goto, ReturnWith

\* acvp_put_data_from_ctx sends its file once, after the last response.
LEMMA PutDataKept == ASSUME IInv, PutData PROVE Kept
BY DEF PutData, ReturnWith, Answered, Fault

\* Starting an operation from the session info file keeps the invariant.
LEMMA StartFromFileKept ==
    ASSUME IInv, NEW o \in {"resume", "results", "cancel"}, NEW f \in {0, 1}, NEW p \in {0, 1}, StartFromFile(o, f, p)
    PROVE Kept
BY DEF StartFromFile, NewProcess

\* acvp_parse_session_info_file keeps the invariant.
LEMMA ParseSessionInfoKept == ASSUME IInv, ParseSessionInfo PROVE Kept
BY DEF ParseSessionInfo, Goto, ReturnWith

\* acvp_refresh leads each operation to its own next step.
LEMMA RefreshKept == ASSUME IInv, Refresh PROVE Kept
BY DEF Refresh, Goto

\* acvp_resume_test_session lists exactly the vector sets to answer.
LEMMA ListMissingKept == ASSUME IInv, ListMissing PROVE Kept
BY DEF ListMissing, Goto, ReturnWith, Some

\* An expired vector set ends acvp_resume_test_session.
LEMMA ListExpiredKept == ASSUME IInv, ListExpired PROVE Kept
BY DEF ListExpired, ReturnWith, Some

\* Rejected metadata end acvp_resume_test_session.
LEMMA ListMetadataRejectedKept == ASSUME IInv, ListMetadataRejected PROVE Kept
BY DEF ListMetadataRejected, ReturnWith, Fault

\* acvp_cancel_test_session keeps the invariant.
LEMMA DeleteKept == ASSUME IInv, Delete PROVE Kept
BY DEF Delete, ReturnWith, Answered, Fault

\* A failing call ends the operation with an error.
LEMMA CallFailsKept == ASSUME IInv, CallFails PROVE Kept
BY DEF CallFails, ReturnWith, Fault

\* The end of a process keeps the invariant.
LEMMA ExitKept == ASSUME IInv, Exit PROVE Kept
BY DEF Exit, Gone, NoVS

\* A crash keeps the invariant.
LEMMA CrashKept == ASSUME IInv, Crash PROVE Kept
BY DEF Crash, Fault, Gone, NoVS

\* Every step, stuttering included.
LEMMA NextKept == ASSUME IInv, [Next]_vars PROVE Kept
<1>1. CASE Operator
  BY <1>1, StartRunKept, StartFromFileKept DEF Operator, Resume
<1>2. CASE Server
  BY <1>2, GenerateKept, GradeKept, LapseKept DEF Server
<1>3. CASE Fetch \/ Check
  BY <1>3, FetchWaitKept, FetchReadyKept, HandlerFailsKept, CheckUnfinishedKept,
     CheckPassedKept, CheckFailedKept, CheckWaitKept DEF Fetch, Check
<1>4. CASE Run
  BY <1>4, <1>3, LoginKept, MetadataRejectedKept, RegisterKept, WriteSessionInfoKept,
     CloseSessionInfoKept, SessionInfoErrorKept, SubmitKept, SubmitExpiredKept,
     ValidateRefusedKept, ValidateKept, AddRequestUrlKept, AddRequestUrlFailsKept,
     CloseRequestUrlKept, PutDataKept DEF Run
<1>5. CASE FromFile
  BY <1>5, ParseSessionInfoKept, RefreshKept, ListMissingKept, ListExpiredKept,
     ListMetadataRejectedKept, DeleteKept DEF FromFile
<1>6. CASE CallFails \/ Exit \/ Crash
  BY <1>6, CallFailsKept, ExitKept, CrashKept
<1>7. CASE UNCHANGED vars
  BY <1>7 DEF vars
<1> QED
  BY <1>1, <1>2, <1>4, <1>5, <1>6, <1>7 DEF Next, Client

----------------------------------------------------------------------------
HIDE DEF Kept, IInv, TypeOK, Fresh, Starting, Saving, Working, Checking, Closing,
         Reading, Passing, PutComesLast, SuccessMeansAnswered, AllAnswered,
         HasResponse, AllPassed, Graded, Missing, client, server, Calling,
         Statuses

\* The invariant holds in every reachable state.
THEOREM SessionInvariant == Safety => []IInv
<1>1. IInv /\ [Next]_vars => IInv'
  BY NextKept DEF Kept
<1> QED
  BY InitIInv, <1>1, PTL DEF Safety

\* Type correctness of the session.
THEOREM SessionTypeCorrect == Safety => []TypeOK
<1>1. IInv => TypeOK
  BY DEF IInv
<1> QED
  BY SessionInvariant, <1>1, PTL

\* acvp_run and acvp_resume_test_session return success only when the server holds
\* every response, and acvp_run only when all are graded.
THEOREM SessionSuccessMeansAnswered == Safety => []SuccessMeansAnswered
<1>1. IInv => SuccessMeansAnswered
  BY DEF IInv
<1> QED
  BY SessionInvariant, <1>1, PTL

\* acvp_put_data_from_ctx reaches the server at most once, after the last response.
THEOREM SessionPutComesLast == Safety => []PutComesLast
<1>1. IInv => PutComesLast
  BY DEF IInv
<1> QED
  BY SessionInvariant, <1>1, PTL

\* A complete session info file is only rewritten once no response is missing.
THEOREM SessionNeededFileIsKept == Safety => NeededFileIsKept
<1>1. IInv /\ [Next]_vars
        => [file = "ok" /\ file' # "ok" => requests > 0 /\ Missing = {}]_vars
  BY NextKept DEF Kept
<1> QED
  BY SessionInvariant, <1>1, PTL DEF Safety, NeededFileIsKept

\* The session, with crashes, lost replies and any number of resumed runs,
\* implements AcvpCertification.
THEOREM SessionImplementsCertification == Safety => ImplementsCertification
<1>1. Init => Certification!Init
  BY DEF Init, Certification!Init
<1>2. IInv /\ [Next]_vars => [Certification!Next]_(Certification!certVars)
  BY NextKept DEF Kept, Certification!certVars
<1> QED
  BY SessionInvariant, <1>1, <1>2, PTL
     DEF Safety, ImplementsCertification, Certification!Spec
=============================================================================
