------------------------- MODULE AcvpOfflineProofs -------------------------
(***************************************************************************)
(* Proofs about AcvpOffline, for any set of vector sets, any orders the    *)
(* server lists them in and any number of faults.  What makes the match by *)
(* position work is Aligned: in both files, at every moment, the entries   *)
(* are a prefix of the URLs, and all of them once the file parses, as long *)
(* as every reply had a vector set.                                        *)
(***************************************************************************)
EXTENDS AcvpOffline, TLAPS

Covers(s) == \A v \in VectorSets : \E i \in 1..Len(s) : s[i] = v

Aligned(f) ==
    /\ Len(f.entries) <= Len(f.urls)
    /\ \A i \in 1..Len(f.entries) : f.entries[i] = f.urls[i]
    /\ f.closed = 1 => Len(f.urls) > 0 /\ Covers(f.urls)

\* f is being written for the URLs of s and has all entries before the n-th.
Written(f, s) ==
    f.urls = s /\ Len(f.entries) = n - 1 /\ f.closed = 0

\* Or it was closed before its time.
Cut(f, s) == f.urls = s /\ f.closed = 1 /\ short = "now"

\* A file that parses has all its entries, until a reply had no vector set.
Whole ==
    short = "never" =>
        /\ req.closed = 1 => Len(req.entries) = Len(req.urls)
        /\ rsp.closed = 1 => Len(rsp.entries) = Len(rsp.urls)

Starting ==
    pc \in {"off", "register", "save", "list", "parse", "parseRsp"} => n = 1

Downloading ==
    /\ pc \in {"register", "save", "list", "fetch", "closeReq"} =>
         op \in {"download", "resume"}
    /\ pc \in {"save", "fetch", "closeReq"} => Len(list) > 0 /\ Covers(list)
    /\ pc = "fetch" /\ n > 1 => Written(req, list) \/ Cut(req, list)
    /\ pc = "closeReq" => (Written(req, list) \/ Cut(req, list)) /\ n = Len(list) + 1

Processing ==
    /\ pc \in {"parse", "process", "closeRsp"} => op = "process"
    /\ pc \in {"process", "closeRsp"} => req.closed = 1 /\ list = req.urls
    /\ pc = "process" /\ n > 1 => Written(rsp, req.urls)
    /\ pc = "closeRsp" => Written(rsp, req.urls) /\ n = Len(req.entries) + 1

Uploading ==
    /\ pc \in {"parseRsp", "submit", "check", "validate"} => op = "upload"
    /\ pc = "submit" => rsp.closed = 1 /\ list = rsp.urls

Passing ==
    session_passed = 1 => AllPassed /\ pc \in {"validate", "returned"}

IInv ==
    /\ TypeOK /\ Aligned(req) /\ Aligned(rsp) /\ Whole
    /\ Starting /\ Downloading /\ Processing /\ Uploading /\ Passing
    /\ ResponsesMatch /\ DownloadIsComplete

\* What each step shows.
Kept == IInv' /\ (requests' # requests => AllPassed)

USE OfflineAssumption

----------------------------------------------------------------------------
(* The files *)

\* The empty list is a list.
LEMMA NothingListed == <<>> \in Seq(VectorSets)
OBVIOUS

\* A truncated file is aligned and has no entry.
LEMMA StartedAligned ==
    ASSUME NEW s \in Seq(VectorSets)
    PROVE  /\ Started(s) \in Files /\ Aligned(Started(s))
           /\ Started(s).urls = s /\ Len(Started(s).entries) = 0
           /\ Started(s).closed = 0
BY DEF Started, Files, Aligned

\* Appending the entry of the next URL keeps a file aligned.
LEMMA EntryAligned ==
    ASSUME NEW f \in Files, Aligned(f), f.closed = 0,
           Len(f.entries) < Len(f.urls),
           NEW e, e = f.urls[Len(f.entries) + 1]
    PROVE  /\ WithEntry(f, e) \in Files /\ Aligned(WithEntry(f, e))
           /\ WithEntry(f, e).urls = f.urls
           /\ Len(WithEntry(f, e).entries) = Len(f.entries) + 1
           /\ WithEntry(f, e).closed = 0
<1> DEFINE g == WithEntry(f, e)
<1>1. f.urls \in Seq(VectorSets) /\ f.entries \in Seq(VectorSets)
  BY DEF Files
<1>2. e \in VectorSets
  BY <1>1
<1>3. /\ g.urls = f.urls /\ g.closed = 0 /\ g.entries = Append(f.entries, e)
      /\ g = [urls |-> f.urls, entries |-> Append(f.entries, e), closed |-> 0]
  BY DEF Files, WithEntry
<1>4. /\ Append(f.entries, e) \in Seq(VectorSets)
      /\ Len(Append(f.entries, e)) = Len(f.entries) + 1
      /\ \A i \in 1..Len(f.entries) : Append(f.entries, e)[i] = f.entries[i]
      /\ Append(f.entries, e)[Len(f.entries) + 1] = e
  BY <1>1, <1>2
<1>5. g \in Files
  BY <1>1, <1>3, <1>4 DEF Files
<1>6. \A i \in 1..Len(g.entries) : g.entries[i] = f.urls[i]
  BY <1>1, <1>3, <1>4 DEF Aligned
<1> HIDE DEF g
<1>7. Aligned(g)
  BY <1>1, <1>3, <1>4, <1>6 DEF Aligned
<1> QED
  BY <1>3, <1>4, <1>5, <1>7 DEF g

\* To a file that is closed nothing is added.
LEMMA EntryIgnored ==
    ASSUME NEW f \in Files, f.closed = 1, NEW e
    PROVE  WithEntry(f, e) = f
BY DEF Files, WithEntry

\* Closing a file keeps it aligned.
LEMMA ClosedAligned ==
    ASSUME NEW f \in Files, Aligned(f), Len(f.urls) > 0, Covers(f.urls)
    PROVE  /\ Closed(f) \in Files /\ Aligned(Closed(f))
           /\ Closed(f).urls = f.urls /\ Closed(f).entries = f.entries
           /\ Closed(f).closed = 1
BY DEF Files, Aligned, Closed

\* The initial states satisfy the invariant.
LEMMA InitIInv == Init => IInv
<1> SUFFICES ASSUME Init PROVE IInv
  OBVIOUS
<1>1. NoFile \in Files /\ Aligned(NoFile)
  BY DEF NoFile, Files, Aligned
<1> QED
  BY <1>1 DEF NoFile, Whole, Init, IInv, TypeOK, Starting, Downloading, Processing, Uploading,
       Passing, ResponsesMatch, DownloadIsComplete
----------------------------------------------------------------------------
(* One lemma per action that writes a file or changes the server, and one  *)
(* for the rest of each operation.                                         *)

USE DEF Kept, IInv, TypeOK, Starting, Downloading, Processing, Uploading,
        Passing, ResponsesMatch, DownloadIsComplete, AllPassed, client, disk,
        server, Written, Cut, Whole

\* Only a response that was received is graded, so its answer stays.
LEMMA GradeKept == ASSUME IInv, NEW v \in VectorSets, Grade(v) PROVE Kept
<1>1. PICK s \in {"passed", "fail"} : status' = [status EXCEPT ![v] = s]
  BY DEF Grade
<1>2. /\ \A u \in VectorSets : status'[u] = IF u = v THEN s ELSE status[u]
      /\ status[v] = "incomplete"
  BY <1>1 DEF Grade
<1>3. ~AllPassed /\ session_passed = 0
  BY <1>2
<1>4. status' \in [VectorSets -> {"unreceived", "incomplete", "passed", "fail",
                                  "expired"}]
  BY <1>1
<1>5. ResponsesMatch'
  BY <1>2 DEF Grade
<1> QED
  BY <1>3, <1>4, <1>5 DEF Grade

\* Only a vector set without a response lapses.
LEMMA LapseKept == ASSUME IInv, NEW v \in VectorSets, Lapse(v) PROVE Kept
<1>1. /\ \A u \in VectorSets :
           status'[u] = IF u = v THEN "expired" ELSE status[u]
      /\ status[v] = "unreceived"
      /\ status' \in [VectorSets -> {"unreceived", "incomplete", "passed",
                                     "fail", "expired"}]
  BY DEF Lapse
<1>2. ~AllPassed /\ session_passed = 0
  BY <1>1
<1>3. ResponsesMatch'
  BY <1>1 DEF Lapse
<1> QED
  BY <1>1, <1>2, <1>3 DEF Lapse

\* Starting an operation changes neither disk nor server.
LEMMA OperatorKept == ASSUME IInv, Operator PROVE Kept
BY DEF Operator, StartDownload, StartResume, StartProcess, StartUpload, NewProcess

\* So do the death of a process and its end.
LEMMA EndKept == ASSUME IInv, Crash \/ Exit PROVE Kept
<1>1. Gone /\ faults' \in 0..MaxFaults
  BY DEF Crash, Exit, Fault
<1>2. list' \in Seq(VectorSets)
  BY <1>1, NothingListed DEF Gone
<1> QED
  BY <1>1, <1>2 DEF Gone

\* A failing call returns an error and changes nothing.
LEMMA CallFailsKept == ASSUME IInv, CallFails PROVE Kept
BY DEF CallFails, Fault, ReturnWith

\* The lists of the server are complete.
LEMMA ListKept == ASSUME IInv, Register \/ Save \/ ListAll PROVE Kept
<1>1. CASE Register
  BY <1>1, SMTT(30) DEF Register, Goto, ReturnWith, Fault, Covers
<1>2. CASE Save
  BY <1>2 DEF Save, Goto, Fault
<1>3. CASE ListAll
  BY <1>3 DEF ListAll, Goto, Covers
<1> QED
  BY <1>1, <1>2, <1>3

\* Saving the next vector set keeps the request file aligned with its URLs.
LEMMA SaveVectorSetKept == ASSUME IInv, SaveVectorSet PROVE Kept
<1> DEFINE f == Opened(req, list)
<1>1. /\ f \in Files /\ Aligned(f) /\ f.urls = list
      /\ \/ Len(f.entries) = n - 1 /\ f.closed = 0
         \/ f = req /\ req.closed = 1 /\ short = "now"
  BY StartedAligned DEF SaveVectorSet, Opened
<1>2. n \in 1..Len(list) /\ list \in Seq(VectorSets) /\ Len(list) \in Nat
  BY DEF SaveVectorSet
<1> HIDE DEF f
<1>3. /\ req' \in Files /\ Aligned(req') /\ req'.urls = list
      /\ \/ Len(req'.entries) = n /\ req'.closed = 0
         \/ req'.closed = 1 /\ short = "now"
  <2>1. req' = WithEntry(f, list[n])
    BY DEF SaveVectorSet, f
  <2>2. CASE Len(f.entries) = n - 1 /\ f.closed = 0
    BY <1>1, <1>2, <2>1, <2>2, EntryAligned
  <2>3. CASE f = req /\ req.closed = 1 /\ short = "now"
    BY <1>1, <2>1, <2>3, EntryIgnored
  <2> QED
    BY <1>1, <2>2, <2>3
<1>4. Aligned(req)' /\ Aligned(rsp)'
  BY <1>3 DEF SaveVectorSet, Aligned, Covers
<1>5. Covers(list)'
  BY DEF SaveVectorSet, Covers
<1> QED
  BY <1>2, <1>3, <1>4, <1>5 DEF SaveVectorSet, Goto

\* A reply without a vector set closes the file, which is aligned as far as it goes.
LEMMA SaveNothingKept == ASSUME IInv, SaveNothing PROVE Kept
<1> DEFINE f == Opened(req, list)
<1>1. f \in Files /\ Aligned(f) /\ f.urls = list
  BY StartedAligned DEF SaveNothing, Opened
<1>2. /\ n \in 1..Len(list) /\ list \in Seq(VectorSets) /\ Len(list) \in Nat
      /\ Len(list) > 0 /\ Covers(list)
  BY DEF SaveNothing
<1> HIDE DEF f
<1>3. /\ req' \in Files /\ req'.urls = list /\ req'.entries = f.entries /\ req'.closed = 1
  BY <1>1 DEF SaveNothing, Closed, Files, f
<1>4. Aligned(req)' /\ Aligned(rsp)'
  BY <1>1, <1>2, <1>3 DEF SaveNothing, Aligned, Covers
<1>5. Covers(list)'
  BY <1>2 DEF SaveNothing, Covers
<1>6. faults' \in 0..MaxFaults
  BY DEF SaveNothing, Fault
<1> QED
  BY <1>2, <1>3, <1>4, <1>5, <1>6 DEF SaveNothing, Goto

\* A failed write leaves a file that does not parse, or the old one.
LEMMA SaveFailsKept == ASSUME IInv, SaveFails PROVE Kept
<1>1. Opened(req, list) \in Files /\ Aligned(Opened(req, list))
  BY StartedAligned DEF SaveFails, Opened
<1>2. req' \in Files /\ Aligned(req')
  BY <1>1 DEF SaveFails
<1>3. Aligned(req)' /\ Aligned(rsp)'
  BY <1>2 DEF SaveFails, Aligned, Covers
<1>4. req' = req \/ req'.closed = 0
  BY StartedAligned DEF SaveFails, Opened
<1>5. Whole'
  BY <1>4 DEF SaveFails
<1> QED
  BY <1>2, <1>3, <1>5 DEF SaveFails, ReturnWith, Fault

\* The request file is closed once every URL has its entry.
LEMMA CloseRequestKept == ASSUME IInv, CloseRequest PROVE Kept
<1>1. /\ req \in Files /\ Aligned(req)
      /\ short # "now" => Len(req.entries) = Len(req.urls)
      /\ Len(req.urls) > 0 /\ Covers(req.urls)
  BY DEF CloseRequest
<1>2. /\ req' \in Files /\ Aligned(req')
      /\ req'.entries = req.entries /\ req'.urls = req.urls /\ req'.closed = 1
  BY <1>1, ClosedAligned DEF CloseRequest
<1>3. Aligned(req)' /\ Aligned(rsp)'
  BY <1>2 DEF CloseRequest, Aligned, Covers
<1>4. ASSUME short # "now" PROVE Covers(req.entries)
  <2>1. \A i \in 1..Len(req.entries) : req.entries[i] = req.urls[i]
    BY <1>1 DEF Aligned
  <2>2. \A v \in VectorSets : \E i \in 1..Len(req.entries) : req.urls[i] = v
    <3>1. \A v \in VectorSets : \E i \in 1..Len(req.urls) : req.urls[i] = v
      BY <1>1 DEF Covers
    <3>2. Len(req.entries) = Len(req.urls)
      BY <1>1, <1>4
    <3> QED
      BY ONLY <3>1, <3>2
  <2> QED
    BY ONLY <2>1, <2>2 DEF Covers
<1>5. DownloadIsComplete'
  BY <1>2, <1>4 DEF Covers, CloseRequest
<1>6. Whole'
  BY <1>1, <1>2 DEF CloseRequest
<1> QED
  BY <1>2, <1>3, <1>5, <1>6 DEF CloseRequest, ReturnWith

\* Only a file that parses and has an entry is processed.
LEMMA ParseRequestKept == ASSUME IInv, ParseRequest PROVE Kept
<1>1. req.urls \in Seq(VectorSets) /\ Len(req.urls) \in Nat
  BY DEF Files
<1>2. req.closed = 1 => Len(req.urls) > 0 /\ Len(req.entries) \in Nat
  BY DEF Aligned, Files
<1> QED
  BY <1>1, <1>2 DEF ParseRequest, Goto, ReturnWith

\* The response to the n-th entry is a response to the n-th URL.
LEMMA ProcessVectorSetKept == ASSUME IInv, ProcessVectorSet PROVE Kept
<1> DEFINE f == Opened(rsp, req.urls)
<1>1. /\ req.urls \in Seq(VectorSets) /\ Len(req.urls) \in Nat
      /\ Len(req.entries) \in Nat /\ Len(req.entries) <= Len(req.urls)
      /\ n \in 1..Len(req.entries) /\ req.entries[n] = req.urls[n]
  BY DEF ProcessVectorSet, Files, Aligned
<1>2. /\ f \in Files /\ Aligned(f) /\ f.urls = req.urls
      /\ Len(f.entries) = n - 1 /\ f.closed = 0
  BY <1>1, StartedAligned DEF ProcessVectorSet, Opened
<1> HIDE DEF f
<1>3. /\ rsp' \in Files /\ Aligned(rsp') /\ rsp'.urls = req.urls
      /\ Len(rsp'.entries) = n /\ rsp'.closed = 0
  BY <1>1, <1>2, EntryAligned DEF ProcessVectorSet, f
<1>4. Aligned(req)' /\ Aligned(rsp)'
  BY <1>3 DEF ProcessVectorSet, Aligned, Covers
<1>5. Whole' /\ list = req.urls
  BY <1>3 DEF ProcessVectorSet
<1>6. TypeOK'
  BY <1>1, <1>3 DEF ProcessVectorSet, Goto, ReturnWith
<1>7. Processing'
  BY <1>1, <1>3, <1>5 DEF ProcessVectorSet, Goto
<1>8. (Starting /\ Downloading /\ Uploading /\ Passing)'
  <2>1. pc' \in {"process", "closeRsp", "returned"} /\ session_passed' # 1
    BY DEF ProcessVectorSet, Goto, ReturnWith
  <2> QED BY <2>1 DEF Starting, Downloading, Uploading, Passing
<1>9. (ResponsesMatch /\ DownloadIsComplete)' /\ requests' = requests
  BY DEF ProcessVectorSet, Goto, ReturnWith
<1> QED
  BY <1>4, <1>5, <1>6, <1>7, <1>8, <1>9

\* An operation that stops leaves a file that does not parse, or the old one.
LEMMA ProcessStopsKept ==
    ASSUME IInv, ProcessSkipped \/ ProcessFails PROVE Kept
<1>1. CASE ProcessSkipped
  BY <1>1 DEF ProcessSkipped, ReturnWith
<1>2. CASE ProcessFails
  <2>1. req.urls \in Seq(VectorSets)
    BY DEF Files
  <2>2. Opened(rsp, req.urls) \in Files /\ Aligned(Opened(rsp, req.urls))
    BY <2>1, StartedAligned DEF Opened
  <2>3. rsp' \in Files /\ Aligned(rsp')
    BY <1>2, <2>2 DEF ProcessFails
  <2>4. Aligned(req)' /\ Aligned(rsp)'
    BY <1>2, <2>3 DEF ProcessFails, Aligned, Covers
  <2>5. rsp' = rsp \/ rsp'.closed = 0
    BY <1>2, <2>1, StartedAligned DEF ProcessFails, Opened
  <2>6. Whole'
    BY <1>2, <2>5 DEF ProcessFails
  <2> QED
    BY <1>2, <2>3, <2>4, <2>6 DEF ProcessFails, ReturnWith, Fault
<1> QED
  BY <1>1, <1>2

\* The response file is closed once every entry has its response.
LEMMA CloseResponseKept == ASSUME IInv, CloseResponse PROVE Kept
<1>1. /\ rsp \in Files /\ Aligned(rsp)
      /\ short = "never" => Len(rsp.entries) = Len(rsp.urls)
      /\ Len(rsp.urls) > 0 /\ Covers(rsp.urls)
  BY DEF CloseResponse, Aligned
<1>2. /\ rsp' \in Files /\ Aligned(rsp')
      /\ rsp'.entries = rsp.entries /\ rsp'.urls = rsp.urls
  BY <1>1, ClosedAligned DEF CloseResponse
<1>3. Aligned(req)' /\ Aligned(rsp)'
  BY <1>2 DEF CloseResponse, Aligned, Covers
<1>4. Whole'
  BY <1>1, <1>2 DEF CloseResponse
<1> QED
  BY <1>2, <1>3, <1>4 DEF CloseResponse, ReturnWith

\* Only a response file that parses is uploaded.
LEMMA ParseResponseKept ==
    ASSUME IInv, ParseResponse \/ MetadataRejected PROVE Kept
<1>1. rsp.urls \in Seq(VectorSets) /\ Len(rsp.urls) \in Nat
  BY DEF Files
<1>2. rsp.closed = 1 => Len(rsp.urls) > 0
  BY DEF Aligned
<1> QED
  BY <1>1, <1>2 DEF ParseResponse, MetadataRejected, Goto, ReturnWith, Fault

\* The n-th entry is the response to the n-th URL.
LEMMA SubmitKept == ASSUME IInv, Submit PROVE Kept
<1> DEFINE v == list[n]
<1>1. /\ n \in 1..Len(list) /\ list \in Seq(VectorSets) /\ Len(list) \in Nat
      /\ v \in VectorSets /\ session_passed = 0
  BY DEF Submit
<1>2. PICK e : e = EntryAt(n) /\ (e = v \/ (e = NoVS /\ short # "never"))
  BY <1>1 DEF Submit, EntryAt, Aligned
<1> HIDE DEF v
<1>3. /\ status' = [status EXCEPT ![v] = "incomplete"]
      /\ answer' = [answer EXCEPT ![v] = e]
      /\ UNCHANGED <<session, skipped, requests, short>>
  BY <1>2 DEF Submit, Received, v
<1>4. /\ ResponsesMatch'
      /\ status' \in [VectorSets -> {"unreceived", "incomplete", "passed",
                                     "fail", "expired"}]
      /\ answer' \in [VectorSets -> VectorSets \cup {NoVS}]
  BY <1>1, <1>2, <1>3
<1>5. faults' \in 0..MaxFaults
  BY DEF Submit, Fault
<1> QED
  BY <1>1, <1>3, <1>4, <1>5 DEF Submit, NextSubmission, Goto

\* A submission that fails is skipped in the list and in the file.
LEMMA SubmitSkippedKept == ASSUME IInv, SubmitSkipped PROVE Kept
<1>1. n \in 1..Len(list) /\ Len(list) \in Nat
  BY DEF SubmitSkipped
<1>2. faults' \in 0..MaxFaults
  BY DEF SubmitSkipped, Fault
<1> QED
  BY <1>1, <1>2 DEF SubmitSkipped, NextSubmission, Goto

\* session_passed is set only when the results say so, and nothing is submitted
\* by this process afterwards.
LEMMA CheckKept == ASSUME IInv, CheckResults \/ CheckFails PROVE Kept
<1>1. faults' \in 0..MaxFaults
  BY DEF CheckResults, CheckFails, Fault
<1> QED
  BY <1>1 DEF CheckResults, CheckFails, AfterCheck, Goto, ReturnWith

\* The validation is requested for a session that has passed.
LEMMA ValidateKept == ASSUME IInv, ValidateRefused \/ Validate PROVE Kept
<1>1. CASE ValidateRefused
  BY <1>1 DEF ValidateRefused, ReturnWith
<1>2. CASE Validate
  BY <1>2 DEF Validate, ReturnWith, Fault
<1> QED
  BY <1>1, <1>2

\* Every step keeps the invariant.
LEMMA NextKept == ASSUME IInv, [Next]_vars PROVE Kept
<1>1. CASE Operator
  BY <1>1, OperatorKept
<1>2. CASE Server
  BY <1>2, GradeKept, LapseKept DEF Server
<1>3. CASE Download
  BY <1>3, ListKept, SaveVectorSetKept, SaveNothingKept, SaveFailsKept, CloseRequestKept
     DEF Download
<1>4. CASE Process
  BY <1>4, ParseRequestKept, ProcessVectorSetKept, ProcessStopsKept,
     CloseResponseKept DEF Process
<1>5. CASE Upload
  BY <1>5, ParseResponseKept, SubmitKept, SubmitSkippedKept, CheckKept,
     ValidateKept DEF Upload
<1>6. CASE CallFails \/ Exit \/ Crash
  BY <1>6, CallFailsKept, EndKept
<1>7. CASE UNCHANGED vars
  BY <1>7 DEF vars
<1> QED
  BY <1>1, <1>2, <1>3, <1>4, <1>5, <1>6, <1>7 DEF Next, Client

----------------------------------------------------------------------------
HIDE DEF Kept, IInv, TypeOK, Starting, Downloading, Processing, Uploading,
         Passing, ResponsesMatch, DownloadIsComplete, AllPassed, client, disk,
         server, Written, Cut, Whole

\* The invariant holds in every reachable state.
THEOREM OfflineInvariant == Safety => []IInv
<1>1. IInv /\ [Next]_vars => IInv'
  BY NextKept DEF Kept
<1> QED
  BY InitIInv, <1>1, PTL DEF Safety

\* Type correctness, and no loop of the three stages runs past its list or file.
THEOREM OfflineTypeCorrect == Safety => []TypeOK
<1>1. IInv => TypeOK
  BY DEF IInv
<1> QED
  BY OfflineInvariant, <1>1, PTL

\* acvp_upload_vectors_from_file answers a vector set only with its own response,
\* or, once a reply without a vector set was saved, with none.
THEOREM OfflineResponsesMatch == Safety => []ResponsesMatch
<1>1. IInv => ResponsesMatch
  BY DEF IInv
<1> QED
  BY OfflineInvariant, <1>1, PTL

\* A download with vector_req that returns success has saved every vector set,
\* if each of its replies had one.
THEOREM OfflineDownloadIsComplete == Safety => []DownloadIsComplete
<1>1. IInv => DownloadIsComplete
  BY DEF IInv
<1> QED
  BY OfflineInvariant, <1>1, PTL

\* An upload requests the validation only of a session that has passed.
THEOREM OfflineValidatesOnlyPassed == Safety => ValidatesOnlyPassed
<1>1. IInv /\ [Next]_vars => [requests' # requests => AllPassed]_vars
  BY NextKept DEF Kept
<1> QED
  BY OfflineInvariant, <1>1, PTL DEF Safety, ValidatesOnlyPassed
=============================================================================
