------------------------- MODULE AcvpResultsProofs -------------------------
(***************************************************************************)
(* Proofs about the results loop for every number of vector sets, every    *)
(* choice of their strings, every relation of strings that are taken for   *)
(* one another and every number of rounds: the verdict is final, and a     *)
(* failing algorithm that nothing shadows is named.                        *)
(***************************************************************************)
EXTENDS AcvpResults, TLAPS

Grades == {"incomplete", "passed", "fail", "error"}

\* Types of what the loop computes with; the lists are sequences of strings of
\* the session, and the history only names vector sets.
ResultsTypeOK ==
    /\ url \in [VectorSets -> Urls]
    /\ alg \in [VectorSets -> Algs]
    /\ status \in [VectorSets -> Grades]
    /\ results \in [VectorSets -> Grades]
    /\ i \in 1..(Count + 1)
    /\ testsCompleted \in Nat
    /\ failedVsList \in Seq(Urls)
    /\ failedAlgList \in Seq(Algs)
    /\ pc \in {"poll", "walk", "passed", "failed", "gaveUp"}

\* A grade the loop has retrieved stays the server's, whatever is graded later.
RetrievedIsCurrent ==
    \A v \in VectorSets : results[v] # "incomplete" => status[v] = results[v]

\* Among the vector sets walked over in this round one that is not graded keeps
\* the count behind the index.
CountsGraded ==
    /\ testsCompleted <= i - 1
    /\ testsCompleted = i - 1 =>
         \A v \in VectorSets : v < i => results[v] # "incomplete"

VerdictAfterAll ==
    pc \in {"passed", "failed"} =>
        /\ i = Count + 1
        /\ testsCompleted = Count
        /\ pc = "passed" <=> \A v \in VectorSets : results[v] = "passed"

VerdictInv ==
    /\ ResultsTypeOK
    /\ RetrievedIsCurrent
    /\ CountsGraded
    /\ VerdictAfterAll

\* The initial states satisfy the invariant.
LEMMA VerdictInvInit == Init => VerdictInv
BY ResultsAssumption
   DEF Init, VerdictInv, ResultsTypeOK, RetrievedIsCurrent, CountsGraded,
       VerdictAfterAll, VectorSets, Grades

\* A grade given by the server changes only a vector set that had none.
LEMMA GradeKeepsVerdictInv ==
    ASSUME VerdictInv, NEW v \in VectorSets, Grade(v)
    PROVE  VerdictInv'
<1>1. PICK s \in {"passed", "fail", "error"} : status' = [status EXCEPT ![v] = s]
  BY DEF Grade
<1>2. /\ UNCHANGED <<url, alg, results, i, testsCompleted, failedVsList,
                     failedAlgList, pc>>
      /\ status[v] = "incomplete"
  BY DEF Grade, names, lists
<1>3. ResultsTypeOK'
  BY <1>1, <1>2 DEF VerdictInv, ResultsTypeOK, Grades
<1>4. RetrievedIsCurrent'
  BY <1>1, <1>2 DEF VerdictInv, ResultsTypeOK, RetrievedIsCurrent
<1>5. CountsGraded' /\ VerdictAfterAll'
  BY <1>2 DEF VerdictInv, CountsGraded, VerdictAfterAll
<1> QED
  BY <1>3, <1>4, <1>5 DEF VerdictInv

\* A round begins with what the server says.
LEMMA RetrieveKeepsVerdictInv ==
    ASSUME VerdictInv, Retrieve
    PROVE  VerdictInv'
<1>1. /\ UNCHANGED <<url, alg, status, failedVsList, failedAlgList>>
      /\ results' = status /\ i' = 1 /\ testsCompleted' = 0 /\ pc' = "walk"
  BY DEF Retrieve, names, lists
<1>2. ResultsTypeOK'
  BY <1>1, ResultsAssumption DEF VerdictInv, ResultsTypeOK
<1> QED
  BY <1>1, <1>2 DEF VerdictInv, RetrievedIsCurrent, CountsGraded,
                    VerdictAfterAll, VectorSets

\* A vector set is walked over: the count falls behind unless it is graded.
LEMMA WalkKeepsVerdictInv ==
    ASSUME VerdictInv, pc = "walk", i <= Count, i' = i + 1,
           NEW d \in {0, 1}, testsCompleted' = testsCompleted + d,
           d = 1 => results[i] # "incomplete",
           UNCHANGED <<url, alg, status, results, pc>>,
           failedVsList' \in Seq(Urls), failedAlgList' \in Seq(Algs)
    PROVE  VerdictInv'
<1>1. ResultsTypeOK'
  BY ResultsAssumption DEF VerdictInv, ResultsTypeOK
<1>2. RetrievedIsCurrent'
  BY DEF VerdictInv, RetrievedIsCurrent
<1>3. CountsGraded'
  <2>1. /\ i \in Nat /\ testsCompleted \in Nat /\ testsCompleted <= i - 1
        /\ testsCompleted = i - 1 =>
             \A v \in VectorSets : v < i => results[v] # "incomplete"
    BY ResultsAssumption DEF VerdictInv, ResultsTypeOK, CountsGraded
  <2>2. testsCompleted' <= i' - 1
    BY <2>1
  <2>3. ASSUME testsCompleted' = i' - 1, NEW v \in VectorSets, v < i'
        PROVE  results'[v] # "incomplete"
    <3>1. testsCompleted = i - 1 /\ d = 1
      BY <2>1, <2>3
    <3>2. v < i \/ v = i
      BY <2>1, <2>3 DEF VectorSets
    <3> QED
      BY <2>1, <2>3, <3>1, <3>2
  <2> QED
    BY <2>2, <2>3 DEF CountsGraded
<1>4. VerdictAfterAll'
  BY DEF VerdictAfterAll
<1> QED
  BY <1>1, <1>2, <1>3, <1>4 DEF VerdictInv

\* The three ways of walking over a vector set.
LEMMA WalksKeepVerdictInv ==
    ASSUME VerdictInv, StepOver \/ LookUp \/ LookUpFails
    PROVE  VerdictInv'
<1>1. /\ pc = "walk" /\ i <= Count /\ i' = i + 1
      /\ UNCHANGED <<url, alg, status, results, pc>>
  BY DEF StepOver, LookUp, LookUpFails, LookingUp, names
<1>2. /\ i \in VectorSets /\ url[i] \in Urls /\ alg[i] \in Algs
      /\ failedVsList \in Seq(Urls) /\ failedAlgList \in Seq(Algs)
      /\ testsCompleted \in Nat
  BY <1>1, ResultsAssumption DEF VerdictInv, ResultsTypeOK, VectorSets
<1>3. CASE StepOver
  <2>1. testsCompleted' = testsCompleted + (IF results[i] = "incomplete" THEN 0 ELSE 1)
        /\ UNCHANGED <<failedVsList, failedAlgList>>
    BY <1>3 DEF StepOver, lists
  <2> DEFINE d == IF results[i] = "incomplete" THEN 0 ELSE 1
  <2>2. d \in {0, 1} /\ (d = 1 => results[i] # "incomplete")
    OBVIOUS
  <2>3. testsCompleted' = testsCompleted + d
    BY <2>1
  <2> HIDE DEF d
  <2> QED
    BY <1>1, <1>2, <2>1, <2>2, <2>3, WalkKeepsVerdictInv
<1>4. CASE LookUp
  <2>1. /\ results[i] = "fail"
        /\ testsCompleted' = testsCompleted + 1
        /\ failedVsList' = Append(failedVsList, url[i])
        /\ \/ failedAlgList' = failedAlgList
           \/ failedAlgList' = Append(failedAlgList, alg[i])
    BY <1>4 DEF LookUp, LookingUp, Put
  <2>2. failedVsList' \in Seq(Urls) /\ failedAlgList' \in Seq(Algs)
    BY <1>2, <2>1
  <2> QED
    BY <1>1, <2>1, <2>2, WalkKeepsVerdictInv
<1>5. CASE LookUpFails
  <2>1. /\ testsCompleted' = testsCompleted + 0
        /\ failedVsList' = Append(failedVsList, url[i])
        /\ failedAlgList' = failedAlgList
    BY <1>2, <1>5 DEF LookUpFails
  <2>2. failedVsList' \in Seq(Urls) /\ failedAlgList' \in Seq(Algs)
    BY <1>2, <2>1
  <2> QED
    BY <1>1, <2>1, <2>2, WalkKeepsVerdictInv
<1> QED
  BY <1>3, <1>4, <1>5

\* The end of a round.
LEMMA EndKeepsVerdictInv ==
    ASSUME VerdictInv, Report \/ Wait
    PROVE  VerdictInv'
<1>1. /\ pc = "walk" /\ i > Count
      /\ UNCHANGED <<url, alg, status, results, i, testsCompleted,
                     failedVsList, failedAlgList>>
  BY DEF Report, Wait, names, lists
<1>2. i = Count + 1 /\ testsCompleted \in Nat /\ testsCompleted <= Count
  BY <1>1, ResultsAssumption DEF VerdictInv, ResultsTypeOK, CountsGraded
<1>3. /\ pc' \in {"poll", "passed", "failed", "gaveUp"}
      /\ pc' \in {"passed", "failed"} =>
           /\ testsCompleted >= Count
           /\ pc' = "passed" <=> \A v \in VectorSets : results[v] = "passed"
  BY DEF Report, Wait
<1>4. ResultsTypeOK'
  BY <1>1, <1>3 DEF VerdictInv, ResultsTypeOK
<1>5. VerdictAfterAll'
  BY <1>1, <1>2, <1>3, ResultsAssumption DEF VerdictAfterAll
<1> QED
  BY <1>1, <1>4, <1>5 DEF VerdictInv, RetrievedIsCurrent, CountsGraded

\* The invariant holds in every reachable state.
THEOREM VerdictInvariant == Spec => []VerdictInv
<1>1. ASSUME VerdictInv, [Next]_vars
      PROVE  VerdictInv'
  <2>1. ASSUME NEW v \in VectorSets, Grade(v) PROVE VerdictInv'
    BY <1>1, <2>1, GradeKeepsVerdictInv
  <2>2. CASE Retrieve
    BY <1>1, <2>2, RetrieveKeepsVerdictInv
  <2>3. CASE StepOver \/ LookUp \/ LookUpFails
    BY <1>1, <2>3, WalksKeepVerdictInv
  <2>4. CASE Report \/ Wait
    BY <1>1, <2>4, EndKeepsVerdictInv
  <2>5. CASE UNCHANGED vars
    BY <1>1, <2>5 DEF vars, names, lists, VerdictInv, ResultsTypeOK,
                      RetrievedIsCurrent, CountsGraded, VerdictAfterAll
  <2> QED
    BY <1>1, <2>1, <2>2, <2>3, <2>4, <2>5 DEF Next
<1> QED
  BY <1>1, VerdictInvInit, PTL DEF Spec

\* The loop gives a verdict only when every vector set is graded, and it is the
\* one the server's final grades call for.
THEOREM ResultsVerdictFinal == Spec => []VerdictIsFinal
<1>1. ASSUME VerdictInv PROVE VerdictIsFinal
  <2> SUFFICES ASSUME pc \in {"passed", "failed"}
               PROVE  /\ \A v \in VectorSets : status[v] # "incomplete"
                      /\ pc = "passed" <=> \A v \in VectorSets : status[v] = "passed"
    BY DEF VerdictIsFinal
  <2>1. \A v \in VectorSets : results[v] # "incomplete"
    BY <1>1, ResultsAssumption
       DEF VerdictInv, VerdictAfterAll, CountsGraded, VectorSets
  <2>2. \A v \in VectorSets : status[v] = results[v]
    BY <1>1, <2>1 DEF VerdictInv, RetrievedIsCurrent
  <2> QED
    BY <1>1, <2>1, <2>2 DEF VerdictInv, VerdictAfterAll
<1> QED
  BY <1>1, VerdictInvariant, PTL

----------------------------------------------------------------------------
(* Failing algorithms are named *)

\* Why a failing vector set may go without a name of its own in the report.
Accounted(v) ==
    \/ v \in unread
    \/ Listed(alg[v])
    \/ \E u \in VectorSets \ {v} :
         status[u] = "fail" /\ (Same(url[u], url[v]) \/ Same(alg[u], alg[v]))

\* The list of URLs holds only vector sets that failed and are accounted for;
\* it is kept over the rounds, so this has to survive every later round.
VsListAccounted ==
    \A k \in 1..Len(failedVsList) :
        \E u \in VectorSets :
            failedVsList[k] = url[u] /\ status[u] = "fail" /\ Accounted(u)

\* The list of algorithms holds only names of vector sets that failed.
AlgListFailed ==
    \A k \in 1..Len(failedAlgList) :
        \E u \in VectorSets : failedAlgList[k] = alg[u] /\ status[u] = "fail"

\* What this round has walked over is accounted for.
WalkedAccounted ==
    \A v \in VectorSets : v < i /\ results[v] = "fail" => Accounted(v)

NamedInv ==
    /\ VsListAccounted
    /\ AlgListFailed
    /\ WalkedAccounted

\* The initial states satisfy it: nothing is listed or walked over.
LEMMA NamedInvInit == Init => NamedInv
<1> SUFFICES ASSUME Init PROVE NamedInv
  OBVIOUS
<1>1. failedVsList = <<>> /\ failedAlgList = <<>> /\ i = 1
  BY DEF Init
<1>2. VsListAccounted /\ AlgListFailed
  BY <1>1 DEF VsListAccounted, AlgListFailed
<1>3. WalkedAccounted
  BY <1>1 DEF WalkedAccounted, VectorSets
<1> QED
  BY <1>2, <1>3 DEF NamedInv

\* Nothing is unaccounted for again: a failure stays one, a failed lookup stays
\* recorded and the list of algorithms only grows.
LEMMA AccountedStays ==
    ASSUME UNCHANGED <<url, alg>>,
           \A u \in VectorSets : status[u] = "fail" => status'[u] = "fail",
           unread \subseteq unread',
           \A a : Listed(a) => Listed(a)',
           NEW v \in VectorSets, Accounted(v)
    PROVE  Accounted(v)'
<1>1. CASE v \in unread
  BY <1>1 DEF Accounted
<1>2. CASE Listed(alg[v])
  <2>1. Listed(alg[v])'
    BY <1>2
  <2> QED
    BY <2>1 DEF Accounted
<1>3. CASE \E u \in VectorSets \ {v} :
             status[u] = "fail" /\ (Same(url[u], url[v]) \/ Same(alg[u], alg[v]))
  BY <1>3 DEF Accounted, Same
<1> QED
  BY <1>1, <1>2, <1>3 DEF Accounted

\* A vector set that was found on the list of URLs is accounted for: it is the
\* one that was listed, or that one's URL is taken for its own.
LEMMA FoundIsAccounted ==
    ASSUME NamedInv, NEW v \in VectorSets,
           acvp_lookup_str_list(failedVsList, url[v])
    PROVE  Accounted(v)
<1>1. PICK k \in 1..Len(failedVsList) : Same(failedVsList[k], url[v])
  BY DEF acvp_lookup_str_list
<1>2. PICK u \in VectorSets :
        failedVsList[k] = url[u] /\ status[u] = "fail" /\ Accounted(u)
  BY <1>1 DEF NamedInv, VsListAccounted
<1>3. CASE u = v
  BY <1>2, <1>3
<1>4. CASE u # v
  <2>1. Same(url[u], url[v])
    BY <1>1, <1>2
  <2> QED
    BY <1>2, <1>4, <2>1 DEF Accounted
<1> QED
  BY <1>3, <1>4

\* So is one whose algorithm was found on the list of algorithms.
LEMMA FoundAlgIsAccounted ==
    ASSUME NamedInv, NEW v \in VectorSets,
           acvp_lookup_str_list(failedAlgList, alg[v])
    PROVE  Accounted(v)
<1>1. PICK k \in 1..Len(failedAlgList) : Same(failedAlgList[k], alg[v])
  BY DEF acvp_lookup_str_list
<1>2. PICK u \in VectorSets : failedAlgList[k] = alg[u] /\ status[u] = "fail"
  BY <1>1 DEF NamedInv, AlgListFailed
<1>3. CASE u = v
  BY <1>2, <1>3 DEF Accounted, Listed
<1>4. CASE u # v
  <2>1. Same(alg[u], alg[v])
    BY <1>1, <1>2
  <2> QED
    BY <1>2, <1>4, <2>1 DEF Accounted
<1> QED
  BY <1>3, <1>4

\* The steps that leave the lists and the history alone: the server grades, a
\* round begins or ends, a vector set is stepped over.
LEMMA QuietKeepsNamedInv ==
    ASSUME NamedInv,
           UNCHANGED <<url, alg, failedVsList, failedAlgList, unread>>,
           \A u \in VectorSets : status[u] = "fail" => status'[u] = "fail",
           \A v \in VectorSets :
               v < i' /\ results'[v] = "fail" => Accounted(v)
    PROVE  NamedInv'
<1>1. \A a : Listed(a) => Listed(a)'
  BY DEF Listed
<1>2. \A v \in VectorSets : Accounted(v) => Accounted(v)'
  BY <1>1, AccountedStays
<1>3. VsListAccounted'
  BY <1>2 DEF NamedInv, VsListAccounted
<1>4. AlgListFailed'
  BY DEF NamedInv, AlgListFailed
<1>5. WalkedAccounted'
  BY <1>2 DEF WalkedAccounted
<1> QED
  BY <1>3, <1>4, <1>5 DEF NamedInv

\* A failed vector set is looked up: it joins the list of URLs and is accounted
\* for from then on, whether its retrieval failed, its algorithm is put on the
\* list or was found there.
LEMMA LookedUpKeepsNamedInv ==
    ASSUME VerdictInv, NamedInv, LookUp \/ LookUpFails
    PROVE  NamedInv'
<1>1. /\ pc = "walk" /\ i <= Count /\ i' = i + 1 /\ results[i] = "fail"
      /\ UNCHANGED <<url, alg, status, results>>
      /\ failedVsList' = Append(failedVsList, url[i])
  BY DEF LookUp, LookUpFails, LookingUp, names
<1>2. /\ i \in VectorSets /\ url[i] \in Urls /\ alg[i] \in Algs
      /\ failedVsList \in Seq(Urls) /\ failedAlgList \in Seq(Algs)
      /\ status[i] = "fail"
  BY <1>1, ResultsAssumption
     DEF VerdictInv, ResultsTypeOK, VectorSets, RetrievedIsCurrent
<1>0. PICK j \in VectorSets : j = i
  BY <1>2
<1>3. \/ i \in unread' /\ failedAlgList' = failedAlgList
      \/ /\ failedAlgList' = failedAlgList
         /\ acvp_lookup_str_list(failedAlgList, alg[i])
      \/ failedAlgList' = Append(failedAlgList, alg[i])
  BY DEF LookUp, LookUpFails, Put
<1>4. unread \subseteq unread'
  BY DEF LookUp, LookUpFails
<1>5. \A a : Listed(a) => Listed(a)'
  <2> SUFFICES ASSUME NEW k \in 1..Len(failedAlgList)
               PROVE  /\ k \in 1..Len(failedAlgList')
                      /\ failedAlgList'[k] = failedAlgList[k]
    BY DEF Listed
  <2> QED
    BY <1>2, <1>3
<1>6. \A v \in VectorSets : Accounted(v) => Accounted(v)'
  BY <1>1, <1>4, <1>5, AccountedStays
<1>7. Accounted(j)'
  <2>1. CASE j \in unread'
    BY <2>1 DEF Accounted
  <2>2. CASE acvp_lookup_str_list(failedAlgList, alg[j])
    BY <1>6, <2>2, FoundAlgIsAccounted
  <2>3. CASE failedAlgList' = Append(failedAlgList, alg[i])
    <3>1. Listed(alg[j])'
      <4>1. /\ Len(failedAlgList') \in 1..Len(failedAlgList')
            /\ failedAlgList'[Len(failedAlgList')] = alg[j]
        BY <1>0, <1>2, <2>3
      <4> QED
        BY <1>1, <4>1 DEF Listed
    <3> QED
      BY <3>1 DEF Accounted
  <2> QED
    BY <1>0, <1>3, <2>1, <2>2, <2>3
<1>8. VsListAccounted'
  <2> SUFFICES ASSUME NEW k \in 1..Len(failedVsList')
               PROVE  \E u \in VectorSets :
                          /\ failedVsList'[k] = url'[u] /\ status'[u] = "fail"
                          /\ Accounted(u)'
    BY DEF VsListAccounted
  <2>1. CASE k \in 1..Len(failedVsList)
    <3>1. failedVsList'[k] = failedVsList[k]
      BY <1>1, <1>2, <2>1
    <3> QED
      BY <1>1, <1>6, <2>1, <3>1 DEF NamedInv, VsListAccounted
  <2>2. CASE k = Len(failedVsList) + 1
    <3>1. failedVsList'[k] = url[j]
      BY <1>0, <1>1, <1>2, <2>2
    <3> QED
      BY <1>0, <1>1, <1>2, <1>7, <3>1
  <2> QED
    BY <1>1, <1>2, <2>1, <2>2
<1>9. AlgListFailed'
  <2> SUFFICES ASSUME NEW k \in 1..Len(failedAlgList')
               PROVE  \E u \in VectorSets :
                          failedAlgList'[k] = alg'[u] /\ status'[u] = "fail"
    BY DEF AlgListFailed
  <2>1. CASE k \in 1..Len(failedAlgList)
    <3>1. failedAlgList'[k] = failedAlgList[k]
      BY <1>2, <1>3, <2>1
    <3> QED
      BY <1>1, <2>1, <3>1 DEF NamedInv, AlgListFailed
  <2>2. CASE k \notin 1..Len(failedAlgList)
    <3>1. failedAlgList'[k] = alg[i]
      BY <1>2, <1>3, <2>2
    <3> QED
      BY <1>1, <1>2, <3>1
  <2> QED
    BY <2>1, <2>2
<1>10. WalkedAccounted'
  <2> SUFFICES ASSUME NEW v \in VectorSets, v < i', results'[v] = "fail"
               PROVE  Accounted(v)'
    BY DEF WalkedAccounted
  <2>1. v < i \/ v = j
    BY <1>0, <1>1, <1>2 DEF VectorSets
  <2> QED
    BY <1>1, <1>6, <1>7, <2>1 DEF NamedInv, WalkedAccounted
<1> QED
  BY <1>8, <1>9, <1>10 DEF NamedInv

\* A failing algorithm is named in the report, in whichever round it failed,
\* unless its lookup failed or another failing vector set shadows it.
THEOREM ResultsUnshadowedNamed == Spec => []UnshadowedIsNamed
<1>1. ASSUME VerdictInv, NamedInv, [Next]_vars
      PROVE  NamedInv'
  <2>1. ASSUME NEW v \in VectorSets, Grade(v) PROVE NamedInv'
    <3>1. \A u \in VectorSets : status[u] = "fail" => status'[u] = "fail"
      BY <1>1, <2>1 DEF Grade, VerdictInv, ResultsTypeOK
    <3> QED
      BY <1>1, <2>1, <3>1, QuietKeepsNamedInv
         DEF Grade, names, lists, NamedInv, WalkedAccounted
  <2>2. CASE Retrieve
    BY <1>1, <2>2, QuietKeepsNamedInv DEF Retrieve, names, lists, VectorSets
  <2>3. CASE StepOver
    <3>1. /\ i' = i + 1 /\ i \in VectorSets /\ i \in Nat
          /\ results[i] # "fail" \/ acvp_lookup_str_list(failedVsList, url[i])
          /\ UNCHANGED <<url, alg, status, results, failedVsList, failedAlgList,
                         unread>>
      BY <1>1, <2>3, ResultsAssumption
         DEF StepOver, names, lists, VerdictInv, ResultsTypeOK, VectorSets
    <3>2. results[i] = "fail" => Accounted(i)
      BY <1>1, <3>1, FoundIsAccounted
    <3>3. \A v \in VectorSets : v < i' /\ results'[v] = "fail" => Accounted(v)
      <4> SUFFICES ASSUME NEW v \in VectorSets, v < i', results'[v] = "fail"
                   PROVE  Accounted(v)
        OBVIOUS
      <4>1. v < i \/ v = i
        BY <3>1 DEF VectorSets
      <4> QED
        BY <1>1, <3>1, <3>2, <4>1 DEF NamedInv, WalkedAccounted
    <3> QED
      BY <1>1, <3>1, <3>3, QuietKeepsNamedInv
  <2>4. CASE LookUp \/ LookUpFails
    BY <1>1, <2>4, LookedUpKeepsNamedInv
  <2>5. CASE Report \/ Wait \/ UNCHANGED vars
    BY <1>1, <2>5, QuietKeepsNamedInv
       DEF Report, Wait, vars, names, lists, NamedInv, WalkedAccounted
  <2> QED
    BY <1>1, <2>1, <2>2, <2>3, <2>4, <2>5 DEF Next
<1>2. ASSUME VerdictInv, NamedInv PROVE UnshadowedIsNamed
  <2> SUFFICES ASSUME pc = "failed", NEW v \in VectorSets, status[v] = "fail"
               PROVE  Accounted(v)
    BY DEF UnshadowedIsNamed, Accounted
  <2>1. v < i /\ results[v] # "incomplete"
    BY <1>2, ResultsAssumption
       DEF VerdictInv, VerdictAfterAll, CountsGraded, VectorSets
  <2>2. results[v] = "fail"
    BY <1>2, <2>1 DEF VerdictInv, RetrievedIsCurrent
  <2> QED
    BY <1>2, <2>1, <2>2 DEF NamedInv, WalkedAccounted
<1> QED
  BY <1>1, <1>2, NamedInvInit, VerdictInvariant, PTL DEF Spec
=============================================================================
