---------------------------- MODULE AcvpResults ----------------------------
(***************************************************************************)
(* How acvp_get_result_test_session (src/src/acvp.c) finds out which       *)
(* algorithms have failed.  Each round fetches the results, walks over     *)
(* them and looks up the vector sets that failed for their algorithm and   *)
(* mode; three string lists, kept over the rounds, are to prevent a second *)
(* lookup and a second mention.                                            *)
(*                                                                         *)
(* Strings are abstract: what matters is which are equal and which are     *)
(* taken for equal by acvp_lookup_str_list, because it compares only as    *)
(* many characters as the shorter one has (Prefixes).  Vector sets are     *)
(* numbered in the order of the results.  Vector sets that are expired or  *)
(* have no response end the loop before any report: see AcvpSession.       *)
(***************************************************************************)
EXTENDS Naturals, Sequences

CONSTANTS
    Count,          \* number of vector sets, at least 1
    Urls, Algs,     \* the strings of the session: URLs of vector sets, names
    Modes,          \* of algorithms and of modes
    Prefixes,       \* pairs <<a, b>> of strings of which one begins the other
    MaxRounds       \* rounds the retry handler allows (see AcvpRetry)

NoMode == "none"

ASSUME ResultsAssumption ==
    /\ Count \in Nat \ {0} /\ MaxRounds \in Nat \ {0}
    /\ NoMode \notin Modes

VectorSets == 1..Count

VARIABLES
    url, alg, mode, \* the strings of each vector set (the server's, fixed)
    status,         \* what the server says of it
    results,        \* the results of this round
    i,              \* the next one to look at
    testsCompleted,
    failedVsList, failedAlgList, failedModeList,
    stale,          \* the local `mode' still points into an earlier reply
    rounds, pc,
    unread          \* history: the vector sets whose lookup failed

names == <<url, alg, mode>>
lists == <<failedVsList, failedAlgList, failedModeList, stale>>
vars == <<names, status, results, i, testsCompleted, lists, rounds, pc, unread>>

Init ==
    /\ url \in [VectorSets -> Urls]
    /\ \A u, v \in VectorSets : url[u] = url[v] => u = v
    /\ alg \in [VectorSets -> Algs]
    /\ mode \in [VectorSets -> Modes \cup {NoMode}]
    /\ status = [v \in VectorSets |-> "incomplete"]
    /\ results = status /\ i = 1 /\ testsCompleted = 0
    /\ failedVsList = <<>> /\ failedAlgList = <<>> /\ failedModeList = <<>>
    /\ stale = 0 /\ rounds = 0 /\ pc = "poll"
    /\ unread = {}

\* The server grades a vector set, at any time.
Grade(v) ==
    /\ status[v] = "incomplete"
    /\ \E s \in {"passed", "fail", "error"} : status' = [status EXCEPT ![v] = s]
    /\ UNCHANGED <<names, results, i, testsCompleted, lists, rounds, pc, unread>>

----------------------------------------------------------------------------
(* String lists *)

Same(a, b) == a = b \/ <<a, b>> \in Prefixes \/ <<b, a>> \in Prefixes

\* acvp_lookup_str_list; the empty string stands for NoMode in the list and
\* is never found.
acvp_lookup_str_list(list, string) ==
    \E k \in 1..Len(list) : list[k] # NoMode /\ Same(list[k], string)

----------------------------------------------------------------------------
(* One round *)

Retrieve ==
    /\ pc = "poll"
    /\ results' = status
    /\ i' = 1 /\ testsCompleted' = 0 /\ pc' = "walk"
    /\ UNCHANGED <<names, status, lists, rounds, unread>>

\* A vector set that is not graded does not count as completed; one that passed,
\* was in error or was looked up before does.
CountAllMutant ==
    /\ pc = "walk" /\ i <= Count
    /\ results[i] # "fail" \/ acvp_lookup_str_list(failedVsList, url[i])
    /\ testsCompleted' = testsCompleted + 1
    /\ i' = i + 1
    /\ UNCHANGED <<names, status, results, lists, rounds, pc, unread>>

StepOver ==
    /\ pc = "walk" /\ i <= Count
    /\ results[i] # "fail" \/ acvp_lookup_str_list(failedVsList, url[i])
    /\ testsCompleted' = testsCompleted + (IF results[i] = "incomplete" THEN 0 ELSE 1)
    /\ i' = i + 1
    /\ UNCHANGED <<names, status, results, lists, rounds, pc, unread>>

LookingUp ==
    /\ pc = "walk" /\ i <= Count
    /\ results[i] = "fail" /\ ~acvp_lookup_str_list(failedVsList, url[i])
    /\ i' = i + 1
    /\ UNCHANGED <<names, status, results, rounds, pc>>

\* The mode that is taken for that of the i-th vector set: its own, or none, or
\* whatever is left of an earlier reply that has one, which was freed meanwhile.
ModesRead ==
    IF mode[i] # NoMode THEN {mode[i]}
    ELSE IF stale = 0 THEN {NoMode}
    ELSE Modes \cup {NoMode}

\* An algorithm without a mode gets an empty entry on the list of modes.
Put(m) ==
    /\ failedAlgList' = Append(failedAlgList, alg[i])
    /\ failedModeList' = Append(failedModeList, m)

\* The vector set is retrieved; its algorithm and mode are put on the lists
\* unless both are on them, each on its own.
EitherMutant ==
    /\ LookingUp
    /\ failedVsList' = Append(failedVsList, url[i])
    /\ \E m \in ModesRead :
         IF \/ acvp_lookup_str_list(failedAlgList, alg[i])
            \/ m # NoMode /\ acvp_lookup_str_list(failedModeList, m)
         THEN UNCHANGED <<failedAlgList, failedModeList>>
         ELSE Put(m)
    /\ stale' = IF mode[i] # NoMode THEN 1 ELSE stale
    /\ testsCompleted' = testsCompleted + 1
    /\ UNCHANGED unread

LookUp ==
    /\ LookingUp
    /\ failedVsList' = Append(failedVsList, url[i])
    /\ \E m \in ModesRead :
         IF /\ acvp_lookup_str_list(failedAlgList, alg[i])
            /\ m # NoMode /\ acvp_lookup_str_list(failedModeList, m)
         THEN UNCHANGED <<failedAlgList, failedModeList>>
         ELSE Put(m)
    /\ stale' = IF mode[i] # NoMode THEN 1 ELSE stale
    /\ testsCompleted' = testsCompleted + 1
    /\ UNCHANGED unread

\* The retrieval fails: the vector set is not counted in this round, but stays on
\* the list of those looked up.
LookUpFails ==
    /\ LookingUp
    /\ failedVsList' = Append(failedVsList, url[i])
    /\ unread' = unread \cup {i}
    /\ UNCHANGED <<failedAlgList, failedModeList, stale, testsCompleted>>

\* Everything is completed: the verdict, with the failing algorithms if any.
Report ==
    /\ pc = "walk" /\ i > Count
    /\ testsCompleted >= Count
    /\ pc' = IF \A v \in VectorSets : results[v] = "passed" THEN "passed"
             ELSE "failed"
    /\ UNCHANGED <<names, status, results, i, testsCompleted, lists, rounds,
                   unread>>

\* Otherwise wait for the next round, or give up.
Wait ==
    /\ pc = "walk" /\ i > Count
    /\ testsCompleted < Count
    /\ rounds' = rounds + 1
    /\ pc' = IF rounds' < MaxRounds THEN "poll" ELSE "gaveUp"
    /\ UNCHANGED <<names, status, results, i, testsCompleted, lists, unread>>

Next == \/ \E v \in VectorSets : Grade(v)
        \/ Retrieve \/ StepOver \/ LookUp \/ LookUpFails \/ Report \/ Wait

Spec == Init /\ [][Next]_vars

----------------------------------------------------------------------------
(* Properties *)

Listed(a) == \E k \in 1..Len(failedAlgList) : failedAlgList[k] = a

\* The loop gives its verdict only when every vector set is graded, although
\* failed lookups and repeated rounds both change what it counts, and it is the
\* server's: no later grade can change it.
VerdictIsFinal ==
    pc \in {"passed", "failed"} =>
        /\ \A v \in VectorSets : status[v] # "incomplete"
        /\ pc = "passed" <=> \A v \in VectorSets : status[v] = "passed"

\* A failing algorithm is named, in whichever round it failed, unless its lookup
\* failed or another failing vector set has a URL or a name that is taken for its.
UnshadowedIsNamed ==
    pc = "failed" =>
        \A v \in VectorSets :
            \/ status[v] # "fail" \/ v \in unread
            \/ Listed(alg[v])
            \/ \E u \in VectorSets \ {v} :
                 status[u] = "fail" /\ (Same(url[u], url[v]) \/ Same(alg[u], alg[v]))
=============================================================================
