---------------------------- MODULE AcvpKatProofs ----------------------------
(***************************************************************************)
(* The properties of AcvpKatKnown, for vector sets with any number of      *)
(* groups, tests and Monte Carlo iterations and for every table that meets *)
(* TablesAssumption.                                                       *)
(*                                                                         *)
(* None of the properties is inductive: each says what a test case, the    *)
(* response or the result looks like at one place of the handler, and they *)
(* hold there because of what was true at the places before.  KatInv says  *)
(* what is true at which place, in one conjunct per question.              *)
(***************************************************************************)
EXTENDS AcvpKatKnown, TLAPS

TestCases ==
  [live : SUBSET STRING, wild : SUBSET STRING, inputs : {"none", "part", "all"}, stale : SUBSET STRING,
   by : {"nobody", "module", "failure"}]

Owners == {"none", "handler", "response"}

\* What the fields of the state are.
ShapeInv ==
  /\ alg \in Algs /\ kind \in Kinds(alg)
  /\ g \in Nat /\ n \in Nat
  /\ stc \in TestCases
  /\ js \in [tval : Owners, gval : Owners, vs : Owners]

\* What a test case holds of other groups.
CarryInv ==
  /\ \A x \in earlier : x \in Leaves(alg) \/ \E k \in Kinds(alg) : x \in Locals(alg, k)
  /\ stc.stale \subseteq CarriedOver(alg)

\* What is known of a test case on its way to an answer.
AnswerInv ==
  /\ pc = "init" => n = 0
  /\ pc = "mct" => stc.inputs = "all" /\ (n # 0 => stc.by = "module")
  /\ pc = "key" => stc.by = "module"
  /\ pc = "output" => /\ stc.by = "nobody" => alg \in rsa_algs
                      /\ stc.by = "failure" => alg \in aes_auth_algs
  /\ pc \in {"crypto", "key", "output"} =>
       \/ stc.inputs = "all"
       \/ alg \in {"KDA_ONESTEP", "KDA_TWOSTEP"}
       \/ pc = "output" /\ stc.by = "nobody"
  /\ OnlyKnownBadAnswers

\* Who owns the JSON values, and what that makes of the response.
JsonInv ==
  /\ pc \in {"preamble", "groups", "tests", "end"} => js.tval # "handler"
  /\ pc = "preamble" => js.gval = "none" /\ js.vs = "none" /\ g = 0
  /\ pc = "groups" => js.vs = "handler" /\ js.gval = IF g = 0 THEN "none" ELSE "response"
  /\ pc \in {"tests", "init", "crypto", "key", "mct", "output"} =>
       js.vs = "handler" /\ js.gval = "handler" /\ g # 0
  /\ pc = "end" => js.vs = "response" /\ js.gval = "response" /\ resp = "complete"
  /\ pc \notin {"end", "err", "return"} => resp \in {"previous", "preamble"}
  /\ pc = "err" /\ rv # "SUCCESS" =>
       \/ alg \in FailsLate
       \/ js.vs # "response" /\ js.gval # "response" /\ resp \in {"previous", "preamble"}
  /\ pc = "err" /\ rv = "SUCCESS" =>
       \/ alg = "EDDSA_SIGGEN"
       \/ js.vs = "response" /\ js.gval = "response" /\ resp = "complete"
  /\ ResultMatchesResponse

\* Members that are not buffers are there only before the first init_tc, where
\* nothing releases them.
WildInv ==
  /\ alg \notin Unclean =>
       /\ "wild" \notin faults
       /\ \/ stc.wild = {}
          \/ /\ pc \in {"groups", "tests", "init", "end", "err"}
             /\ \E k \in Kinds(alg) : ~Table(alg, k).handler.cleared
  /\ "twice" \in faults => alg \in FailsLate

\* What is allocated, and where it is released at the latest.
LostInv ==
  /\ pc \in {"preamble", "groups", "tests", "init", "end"} => stc.live = {}
  /\ stc.live \subseteq ToSet(tab.init.alloc)
  /\ pc = "err" =>
       /\ "tc" \notin tab.answer.err => stc.live \subseteq Forgotten(alg)
       /\ rv = "SUCCESS" => stc.live \subseteq Forgotten(alg)
       /\ js.tval = "handler" => "tval" \in Forgotten(alg)
  /\ lost \subseteq Forgotten(alg)

KatInv == ShapeInv /\ CarryInv /\ AnswerInv /\ JsonInv /\ WildInv /\ LostInv
----------------------------------------------------------------------------
(* Lemmas.                                                                 *)

\* What the first m buffers of a list are.
LEMMA FirstBuffers ==
  ASSUME NEW s \in Seq(STRING), NEW m \in 0..Len(s)
  PROVE  /\ ToSet(SubSeq(s, 1, m)) \subseteq ToSet(s)
         /\ ToSet(s) \subseteq STRING
         /\ m = 0 => ToSet(SubSeq(s, 1, m)) = {}
<1>1. SubSeq(s, 1, m) \in Seq(STRING) /\ Len(SubSeq(s, 1, m)) = m
  OBVIOUS
<1>2. \A i \in 1..m : SubSeq(s, 1, m)[i] = s[i]
  OBVIOUS
<1>. QED BY <1>1, <1>2 DEF ToSet

\* What TablesAssumption says of the table in use.
LEMMA TableInUse ==
  ASSUME ShapeInv
  PROVE  /\ tab.init.uses \subseteq STRING
         /\ \A k \in Kinds(alg) :
              tab.init.uses \cap (Locals(alg, k) \ Assigned) \subseteq CarriedOver(alg)
         /\ tab.init.uses \cap Leaves(alg) \subseteq CarriedOver(alg)
         /\ ReleasesOnlyBuffers(alg)
         /\ StopsAtFailure(alg, tab, kind)
         /\ ReleasesAll(alg, tab)
         /\ ReportsFailure(alg, tab)
<1>1. alg \in Algs /\ kind \in Kinds(alg)
  BY DEF ShapeInv
<1>2. ResetsLocals(alg) /\ ReleasesOnlyBuffers(alg)
  BY <1>1, TablesAssumption
<1>3. StopsAtFailure(alg, tab, kind) /\ ReleasesAll(alg, tab) /\ ReportsFailure(alg, tab)
  BY <1>1, TablesAssumption DEF tab
<1>. QED BY <1>1, <1>2, <1>3 DEF ResetsLocals, Locals, Assigned, tab

\* init_tc may allocate all the buffers.
LEMMA AllBuffers ==
  ASSUME ShapeInv
  PROVE  Len(tab.init.alloc) \in 0..Len(tab.init.alloc)
<1>1. tab.init.alloc \in Seq(STRING)
  BY TableInUse DEF ReleasesAll
<1>. QED BY <1>1

\* What init_tc makes of the test case.
LEMMA FilledCase ==
  ASSUME ShapeInv, CarryInv, NEW m \in 0..Len(tab.init.alloc), NEW how \in {"part", "all"}
  PROVE  /\ Filled(m, how) \in TestCases
         /\ Filled(m, how).wild = {} /\ Filled(m, how).by = "nobody"
         /\ Filled(m, how).inputs = how
         /\ Filled(m, how).live \subseteq ToSet(tab.init.alloc)
         /\ Filled(m, how).stale \subseteq CarriedOver(alg)
         /\ m = 0 => Filled(m, how).live = {}
<1>1. tab.init.alloc \in Seq(STRING)
  BY TableInUse DEF ReleasesAll
<1>2. /\ ToSet(SubSeq(tab.init.alloc, 1, m)) \subseteq ToSet(tab.init.alloc)
      /\ ToSet(tab.init.alloc) \subseteq STRING
      /\ m = 0 => ToSet(SubSeq(tab.init.alloc, 1, m)) = {}
  BY <1>1, FirstBuffers
<1>3. Stale \subseteq CarriedOver(alg) /\ Stale \subseteq STRING
  BY TableInUse DEF CarryInv, Stale
<1>. QED BY <1>2, <1>3 DEF Filled, TestCases

\* What init_tc leaves when an allocation fails.
LEMMA FreedCase ==
  ASSUME NEW c \in TestCases, NEW b
  PROVE  /\ Freed(c, b) \in TestCases
         /\ Freed(c, b).live \subseteq c.live
         /\ Freed(c, b).wild = c.wild \cup (c.live \cap b)
         /\ Freed(c, b).by = c.by /\ Freed(c, b).inputs = c.inputs
         /\ Freed(c, b).stale = c.stale
<1>. QED BY DEF Freed, TestCases
----------------------------------------------------------------------------
(* The steps of the handler, by the place at which they are taken.         *)

AtPreamble ==
  \/ \E code \in tab.handler.fails : Refuse(code)
  \/ \E l \in {{}, {"array"}} : acvp_create_array_fails(l)
  \/ \E l \in {{}, {"array"}} : acvp_setup_json_rsp_group_fails(l)
  \/ Begin

AtGroups ==
  \/ \E code \in tab.handler.groups : NoGroups(code)
  \/ \E k \in Kinds(alg) : Group(k)
  \/ \E k \in Kinds(alg) : \E code \in Table(alg, k).groups.fails : GroupRefused(k, code)
  \/ Complete

AtTests ==
  \/ Test
  \/ \E code \in tab.tests.fails : TestRefused(code)
  \/ \E code \in tab.tests.drops : TestDropped(code)
  \/ GroupEnd

AtInit ==
  \/ init_tc
  \/ \E code \in tab.init.early : init_tc_early(code)
  \/ \E m \in 0..Len(tab.init.alloc), code \in tab.init.fails : init_tc_fails(m, code)
  \/ \E m \in 0..Len(tab.init.alloc) : init_tc_incomplete(m)

AtCallback ==
  \/ crypto_handler
  \/ crypto_handler_fails
  \/ mct_tc
  \/ \E code \in tab.answer.mct.fails \cup {"CRYPTO_MODULE_FAIL"} : mct_tc_fails(code, {})
  \/ \E code \in tab.answer.mct.drops : mct_tc_fails(code, {"result"})

AtOutput ==
  \/ group_key
  \/ \E code \in tab.answer.key.fails : group_key_fails(code)
  \/ \E code \in tab.output.fails : output_tc_fails(code)
  \/ output_tc
  \/ output_tc_short
  \/ mct_done

AtEnd ==
  \/ Success
  \/ \E code \in tab.handler.ends : EndRefused(code)
  \/ err

\* Every step is one of these, or changes nothing.
LEMMA Places ==
  ASSUME [Next]_vars
  PROVE  \/ AtPreamble \/ AtGroups \/ AtTests \/ AtInit \/ AtCallback \/ AtOutput \/ AtEnd
         \/ UNCHANGED vars
<1>. QED BY DEF Next, Done, AtPreamble, AtGroups, AtTests, AtInit, AtCallback, AtOutput, AtEnd
----------------------------------------------------------------------------
(* The parts of the invariant, one by one.                                 *)

\* The fields of the state stay what they are.
LEMMA ShapeStep ==
  ASSUME KatInv, [Next]_vars
  PROVE  ShapeInv'
<1>. ShapeInv /\ CarryInv
  BY DEF KatInv
<1>. USE DEF ShapeInv, answers
<1>z. Zeroed \in TestCases
  BY DEF Zeroed, TestCases
<1>1. CASE AtPreamble
  <2>1. CASE Begin
    <3>1. tab.release \subseteq STRING
      BY TableInUse DEF ReleasesAll
    <3>2. stc' \in TestCases
      BY <2>1, <3>1 DEF Begin, Zeroed, TestCases
    <3>. QED BY <2>1, <3>2 DEF Begin, Owners
  <2>. QED BY <1>1, <2>1 DEF AtPreamble, Refuse, acvp_create_array_fails, acvp_setup_json_rsp_group_fails
<1>2. CASE AtGroups
  BY <1>2 DEF AtGroups, NoGroups, Group, GroupRefused, NextGroup, Goto_err, Complete, Owners
<1>3. CASE AtTests
  BY <1>3 DEF AtTests, Test, TestRefused, TestDropped, GroupEnd, Goto_err, Owners
<1>4. CASE AtInit
  <2>1. CASE init_tc
    BY <2>1, AllBuffers, FilledCase DEF init_tc
  <2>2. CASE \E code \in tab.init.early : init_tc_early(code)
    BY <2>2, <1>z DEF init_tc_early, GiveUp, release_tc, Owners
  <2>3. ASSUME NEW m \in 0..Len(tab.init.alloc), NEW code \in tab.init.fails, init_tc_fails(m, code)
        PROVE  ShapeInv'
    <3>1. Filled(m, "part") \in TestCases /\ Freed(Filled(m, "part"), tab.init.frees) \in TestCases
      BY FilledCase, FreedCase
    <3>. QED BY <2>3, <3>1, <1>z DEF init_tc_fails, GiveUp, release_tc, Owners
  <2>4. CASE \E m \in 0..Len(tab.init.alloc) : init_tc_incomplete(m)
    BY <2>4, FilledCase DEF init_tc_incomplete
  <2>. QED BY <1>4, <2>1, <2>2, <2>3, <2>4 DEF AtInit
<1>5. CASE AtCallback
  BY <1>5, <1>z DEF AtCallback, crypto_handler, crypto_handler_fails, mct_tc, mct_tc_fails, GiveUp,
     release_tc, Owners, TestCases
<1>6. CASE AtOutput
  BY <1>6, <1>z DEF AtOutput, group_key, group_key_fails, output_tc_fails, output_tc, output_tc_short,
     mct_done, Answer, GiveUp, release_tc, Owners
<1>7. CASE AtEnd
  BY <1>7, <1>z DEF AtEnd, Success, EndRefused, err, Return, Goto_err, Owners
<1>8. CASE UNCHANGED vars
  BY <1>8 DEF vars
<1>. QED BY <1>1, <1>2, <1>3, <1>4, <1>5, <1>6, <1>7, <1>8, Places

\* A test case is made of its own group's inputs but for what is known.
LEMMA CarryStep ==
  ASSUME KatInv, [Next]_vars
  PROVE  CarryInv'
<1>. ShapeInv /\ CarryInv
  BY DEF KatInv
<1>. USE DEF CarryInv, answers
<1>z. Zeroed.stale = {}
  BY DEF Zeroed
<1>s. stc \in TestCases
  BY DEF ShapeInv
<1>1. CASE AtPreamble
  BY <1>1 DEF AtPreamble, Refuse, acvp_create_array_fails, acvp_setup_json_rsp_group_fails, Begin, Zeroed
<1>2. CASE AtGroups
  <2>1. \A x \in Assigned : x \in Locals(alg, kind)
    BY DEF Assigned, Locals, tab
  <2>2. kind \in Kinds(alg)
    BY DEF ShapeInv
  <2>. QED BY <1>2, <2>1, <2>2 DEF AtGroups, NoGroups, Group, GroupRefused, NextGroup, Goto_err, Complete
<1>3. CASE AtTests
  BY <1>3 DEF AtTests, Test, TestRefused, TestDropped, GroupEnd, Goto_err
<1>4. CASE AtInit
  <2>1. CASE init_tc
    BY <2>1, AllBuffers, FilledCase DEF init_tc
  <2>2. CASE \E code \in tab.init.early : init_tc_early(code)
    BY <2>2, <1>z DEF init_tc_early, GiveUp, release_tc
  <2>3. ASSUME NEW m \in 0..Len(tab.init.alloc), NEW code \in tab.init.fails, init_tc_fails(m, code)
        PROVE  CarryInv'
    <3>1. /\ Filled(m, "part").stale \subseteq CarriedOver(alg)
          /\ Freed(Filled(m, "part"), tab.init.frees).stale \subseteq CarriedOver(alg)
      BY FilledCase, FreedCase
    <3>. QED BY <2>3, <3>1, <1>z DEF init_tc_fails, GiveUp, release_tc
  <2>4. CASE \E m \in 0..Len(tab.init.alloc) : init_tc_incomplete(m)
    BY <2>4, FilledCase DEF init_tc_incomplete
  <2>. QED BY <1>4, <2>1, <2>2, <2>3, <2>4 DEF AtInit
<1>5. CASE AtCallback
  BY <1>5, <1>z, <1>s DEF AtCallback, crypto_handler, crypto_handler_fails, mct_tc, mct_tc_fails, GiveUp,
     release_tc, TestCases
<1>6. CASE AtOutput
  BY <1>6, <1>z DEF AtOutput, group_key, group_key_fails, output_tc_fails, output_tc, output_tc_short,
     mct_done, Answer, GiveUp, release_tc
<1>7. CASE AtEnd
  BY <1>7, <1>z DEF AtEnd, Success, EndRefused, err, Return, Goto_err
<1>8. CASE UNCHANGED vars
  BY <1>8 DEF vars
<1>. QED BY <1>1, <1>2, <1>3, <1>4, <1>5, <1>6, <1>7, <1>8, Places

\* What is wrong with an answer is known of the handler.
LEMMA AnswerStep ==
  ASSUME KatInv, [Next]_vars
  PROVE  AnswerInv'
<1>. ShapeInv /\ CarryInv /\ AnswerInv
  BY DEF KatInv
<1>t. StopsAtFailure(alg, tab, kind)
  BY TableInUse
<1>s. stc \in TestCases /\ n \in Nat
  BY DEF ShapeInv
<1>. USE DEF AnswerInv, OnlyKnownBadAnswers, answers
<1>1. CASE AtPreamble
  BY <1>1 DEF AtPreamble, Refuse, acvp_create_array_fails, acvp_setup_json_rsp_group_fails, Begin
<1>2. CASE AtGroups
  BY <1>2 DEF AtGroups, NoGroups, Group, GroupRefused, NextGroup, Goto_err, Complete
<1>3. CASE AtTests
  BY <1>3 DEF AtTests, Test, TestRefused, TestDropped, GroupEnd, Goto_err
<1>4. CASE AtInit
  <2>1. CASE init_tc
    BY <2>1, AllBuffers, FilledCase DEF init_tc
  <2>2. CASE \E code \in tab.init.early : init_tc_early(code)
    BY <2>2 DEF init_tc_early, GiveUp
  <2>3. ASSUME NEW m \in 0..Len(tab.init.alloc), NEW code \in tab.init.fails, init_tc_fails(m, code)
        PROVE  AnswerInv'
    <3>1. /\ Filled(m, "part").by = "nobody"
          /\ Freed(Filled(m, "part"), tab.init.frees).by = "nobody"
      BY FilledCase, FreedCase
    <3>. QED BY <2>3, <3>1, <1>t DEF init_tc_fails, GiveUp, StopsAtFailure
  <2>4. CASE \E m \in 0..Len(tab.init.alloc) : init_tc_incomplete(m)
    BY <2>4, FilledCase, <1>t DEF init_tc_incomplete, StopsAtFailure
  <2>. QED BY <1>4, <2>1, <2>2, <2>3, <2>4 DEF AtInit
<1>5. CASE AtCallback
  <2>1. CASE crypto_handler
    BY <2>1, <1>s DEF crypto_handler, TestCases
  <2>2. CASE crypto_handler_fails
    BY <2>2, <1>s, <1>t DEF crypto_handler_fails, GiveUp, TestCases, StopsAtFailure
  <2>3. CASE mct_tc
    BY <2>3, <1>s DEF mct_tc, TestCases
  <2>. QED BY <1>5, <2>1, <2>2, <2>3 DEF AtCallback, mct_tc_fails
<1>6. CASE AtOutput
  <2>1. CASE group_key \/ \E code \in tab.answer.key.fails : group_key_fails(code)
    BY <2>1 DEF group_key, group_key_fails, GiveUp
  <2>2. CASE \E code \in tab.output.fails : output_tc_fails(code)
    BY <2>2 DEF output_tc_fails, GiveUp
  <2>3. CASE output_tc
    <3>1. Quality("yes") \in {"unasked", "failed", "guessed", "good"}
      BY DEF Quality
    <3>2. /\ Quality("yes") = "unasked" => alg \in rsa_algs
          /\ Quality("yes") = "failed" => alg \in aes_auth_algs
          /\ Quality("yes") = "guessed" => alg \in {"KDA_ONESTEP", "KDA_TWOSTEP"}
      <4>1. /\ Quality("yes") = "unasked" => stc.by = "nobody"
            /\ Quality("yes") = "failed" => stc.by = "failure"
            /\ Quality("yes") = "guessed" => stc.by # "nobody" /\ stc.inputs # "all"
        BY DEF Quality
      <4>. QED BY <2>3, <4>1 DEF output_tc
    <3>. QED BY <2>3, <3>1, <3>2 DEF output_tc, Answer
  <2>4. CASE output_tc_short
    <3>1. Quality("no") \in {"unasked", "failed", "guessed", "short"}
      BY <1>s DEF Quality, TestCases
    <3>2. /\ Quality("no") = "unasked" => alg \in rsa_algs
          /\ Quality("no") = "failed" => alg \in aes_auth_algs
          /\ Quality("no") = "guessed" => alg \in {"KDA_ONESTEP", "KDA_TWOSTEP"}
          /\ alg \in Swallowing
      <4>1. /\ Quality("no") = "unasked" => stc.by = "nobody"
            /\ Quality("no") = "failed" => stc.by = "failure"
            /\ Quality("no") = "guessed" => stc.by # "nobody" /\ stc.inputs # "all"
        BY DEF Quality
      <4>. QED BY <2>4, <4>1, <1>t DEF output_tc_short, StopsAtFailure
    <3>. QED BY <2>4, <3>1, <3>2 DEF output_tc_short, Answer
  <2>5. CASE mct_done
    <3>1. stc.by = "module" /\ stc.inputs = "all"
      BY <2>5, <1>s, BoundsAssumption DEF mct_done
    <3>2. Quality("yes") = "good"
      BY <3>1 DEF Quality
    <3>. QED BY <2>5, <3>2 DEF mct_done, Answer
  <2>. QED BY <1>6, <2>1, <2>2, <2>3, <2>4, <2>5 DEF AtOutput
<1>7. CASE AtEnd
  BY <1>7 DEF AtEnd, Success, EndRefused, err, Return, Goto_err
<1>8. CASE UNCHANGED vars
  BY <1>8 DEF vars
<1>. QED BY <1>1, <1>2, <1>3, <1>4, <1>5, <1>6, <1>7, <1>8, Places

\* The JSON values and the response go together.
LEMMA JsonStep ==
  ASSUME KatInv, [Next]_vars
  PROVE  JsonInv'
<1>. ShapeInv /\ CarryInv /\ JsonInv
  BY DEF KatInv
<1>t. ReportsFailure(alg, tab)
  BY TableInUse
<1>s. g \in Nat /\ js \in [tval : Owners, gval : Owners, vs : Owners]
  BY DEF ShapeInv
<1>. USE DEF JsonInv, ResultMatchesResponse, SuccessIsComplete, FailureLeavesNothing, answers
<1>1. CASE AtPreamble
  BY <1>1, <1>s, <1>t DEF AtPreamble, Refuse, acvp_create_array_fails, acvp_setup_json_rsp_group_fails, Begin,
     ReportsFailure
<1>2. CASE AtGroups
  <2>1. CASE \E code \in tab.handler.groups : NoGroups(code)
    BY <2>1, <1>s, <1>t DEF NoGroups, Goto_err, ReportsFailure
  <2>2. CASE \E k \in Kinds(alg) : Group(k)
    BY <2>2, <1>s DEF Group, NextGroup
  <2>3. ASSUME NEW k \in Kinds(alg), NEW code \in Table(alg, k).groups.fails, GroupRefused(k, code)
        PROVE  JsonInv'
    <3>1. ReportsFailure(alg, Table(alg, k))
      BY TablesAssumption DEF ShapeInv
    <3>. QED BY <2>3, <3>1, <1>s DEF GroupRefused, NextGroup, Goto_err, ReportsFailure
  <2>4. CASE Complete
    BY <2>4, <1>s, BoundsAssumption DEF Complete
  <2>. QED BY <1>2, <2>1, <2>2, <2>3, <2>4 DEF AtGroups
<1>3. CASE AtTests
  <2>1. CASE Test \/ GroupEnd
    BY <2>1, <1>s DEF Test, GroupEnd
  <2>2. CASE \E code \in tab.tests.fails : TestRefused(code)
    BY <2>2, <1>t DEF TestRefused, Goto_err, ReportsFailure
  <2>3. CASE \E code \in tab.tests.drops : TestDropped(code)
    BY <2>3, <1>t DEF TestDropped, ReportsFailure
  <2>. QED BY <1>3, <2>1, <2>2, <2>3 DEF AtTests
<1>4. CASE AtInit
  BY <1>4, <1>s, <1>t DEF AtInit, init_tc, init_tc_early, init_tc_fails, init_tc_incomplete, GiveUp, ReportsFailure
<1>5. CASE AtCallback
  BY <1>5, <1>s, <1>t DEF AtCallback, crypto_handler, crypto_handler_fails, mct_tc, mct_tc_fails, GiveUp, ReportsFailure
<1>6. CASE AtOutput
  <2>1. CASE group_key \/ \E code \in tab.answer.key.fails : group_key_fails(code)
    BY <2>1, <1>s, <1>t DEF group_key, group_key_fails, GiveUp, ReportsFailure
  <2>2. CASE \E code \in tab.output.fails : output_tc_fails(code)
    BY <2>2, <1>s DEF output_tc_fails, GiveUp
  <2>3. CASE output_tc \/ output_tc_short \/ mct_done
    BY <2>3, <1>s DEF output_tc, output_tc_short, mct_done, Answer
  <2>. QED BY <1>6, <2>1, <2>2, <2>3 DEF AtOutput
<1>7. CASE AtEnd
  BY <1>7, <1>s, <1>t DEF AtEnd, Success, EndRefused, err, Return, Goto_err, ReportsFailure
<1>8. CASE UNCHANGED vars
  BY <1>8 DEF vars
<1>. QED BY <1>1, <1>2, <1>3, <1>4, <1>5, <1>6, <1>7, <1>8, Places

\* Where a test case may hold members that are not buffers, nothing is released.
LEMMA NotReleasedYet ==
  ASSUME ShapeInv, WildInv, alg \notin Unclean, stc.wild # {}
  PROVE  /\ pc \in {"groups", "tests", "init", "end", "err"}
         /\ "tc" \notin tab.answer.err
         /\ tab.init.early = {} \/ "tc" \notin tab.answer.init
<1>1. ReleasesOnlyBuffers(alg)
  BY TableInUse
<1>2. kind \in Kinds(alg)
  BY DEF ShapeInv
<1>. QED BY <1>1, <1>2 DEF WildInv, ReleasesOnlyBuffers, tab

\* init_tc leaves no pointer to what it has freed.
LEMMA CleanCase ==
  ASSUME ShapeInv, CarryInv, alg \notin Unclean,
         NEW m \in 0..Len(tab.init.alloc), m < Len(tab.init.alloc)
  PROVE  Freed(Filled(m, "part"), tab.init.frees).wild = {}
<1>1. tab.init.frees = {} \/ Len(tab.init.alloc) = 1
  BY TableInUse DEF ReleasesOnlyBuffers, ShapeInv, tab
<1>2. /\ Filled(m, "part") \in TestCases
      /\ Filled(m, "part").wild = {}
      /\ m = 0 => Filled(m, "part").live = {}
  BY FilledCase
<1>3. Freed(Filled(m, "part"), tab.init.frees).wild = Filled(m, "part").live \cap tab.init.frees
  BY <1>2, FreedCase
<1>4. Len(tab.init.alloc) = 1 => m = 0
  BY AllBuffers
<1>. QED BY <1>1, <1>2, <1>3, <1>4

\* What is released was allocated, and is released once.
LEMMA WildStep ==
  ASSUME KatInv, [Next]_vars
  PROVE  WildInv'
<1>. ShapeInv /\ CarryInv /\ JsonInv /\ WildInv
  BY DEF KatInv
<1>s. stc \in TestCases
  BY DEF ShapeInv
<1>z. Zeroed.wild = {}
  BY DEF Zeroed
<1>n. alg \notin Unclean /\ stc.wild # {} =>
         /\ pc \in {"groups", "tests", "init", "end", "err"}
         /\ "tc" \notin tab.answer.err
         /\ tab.init.early = {} \/ "tc" \notin tab.answer.init
  BY NotReleasedYet
<1>. USE DEF WildInv, answers
<1>1. CASE AtPreamble
  <2>1. CASE Begin
    <3>1. tab.handler.cleared => stc'.wild = {}
      BY <2>1 DEF Begin, Zeroed
    <3>2. kind \in Kinds(alg)
      BY DEF ShapeInv
    <3>. QED BY <2>1, <3>1, <3>2 DEF Begin, tab
  <2>. QED BY <1>1, <2>1 DEF AtPreamble, Refuse, acvp_create_array_fails, acvp_setup_json_rsp_group_fails
<1>2. CASE AtGroups
  BY <1>2 DEF AtGroups, NoGroups, Group, GroupRefused, NextGroup, Goto_err, Complete
<1>3. CASE AtTests
  BY <1>3 DEF AtTests, Test, TestRefused, TestDropped, GroupEnd, Goto_err
<1>4. CASE AtInit
  <2>1. CASE init_tc
    BY <2>1, AllBuffers, FilledCase DEF init_tc
  <2>2. CASE \E code \in tab.init.early : init_tc_early(code)
    BY <2>2, <1>z, <1>n DEF init_tc_early, GiveUp, release_tc, Opt
  <2>3. ASSUME NEW m \in 0..Len(tab.init.alloc), NEW code \in tab.init.fails, init_tc_fails(m, code)
        PROVE  WildInv'
    <3>. DEFINE c == IF code = "MALLOC_FAIL" THEN Freed(Filled(m, "part"), tab.init.frees)
                     ELSE Filled(m, "part")
    <3>1. alg \notin Unclean => c.wild = {}
      BY <2>3, CleanCase, FilledCase DEF init_tc_fails
    <3>2. \/ stc' = c /\ faults' = faults
          \/ stc' = Zeroed /\ faults' = faults \cup Opt(c.wild \cap tab.release # {}, {"wild"})
      BY <2>3 DEF init_tc_fails, GiveUp, release_tc
    <3>3. UNCHANGED alg
      BY <2>3 DEF init_tc_fails, GiveUp
    <3>. HIDE DEF c
    <3>. QED BY <3>1, <3>2, <3>3, <1>z DEF Opt
  <2>4. CASE \E m \in 0..Len(tab.init.alloc) : init_tc_incomplete(m)
    BY <2>4, FilledCase DEF init_tc_incomplete
  <2>. QED BY <1>4, <2>1, <2>2, <2>3, <2>4 DEF AtInit
<1>5. CASE AtCallback
  <2>1. alg \notin Unclean => stc.wild = {}
    BY <1>5, <1>n DEF AtCallback, crypto_handler, crypto_handler_fails, mct_tc, mct_tc_fails
  <2>2. CASE crypto_handler \/ mct_tc
    BY <2>1, <2>2, <1>s DEF crypto_handler, mct_tc, TestCases
  <2>3. CASE crypto_handler_fails
    BY <2>1, <2>3, <1>s, <1>z DEF crypto_handler_fails, GiveUp, release_tc, TestCases, Opt
  <2>. QED BY <1>5, <2>1, <2>2, <2>3, <1>z DEF AtCallback, mct_tc_fails, release_tc, Opt
<1>6. CASE AtOutput
  <2>1. alg \notin Unclean => stc.wild = {}
    BY <1>6, <1>n DEF AtOutput, group_key, group_key_fails, output_tc_fails, output_tc, output_tc_short, mct_done
  <2>2. CASE group_key \/ (\E code \in tab.answer.key.fails : group_key_fails(code))
          \/ (\E code \in tab.output.fails : output_tc_fails(code))
    BY <2>1, <2>2, <1>z DEF group_key, group_key_fails, output_tc_fails, GiveUp, release_tc, Opt
  <2>3. CASE output_tc \/ output_tc_short \/ mct_done
    BY <2>1, <2>3, <1>z DEF output_tc, output_tc_short, mct_done, Answer, release_tc, Opt
  <2>. QED BY <1>6, <2>2, <2>3 DEF AtOutput
<1>7. CASE AtEnd
  <2>1. CASE Success \/ \E code \in tab.handler.ends : EndRefused(code)
    BY <2>1 DEF Success, EndRefused, Goto_err
  <2>2. CASE err
    <3>1. rv # "SUCCESS" /\ acvp_release_json # {} => alg \in FailsLate
      BY <2>2 DEF err, acvp_release_json, JsonInv
    <3>2. stc' = Zeroed /\ alg' = alg
      BY <2>2 DEF err, Return
    <3>3. "wild" \in faults' => alg \in Unclean \/ "wild" \in faults
      BY <2>2, <1>n DEF err, Return, Opt
    <3>4. "twice" \in faults' => alg \in FailsLate
      BY <2>2, <3>1 DEF err, Return, Opt
    <3>. QED BY <3>2, <3>3, <3>4, <1>z
  <2>. QED BY <1>7, <2>1, <2>2 DEF AtEnd
<1>8. CASE UNCHANGED vars
  BY <1>8 DEF vars
<1>. QED BY <1>1, <1>2, <1>3, <1>4, <1>5, <1>6, <1>7, <1>8, Places

\* A handler that gives up on a test case leaves nothing that is not released
\* at the label err, but for what it is known to forget.
LEMMA GiveUpKeeps ==
  ASSUME ShapeInv, LostInv, NEW c, c.live \subseteq ToSet(tab.init.alloc),
         NEW S \in Releases(tab), GiveUp(c, S),
         rv' = "SUCCESS" => alg = "EDDSA_SIGGEN"
  PROVE  LostInv'
<1>t. /\ ToSet(tab.init.alloc) \ tab.release \subseteq Forgotten(alg)
      /\ "tc" \in S \cup tab.answer.err \/ ToSet(tab.init.alloc) \subseteq Forgotten(alg)
      /\ "tval" \notin S => "tval" \in Forgotten(alg)
      /\ alg = "EDDSA_SIGGEN" => ToSet(tab.init.alloc) \subseteq Forgotten(alg)
  BY TableInUse DEF ReleasesAll, ReportsFailure
<1>1. pc' = "err" /\ alg' = alg /\ kind' = kind /\ tab' = tab
  BY DEF GiveUp, answers, tab
<1>2. /\ stc'.live \subseteq ToSet(tab.init.alloc)
      /\ lost' \subseteq Forgotten(alg)
      /\ "tc" \notin S \/ stc'.live = {}
  <2>1. CASE "tc" \in S
    BY <2>1, <1>t DEF GiveUp, release_tc, Zeroed, LostInv
  <2>2. CASE "tc" \notin S
    BY <2>2 DEF GiveUp, LostInv
  <2>. QED BY <2>1, <2>2
<1>3. js'.tval = "handler" => "tval" \in Forgotten(alg)
  BY <1>t DEF GiveUp, ShapeInv, Owners
<1>. QED BY <1>t, <1>1, <1>2, <1>3 DEF LostInv

\* An answer that is handed over leaves nothing behind.
LEMMA AnswerKeeps ==
  ASSUME ShapeInv, LostInv, NEW q, Answer(q)
  PROVE  LostInv'
<1>1. ToSet(tab.init.alloc) \ tab.release \subseteq Forgotten(alg)
  BY TableInUse DEF ReleasesAll
<1>2. pc' = "tests" /\ alg' = alg /\ stc'.live = {}
  BY DEF Answer, release_tc, Zeroed
<1>3. lost' \subseteq Forgotten(alg)
  BY <1>1 DEF Answer, release_tc, LostInv
<1>. QED BY <1>2, <1>3 DEF LostInv

\* Nothing is forgotten but what the handler is known to forget.
LEMMA LostStep ==
  ASSUME KatInv, [Next]_vars
  PROVE  LostInv'
<1>. ShapeInv /\ CarryInv /\ JsonInv /\ LostInv
  BY DEF KatInv
<1>s. stc \in TestCases /\ js \in [tval : Owners, gval : Owners, vs : Owners]
  BY DEF ShapeInv
<1>z. Zeroed.live = {}
  BY DEF Zeroed
<1>a. "array" \in Forgotten(alg)
  BY DEF Forgotten
<1>t. ReleasesAll(alg, tab) /\ ReportsFailure(alg, tab)
  BY TableInUse
<1>1. CASE AtPreamble
  <2>1. CASE Begin
    BY <2>1 DEF Begin, Zeroed, LostInv, answers
  <2>. QED BY <1>1, <2>1, <1>a DEF AtPreamble, Refuse, acvp_create_array_fails, acvp_setup_json_rsp_group_fails,
          LostInv, answers, tab
<1>2. CASE AtGroups
  <2>1. /\ stc.live = {} /\ UNCHANGED <<alg, stc, lost>> /\ js'.tval # "handler"
        /\ pc' \in {"err", "tests", "end"}
    BY <1>2, <1>s DEF AtGroups, NoGroups, Group, GroupRefused, NextGroup, Goto_err, Complete, LostInv, JsonInv
  <2>. QED BY <2>1 DEF LostInv
<1>3. CASE AtTests
  <2>1. stc.live = {} /\ js.tval # "handler" /\ UNCHANGED <<alg, stc>>
    BY <1>3 DEF AtTests, Test, TestRefused, TestDropped, GroupEnd, Goto_err, LostInv, JsonInv
  <2>2. lost' \subseteq Forgotten(alg)
    BY <1>3, <1>t DEF AtTests, Test, TestRefused, TestDropped, GroupEnd, Goto_err, LostInv, ReleasesAll
  <2>3. pc' = "err" => js'.tval # "handler"
    BY <1>3, <2>1 DEF AtTests, Test, TestRefused, TestDropped, GroupEnd, Goto_err
  <2>. QED BY <2>1, <2>2, <2>3 DEF LostInv
<1>4. CASE AtInit
  <2>0. stc.live = {}
    BY <1>4 DEF AtInit, init_tc, init_tc_early, init_tc_fails, init_tc_incomplete, LostInv
  <2>1. CASE init_tc
    BY <2>0, <2>1, AllBuffers, FilledCase DEF init_tc, LostInv, answers, tab
  <2>2. ASSUME NEW code \in tab.init.early, init_tc_early(code)
        PROVE  LostInv'
    <3>1. tab.answer.init \in Releases(tab)
      BY DEF Releases, Opt
    <3>. QED BY <2>0, <2>2, <3>1, <1>t, GiveUpKeeps DEF init_tc_early, ReportsFailure
  <2>3. ASSUME NEW m \in 0..Len(tab.init.alloc), NEW code \in tab.init.fails, init_tc_fails(m, code)
        PROVE  LostInv'
    <3>. DEFINE c == IF code = "MALLOC_FAIL" THEN Freed(Filled(m, "part"), tab.init.frees)
                     ELSE Filled(m, "part")
    <3>1. c.live \subseteq ToSet(tab.init.alloc)
      BY FilledCase, FreedCase
    <3>2. CASE tab.answer.stops
      <4>1. tab.answer.init \in Releases(tab)
        BY <3>2 DEF Releases, Opt
      <4>2. GiveUp(c, tab.answer.init) /\ rv' # "SUCCESS"
        BY <2>3, <3>2 DEF init_tc_fails
      <4>. HIDE DEF c
      <4>. QED BY <3>1, <4>1, <4>2, GiveUpKeeps
    <3>3. CASE ~tab.answer.stops
      <4>1. stc' = c /\ pc' = "output" /\ UNCHANGED <<alg, answers, lost>>
        BY <2>3, <3>3 DEF init_tc_fails
      <4>. HIDE DEF c
      <4>. QED BY <3>1, <4>1 DEF LostInv, answers, tab
    <3>. QED BY <3>2, <3>3
  <2>4. CASE \E m \in 0..Len(tab.init.alloc) : init_tc_incomplete(m)
    BY <2>4, FilledCase DEF init_tc_incomplete, LostInv, answers, tab
  <2>. QED BY <1>4, <2>1, <2>2, <2>3, <2>4 DEF AtInit
<1>5. CASE AtCallback
  <2>1. CASE crypto_handler \/ mct_tc
    BY <2>1, <1>s DEF crypto_handler, mct_tc, TestCases, LostInv, answers, tab
  <2>2. CASE crypto_handler_fails
    <3>1. CASE tab.answer.tolerates
      BY <2>2, <3>1, <1>s DEF crypto_handler_fails, TestCases, LostInv, answers, tab
    <3>2. CASE ~tab.answer.tolerates
      <4>1. tab.answer.crypto \in Releases(tab)
        BY DEF Releases
      <4>2. GiveUp(stc, tab.answer.crypto) /\ rv' # "SUCCESS"
        BY <2>2, <3>2 DEF crypto_handler_fails
      <4>3. stc.live \subseteq ToSet(tab.init.alloc)
        BY DEF LostInv
      <4>. QED BY <4>1, <4>2, <4>3, GiveUpKeeps
    <3>. QED BY <3>1, <3>2
  <2>3. ASSUME NEW code, NEW l, mct_tc_fails(code, l), l \subseteq Forgotten(alg)
        PROVE  LostInv'
    <3>1. pc' = "err" /\ alg' = alg /\ stc'.live = {} /\ js'.tval # "handler"
      BY <2>3, <1>s, <1>z DEF mct_tc_fails, release_tc
    <3>2. lost' \subseteq Forgotten(alg)
      BY <2>3, <1>t DEF mct_tc_fails, release_tc, LostInv, ReleasesAll
    <3>. QED BY <3>1, <3>2 DEF LostInv
  <2>4. tab.answer.mct.drops # {} => {"result"} \subseteq Forgotten(alg)
    BY <1>t DEF ReleasesAll
  <2>. QED BY <1>5, <2>1, <2>2, <2>3, <2>4 DEF AtCallback
<1>6. CASE AtOutput
  <2>0. stc.live \subseteq ToSet(tab.init.alloc)
    BY DEF LostInv
  <2>1. CASE group_key
    BY <2>1 DEF group_key, LostInv, answers, tab
  <2>2. ASSUME NEW code \in tab.answer.key.fails, group_key_fails(code)
        PROVE  LostInv'
    <3>1. tab.answer.output \in Releases(tab)
      BY DEF Releases, Opt
    <3>. QED BY <2>0, <2>2, <3>1, <1>t, GiveUpKeeps DEF group_key_fails, ReportsFailure
  <2>3. ASSUME NEW code \in tab.output.fails, output_tc_fails(code)
        PROVE  LostInv'
    <3>1. tab.answer.output \in Releases(tab)
      BY DEF Releases, Opt
    <3>. QED BY <2>0, <2>3, <3>1, GiveUpKeeps DEF output_tc_fails
  <2>4. CASE output_tc \/ output_tc_short \/ mct_done
    BY <2>4, AnswerKeeps DEF output_tc, output_tc_short, mct_done
  <2>. QED BY <1>6, <2>1, <2>2, <2>3, <2>4 DEF AtOutput
<1>7. CASE AtEnd
  <2>1. CASE Success \/ \E code \in tab.handler.ends : EndRefused(code)
    <3>1. stc.live = {} /\ js.tval # "handler" /\ pc' = "err" /\ UNCHANGED <<alg, stc, js, lost>>
      BY <2>1 DEF Success, EndRefused, Goto_err, LostInv, JsonInv
    <3>. QED BY <3>1 DEF LostInv
  <2>2. CASE err
    <3>1. stc' = Zeroed /\ pc' = "return" /\ alg' = alg
      BY <2>2 DEF err, Return
    <3>2. CASE rv = "SUCCESS"
      <4>1. lost' = lost \cup stc.live \cup {x \in {"tval", "gval", "vs"} : js[x] = "handler"}
        BY <2>2, <3>2 DEF err, Return
      <4>2. stc.live \subseteq Forgotten(alg) /\ (js.tval = "handler" => "tval" \in Forgotten(alg))
        BY <2>2, <3>2 DEF err, LostInv
      <4>3. js.gval = "handler" \/ js.vs = "handler" => {"gval", "vs"} \subseteq Forgotten(alg)
        BY <2>2, <3>2, <1>t DEF err, JsonInv, ReportsFailure
      <4>. QED BY <3>1, <4>1, <4>2, <4>3, <1>z DEF LostInv
    <3>3. CASE rv # "SUCCESS"
      <4>. DEFINE j == [js EXCEPT !.gval = "none", !.vs = "none"]
                  c == IF "tc" \in tab.answer.err THEN [stc EXCEPT !.live = @ \ tab.release] ELSE stc
      <4>1. lost' = lost \cup c.live \cup {x \in {"tval", "gval", "vs"} : j[x] = "handler"}
        BY <2>2, <3>3 DEF err, Return
      <4>2. {x \in {"tval", "gval", "vs"} : j[x] = "handler"} \subseteq Forgotten(alg)
        BY <2>2, <1>s DEF err, LostInv
      <4>3. c.live \subseteq Forgotten(alg)
        <5>1. CASE "tc" \in tab.answer.err
          <6>1. c.live = stc.live \ tab.release
            BY <5>1, <1>s DEF TestCases
          <6>. QED BY <6>1, <1>t DEF LostInv, ReleasesAll
        <5>2. CASE "tc" \notin tab.answer.err
          BY <5>2, <2>2 DEF err, LostInv
        <5>. QED BY <5>1, <5>2
      <4>. HIDE DEF j, c
      <4>4. lost \subseteq Forgotten(alg)
        BY DEF LostInv
      <4>. QED BY <3>1, <4>1, <4>2, <4>3, <4>4, <1>z DEF LostInv
    <3>. QED BY <3>2, <3>3
  <2>. QED BY <1>7, <2>1, <2>2 DEF AtEnd
<1>8. CASE UNCHANGED vars
  BY <1>8 DEF vars, LostInv, tab
<1>. QED BY <1>1, <1>2, <1>3, <1>4, <1>5, <1>6, <1>7, <1>8, Places
----------------------------------------------------------------------------
(* The invariant, and the properties that follow from it.                  *)

\* A handler that is called has done nothing yet.
LEMMA KatInit ==
  ASSUME Init
  PROVE  KatInv
<1>1. Kinds(alg) # {}
  BY TablesAssumption DEF Init
<1>2. kind \in Kinds(alg)
  BY <1>1 DEF Init
<1>3. ShapeInv
  BY <1>2 DEF Init, ShapeInv, Zeroed, TestCases, Owners
<1>4. CarryInv /\ WildInv /\ LostInv
  BY DEF Init, CarryInv, WildInv, LostInv, Zeroed
<1>5. AnswerInv
  BY DEF Init, AnswerInv, OnlyKnownBadAnswers
<1>6. JsonInv
  BY DEF Init, JsonInv, ResultMatchesResponse, SuccessIsComplete, FailureLeavesNothing
<1>. QED BY <1>3, <1>4, <1>5, <1>6 DEF KatInv

\* What is true where in every handler.
THEOREM KatInvariant == Spec => []KatInv
<1>1. Init => KatInv
  BY KatInit
<1>2. KatInv /\ [Next]_vars => KatInv'
  BY ShapeStep, CarryStep, AnswerStep, JsonStep, WildStep, LostStep DEF KatInv
<1>. QED BY <1>1, <1>2, PTL DEF Spec

\* The inputs of one test group reach the test cases of another only through
\* the locals that the handlers (acvp_aes.c, acvp_rsa_keygen.c, ...) declare
\* outside their loops and do not reset, or (acvp_kda.c) assign from the last
\* test of the group before.
THEOREM KatCarryOver == Spec => []OnlyKnownCarryOver
<1>1. KatInv => OnlyKnownCarryOver
  BY DEF KatInv, CarryInv, OnlyKnownCarryOver
<1>. QED BY <1>1, KatInvariant, PTL

\* An answer that the module did not compute from all of its inputs comes
\* only from the handlers that go on after a failed init_tc or callback, or
\* whose output_tc swallows a failed conversion.
THEOREM KatBadAnswers == Spec => []OnlyKnownBadAnswers
<1>1. KatInv => OnlyKnownBadAnswers
  BY DEF KatInv, AnswerInv
<1>. QED BY <1>1, KatInvariant, PTL

\* On every path through a handler, what init_tc allocates and the JSON values
\* that are under way are released once, but for what is known.
THEOREM KatMemoryFaults == Spec => []OnlyKnownMemoryFaults
<1>1. KatInv => OnlyKnownMemoryFaults
  BY DEF KatInv, WildInv, LostInv, OnlyKnownMemoryFaults
<1>. QED BY <1>1, KatInvariant, PTL

\* A handler's result says whether there is a response to submit, but for the
\* three handlers that are named.
THEOREM KatResult == Spec => []ResultMatchesResponse
<1>1. KatInv => ResultMatchesResponse
  BY DEF KatInv, JsonInv
<1>. QED BY <1>1, KatInvariant, PTL
=============================================================================
