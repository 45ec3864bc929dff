------------------------------- MODULE AcvpKat -------------------------------
(***************************************************************************)
(* One call of a KAT handler, acvp_<family>_kat_handler(ctx, obj): the     *)
(* control pattern that all the handlers share, as a state machine over    *)
(* the tables of the AcvpKat* modules (see AcvpKatTables).                 *)
(*                                                                         *)
(* The handler answers a vector set of Groups groups of Tests test cases.  *)
(* It owns one test case structure, stc, on its stack, filled and emptied  *)
(* once per test, and three JSON values that move from the handler to the  *)
(* response: r_tval (the answer of a test), r_gval (of a group), r_vs_val  *)
(* (of the vector set).  ctx->kat_resp is what the caller submits.         *)
(*                                                                         *)
(* Anything that the code checks may fail: the server's JSON may miss a    *)
(* field, an allocation or a conversion may fail, and so may the crypto    *)
(* module.                                                                 *)
(***************************************************************************)
EXTENDS AcvpKatTables

CONSTANTS
  Algs,          \* the algorithms of the vector sets
  Kinds(_),      \* the features a test group of an algorithm may have
  Table(_, _),   \* the handler of an algorithm, for groups with given features
  Leaves(_),     \* the locals a handler assigns for a group from the last test
                 \* of the group before it
  Groups,        \* groups of a vector set
  Tests,         \* tests of a group
  Outer          \* outer iterations of a Monte Carlo test

ASSUME BoundsAssumption ==
  /\ Groups \in Nat \ {0}
  /\ Tests \in Nat \ {0}
  /\ Outer \in Nat \ {0}

VARIABLES
  pc,        \* where the handler is
  alg,       \* the algorithm of the vector set
  kind,      \* the features of the current group
  g, t, n,   \* groups begun, tests answered in the group, Monte Carlo results
  stc,       \* the test case
  earlier,   \* the locals that earlier groups assigned
  js,        \* who owns the JSON values: nobody, the handler, the response
  resp,      \* ctx->kat_resp
  ans,       \* how the answers in the response came about
  lost,      \* what was allocated and can no longer be released
  faults,    \* releases of something that was not there to release
  rv         \* the result of the handler

vars == <<pc, alg, kind, g, t, n, stc, earlier, js, resp, ans, lost, faults, rv>>

answers == <<g, t, n, kind, ans, earlier>>
----------------------------------------------------------------------------
\* The handler, with what it does for a group of the current kind.
tab == Table(alg, kind)

\* A zeroed test case.  live: members that hold an allocated buffer; wild:
\* members that hold another non-NULL value; inputs: whether the server's
\* inputs are all in it; stale: the inputs of an earlier group in it; by: what
\* the module made of it.
Zeroed == [live |-> {}, wild |-> {}, inputs |-> "none", stale |-> {}, by |-> "nobody"]

\* The locals read for a group of the current kind and its tests.
Assigned == tab.groups.reads \cup tab.tests.reads

\* Mutant: a field that a test lacks is not reset.
Stale_tests == tab.init.uses \cap (earlier \ tab.groups.reads)

\* What init_tc copies into the test case that this group did not assign.
Stale == tab.init.uses \cap (earlier \ Assigned)

\* The test case after init_tc has allocated the first m buffers.
Filled(m, how) ==
  [live   |-> ToSet(SubSeq(tab.init.alloc, 1, m)),
   wild   |-> {},
   inputs |-> how,
   stale  |-> Stale,
   by     |-> "nobody"]

\* init_tc frees the buffers b itself and leaves the pointers in the test case.
Freed(c, b) == [c EXCEPT !.live = @ \ b, !.wild = @ \cup (c.live \cap b)]

\* release_tc on the test case c; l is forgotten besides.
release_tc(c, l) ==
  /\ stc' = Zeroed
  /\ lost' = lost \cup l \cup (c.live \ tab.release)
  /\ faults' = faults \cup Opt(c.wild \cap tab.release # {}, {"wild"})

\* What is released at once, S, when the handler gives up on test case c.
GiveUp(c, S) ==
  /\ IF "tc" \in S THEN release_tc(c, {})
     ELSE stc' = c /\ UNCHANGED <<lost, faults>>
  /\ js' = IF "tval" \in S THEN [js EXCEPT !.tval = "none"] ELSE js
  /\ pc' = "err"
  /\ UNCHANGED <<alg, answers, resp>>

\* A refusal that releases nothing at once.
Goto_err(code) ==
  /\ rv' = code
  /\ pc' = "err"
  /\ UNCHANGED <<alg, stc, resp, lost, faults>>
----------------------------------------------------------------------------
Init ==
  /\ pc = "preamble" /\ alg \in Algs /\ kind = CHOOSE k \in Kinds(alg) : TRUE
  /\ g = 0 /\ t = 0 /\ n = 0
  /\ stc = Zeroed                       \* not the handler's yet: see Begin
  /\ earlier = {} /\ ans = {} /\ lost = {} /\ faults = {}
  /\ js = [tval |-> "none", gval |-> "none", vs |-> "none"]
  /\ resp = "previous" /\ rv = "none"

\* The checks before the response is created.
Refuse(code) ==
  /\ pc = "preamble"
  /\ rv' = code /\ pc' = "return"
  /\ UNCHANGED <<alg, answers, stc, js, resp, lost, faults>>

\* It fails with nothing allocated, or with an array it does not free.
acvp_create_array_fails(l) ==
  /\ pc = "preamble"
  /\ rv' = "JSON_ERR" /\ pc' = "return" /\ lost' = lost \cup l
  /\ UNCHANGED <<alg, answers, stc, js, resp, faults>>

\* The response of the previous vector set is freed and replaced first.
acvp_setup_json_rsp_group_fails(l) ==
  /\ pc = "preamble"
  /\ resp' = "preamble" /\ lost' = lost \cup l
  /\ rv' = "JSON_ERR" /\ pc' = "return"
  /\ UNCHANGED <<alg, answers, stc, js, faults>>

\* The response is created.  Where the handler does not zero stc, its
\* members hold whatever was on the stack.
Begin ==
  /\ pc = "preamble"
  /\ resp' = "preamble"
  /\ js' = [js EXCEPT !.vs = "handler"]
  /\ stc' = [Zeroed EXCEPT !.wild = IF tab.handler.cleared THEN {} ELSE tab.release]
  /\ pc' = "groups"
  /\ UNCHANGED <<alg, answers, lost, faults, rv>>

\* testGroups is missing from the vector set, where the handler checks it.
NoGroups(code) ==
  /\ pc = "groups" /\ g = 0
  /\ Goto_err(code)
  /\ UNCHANGED <<answers, js>>

\* The group's object is created before its fields are read.  What the tests of
\* the groups before have left is there for this one.
NextGroup(k) ==
  /\ kind' = k /\ g' = g + 1 /\ t' = 0 /\ n' = 0
  /\ js' = [js EXCEPT !.gval = "handler"]
  /\ earlier' = IF g = 0 THEN {} ELSE earlier \cup Assigned \cup Leaves(alg)
  /\ UNCHANGED ans

Group(k) ==
  /\ pc = "groups" /\ g < Groups
  /\ NextGroup(k)
  /\ pc' = "tests"
  /\ UNCHANGED <<alg, stc, resp, lost, faults, rv>>

GroupRefused(k, code) ==
  /\ pc = "groups" /\ g < Groups
  /\ NextGroup(k)
  /\ Goto_err(code)

\* The fields of a test are read and its answer created.
Test ==
  /\ pc = "tests" /\ t < Tests
  /\ js' = [js EXCEPT !.tval = "handler"]
  /\ n' = 0
  /\ pc' = "init"
  /\ UNCHANGED <<alg, g, t, kind, ans, earlier, stc, resp, lost, faults, rv>>

\* A test is refused before, or after and with, its answer is created.
TestRefused(code) ==
  /\ pc = "tests" /\ t < Tests
  /\ Goto_err(code)
  /\ UNCHANGED <<answers, js>>

\* A test is refused and its answer forgotten.
TestDropped(code) ==
  /\ pc = "tests" /\ t < Tests
  /\ rv' = code /\ pc' = "err" /\ lost' = lost \cup {"tval"}
  /\ UNCHANGED <<alg, answers, js, stc, resp, faults>>

init_tc ==
  /\ pc = "init"
  /\ stc' = Filled(Len(tab.init.alloc), "all")
  /\ lost' = lost \cup stc.live
  /\ pc' = IF "MCT" \in kind THEN "mct" ELSE "crypto"
  /\ UNCHANGED <<alg, answers, js, resp, faults, rv>>

\* init_tc refuses its arguments before it touches the test case.
init_tc_early(code) ==
  /\ pc = "init"
  /\ rv' = code
  /\ GiveUp(stc, tab.answer.init)

\* init_tc fails after m allocations.  The handler gives up, or, where it
\* does not, skips the callback and answers with what is there.
init_tc_fails(m, code) ==
  LET c == IF code = "MALLOC_FAIL" THEN Freed(Filled(m, "part"), tab.init.frees)
           ELSE Filled(m, "part")
  IN  /\ pc = "init" /\ code # "SUCCESS"
      /\ code = "MALLOC_FAIL" => m < Len(tab.init.alloc)
      /\ IF tab.answer.stops
         THEN rv' = code /\ GiveUp(c, tab.answer.init)
         ELSE /\ stc' = c /\ rv' = code /\ pc' = "output"
              /\ UNCHANGED <<alg, answers, js, resp, lost, faults>>

\* init_tc stops after m allocations and reports success.
init_tc_incomplete(m) ==
  /\ pc = "init" /\ "SUCCESS" \in tab.init.fails
  /\ m < Len(tab.init.alloc)
  /\ stc' = Filled(m, "part")
  /\ pc' = "crypto"
  /\ UNCHANGED <<alg, answers, js, resp, lost, faults, rv>>

\* The callback of the module.
crypto_handler ==
  /\ pc = "crypto"
  /\ stc' = [stc EXCEPT !.by = "module"]
  /\ pc' = IF tab.answer.key.out = {} THEN "output" ELSE "key"
  /\ UNCHANGED <<alg, answers, js, resp, lost, faults, rv>>

\* Mutant: the result of the callback is not checked.
crypto_handler_fails_on ==
  /\ pc = "crypto"
  /\ stc' = [stc EXCEPT !.by = "failure"]
  /\ pc' = "output"
  /\ UNCHANGED <<alg, answers, js, resp, lost, faults, rv>>

\* A failure is an answer to an authenticated decryption.
crypto_handler_fails ==
  /\ pc = "crypto"
  /\ IF tab.answer.tolerates
     THEN /\ stc' = [stc EXCEPT !.by = IF "decrypt" \in kind THEN "module" ELSE "failure"]
          /\ pc' = "output"
          /\ UNCHANGED <<alg, answers, js, resp, lost, faults, rv>>
     ELSE /\ rv' = "CRYPTO_MODULE_FAIL"
          /\ GiveUp(stc, tab.answer.crypto)

\* The module's key goes to the answer of the group.
group_key ==
  /\ pc = "key"
  /\ pc' = "output"
  /\ UNCHANGED <<alg, answers, stc, js, resp, lost, faults, rv>>

group_key_fails(code) ==
  /\ pc = "key"
  /\ rv' = code
  /\ GiveUp(stc, tab.answer.output)

\* How the answer in r_tval came about, with the fields in it or without.
Quality(complete) ==
  CASE stc.by = "nobody"                        -> "unasked"
    [] stc.by = "failure"                       -> "failed"
    [] stc.by = "module" /\ stc.inputs # "all"  -> "guessed"
    [] stc.by = "module" /\ stc.inputs = "all" /\ complete = "no" -> "short"
    [] OTHER                                    -> "good"

\* Mutant: the test case is not released after its answer.
Answer_keeps(q) ==
  /\ js' = [js EXCEPT !.tval = "response"]
  /\ ans' = ans \cup {q}
  /\ t' = t + 1
  /\ pc' = "tests"
  /\ rv' = "SUCCESS"
  /\ UNCHANGED <<alg, g, n, kind, earlier, resp, stc, lost, faults>>

\* The test case is released and r_tval appended to the group.
Answer(q) ==
  /\ release_tc(stc, {})
  /\ js' = [js EXCEPT !.tval = "response"]
  /\ ans' = ans \cup {q}
  /\ t' = t + 1
  /\ pc' = "tests"
  /\ rv' = "SUCCESS"
  /\ UNCHANGED <<alg, g, n, kind, earlier, resp>>

output_tc ==
  /\ pc = "output"
  /\ Answer(Quality("yes"))

\* output_tc gives up on a field and reports success.
output_tc_short ==
  /\ pc = "output" /\ "SUCCESS" \in tab.output.fails
  /\ Answer(Quality("no"))

\* Mutant: rv keeps what the test before has left in it.
output_tc_fails_rv(code) ==
  /\ pc = "output" /\ code # "SUCCESS"
  /\ GiveUp(stc, tab.answer.output)
  /\ UNCHANGED rv

output_tc_fails(code) ==
  /\ pc = "output" /\ code # "SUCCESS"
  /\ rv' = code
  /\ GiveUp(stc, tab.answer.output)

\* One outer iteration of a Monte Carlo test, its result appended to r_tval.
mct_tc ==
  /\ pc = "mct" /\ n < Outer
  /\ stc' = [stc EXCEPT !.by = "module"]
  /\ n' = n + 1
  /\ UNCHANGED <<pc, alg, g, t, kind, ans, earlier, js, resp, lost, faults, rv>>

\* The module or a conversion fails in an outer iteration; the result under
\* way is freed, or (l) forgotten.
mct_tc_fails(code, l) ==
  /\ pc = "mct" /\ n < Outer
  /\ rv' = code
  /\ release_tc(stc, l)
  /\ js' = [js EXCEPT !.tval = "none"]
  /\ pc' = "err"
  /\ UNCHANGED <<alg, answers, resp>>

mct_done ==
  /\ pc = "mct" /\ n = Outer
  /\ Answer(Quality("yes"))

\* The last test of the group has been answered.
GroupEnd ==
  /\ pc = "tests" /\ t = Tests
  /\ js' = [js EXCEPT !.gval = "response"]
  /\ pc' = "groups"
  /\ UNCHANGED <<alg, answers, stc, resp, lost, faults, rv>>

\* The answer of the vector set is appended to the response.
Complete ==
  /\ pc = "groups" /\ g = Groups
  /\ js' = [js EXCEPT !.vs = "response"]
  /\ resp' = "complete"
  /\ pc' = "end"
  /\ UNCHANGED <<alg, answers, stc, lost, faults, rv>>

\* The answers are serialized for the log, and the handler has succeeded.
Success ==
  /\ pc = "end"
  /\ rv' = "SUCCESS" /\ pc' = "err"
  /\ UNCHANGED <<alg, answers, stc, js, resp, lost, faults>>

EndRefused(code) ==
  /\ pc = "end"
  /\ Goto_err(code)
  /\ UNCHANGED <<answers, js>>

\* What the handler still holds when it returns is lost.
Return(c, j, f) ==
  /\ lost' = lost \cup c.live \cup {x \in {"tval", "gval", "vs"} : j[x] = "handler"}
  /\ faults' = f
  /\ stc' = Zeroed
  /\ pc' = "return"

\* What is freed here though the response holds it, and will free it again.
acvp_release_json == {x \in {"gval", "vs"} : js[x] = "response"}

\* The label err: everything is released, unless the result is a success.
err ==
  /\ pc = "err"
  /\ LET r == "tc" \in tab.answer.err
         c == IF r THEN [stc EXCEPT !.live = @ \ tab.release] ELSE stc
     IN  IF rv = "SUCCESS"
         THEN Return(stc, js, faults) /\ UNCHANGED <<js, resp>>
         ELSE /\ Return(c, [js EXCEPT !.gval = "none", !.vs = "none"],
                        faults \cup Opt(r /\ stc.wild \cap tab.release # {}, {"wild"})
                               \cup Opt(acvp_release_json # {}, {"twice"}))
              /\ resp' = IF js.vs = "response" THEN "freed" ELSE resp
              /\ js' = [js EXCEPT !.gval = "none", !.vs = "none"]
  /\ UNCHANGED <<alg, answers, rv>>

Done == pc = "return" /\ UNCHANGED vars
Next ==
  \/ \E code \in tab.handler.fails : Refuse(code)
  \/ \E l \in {{}, {"array"}} : acvp_create_array_fails(l)
  \/ \E l \in {{}, {"array"}} : acvp_setup_json_rsp_group_fails(l)
  \/ Begin
  \/ \E code \in tab.handler.groups : NoGroups(code)
  \/ \E k \in Kinds(alg) : Group(k)
  \/ \E k \in Kinds(alg) : \E code \in Table(alg, k).groups.fails : GroupRefused(k, code)
  \/ Test
  \/ \E code \in tab.tests.fails : TestRefused(code)
  \/ \E code \in tab.tests.drops : TestDropped(code)
  \/ init_tc
  \/ \E code \in tab.init.early : init_tc_early(code)
  \/ \E m \in 0..Len(tab.init.alloc), code \in tab.init.fails : init_tc_fails(m, code)
  \/ \E m \in 0..Len(tab.init.alloc) : init_tc_incomplete(m)
  \/ crypto_handler
  \/ crypto_handler_fails
  \/ group_key
  \/ \E code \in tab.answer.key.fails : group_key_fails(code)
  \/ output_tc
  \/ output_tc_short
  \/ \E code \in tab.output.fails : output_tc_fails(code)
  \/ mct_tc
  \/ \E code \in tab.answer.mct.fails \cup {"CRYPTO_MODULE_FAIL"} : mct_tc_fails(code, {})
  \/ \E code \in tab.answer.mct.drops : mct_tc_fails(code, {"result"})
  \/ mct_done
  \/ GroupEnd
  \/ Complete
  \/ Success
  \/ \E code \in tab.handler.ends : EndRefused(code)
  \/ err
  \/ Done

Spec == Init /\ [][Next]_vars
----------------------------------------------------------------------------
(* Properties.  AcvpKatKnown states the same ones with the handlers that   *)
(* do not keep them named.                                                 *)

\* A handler that reports success has left a complete response to submit.
SuccessIsComplete == pc = "return" /\ rv = "SUCCESS" => resp = "complete"

\* A handler that reports a failure leaves no answers in the response, neither
\* complete ones nor ones that have been freed.
FailureLeavesNothing ==
  pc = "return" /\ rv # "SUCCESS" => resp \in {"previous", "preamble"}
=============================================================================
