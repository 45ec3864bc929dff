---------------------------- MODULE AcvpKatTables ----------------------------
(***************************************************************************)
(* The vocabulary of the known-answer-test (KAT) handler tables.           *)
(*                                                                         *)
(* libacvp has one handler per algorithm family, all written after one     *)
(* pattern: a preamble, a loop over the test groups of the vector set, a   *)
(* loop over the tests of a group, and for each test case init_tc, the     *)
(* crypto callback, output_tc and release_tc.  What differs from handler   *)
(* to handler is data, and the AcvpKat* modules hold that data, one        *)
(* definition per C function (or per part of a long one).  AcvpKat is the  *)
(* pattern itself, as a state machine over these tables.                   *)
(*                                                                         *)
(* a is the algorithm of the vector set (fixed for a call of a handler), k *)
(* the set of features of the current test group (or of a test of it) that *)
(* the handler branches on.                                                *)
(*                                                                         *)
(*   kat_handler  fails: codes returned before the response is created;    *)
(*                cleared: the test case is zeroed before the first group; *)
(*                groups: codes of refusals between the creation of the    *)
(*                response and the first group; ends: codes of a failure   *)
(*                after the answers have been attached to the response     *)
(*   groups       reads: locals (re)assigned for every group;              *)
(*                fails: codes with which a group is refused               *)
(*   tests        reads: locals (re)assigned for every test; fails: codes  *)
(*                with which a test is refused; drops: codes of refusals   *)
(*                that leave the answer object of the test unreleased      *)
(*   init_tc      early: codes returned before the test case is zeroed;    *)
(*                alloc: the buffers, in the order they are allocated;     *)
(*                uses: locals of the caller that are converted or copied; *)
(*                fails: later codes; frees: the buffers it frees itself   *)
(*                when an allocation fails, leaving the pointers in place  *)
(*   output_tc    out: members written to the answer; fails: codes         *)
(*   release_tc   the members that are freed                               *)
(*   answer       what a failure of init_tc, of the callback and of        *)
(*                output_tc releases at once ("tc": the test case, "tval": *)
(*                the answer object), what the err label releases besides  *)
(*                the vector set's answer, the key written to the group,   *)
(*                whether a failed init_tc stops the handler, whether the  *)
(*                callback may fail and the test be answered all the same, *)
(*                and the Monte Carlo loop of the handler                  *)
(*   mct          out: members of one result; fails: codes; drops: codes   *)
(*                of failures that leave the current result unreleased     *)
(***************************************************************************)
EXTENDS Integers, Sequences, FiniteSets, SequencesExt

\* The locals, buffers or codes S in the case c, none otherwise.
Opt(c, S) == IF c THEN S ELSE {}

\* The buffers s in the case c, none otherwise.
OptSeq(c, s) == IF c THEN s ELSE <<>>

\* What acvp_bin_to_hexstr returns when it does not convert.
acvp_bin_to_hexstr == {"CONVERT_DATA_ERR"}

\* What acvp_hexstr_to_bin returns when it does not convert.
acvp_hexstr_to_bin == {"INVALID_ARG", "DATA_TOO_LARGE", "UNSUPPORTED_OP"}

\* No key is written to the answer of the group.
NoKey == [out |-> {}, fails |-> {}]

\* The handler has no Monte Carlo test.
NoMct == [out |-> {}, fails |-> {}, drops |-> {}]

\* Every failure of a test case releases the test case and its answer at once.
FreedAtOnce == [init |-> {"tc", "tval"}, crypto |-> {"tc", "tval"},
                output |-> {"tc", "tval"}, err |-> {}, key |-> NoKey,
                stops |-> TRUE, tolerates |-> FALSE, mct |-> NoMct]

\* Every failure releases the answer at once, and the test case at the label
\* err, on failures of groups and tests too.
FreedAtErr == [init |-> {"tval"}, crypto |-> {"tval"}, output |-> {"tval"},
               err |-> {"tc"}, key |-> NoKey, stops |-> TRUE,
               tolerates |-> FALSE, mct |-> NoMct]
=============================================================================
