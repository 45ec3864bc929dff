----------------------------- MODULE AcvpKatKeys -----------------------------
(***************************************************************************)
(* KAT handlers of key generation and of the RSA primitives:               *)
(* acvp_rsa_keygen.c, acvp_rsa_prim.c, acvp_safe_primes.c and acvp_dsa.c.  *)
(***************************************************************************)
EXTENDS AcvpKatTables

----------------------------------------------------------------------------
(* acvp_rsa_keygen.c.  k holds the way p and q are found: "B32" .. "B36"    *)
(* (the revision 1 names; each stands for its FIPS 186-5 name too), "server"*)
(* for infoGeneratedByServer, "fixed" for a fixed public exponent, "KAT"    *)
(* for the known-answer test type.                                          *)

rsa_keygen_kinds ==
  {{b} \cup s : b \in {"B32", "B33", "B34", "B35", "B36"}, s \in SUBSET {"server", "fixed"}}
    \cup {{"B33", "KAT"} \cup s : s \in SUBSET {"server", "fixed"}}

rsa_from_seed(k) == k \cap {"B32", "B34", "B35"} # {}
rsa_probable(k) == k \cap {"B33", "B35", "B36"} # {}
rsa_with_aux(k) == k \cap {"B34", "B35", "B36"} # {}
rsa_xs == <<"xp", "xp1", "xp2", "xq", "xq1", "xq2">>

acvp_rsa_keygen_output_tc(a, k) ==
  IF {"B33", "KAT"} \subseteq k
  THEN [out |-> {"test_disposition"}, fails |-> {}]
  ELSE [out |-> {"p", "q", "n", "d", "e"}
                  \cup Opt("B36" \in k, ToSet(rsa_xs))
                  \cup Opt("server" \in k /\ rsa_probable(k), {"prime_result"})
                  \cup Opt("server" \notin k /\ "B33" \notin k, {"seed"})
                  \cup Opt("B33" \notin k, {"bitlen"}),
        fails |-> {"MALLOC_FAIL"} \cup acvp_bin_to_hexstr]

acvp_rsa_keygen_release_tc == {"e", "seed", "p", "q", "n", "d"} \cup ToSet(rsa_xs)

acvp_rsa_keygen_init_tc(a, k) ==
  [early |-> {},
   alloc |-> <<"e", "p", "q", "n", "d">>
               \o OptSeq("B36" \in k \/ "server" \notin k, rsa_xs) \o <<"seed">>,
   uses |-> {"tc_id", "test_type", "info_gen_by_server", "hash_alg", "key_format",
             "pub_exp_mode", "mod", "prime_test", "rand_pq", "e_str", "p_str", "q_str"}
              \cup Opt("B36" \in k, ToSet(rsa_xs))
              \cup Opt("server" \in k, {"seed", "bitlen"}),
   fails |-> {"MALLOC_FAIL"} \cup acvp_hexstr_to_bin, frees |-> {}]

acvp_rsa_keygen_kat_handler ==
  [fails |-> {"NO_CTX", "MALFORMED_JSON", "INVALID_ARG", "UNSUPPORTED_OP"},
   cleared |-> TRUE, groups |-> {}, ends |-> {}]

acvp_rsa_keygen_groups(a, k) ==
  [reads |-> {"tgId", "test_type", "info_gen_by_server", "pub_exp_mode",
              "key_format", "rand_pq", "mod"}
               \cup Opt("fixed" \in k, {"e_str"})
               \cup Opt(rsa_probable(k), {"prime_test"})
               \cup Opt(rsa_from_seed(k), {"hash_alg"}),
   fails |-> {"MALFORMED_JSON", "TC_INVALID_DATA", "MISSING_ARG", "INVALID_ARG"}]

\* The fields of a known-answer test of a probable prime.
acvp_rsa_keygen_kat_reads(k) ==
  Opt({"B33", "KAT"} \subseteq k, {"e_str", "p_str", "q_str"})

acvp_rsa_keygen_tests(a, k) ==
  [reads |-> {"tc_id"}
               \cup Opt("server" \in k /\ "fixed" \notin k, {"e_str"})
               \cup Opt("server" \in k /\ rsa_with_aux(k), {"bitlen"})
               \cup Opt("server" \in k /\ rsa_from_seed(k), {"seed"})
               \cup Opt("server" \in k /\ "B36" \in k, ToSet(rsa_xs))
               \cup acvp_rsa_keygen_kat_reads(k),
   fails |-> {"MISSING_ARG", "INVALID_ARG"}, drops |-> {}]

\* A failed init_tc only skips the callback: the answer is written all the same.
acvp_rsa_keygen_answer(a, k) == [FreedAtErr EXCEPT !.init = {}, !.stops = FALSE]

acvp_rsa_keygen(a, k) ==
  [handler |-> acvp_rsa_keygen_kat_handler, groups |-> acvp_rsa_keygen_groups(a, k),
   tests |-> acvp_rsa_keygen_tests(a, k), init |-> acvp_rsa_keygen_init_tc(a, k),
   output |-> acvp_rsa_keygen_output_tc(a, k), release |-> acvp_rsa_keygen_release_tc,
   answer |-> acvp_rsa_keygen_answer(a, k)]

----------------------------------------------------------------------------
(* acvp_safe_primes.c.  init_tc does not zero the test case: it relies on   *)
(* the handler, which zeroes it once, and on release_tc.                    *)

acvp_safe_primes_release_tc == {"x", "y"}

acvp_safe_primes_output_tc(a, k) ==
  IF a = "SAFE_PRIMES_KEYVER"
  THEN [out |-> {"result"}, fails |-> {}]
  ELSE [out |-> {"x", "y"}, fails |-> {"MALLOC_FAIL"} \cup acvp_bin_to_hexstr]

acvp_safe_primes_init_tc(a, k) ==
  [early |-> {},
   alloc |-> IF a = "SAFE_PRIMES_KEYVER" THEN <<"y", "x">> ELSE <<"x", "y">>,
   uses |-> {"tg_id", "tc_id", "dgm", "test_type"}
              \cup Opt(a = "SAFE_PRIMES_KEYVER", {"x", "y"}),
   fails |-> {"MALLOC_FAIL"} \cup Opt(a = "SAFE_PRIMES_KEYVER", acvp_hexstr_to_bin),
   frees |-> {}]

acvp_safe_primes_kat_handler ==
  [fails |-> {"NO_CTX", "MALFORMED_JSON", "INVALID_ARG", "UNSUPPORTED_OP"},
   cleared |-> TRUE, groups |-> {}, ends |-> {}]

acvp_safe_primes_groups(a, k) ==
  [reads |-> {"tg_id", "dgm"}, fails |-> {"MISSING_ARG", "INVALID_ARG"}]

acvp_safe_primes_keygen_tests ==
  [reads |-> {"tc_id", "test_type"}, fails |-> {"MISSING_ARG", "INVALID_ARG"},
   drops |-> {}]

acvp_safe_primes_keyver_tests ==
  [reads |-> {"tc_id", "test_type", "x", "y"},
   fails |-> {"MISSING_ARG", "INVALID_ARG"}, drops |-> {}]

\* A test case that was released at once is released again at err, empty.
acvp_safe_primes_answer(a, k) == [FreedAtOnce EXCEPT !.err = {"tc"}]

acvp_safe_primes(a, k) ==
  [handler |-> acvp_safe_primes_kat_handler, groups |-> acvp_safe_primes_groups(a, k),
   tests |-> IF a = "SAFE_PRIMES_KEYVER" THEN acvp_safe_primes_keyver_tests
             ELSE acvp_safe_primes_keygen_tests,
   init |-> acvp_safe_primes_init_tc(a, k), output |-> acvp_safe_primes_output_tc(a, k),
   release |-> acvp_safe_primes_release_tc, answer |-> acvp_safe_primes_answer(a, k)]

----------------------------------------------------------------------------
(* acvp_rsa_prim.c.  a tells the revisions apart; k holds "crt" for keys in *)
(* CRT form.  The CRT members are allocated only when their strings are set *)
(* (by this group or by an earlier one of the vector set).                  *)

rsa_crt == <<"dmp1", "dmq1", "iqmp">>

acvp_rsa_decprim_output_tc_rev_1(k) ==
  [out |-> {"e", "n", "disposition", "pt"}, fails |-> {"MALLOC_FAIL"} \cup acvp_bin_to_hexstr]

acvp_rsa_decprim_output_tc_rev_56br2(k) ==
  [out |-> {"disposition", "pt"}, fails |-> {"MALLOC_FAIL"} \cup acvp_bin_to_hexstr]

acvp_rsa_decprim_release_tc ==
  {"e", "n", "pt", "cipher", "plaintext", "d", "p", "q"} \cup ToSet(rsa_crt)

acvp_rsa_decprim_init_tc_rev_1(k) ==
  [early |-> {}, alloc |-> <<"cipher", "plaintext", "e", "n", "pt">>,
   uses |-> {"mod", "deferred", "pass", "fail", "cipher"},
   fails |-> {"MALLOC_FAIL"} \cup acvp_hexstr_to_bin, frees |-> {}]

\* The handler passes the key format where the public exponent mode belongs.
acvp_rsa_decprim_init_tc_rev_56br2(k) ==
  [early |-> {}, alloc |-> <<"pt", "cipher", "n", "e", "d", "p", "q">> \o rsa_crt,
   uses |-> {"keyformat", "mod", "d_str", "e_str", "n_str", "p_str", "q_str", "cipher",
             "dmp1_str", "dmq1_str", "iqmp_str"},
   fails |-> {"MALLOC_FAIL"} \cup acvp_hexstr_to_bin, frees |-> {}]

acvp_rsa_decprim_kat_handler ==
  [fails |-> {"NO_CTX", "MALFORMED_JSON", "INVALID_ARG", "MISSING_ARG", "UNSUPPORTED_OP"},
   cleared |-> TRUE, groups |-> {}, ends |-> {}]

acvp_rsa_decprim_groups(a, k) ==
  IF a = "RSA_DECPRIM_1_0"
  THEN [reads |-> {"tgId", "mod", "fail", "pass"}, fails |-> {"MALFORMED_JSON", "INVALID_ARG"}]
  ELSE [reads |-> {"tgId", "mod", "keyformat", "pub_exp_mode"},
        fails |-> {"MALFORMED_JSON", "INVALID_ARG", "MISSING_ARG"}]

\* Each ciphertext of a test is a test case of its own; the counters of
\* passed and failed cases run on from one to the next.
acvp_rsa_decprim_tests_rev_1(k) ==
  [reads |-> {"deferred", "cipher"}, fails |-> {"MISSING_ARG", "INVALID_ARG"}, drops |-> {}]

acvp_rsa_decprim_tests_rev_56br2(k) ==
  [reads |-> {"tc_id", "e_str", "n_str", "p_str", "q_str", "d_str", "cipher"}
               \cup Opt("crt" \in k, {"dmp1_str", "dmq1_str", "iqmp_str"}),
   fails |-> {"MISSING_ARG", "INVALID_ARG"}, drops |-> {"MISSING_ARG"}]

acvp_rsa_decprim_answer(a, k) == [FreedAtErr EXCEPT !.init = {}, !.stops = FALSE]

acvp_rsa_decprim(a, k) ==
  LET old == a = "RSA_DECPRIM_1_0"
  IN  [handler |-> acvp_rsa_decprim_kat_handler, groups |-> acvp_rsa_decprim_groups(a, k),
       tests |-> IF old THEN acvp_rsa_decprim_tests_rev_1(k)
                 ELSE acvp_rsa_decprim_tests_rev_56br2(k),
       init |-> IF old THEN acvp_rsa_decprim_init_tc_rev_1(k)
                ELSE acvp_rsa_decprim_init_tc_rev_56br2(k),
       output |-> IF old THEN acvp_rsa_decprim_output_tc_rev_1(k)
                  ELSE acvp_rsa_decprim_output_tc_rev_56br2(k),
       release |-> acvp_rsa_decprim_release_tc, answer |-> acvp_rsa_decprim_answer(a, k)]

acvp_rsa_sigprim_output_tc(a, k) ==
  [out |-> {"signature", "disposition"}, fails |-> {"MALLOC_FAIL"} \cup acvp_bin_to_hexstr]

acvp_rsa_sigprim_release_tc ==
  {"e", "d", "n", "p", "q", "pt", "msg", "signature"} \cup ToSet(rsa_crt)

acvp_rsa_sigprim_init_tc(a, k) ==
  [early |-> {},
   alloc |-> <<"e", "d", "n", "p", "q">> \o rsa_crt \o <<"msg", "signature">>,
   uses |-> {"mod", "keyformat", "d_str", "e_str", "n_str", "p_str", "q_str",
             "dmp1_str", "dmq1_str", "iqmp_str", "msg"},
   fails |-> {"MALLOC_FAIL"} \cup acvp_hexstr_to_bin, frees |-> {}]

acvp_rsa_sigprim_kat_handler ==
  [fails |-> {"NO_CTX", "MALFORMED_JSON", "INVALID_ARG", "MISSING_ARG", "UNSUPPORTED_OP"},
   cleared |-> TRUE, groups |-> {}, ends |-> {}]

acvp_rsa_sigprim_groups(a, k) ==
  [reads |-> {"tgId", "mod", "keyformat"},
   fails |-> {"MALFORMED_JSON", "INVALID_ARG", "MISSING_ARG"}]

acvp_rsa_sigprim_tests(a, k) ==
  [reads |-> {"tc_id", "e_str", "n_str", "msg"}
               \cup (IF "crt" \in k
                     THEN {"p_str", "q_str", "dmp1_str", "dmq1_str", "iqmp_str"}
                     ELSE {"d_str"}),
   fails |-> {"MALFORMED_JSON", "MISSING_ARG", "INVALID_ARG"}, drops |-> {}]

acvp_rsa_sigprim_answer(a, k) == [FreedAtErr EXCEPT !.init = {}, !.stops = FALSE]

acvp_rsa_sigprim(a, k) ==
  [handler |-> acvp_rsa_sigprim_kat_handler, groups |-> acvp_rsa_sigprim_groups(a, k),
   tests |-> acvp_rsa_sigprim_tests(a, k), init |-> acvp_rsa_sigprim_init_tc(a, k),
   output |-> acvp_rsa_sigprim_output_tc(a, k), release |-> acvp_rsa_sigprim_release_tc,
   answer |-> acvp_rsa_sigprim_answer(a, k)]

----------------------------------------------------------------------------
(* acvp_dsa.c; k holds the generation mode of a PQG group: "canonical",     *)
(* "unverifiable", "probable" or "provable".  No init_tc zeroes the test    *)
(* case: the handler does, and so does every release.  The answer of a key  *)
(* or signature test is created only after the callback.                    *)

dsa_pqg_kinds == {{"canonical"}, {"unverifiable"}, {"probable"}, {"provable"}}

dsa_gMode == {"canonical", "unverifiable"}

acvp_dsa_keygen_init_tc(k) ==
  [early |-> {}, alloc |-> <<"p", "q", "g", "x", "y">>,
   uses |-> {"tg_id", "tc_id", "l", "n"},
   fails |-> {"INVALID_ARG", "MALLOC_FAIL"}, frees |-> {}]

acvp_dsa_siggen_init_tc(k) ==
  [early |-> {}, alloc |-> <<"p", "q", "g", "r", "s", "y", "msg">>,
   uses |-> {"tg_id", "tc_id", "l", "n", "sha", "msg"},
   fails |-> {"INVALID_ARG", "MALLOC_FAIL"} \cup acvp_hexstr_to_bin, frees |-> {}]

acvp_dsa_sigver_init_tc(k) ==
  [early |-> {}, alloc |-> <<"msg", "p", "q", "g", "r", "s", "y">>,
   uses |-> {"l", "n", "sha", "p", "q", "g", "r", "s", "y", "msg"},
   fails |-> {"INVALID_ARG", "MALLOC_FAIL"} \cup acvp_hexstr_to_bin, frees |-> {}]

acvp_dsa_pqgver_init_tc(k) ==
  [early |-> {}, alloc |-> <<"seed", "p", "q", "g", "r", "s", "y">>,
   uses |-> {"l", "n", "c", "gpq", "sha", "idx", "h", "seed", "p", "q", "g"},
   fails |-> {"INVALID_ARG", "MALLOC_FAIL"} \cup acvp_hexstr_to_bin, frees |-> {}]

acvp_dsa_pqggen_init_tc(k) ==
  [early |-> {}, alloc |-> <<"p", "q", "g", "seed">>,
   uses |-> {"l", "n", "sha", "gpq"} \cup Opt("canonical" \in k, {"idx", "seed"})
              \cup Opt(k \cap dsa_gMode # {}, {"p", "q"}),
   fails |-> {"INVALID_ARG", "MALLOC_FAIL"}
              \cup Opt(k \cap dsa_gMode # {}, acvp_hexstr_to_bin),
   frees |-> {}]

acvp_dsa_output_tc(a, k) ==
  [out |-> CASE a = "DSA_PQGGEN" -> IF k \cap dsa_gMode # {} THEN {"g"}
                                    ELSE {"p", "q", "seed", "counter"}
             [] a = "DSA_SIGGEN" -> {"r", "s"}
             [] a = "DSA_KEYGEN" -> {"y", "x"}
             [] OTHER -> {"result"},
   fails |-> Opt(a \notin {"DSA_PQGVER", "DSA_SIGVER"},
                 {"MALLOC_FAIL"} \cup acvp_bin_to_hexstr)]

acvp_dsa_release_tc == {"p", "q", "g", "x", "y", "r", "s", "seed", "msg"}

acvp_dsa_keygen_kat_handler ==
  [fails |-> {"MALFORMED_JSON", "UNSUPPORTED_OP"}, cleared |-> TRUE,
   groups |-> {"MISSING_ARG"}, ends |-> {}]

acvp_dsa_siggen_kat_handler == acvp_dsa_keygen_kat_handler

acvp_dsa_pqggen_kat_handler == acvp_dsa_keygen_kat_handler

\* The response is serialized once more after it is complete.
acvp_dsa_pqgver_kat_handler ==
  [acvp_dsa_keygen_kat_handler EXCEPT !.ends = {"JSON_ERR"}]

acvp_dsa_sigver_kat_handler == acvp_dsa_pqgver_kat_handler

acvp_dsa_kat_handler(a) ==
  LET h == CASE a = "DSA_KEYGEN" -> acvp_dsa_keygen_kat_handler
             [] a = "DSA_SIGGEN" -> acvp_dsa_siggen_kat_handler
             [] a = "DSA_PQGGEN" -> acvp_dsa_pqggen_kat_handler
             [] a = "DSA_PQGVER" -> acvp_dsa_pqgver_kat_handler
             [] a = "DSA_SIGVER" -> acvp_dsa_sigver_kat_handler
  IN  [h EXCEPT !.fails = @ \cup {"NO_CTX", "MISSING_ARG", "INVALID_ARG"}]

\* A failure after the callback leaves the answer of the test unreleased.
acvp_dsa_keygen_handler(k) ==
  [groups |-> [reads |-> {"tg_id", "l", "n"}, fails |-> {"MALFORMED_JSON", "MISSING_ARG"}],
   tests |-> [reads |-> {"tc_id"}, fails |-> {"MISSING_ARG"}, drops |-> {}],
   answer |-> [FreedAtErr EXCEPT !.output = {}, !.key =
                 [out |-> {"p", "q", "g"},
                  fails |-> {"MALLOC_FAIL"} \cup acvp_bin_to_hexstr]]]

acvp_dsa_siggen_handler(k) ==
  [groups |-> [reads |-> {"tg_id", "l", "n", "sha"},
               fails |-> {"MALFORMED_JSON", "MISSING_ARG", "INVALID_ARG"}],
   tests |-> [reads |-> {"tc_id", "msg"}, fails |-> {"MISSING_ARG"}, drops |-> {}],
   answer |-> [FreedAtErr EXCEPT !.output = {}, !.key =
                 [out |-> {"p", "q", "g", "y"},
                  fails |-> {"MALLOC_FAIL"} \cup acvp_bin_to_hexstr]]]

acvp_dsa_sigver_handler(k) ==
  [groups |-> [reads |-> {"l", "n", "sha", "p", "q", "g"},
               fails |-> {"MALFORMED_JSON", "MISSING_ARG", "INVALID_ARG"}],
   tests |-> [reads |-> {"tc_id", "msg", "r", "s", "y"},
              fails |-> {"MISSING_ARG"}, drops |-> {}],
   answer |-> [FreedAtErr EXCEPT !.output = {"tc"}]]

acvp_dsa_pqgver_handler(k) ==
  [groups |-> [reads |-> {"l", "n", "sha", "gmode", "pqmode"},
               fails |-> {"MALFORMED_JSON", "MISSING_ARG", "INVALID_ARG"}],
   tests |-> [reads |-> {"tc_id", "seed", "c", "idx", "p", "q", "g", "h", "gpq"},
              fails |-> {"MISSING_ARG", "UNSUPPORTED_OP"}, drops |-> {}],
   answer |-> [FreedAtErr EXCEPT !.output = {"tc"}]]

\* The seed of a probable or provable test is freed before the release too.
acvp_dsa_pqggen_answer(k) == [FreedAtOnce EXCEPT !.err = {"tc"}]

acvp_dsa_pqggen_handler(k) ==
  [groups |-> [reads |-> {"l", "n", "sha", "gen_g", "gen_pq", "idx", "p", "q", "seed"},
               fails |-> {"MALFORMED_JSON", "MISSING_ARG", "INVALID_ARG"}],
   tests |-> [reads |-> {"tc_id", "gpq"} \cup Opt("canonical" \in k, {"seed", "idx"})
                          \cup Opt(k \cap dsa_gMode # {}, {"p", "q"}),
              fails |-> {"MISSING_ARG", "INVALID_ARG"}, drops |-> {}],
   answer |-> acvp_dsa_pqggen_answer(k)]

acvp_dsa(a, k) ==
  LET h == CASE a = "DSA_KEYGEN" -> acvp_dsa_keygen_handler(k)
             [] a = "DSA_SIGGEN" -> acvp_dsa_siggen_handler(k)
             [] a = "DSA_SIGVER" -> acvp_dsa_sigver_handler(k)
             [] a = "DSA_PQGVER" -> acvp_dsa_pqgver_handler(k)
             [] a = "DSA_PQGGEN" -> acvp_dsa_pqggen_handler(k)
  IN  [handler |-> acvp_dsa_kat_handler(a), groups |-> h.groups,
       tests |-> h.tests, answer |-> h.answer,
       init |-> CASE a = "DSA_KEYGEN" -> acvp_dsa_keygen_init_tc(k)
                  [] a = "DSA_SIGGEN" -> acvp_dsa_siggen_init_tc(k)
                  [] a = "DSA_SIGVER" -> acvp_dsa_sigver_init_tc(k)
                  [] a = "DSA_PQGVER" -> acvp_dsa_pqgver_init_tc(k)
                  [] a = "DSA_PQGGEN" -> acvp_dsa_pqggen_init_tc(k),
       output |-> acvp_dsa_output_tc(a, k), release |-> acvp_dsa_release_tc]
=============================================================================
