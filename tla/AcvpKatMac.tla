----------------------------- MODULE AcvpKatMac -----------------------------
(***************************************************************************)
(* KAT handlers of the message authentication codes: acvp_hmac.c,          *)
(* acvp_cmac.c and acvp_kmac.c.  See AcvpKatTables for the vocabulary.     *)
(***************************************************************************)
EXTENDS AcvpKatTables

----------------------------------------------------------------------------
(* acvp_hmac.c *)

acvp_hmac_init_tc(a, k) ==
  [early |-> {}, alloc |-> <<"msg", "mac", "key">>,
   uses |-> {"tc_id", "msglen", "msg", "maclen", "keylen", "key"},
   fails |-> {"MALLOC_FAIL"} \cup acvp_hexstr_to_bin, frees |-> {}]

acvp_hmac_output_tc(a, k) ==
  [out |-> {"mac"}, fails |-> {"MALLOC_FAIL"} \cup acvp_bin_to_hexstr]

acvp_hmac_release_tc == {"msg", "mac", "key"}

acvp_hmac_kat_handler ==
  [fails |-> {"NO_CTX", "MALFORMED_JSON", "UNSUPPORTED_OP"},
   cleared |-> FALSE, groups |-> {"MISSING_ARG"}, ends |-> {}]

acvp_hmac_groups(a, k) ==
  [reads |-> {"tgId", "msglen", "keylen", "maclen"},
   fails |-> {"MALFORMED_JSON", "MISSING_ARG"}]

acvp_hmac_tests(a, k) ==
  [reads |-> {"tc_id", "msg", "key"},
   fails |-> {"MISSING_ARG", "INVALID_ARG"}, drops |-> {}]

acvp_hmac_answer(a, k) == FreedAtOnce

acvp_hmac(a, k) ==
  [handler |-> acvp_hmac_kat_handler, groups |-> acvp_hmac_groups(a, k),
   tests |-> acvp_hmac_tests(a, k), init |-> acvp_hmac_init_tc(a, k),
   output |-> acvp_hmac_output_tc(a, k), release |-> acvp_hmac_release_tc,
   answer |-> acvp_hmac_answer(a, k)]

----------------------------------------------------------------------------
(* acvp_cmac.c; k holds "verify" when the group's direction is "ver".  The  *)
(* test case id and the message are not checked by the handler: init_tc     *)
(* refuses a missing one before it has zeroed the test case.                *)

acvp_cmac_init_tc(a, k) ==
  [early |-> {"INVALID_ARG"}, alloc |-> <<"msg", "mac", "key", "key2", "key3">>,
   uses |-> {"tc_id", "testtype", "msg", "msglen", "key1", "verify", "maclen"}
              \cup Opt(a = "CMAC_TDES", {"key2", "key3"})
              \cup Opt("verify" \in k, {"mac"}),
   fails |-> {"MALLOC_FAIL"} \cup acvp_hexstr_to_bin, frees |-> {}]

acvp_cmac_output_tc(a, k) ==
  [out |-> IF "verify" \in k THEN {"ver_disposition"} ELSE {"mac"},
   fails |-> {"MALLOC_FAIL"} \cup Opt("verify" \notin k, acvp_bin_to_hexstr)]

acvp_cmac_release_tc == {"msg", "mac", "key", "key2", "key3"}

acvp_cmac_kat_handler ==
  [fails |-> {"NO_CTX", "MALFORMED_JSON", "UNSUPPORTED_OP"},
   cleared |-> FALSE, groups |-> {}, ends |-> {}]

acvp_cmac_groups(a, k) ==
  [reads |-> {"tgId", "testtype", "verify", "msglen", "maclen"}
               \cup (IF a = "CMAC_AES" THEN {"keyLen"} ELSE {"keyingOption"}),
   fails |-> {"MALFORMED_JSON", "MISSING_ARG", "UNSUPPORTED_OP"}
               \cup Opt(a = "CMAC_TDES", {"INVALID_ARG"})]

acvp_cmac_tests(a, k) ==
  [reads |-> {"tc_id", "msg", "key1"}
               \cup Opt(a = "CMAC_TDES", {"key2", "key3"})
               \cup Opt("verify" \in k, {"mac"}),
   fails |-> {"MISSING_ARG", "INVALID_ARG"}, drops |-> {}]

acvp_cmac_answer(a, k) == FreedAtOnce

acvp_cmac(a, k) ==
  [handler |-> acvp_cmac_kat_handler, groups |-> acvp_cmac_groups(a, k),
   tests |-> acvp_cmac_tests(a, k), init |-> acvp_cmac_init_tc(a, k),
   output |-> acvp_cmac_output_tc(a, k), release |-> acvp_cmac_release_tc,
   answer |-> acvp_cmac_answer(a, k)]

----------------------------------------------------------------------------
(* acvp_kmac.c; k holds "MVT" for a verification group (else the test type  *)
(* is AFT) and "hex" when the customization string is given in hex.         *)

kmac_kinds == SUBSET {"MVT", "hex"}

acvp_kmac_init_tc(a, k) ==
  [early |-> {},
   alloc |-> <<"msg", "mac", "key">>
               \o (IF "hex" \in k THEN <<"custom_hex">> ELSE <<"custom">>),
   uses |-> {"tc_id", "type", "xof", "hex_customization", "msg", "msglen",
             "maclen", "key", "keylen", "custom"}
              \cup Opt("MVT" \in k, {"mac"}),
   fails |-> {"MALLOC_FAIL"} \cup acvp_hexstr_to_bin, frees |-> {}]

acvp_kmac_output_tc(a, k) ==
  IF "MVT" \in k
  THEN [out |-> {"disposition"}, fails |-> {}]
  ELSE [out |-> {"mac"}, fails |-> {"MALLOC_FAIL"} \cup acvp_bin_to_hexstr]

acvp_kmac_release_tc == {"msg", "mac", "key", "custom", "custom_hex"}

acvp_kmac_kat_handler ==
  [fails |-> {"NO_CTX", "MALFORMED_JSON", "UNSUPPORTED_OP"},
   cleared |-> FALSE, groups |-> {"TC_MISSING_DATA"}, ends |-> {}]

acvp_kmac_groups(a, k) ==
  [reads |-> {"tgId", "type", "xof", "hex_customization"},
   fails |-> {"TC_MISSING_DATA", "TC_INVALID_DATA"}]

\* A customization string that is too long is only logged.
acvp_kmac_tests(a, k) ==
  [reads |-> {"tc_id", "msglen", "msg", "keylen", "key", "maclen", "custom"}
               \cup Opt("MVT" \in k, {"mac"}),
   fails |-> {"TC_MISSING_DATA", "TC_INVALID_DATA"}, drops |-> {}]

acvp_kmac_answer(a, k) == FreedAtOnce

acvp_kmac(a, k) ==
  [handler |-> acvp_kmac_kat_handler, groups |-> acvp_kmac_groups(a, k),
   tests |-> acvp_kmac_tests(a, k), init |-> acvp_kmac_init_tc(a, k),
   output |-> acvp_kmac_output_tc(a, k), release |-> acvp_kmac_release_tc,
   answer |-> acvp_kmac_answer(a, k)]
=============================================================================
