---------------------------- MODULE AcvpKatCipher ----------------------------
(***************************************************************************)
(* KAT handlers of the block ciphers, hashes and random bit generators:    *)
(* acvp_aes.c, acvp_des.c, acvp_hash.c and acvp_drbg.c.  See AcvpKatTables *)
(* for the vocabulary.                                                     *)
(***************************************************************************)
EXTENDS AcvpKatTables

----------------------------------------------------------------------------
(* acvp_aes.c; k holds "decrypt" (else the direction is encrypt), "MCT" or  *)
(* "CTR" (else the test type is AFT), "iv_int" when the module generates    *)
(* the IV, "salt_ext" when the server gives the salt, and "number" when the *)
(* tweak is a sequence number.  AES_CTR_INT is AES_CTR registered with RFC  *)
(* 3686 conformance and internal IVs.                                       *)

aes_mct_algs == {"AES_ECB", "AES_CBC", "AES_OFB", "AES_CFB1", "AES_CFB8", "AES_CFB128"}

aes_iv_algs == (aes_mct_algs \ {"AES_ECB"})
                 \cup {"AES_CBC_CS1", "AES_CBC_CS2", "AES_CBC_CS3", "AES_CCM"}

\* The algorithms whose failed callback is an answer.
aes_auth_algs == {"AES_KW", "AES_KWP", "AES_GCM", "AES_GCM_SIV", "AES_CCM", "AES_GMAC"}

\* The features of a group, as the read_* functions parse them.
aes_kinds(a) ==
  {{}, {"decrypt"}}
    \cup Opt(a \in aes_mct_algs, {{"MCT"}, {"MCT", "decrypt"}})
    \cup Opt(a = "AES_CTR", {{"CTR"}, {"CTR", "decrypt"}})
    \cup Opt(a \in {"AES_GCM", "AES_GMAC"}, {{"iv_int"}, {"iv_int", "decrypt"}})
    \cup Opt(a = "AES_XPN", SUBSET {"salt_ext", "iv_int", "decrypt"})
    \cup Opt(a = "AES_XTS", {{"number"}, {"number", "decrypt"}})

\* One inner iteration of a Monte Carlo test chains the output into the input.
acvp_aes_mct_iterate_tc == {"TC_INVALID_DATA"}

acvp_aes_output_mct_tc(a, k) ==
  [out |-> {"key"} \cup Opt(a # "AES_ECB", {"iv"})
             \cup (IF "decrypt" \in k THEN {"ct"} ELSE {"pt"}),
   fails |-> {"MALLOC_FAIL"} \cup acvp_bin_to_hexstr]

\* The result of an outer iteration; the key of the next one is chained from it.
aes_mct_result(k) == IF "decrypt" \in k THEN {"pt"} ELSE {"ct"}

\* Only a failed conversion of the plaintext frees the current result.
acvp_aes_mct_tc(a, k) ==
  LET o == acvp_aes_output_mct_tc(a, k)
  IN  [out |-> o.out \cup aes_mct_result(k), fails |-> o.fails,
       drops |-> acvp_aes_mct_iterate_tc
                   \cup Opt("decrypt" \notin k, acvp_bin_to_hexstr)]

acvp_aes_kat_handler ==
  [fails |-> {"NO_CTX", "JSON_ERR", "TC_MISSING_DATA", "TC_INVALID_DATA"},
   cleared |-> FALSE, groups |-> {}, ends |-> {}]

acvp_aes_groups(a, k) ==
  [reads |-> {"tgId", "test_type", "dir", "keylen", "ivlen", "paylen", "datalen",
              "aadlen", "taglen", "saltLen", "dataUnitLen", "ovrflw_ctr",
              "incr_ctr", "kwcipher", "iv_gen", "iv_gen_mode", "salt_src"}
               \cup Opt(a = "AES_XTS", {"tw_mode"}),
   fails |-> {"TC_MISSING_DATA", "TC_INVALID_DATA"}]

\* The group makes the handler ask every test for an IV: readIv is set here
\* and is never reset.
aes_sets_readIv(a, k) ==
  \/ a \in aes_iv_algs
  \/ a = "AES_CTR"
  \/ /\ a \in {"AES_GCM", "AES_GMAC", "AES_XPN"}
     /\ "iv_int" \notin k \/ "decrypt" \in k

acvp_aes_tests(a, k) ==
  [reads |-> {"tc_id", "pt", "ct", "iv", "key", "tag", "aad", "salt"}
               \cup Opt(aes_sets_readIv(a, k), {"readIv"})
               \cup Opt(a = "AES_XTS", {"tweak_mode"})
               \cup Opt(a = "AES_XTS" /\ "number" \in k, {"seq_num"}),
   fails |-> {"TC_MISSING_DATA", "TC_INVALID_DATA"}, drops |-> {}]

acvp_aes_init_tc(a, k) ==
  [early |-> {}, alloc |-> <<"key", "pt", "ct", "tag", "iv", "aad", "salt">>,
   uses |-> (acvp_aes_groups(a, k).reads \ {"tgId", "tw_mode"})
              \cup {"tc_id", "pt", "ct", "iv", "key", "tag", "aad", "salt",
                    "readIv", "tweak_mode", "seq_num"},
   fails |-> {"MALLOC_FAIL"} \cup acvp_hexstr_to_bin, frees |-> {}]

acvp_aes_output_tc(a, k) ==
  [out |-> Opt("iv_int" \in k \/ a = "AES_CTR_INT", {"iv"})
             \cup Opt(a = "AES_XPN" /\ "salt_ext" \notin k, {"salt"})
             \cup (IF "decrypt" \in k
                   THEN Opt(a \in aes_auth_algs \cup {"AES_XPN"}, {"testPassed"})
                          \cup Opt(a # "AES_GMAC", {"pt"})
                   ELSE Opt(a # "AES_GMAC", {"ct"})
                          \cup Opt(a \in {"AES_GCM", "AES_GMAC", "AES_XPN"}, {"tag"})),
   fails |-> {"MALLOC_FAIL"} \cup acvp_bin_to_hexstr]

acvp_aes_release_tc == {"key", "pt", "ct", "tag", "iv", "aad", "salt"}

\* A failed init_tc leaves the answer unreleased.
acvp_aes_answer(a, k) ==
  [FreedAtOnce EXCEPT !.init = {"tc"}, !.tolerates = a \in aes_auth_algs,
                      !.mct = acvp_aes_mct_tc(a, k)]

acvp_aes(a, k) ==
  [handler |-> acvp_aes_kat_handler, groups |-> acvp_aes_groups(a, k),
   tests |-> acvp_aes_tests(a, k), init |-> acvp_aes_init_tc(a, k),
   output |-> acvp_aes_output_tc(a, k), release |-> acvp_aes_release_tc,
   answer |-> acvp_aes_answer(a, k)]

----------------------------------------------------------------------------
(* acvp_des.c; k as for AES, and "keyingOption" when the group names one.   *)

des_kinds(a) ==
  {{}, {"decrypt"}, {"keyingOption"}}
    \cup (IF a = "TDES_CTR" THEN {{"CTR"}}
          ELSE {{"MCT"}, {"MCT", "decrypt"}, {"MCT", "keyingOption"}})

acvp_des_mct_iterate_tc == {"INVALID_ARG"}

acvp_des_output_mct_tc(a, k) ==
  [out |-> {"key1", "key2", "key3"} \cup Opt(a # "TDES_ECB", {"iv"})
             \cup (IF "decrypt" \in k THEN {"ct"} ELSE {"pt"}),
   fails |-> {"MALLOC_FAIL"} \cup acvp_bin_to_hexstr]

\* The handler turns every failure of the loop into CRYPTO_MODULE_FAIL.
acvp_des_mct_tc(a, k) ==
  [out |-> acvp_des_output_mct_tc(a, k).out
             \cup (IF "decrypt" \in k THEN {"pt"} ELSE {"ct"}),
   fails |-> {"CRYPTO_MODULE_FAIL"}, drops |-> {}]

acvp_des_kat_handler ==
  [fails |-> {"NO_CTX", "MALFORMED_JSON", "UNSUPPORTED_OP"},
   cleared |-> FALSE, groups |-> {}, ends |-> {}]

acvp_des_groups(a, k) ==
  [reads |-> {"tgId", "dir", "test_type", "keylen"}
               \cup Opt("CTR" \in k, {"incr_ctr", "ovrflw_ctr"})
               \cup Opt("keyingOption" \in k, {"keyingOption"}),
   fails |-> {"MALFORMED_JSON", "MISSING_ARG", "INVALID_ARG", "TC_INVALID_DATA"}]

acvp_des_tests(a, k) ==
  [reads |-> {"tc_id", "key", "pt", "ct", "iv", "ptlen", "ctlen", "ivlen"},
   fails |-> {"MISSING_ARG", "INVALID_ARG", "MALLOC_FAIL"}, drops |-> {}]

acvp_des_init_tc(a, k) ==
  [early |-> {}, alloc |-> <<"key", "pt", "ct", "iv", "iv_ret", "iv_ret_after">>,
   uses |-> {"tc_id", "test_type", "key", "pt", "ct", "iv", "keylen", "ivlen",
             "ptlen", "ctlen", "dir", "incr_ctr", "ovrflw_ctr", "keyingOption"},
   fails |-> {"MALLOC_FAIL"} \cup acvp_hexstr_to_bin, frees |-> {}]

acvp_des_output_tc(a, k) ==
  [out |-> IF "decrypt" \in k THEN {"pt"} ELSE {"ct"},
   fails |-> {"MALLOC_FAIL"} \cup acvp_bin_to_hexstr]

acvp_des_release_tc == {"key", "pt", "ct", "iv", "iv_ret", "iv_ret_after"}

\* A failed init_tc or output_tc leaves the answer unreleased.
acvp_des_answer(a, k) ==
  [FreedAtOnce EXCEPT !.init = {"tc"}, !.output = {"tc"},
                      !.mct = acvp_des_mct_tc(a, k)]

acvp_des(a, k) ==
  [handler |-> acvp_des_kat_handler, groups |-> acvp_des_groups(a, k),
   tests |-> acvp_des_tests(a, k), init |-> acvp_des_init_tc(a, k),
   output |-> acvp_des_output_tc(a, k), release |-> acvp_des_release_tc,
   answer |-> acvp_des_answer(a, k)]

----------------------------------------------------------------------------
(* acvp_hash.c; k holds the test type: "AFT", "MCT", "VOT" or "LDT".        *)

hash_shake == {"HASH_SHAKE_128", "HASH_SHAKE_256"}

hash_sha3 == {"HASH_SHA3_224", "HASH_SHA3_256", "HASH_SHA3_384", "HASH_SHA3_512"}

hash_kinds(a) == {{"AFT"}, {"MCT"}} \cup (IF a \in hash_shake THEN {{"VOT"}} ELSE {{"LDT"}})

acvp_hash_output_mct_tc(a) ==
  [out |-> {"md"} \cup Opt(a \in hash_shake, {"outLen"}),
   fails |-> {"MALLOC_FAIL"} \cup acvp_bin_to_hexstr, drops |-> {}]

acvp_hash_mct_tc(a) == acvp_hash_output_mct_tc(a)

acvp_hash_sha3_mct(a) == acvp_hash_output_mct_tc(a)

acvp_hash_shake_mct(a) == acvp_hash_output_mct_tc(a)

acvp_hash_kat_handler ==
  [fails |-> {"NO_CTX", "MALFORMED_JSON", "UNSUPPORTED_OP"},
   cleared |-> FALSE, groups |-> {}, ends |-> {}]

acvp_hash_groups(a, k) ==
  [reads |-> {"tgId", "test_type", "min_xof_len", "max_xof_len", "exp_len"},
   fails |-> {"MALFORMED_JSON", "MISSING_ARG", "INVALID_ARG"}]

acvp_hash_tests(a, k) ==
  [reads |-> {"tc_id", "msg", "msglen", "xof_len"}
               \cup Opt("LDT" \in k, {"exp_len", "exp_method"}),
   fails |-> {"MISSING_ARG", "INVALID_ARG"}, drops |-> {}]

acvp_hash_init_tc(a, k) ==
  [early |-> {},
   alloc |-> <<"msg", "md">>
               \o OptSeq("MCT" \in k /\ a \notin hash_sha3 \cup hash_shake,
                         <<"m1", "m2", "m3">>),
   uses |-> {"tc_id", "test_type", "msg", "msglen"}
              \cup Opt(a \in hash_shake, {"xof_len"})
              \cup Opt("LDT" \in k, {"exp_len", "exp_method"}),
   fails |-> {"MALLOC_FAIL"} \cup acvp_hexstr_to_bin, frees |-> {}]

acvp_hash_output_tc(a, k) ==
  [out |-> {"md"} \cup Opt(a \in hash_shake, {"outLen"}),
   fails |-> {"MALLOC_FAIL"} \cup acvp_bin_to_hexstr]

acvp_hash_release_tc == {"msg", "md", "m1", "m2", "m3"}

acvp_hash_answer(a, k) ==
  [FreedAtOnce EXCEPT !.mct = CASE a \in hash_sha3  -> acvp_hash_sha3_mct(a)
                                [] a \in hash_shake -> acvp_hash_shake_mct(a)
                                [] OTHER            -> acvp_hash_mct_tc(a)]

acvp_hash(a, k) ==
  [handler |-> acvp_hash_kat_handler, groups |-> acvp_hash_groups(a, k),
   tests |-> acvp_hash_tests(a, k), init |-> acvp_hash_init_tc(a, k),
   output |-> acvp_hash_output_tc(a, k), release |-> acvp_hash_release_tc,
   answer |-> acvp_hash_answer(a, k)]

----------------------------------------------------------------------------
(* acvp_drbg.c; k holds "reseed" when a test gives an extra reseed input.   *)

drbg_kinds(a) == {{}, {"reseed"}}

drbg_inputs == {"additional_input_0", "entropy_input_pr_0", "additional_input_1",
                "entropy_input_pr_1", "additional_input_2", "entropy_input_pr_2",
                "perso_string", "entropy", "nonce"}

acvp_drbg_kat_handler ==
  [fails |-> {"NO_CTX", "MALFORMED_JSON", "UNSUPPORTED_OP"},
   cleared |-> FALSE, groups |-> {}, ends |-> {}]

acvp_drbg_groups(a, k) ==
  [reads |-> {"tgId", "mode_id", "der_func_enabled", "pred_resist_enabled",
              "reseed", "perso_string_len", "entropy_len", "nonce_len",
              "drb_len", "additional_input_len"},
   fails |-> {"MALFORMED_JSON", "UNSUPPORTED_OP", "MISSING_ARG", "INVALID_ARG"}]

\* The fixed inputs of a test, each one set to NULL first.
acvp_drbg_tests_fixed == {"tc_id", "index"} \cup drbg_inputs

\* The inputs of the two generate calls, and of the reseed before them.
acvp_drbg_tests(a, k) ==
  [reads |-> acvp_drbg_tests_fixed \cup {"pr1_len", "pr2_len"},
   fails |-> {"MISSING_ARG", "INVALID_ARG"}, drops |-> {}]

acvp_drbg_init_tc(a, k) ==
  [early |-> {},
   alloc |-> <<"drb", "additional_input_0", "additional_input_1",
               "additional_input_2", "entropy", "entropy_input_pr_0",
               "entropy_input_pr_1", "entropy_input_pr_2", "nonce", "perso_string">>,
   uses |-> drbg_inputs \cup {"tc_id", "pr1_len", "pr2_len"}
              \cup (acvp_drbg_groups(a, k).reads \ {"tgId"}),
   fails |-> {"MALLOC_FAIL"} \cup acvp_hexstr_to_bin, frees |-> {}]

acvp_drbg_output_tc(a, k) ==
  [out |-> {"returnedBits"}, fails |-> {"MALLOC_FAIL"} \cup acvp_bin_to_hexstr]

acvp_drbg_release_tc == drbg_inputs \cup {"drb"}

acvp_drbg_answer(a, k) == FreedAtOnce

acvp_drbg(a, k) ==
  [handler |-> acvp_drbg_kat_handler, groups |-> acvp_drbg_groups(a, k),
   tests |-> acvp_drbg_tests(a, k), init |-> acvp_drbg_init_tc(a, k),
   output |-> acvp_drbg_output_tc(a, k), release |-> acvp_drbg_release_tc,
   answer |-> acvp_drbg_answer(a, k)]
=============================================================================
