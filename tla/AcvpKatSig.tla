----------------------------- MODULE AcvpKatSig -----------------------------
(***************************************************************************)
(* KAT handlers of the elliptic-curve, hash-based and RSA signatures:      *)
(* acvp_ecdsa.c, acvp_eddsa.c, acvp_lms.c and acvp_rsa_sig.c.              *)
(***************************************************************************)
EXTENDS AcvpKatTables

----------------------------------------------------------------------------
(* acvp_ecdsa.c *)

ecdsa_signs(a) == a \in {"ECDSA_SIGGEN", "DET_ECDSA_SIGGEN"}

\* A failed conversion leaves the loop of fields but returns ACVP_SUCCESS.
acvp_ecdsa_output_tc(a, k) ==
  CASE a = "ECDSA_KEYGEN" -> [out |-> {"qy", "qx", "d"}, fails |-> {"SUCCESS"}]
    [] ecdsa_signs(a)     -> [out |-> {"r", "s"}, fails |-> {"SUCCESS"}]
    [] OTHER              -> [out |-> {"ver_disposition"}, fails |-> {}]

acvp_ecdsa_release_tc == {"qy", "qx", "d", "r", "s", "message"}

\* When an allocation fails the buffers are freed here, and the pointers stay.
acvp_ecdsa_init_tc(a, k) ==
  [early |-> {}, alloc |-> <<"qx", "qy", "d", "s", "r", "message">>,
   uses |-> {"tc_id", "tgId", "hash_alg", "curve", "secret_gen_mode", "is_component"}
              \cup Opt(a \in {"ECDSA_KEYVER", "ECDSA_SIGVER"}, {"qx", "qy"})
              \cup Opt(a = "ECDSA_SIGVER", {"r", "s"})
              \cup Opt(ecdsa_signs(a) \/ a = "ECDSA_SIGVER", {"message"}),
   fails |-> {"MALLOC_FAIL", "MISSING_ARG"} \cup acvp_hexstr_to_bin,
   frees |-> {"qx", "qy", "d", "s", "r", "message"}]

acvp_ecdsa_kat_handler ==
  [fails |-> {"NO_CTX", "MALFORMED_JSON", "INVALID_ARG", "UNSUPPORTED_OP"},
   cleared |-> TRUE, groups |-> {"MALFORMED_JSON"}, ends |-> {}]

acvp_ecdsa_groups(a, k) ==
  [reads |-> {"tgId", "is_component", "hash_alg", "curve", "secret_gen_mode"},
   fails |-> {"MISSING_ARG", "INVALID_ARG"}]

acvp_ecdsa_tests(a, k) ==
  [reads |-> {"tc_id"}
               \cup Opt(a \in {"ECDSA_KEYVER", "ECDSA_SIGVER"}, {"qx", "qy"})
               \cup Opt(ecdsa_signs(a) \/ a = "ECDSA_SIGVER", {"message"})
               \cup Opt(a = "ECDSA_SIGVER", {"r", "s"}),
   fails |-> Opt(a # "ECDSA_KEYGEN", {"MISSING_ARG", "INVALID_ARG"}), drops |-> {}]

acvp_ecdsa_answer(a, k) ==
  [FreedAtErr EXCEPT !.key = IF ecdsa_signs(a)
                             THEN [out |-> {"qy", "qx"}, fails |-> acvp_bin_to_hexstr]
                             ELSE NoKey]

acvp_ecdsa(a, k) ==
  [handler |-> acvp_ecdsa_kat_handler, groups |-> acvp_ecdsa_groups(a, k),
   tests |-> acvp_ecdsa_tests(a, k), init |-> acvp_ecdsa_init_tc(a, k),
   output |-> acvp_ecdsa_output_tc(a, k), release |-> acvp_ecdsa_release_tc,
   answer |-> acvp_ecdsa_answer(a, k)]

----------------------------------------------------------------------------
(* acvp_eddsa.c; k holds "context" when a signature test gives a context.   *)

eddsa_verifies(a) == a \in {"EDDSA_KEYVER", "EDDSA_SIGVER"}

acvp_eddsa_output_tc(a, k) ==
  IF eddsa_verifies(a)
  THEN [out |-> {"ver_disposition"}, fails |-> {}]
  ELSE [out |-> IF a = "EDDSA_KEYGEN" THEN {"d", "q"} ELSE {"signature"},
        fails |-> {"MALLOC_FAIL"} \cup acvp_bin_to_hexstr]

acvp_eddsa_release_tc == {"d", "q", "message", "context", "signature"}

acvp_eddsa_init_tc(a, k) ==
  [early |-> {},
   alloc |-> <<"q">> \o OptSeq(a = "EDDSA_KEYGEN", <<"d">>)
               \o OptSeq(a = "EDDSA_SIGGEN" /\ "context" \in k, <<"context">>)
               \o OptSeq(a \in {"EDDSA_SIGGEN", "EDDSA_SIGVER"}, <<"message", "signature">>),
   uses |-> {"tc_id", "tgId", "use_prehash", "curve"}
              \cup Opt(eddsa_verifies(a), {"q"})
              \cup Opt(a = "EDDSA_SIGGEN", {"context"})
              \cup Opt(a \in {"EDDSA_SIGGEN", "EDDSA_SIGVER"}, {"message"})
              \cup Opt(a = "EDDSA_SIGVER", {"sig"}),
   fails |-> {"MALLOC_FAIL"} \cup Opt(a # "EDDSA_KEYGEN", acvp_hexstr_to_bin),
   frees |-> {"d", "q", "message", "context", "signature"}]

acvp_eddsa_kat_handler ==
  [fails |-> {"NO_CTX", "MALFORMED_JSON", "INVALID_ARG", "UNSUPPORTED_OP"},
   cleared |-> TRUE, groups |-> {"MALFORMED_JSON"}, ends |-> {}]

acvp_eddsa_groups(a, k) ==
  [reads |-> {"tgId", "use_prehash", "curve", "test_type"},
   fails |-> {"MISSING_ARG", "INVALID_ARG"}]

acvp_eddsa_tests(a, k) ==
  [reads |-> {"tc_id"} \cup Opt(eddsa_verifies(a), {"q"})
               \cup Opt(a \in {"EDDSA_SIGGEN", "EDDSA_SIGVER"}, {"message"})
               \cup Opt(a = "EDDSA_SIGGEN", {"context"})
               \cup Opt(a = "EDDSA_SIGVER", {"sig"}),
   fails |-> Opt(a # "EDDSA_KEYGEN", {"MISSING_ARG", "INVALID_ARG"}), drops |-> {}]

\* The buffer for the group's key is allocated after the callback succeeded;
\* when that fails, the handler goes to err with rv still ACVP_SUCCESS.
acvp_eddsa_answer(a, k) ==
  [FreedAtErr EXCEPT !.key = IF a = "EDDSA_SIGGEN"
                             THEN [out |-> {"q"}, fails |-> {"SUCCESS"} \cup acvp_bin_to_hexstr]
                             ELSE NoKey]

acvp_eddsa(a, k) ==
  [handler |-> acvp_eddsa_kat_handler, groups |-> acvp_eddsa_groups(a, k),
   tests |-> acvp_eddsa_tests(a, k), init |-> acvp_eddsa_init_tc(a, k),
   output |-> acvp_eddsa_output_tc(a, k), release |-> acvp_eddsa_release_tc,
   answer |-> acvp_eddsa_answer(a, k)]

----------------------------------------------------------------------------
(* acvp_lms.c *)

acvp_lms_output_tc(a, k) ==
  CASE a = "LMS_KEYGEN" -> [out |-> {"pub_key"}, fails |-> {"INTERNAL_ERR"} \cup acvp_bin_to_hexstr]
    [] a = "LMS_SIGGEN" -> [out |-> {"sig"}, fails |-> {"INTERNAL_ERR"} \cup acvp_bin_to_hexstr]
    [] a = "LMS_SIGVER" -> [out |-> {"ver_disposition"}, fails |-> {"INTERNAL_ERR"}]

acvp_lms_release_tc == {"pub_key", "i", "seed", "msg", "sig"}

acvp_lms_init_tc(a, k) ==
  [early |-> {},
   alloc |-> OptSeq(a = "LMS_KEYGEN", <<"i", "seed">>) \o <<"pub_key">>
               \o OptSeq(a # "LMS_KEYGEN", <<"msg">>) \o <<"sig">>,
   uses |-> {"tc_id", "tg_id", "type", "lms_mode", "lmots_mode"}
              \cup (IF a = "LMS_KEYGEN" THEN {"i_str", "seed_str"} ELSE {"msg_str"})
              \cup Opt(a = "LMS_SIGVER", {"pub_str", "sig_str"}),
   fails |-> {"MALLOC_FAIL"} \cup acvp_hexstr_to_bin, frees |-> {}]

acvp_lms_kat_handler ==
  [fails |-> {"NO_CTX", "MALFORMED_JSON", "TC_INVALID_DATA", "UNSUPPORTED_OP"},
   cleared |-> TRUE, groups |-> {"MALFORMED_JSON"}, ends |-> {}]

acvp_lms_groups(a, k) ==
  [reads |-> {"tg_id", "type", "lms_mode", "lmots_mode"}
               \cup Opt(a = "LMS_SIGVER", {"pub_str"}),
   fails |-> {"MISSING_ARG", "INVALID_ARG"}]

acvp_lms_tests(a, k) ==
  [reads |-> {"tc_id"}
               \cup (IF a = "LMS_KEYGEN" THEN {"i_str", "seed_str"} ELSE {"msg_str"})
               \cup Opt(a = "LMS_SIGVER", {"sig_str"}),
   fails |-> {"MISSING_ARG"}, drops |-> {}]

\* The public key is written to the group's answer with its first test only.
acvp_lms_answer(a, k) ==
  [FreedAtErr EXCEPT !.key = IF a = "LMS_SIGGEN"
                             THEN [out |-> {"pub_key"}, fails |-> acvp_bin_to_hexstr]
                             ELSE NoKey]

acvp_lms(a, k) ==
  [handler |-> acvp_lms_kat_handler, groups |-> acvp_lms_groups(a, k),
   tests |-> acvp_lms_tests(a, k), init |-> acvp_lms_init_tc(a, k),
   output |-> acvp_lms_output_tc(a, k), release |-> acvp_lms_release_tc,
   answer |-> acvp_lms_answer(a, k)]

----------------------------------------------------------------------------
(* acvp_rsa_sig.c *)

acvp_rsa_sig_output_tc(a, k) ==
  IF a = "RSA_SIGVER"
  THEN [out |-> {"ver_disposition"}, fails |-> {}]
  ELSE [out |-> {"signature"}, fails |-> {"MALLOC_FAIL"} \cup acvp_bin_to_hexstr]

acvp_rsa_siggen_release_tc == {"msg", "e", "n", "signature", "salt"}

acvp_rsa_sig_init_tc(a, k) ==
  [early |-> {}, alloc |-> <<"msg", "signature", "salt", "e", "n">>,
   uses |-> {"tc_id", "tgId", "sig_type", "mask", "mod", "hash_alg", "msg", "salt_len"}
              \cup Opt(a = "RSA_SIGVER", {"e_str", "n_str", "signature", "salt"}),
   fails |-> {"MALLOC_FAIL"} \cup acvp_hexstr_to_bin, frees |-> {}]

acvp_rsa_sig_kat_handler ==
  [fails |-> {"NO_CTX", "MALFORMED_JSON", "MISSING_ARG", "INVALID_ARG", "UNSUPPORTED_OP"},
   cleared |-> TRUE, groups |-> {}, ends |-> {}]

acvp_rsa_sig_groups(a, k) ==
  [reads |-> {"tgId", "sig_type", "hash_alg", "mask", "mod", "salt_len"}
               \cup Opt(a = "RSA_SIGVER", {"e_str", "n_str"}),
   fails |-> {"MALFORMED_JSON", "MISSING_ARG", "INVALID_ARG"}]

\* The answer object exists before the message is checked; only the failed
\* allocation of the padded signature does not release it.
acvp_rsa_sig_tests(a, k) ==
  [reads |-> {"tc_id", "msg"} \cup Opt(a = "RSA_SIGVER", {"signature", "salt"}),
   fails |-> {"MALFORMED_JSON", "MISSING_ARG", "INVALID_ARG"},
   drops |-> Opt(a = "RSA_SIGVER", {"MALLOC_FAIL"})]

\* A failed init_tc only skips the callback: the answer is written all the same.
acvp_rsa_sig_answer(a, k) ==
  [FreedAtErr EXCEPT !.init = {}, !.stops = FALSE,
     !.key = IF a = "RSA_SIGGEN"
             THEN [out |-> {"e", "n"}, fails |-> {"MALLOC_FAIL"} \cup acvp_bin_to_hexstr]
             ELSE NoKey]

acvp_rsa_sig(a, k) ==
  [handler |-> acvp_rsa_sig_kat_handler, groups |-> acvp_rsa_sig_groups(a, k),
   tests |-> acvp_rsa_sig_tests(a, k), init |-> acvp_rsa_sig_init_tc(a, k),
   output |-> acvp_rsa_sig_output_tc(a, k), release |-> acvp_rsa_siggen_release_tc,
   answer |-> acvp_rsa_sig_answer(a, k)]
=============================================================================
