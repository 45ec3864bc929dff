----------------------------- MODULE AcvpKatKas -----------------------------
(***************************************************************************)
(* KAT handlers of key agreement and key transport: acvp_kas_ecc.c,        *)
(* acvp_kas_ffc.c, acvp_kas_ifc.c, acvp_kts_ifc.c and acvp_kda.c.  Their   *)
(* init_tc functions do not zero the test case: they rely on the handler,  *)
(* which zeroes it once, and on release_tc.                                *)
(***************************************************************************)
EXTENDS AcvpKatTables

\* A failure releases test case and answer at once, and the test case (empty by
\* then, or never filled) again at the label err.
kas_answer == [FreedAtOnce EXCEPT !.err = {"tc"}]

----------------------------------------------------------------------------
(* acvp_kas_ecc.c; k holds "VAL" for a validation group.                    *)

kas_ecc_kinds == SUBSET {"VAL"}

acvp_kas_ecc_output_cdh_tc(k) ==
  [out |-> {"publicIutX", "publicIutY", "z"},
   fails |-> {"MALLOC_FAIL"} \cup acvp_bin_to_hexstr]

acvp_kas_ecc_output_comp_tc(k) ==
  [out |-> IF "VAL" \in k THEN {"testPassed"}
           ELSE {"ephemeralPublicIutX", "ephemeralPublicIutY",
                 "ephemeralPrivateIut", "hashZIut"},
   fails |-> {"MALLOC_FAIL"} \cup acvp_bin_to_hexstr]

acvp_kas_ecc_output_ssc_tc(k) ==
  [out |-> IF "VAL" \in k THEN {"testPassed"}
           ELSE {"ephemeralPublicIutX", "ephemeralPublicIutY",
                 "ephemeralPrivateIut", "z"},
   fails |-> {"MALLOC_FAIL"} \cup acvp_bin_to_hexstr]

acvp_kas_ecc_init_cdh_tc(k) ==
  [early |-> {}, alloc |-> <<"psx", "psy", "pix", "piy", "z", "d", "chash">>,
   uses |-> {"tc_id", "test_type", "curve", "psx", "psy"},
   fails |-> {"MALLOC_FAIL"} \cup acvp_hexstr_to_bin, frees |-> {}]

acvp_kas_ecc_init_comp_tc(k) ==
  [early |-> {}, alloc |-> <<"psx", "psy", "pix", "piy", "d", "z", "chash">>,
   uses |-> {"tc_id", "test_type", "curve", "hash", "psx", "psy"}
              \cup Opt("VAL" \in k, {"pix", "piy", "d", "z"}),
   fails |-> {"MALLOC_FAIL", "MISSING_ARG"} \cup acvp_hexstr_to_bin, frees |-> {}]

acvp_kas_ecc_release_tc == {"chash", "psx", "psy", "pix", "piy", "d", "z"}

acvp_kas_ecc_kat_handler ==
  [fails |-> {"NO_CTX", "MALFORMED_JSON"}, cleared |-> TRUE,
   groups |-> {"INVALID_ARG", "UNSUPPORTED_OP"}, ends |-> {}]

acvp_kas_ecc_ssc_kat_handler ==
  [fails |-> {"NO_CTX", "MALFORMED_JSON"}, cleared |-> TRUE,
   groups |-> {"UNSUPPORTED_OP"}, ends |-> {}]

acvp_kas_ecc_cdh_groups(k) ==
  [reads |-> {"tgId", "test_type", "curve"},
   fails |-> {"MALFORMED_JSON", "MISSING_ARG", "INVALID_ARG"}]

acvp_kas_ecc_comp_groups(k) ==
  [reads |-> {"tgId", "test_type", "curve", "hash"},
   fails |-> {"MALFORMED_JSON", "MISSING_ARG", "INVALID_ARG"}]

acvp_kas_ecc_ssc_groups(k) ==
  [reads |-> {"tgId", "test_type", "curve", "hash"},
   fails |-> {"MALFORMED_JSON", "MISSING_ARG", "INVALID_ARG"}]

acvp_kas_ecc_cdh_tests(k) ==
  [reads |-> {"tc_id", "psx", "psy"},
   fails |-> {"MISSING_ARG", "INVALID_ARG"}, drops |-> {}]

acvp_kas_ecc_comp_tests(k) ==
  [reads |-> {"tc_id", "psx", "psy"} \cup Opt("VAL" \in k, {"pix", "piy", "d", "z"}),
   fails |-> {"MISSING_ARG", "INVALID_ARG"}, drops |-> {}]

acvp_kas_ecc_ssc_tests(k) ==
  [reads |-> {"tc_id", "psx", "psy"} \cup Opt("VAL" \in k, {"pix", "piy", "d", "z"}),
   fails |-> {"MISSING_ARG", "INVALID_ARG"}, drops |-> {}]

acvp_kas_ecc_cdh_answer == kas_answer
acvp_kas_ecc_comp_answer == kas_answer
acvp_kas_ecc_ssc_answer == kas_answer

acvp_kas_ecc_cdh(k) ==
  [handler |-> acvp_kas_ecc_kat_handler, groups |-> acvp_kas_ecc_cdh_groups(k),
   tests |-> acvp_kas_ecc_cdh_tests(k), init |-> acvp_kas_ecc_init_cdh_tc(k),
   output |-> acvp_kas_ecc_output_cdh_tc(k), release |-> acvp_kas_ecc_release_tc,
   answer |-> acvp_kas_ecc_cdh_answer]

acvp_kas_ecc_comp(k) ==
  [handler |-> acvp_kas_ecc_kat_handler, groups |-> acvp_kas_ecc_comp_groups(k),
   tests |-> acvp_kas_ecc_comp_tests(k), init |-> acvp_kas_ecc_init_comp_tc(k),
   output |-> acvp_kas_ecc_output_comp_tc(k), release |-> acvp_kas_ecc_release_tc,
   answer |-> acvp_kas_ecc_comp_answer]

acvp_kas_ecc_ssc(k) ==
  [handler |-> acvp_kas_ecc_ssc_kat_handler, groups |-> acvp_kas_ecc_ssc_groups(k),
   tests |-> acvp_kas_ecc_ssc_tests(k), init |-> acvp_kas_ecc_init_comp_tc(k),
   output |-> acvp_kas_ecc_output_ssc_tc(k), release |-> acvp_kas_ecc_release_tc,
   answer |-> acvp_kas_ecc_ssc_answer]

acvp_kas_ecc(a, k) ==
  CASE a = "KAS_ECC_CDH" -> acvp_kas_ecc_cdh(k)
    [] a = "KAS_ECC_COMP" -> acvp_kas_ecc_comp(k)
    [] OTHER -> acvp_kas_ecc_ssc(k)

----------------------------------------------------------------------------
(* acvp_kas_ffc.c; k holds "FB" when the group carries its own domain       *)
(* parameters (FB and FC) and "VAL" for a validation group.                 *)

kas_ffc_kinds == SUBSET {"FB", "VAL"}

acvp_kas_ffc_output_ssc_tc(k) ==
  [out |-> IF "VAL" \in k THEN {"testPassed"} ELSE {"ephemeralPublicIut", "z"},
   fails |-> {"MALLOC_FAIL"} \cup acvp_bin_to_hexstr]

acvp_kas_ffc_output_comp_tc(k) ==
  [out |-> IF "VAL" \in k THEN {"testPassed"} ELSE {"ephemeralPublicIut", "hashZIut"},
   fails |-> {"MALLOC_FAIL"} \cup acvp_bin_to_hexstr]

acvp_kas_ffc_init_comp_tc(k) ==
  [early |-> {},
   alloc |-> OptSeq("FB" \in k, <<"p", "q", "g">>)
               \o <<"eps", "epri", "epui", "chash", "piut", "z">>,
   uses |-> {"tc_id", "hash_alg", "dgm", "test_type", "eps"}
              \cup Opt("FB" \in k, {"p", "q", "g"})
              \cup Opt("VAL" \in k, {"z", "epri", "epui"}),
   fails |-> {"MALLOC_FAIL"} \cup acvp_hexstr_to_bin, frees |-> {}]

acvp_kas_ffc_release_tc ==
  {"piut", "epri", "epui", "eps", "z", "chash", "p", "q", "g"}

acvp_kas_ffc_kat_handler ==
  [fails |-> {"NO_CTX", "MALFORMED_JSON"}, cleared |-> TRUE,
   groups |-> {"INVALID_ARG", "UNSUPPORTED_OP"}, ends |-> {}]

acvp_kas_ffc_ssc_kat_handler ==
  [fails |-> {"NO_CTX", "MALFORMED_JSON"}, cleared |-> TRUE,
   groups |-> {"UNSUPPORTED_OP"}, ends |-> {}]

acvp_kas_ffc_comp_groups(k) ==
  [reads |-> {"tgId", "hash_alg", "dgm", "test_type", "p", "q", "g"},
   fails |-> {"MALFORMED_JSON", "MISSING_ARG", "INVALID_ARG"}]

acvp_kas_ffc_ssc_groups(k) ==
  [reads |-> {"tgId", "hash_alg", "dgm", "test_type"}
               \cup Opt("FB" \in k, {"p", "q", "g"}),
   fails |-> {"MALFORMED_JSON", "MISSING_ARG", "INVALID_ARG"}]

acvp_kas_ffc_comp_tests(k) ==
  [reads |-> {"tc_id", "eps"} \cup Opt("VAL" \in k, {"z", "epri", "epui"}),
   fails |-> {"MISSING_ARG", "INVALID_ARG"}, drops |-> {}]

acvp_kas_ffc_ssc_tests(k) ==
  [reads |-> {"tc_id", "eps"} \cup Opt("VAL" \in k, {"z", "epri", "epui"}),
   fails |-> {"MISSING_ARG", "INVALID_ARG"}, drops |-> {}]

acvp_kas_ffc_comp_answer == kas_answer
acvp_kas_ffc_ssc_answer == kas_answer

acvp_kas_ffc_comp(k) ==
  [handler |-> acvp_kas_ffc_kat_handler, groups |-> acvp_kas_ffc_comp_groups(k),
   tests |-> acvp_kas_ffc_comp_tests(k), init |-> acvp_kas_ffc_init_comp_tc(k),
   output |-> acvp_kas_ffc_output_comp_tc(k), release |-> acvp_kas_ffc_release_tc,
   answer |-> acvp_kas_ffc_comp_answer]

acvp_kas_ffc_ssc(k) ==
  [handler |-> acvp_kas_ffc_ssc_kat_handler, groups |-> acvp_kas_ffc_ssc_groups(k),
   tests |-> acvp_kas_ffc_ssc_tests(k), init |-> acvp_kas_ffc_init_comp_tc(k),
   output |-> acvp_kas_ffc_output_ssc_tc(k), release |-> acvp_kas_ffc_release_tc,
   answer |-> acvp_kas_ffc_ssc_answer]

acvp_kas_ffc(a, k) ==
  IF a = "KAS_FFC_COMP" THEN acvp_kas_ffc_comp(k) ELSE acvp_kas_ffc_ssc(k)

----------------------------------------------------------------------------
(* acvp_kas_ifc.c; k holds "responder" (else the module is the initiator),  *)
(* "KAS2" (else KAS1), "crt" for a key in CRT form, "VAL".  The strings are *)
(* declared outside both loops and never reset, and init_tc converts every  *)
(* one that is set.                                                         *)

kas_ifc_kinds == SUBSET {"responder", "KAS2", "crt", "VAL"}

ifc_holds_key(k) == "responder" \in k \/ "KAS2" \in k
ifc_meets_key(k) == "responder" \notin k \/ "KAS2" \in k
ifc_crt == {"dmp1", "dmq1", "iqmp"}
ifc_optional == {"p", "q", "n", "d", "e", "server_n", "server_e", "server_ct_z",
                 "kas2_z"} \cup ifc_crt

\* A failed allocation while the two secrets of KAS2 are joined is swallowed.
acvp_kas_ifc_ssc_output_tc(k) ==
  [out |-> {"z"} \cup Opt(ifc_meets_key(k), {"iutC", "iutZ"}),
   fails |-> {"MALLOC_FAIL"} \cup acvp_bin_to_hexstr \cup Opt("KAS2" \in k, {"SUCCESS"})]

acvp_kas_ifc_ssc_val_output_tc(k) ==
  [out |-> {"testPassed"}, fails |-> Opt("KAS2" \in k, {"MALLOC_FAIL"})]

acvp_kas_ifc_ssc_init_tc(k) ==
  [early |-> {},
   alloc |-> OptSeq(ifc_holds_key(k),
                    <<"p", "q">> \o (IF "crt" \in k THEN <<"n", "e", "dmp1", "dmq1", "iqmp">>
                                     ELSE <<"d", "n", "e">>) \o <<"server_ct_z">>)
               \o OptSeq({"KAS2", "VAL"} \subseteq k, <<"provided_kas2_z">>)
               \o OptSeq(ifc_meets_key(k), <<"server_n", "server_e">>)
               \o <<"iut_ct_z", "iut_pt_z", "server_pt_z">>
               \o OptSeq("VAL" \in k, <<IF "responder" \in k THEN "provided_pt_z"
                                        ELSE "provided_ct_z">>),
   uses |-> {"tc_id", "key_gen", "hash_alg", "scheme", "role", "modulo", "test_type"}
              \cup ifc_optional
              \cup Opt("VAL" \in k, {IF "responder" \in k THEN "pt_z" ELSE "ct_z"}),
   fails |-> {"MALLOC_FAIL"} \cup acvp_hexstr_to_bin, frees |-> {}]

acvp_kas_ifc_release_tc ==
  {"p", "q", "d", "n", "e", "server_n", "server_e", "server_ct_z", "iut_ct_z",
   "iut_pt_z", "server_pt_z", "provided_ct_z", "provided_pt_z", "provided_kas2_z"}
    \cup ifc_crt

acvp_kas_ifc_ssc_kat_handler ==
  [fails |-> {"NO_CTX", "MALFORMED_JSON"}, cleared |-> TRUE,
   groups |-> {"UNSUPPORTED_OP"}, ends |-> {}]

acvp_kas_ifc_ssc_groups(k) ==
  [reads |-> {"tgId", "test_type", "key_gen", "hash_alg", "modulo", "scheme", "role"},
   fails |-> {"MALFORMED_JSON", "MISSING_ARG", "INVALID_ARG"}]

acvp_kas_ifc_ssc_tests(k) ==
  [reads |-> {"tc_id"}
               \cup Opt(ifc_holds_key(k),
                        {"p", "q", "n", "e", "server_ct_z"}
                          \cup (IF "crt" \in k THEN ifc_crt ELSE {"d"}))
               \cup Opt(ifc_meets_key(k), {"server_n", "server_e"})
               \cup Opt("VAL" \in k, {"pt_z"})
               \cup Opt("VAL" \in k /\ ifc_meets_key(k), {"ct_z"})
               \cup Opt({"KAS2", "VAL"} \subseteq k, {"kas2_z"}),
   fails |-> {"MISSING_ARG", "INVALID_ARG"}, drops |-> {}]

acvp_kas_ifc_ssc_answer == kas_answer

acvp_kas_ifc(a, k) ==
  [handler |-> acvp_kas_ifc_ssc_kat_handler, groups |-> acvp_kas_ifc_ssc_groups(k),
   tests |-> acvp_kas_ifc_ssc_tests(k), init |-> acvp_kas_ifc_ssc_init_tc(k),
   output |-> IF "VAL" \in k THEN acvp_kas_ifc_ssc_val_output_tc(k)
              ELSE acvp_kas_ifc_ssc_output_tc(k),
   release |-> acvp_kas_ifc_release_tc, answer |-> acvp_kas_ifc_ssc_answer]

----------------------------------------------------------------------------
(* acvp_kts_ifc.c; k holds "responder" and "crt".                           *)

kts_ifc_kinds == SUBSET {"responder", "crt"}

acvp_kts_ifc_output_tc(k) ==
  [out |-> IF "responder" \in k THEN {"dkm"} ELSE {"iutC", "dkm"},
   fails |-> {"MALLOC_FAIL"} \cup acvp_bin_to_hexstr]

acvp_kts_ifc_init_tc(k) ==
  [early |-> {},
   alloc |-> <<"ct", "pt">>
               \o OptSeq("responder" \in k,
                         IF "crt" \in k THEN <<"p", "q", "dmp1", "dmq1", "iqmp">>
                         ELSE <<"p", "q", "d">>)
               \o <<"n", "e">>,
   uses |-> {"tc_id", "key_gen", "hash_alg", "role", "modulo", "llen", "test_type",
             "n", "e"}
              \cup Opt("responder" \in k, {"ct", "p", "q", "d"})
              \cup Opt({"responder", "crt"} \subseteq k, ifc_crt),
   fails |-> {"MALLOC_FAIL"} \cup acvp_hexstr_to_bin, frees |-> {}]

acvp_kts_ifc_release_tc == {"p", "q", "d", "e", "n", "ct", "pt"} \cup ifc_crt

acvp_kts_ifc_kat_handler ==
  [fails |-> {"NO_CTX", "MALFORMED_JSON"}, cleared |-> TRUE,
   groups |-> {"UNSUPPORTED_OP"}, ends |-> {}]

acvp_kts_ifc_groups(k) ==
  [reads |-> {"tgId", "test_type", "key_gen", "scheme", "role", "modulo", "llen",
              "hash_alg"},
   fails |-> {"MALFORMED_JSON", "MISSING_ARG", "INVALID_ARG"}]

acvp_kts_ifc_tests(k) ==
  [reads |-> {"tc_id", "n", "e"}
               \cup Opt("responder" \in k,
                        {"ct", "p", "q"} \cup (IF "crt" \in k THEN ifc_crt ELSE {"d"})),
   fails |-> {"MISSING_ARG", "INVALID_ARG"}, drops |-> {}]

acvp_kts_ifc_answer == kas_answer

acvp_kts_ifc(a, k) ==
  [handler |-> acvp_kts_ifc_kat_handler, groups |-> acvp_kts_ifc_groups(k),
   tests |-> acvp_kts_ifc_tests(k), init |-> acvp_kts_ifc_init_tc(k),
   output |-> acvp_kts_ifc_output_tc(k), release |-> acvp_kts_ifc_release_tc,
   answer |-> acvp_kts_ifc_answer]

----------------------------------------------------------------------------
(* acvp_kda.c; k holds "VAL", "literal" for a fixed info pattern with a     *)
(* literal, "t" for one that asks for t, "hybrid" where it does not, but t  *)
(* is in the test and hybrid_secret has it read, and (two-step) "iv".  Of   *)
(* the other candidates, the pattern is one with all.                       *)

\* The pattern parser allocates a candidate list, with or without a literal.
kda_kinds(a) ==
  {k \in SUBSET ({"VAL", "literal", "t", "hybrid"} \cup Opt(a = "KDA_TWOSTEP", {"iv"})) :
     ~({"t", "hybrid"} \subseteq k)}

\* hybrid_secret is read for a group, from the kdfParameter that paramobj still
\* points to: that of the last test of the group before (of none, for the first).
kda_leaves == {"hybrid_secret"}

\* The literal of the pattern is allocated first, by read_info_pattern; for a
\* two-step test case it is stored through the one-step view of the union, over
\* two lengths, so no member points to it.
cmp_pattern_str(a, k) ==
  OptSeq("literal" \in k, <<IF a = "KDA_TWOSTEP" THEN "stray" ELSE "literalCandidate">>)

kda_info(k) ==
  OptSeq(k \cap {"t", "hybrid"} # {}, <<"t">>)
    \o <<"uPartyId", "uEphemeralData", "vPartyId", "vEphemeralData", "algorithmId",
         "label", "context", "outputDkm">>

kda_uses(k) ==
  {"tc_id", "test_type", "l", "encoding", "salt_method", "saltLen", "arr", "salt", "z",
   "t", "uparty", "uephemeral", "vparty", "vephemeral", "algid", "label", "context"}
    \cup Opt("VAL" \in k, {"dkm"})

\* A salt of the wrong length ends init_tc, with the code of the conversion that
\* succeeded.  hybrid_secret is not copied, but t is there or not because of it.
acvp_kda_onestep_init_tc(k) ==
  [early |-> {},
   alloc |-> cmp_pattern_str("KDA_ONESTEP", k) \o <<"salt", "z">> \o kda_info(k)
               \o OptSeq("VAL" \in k, <<"providedDkm">>),
   uses |-> kda_uses(k) \cup {"aux_function"} \cup Opt("t" \notin k, {"hybrid_secret"}),
   fails |-> {"MALLOC_FAIL", "SUCCESS"} \cup acvp_hexstr_to_bin, frees |-> {}]

\* An iv of the wrong length does the same; its string is never reset.
acvp_kda_twostep_init_tc(k) ==
  [early |-> {},
   alloc |-> cmp_pattern_str("KDA_TWOSTEP", k) \o <<"salt", "z">>
               \o OptSeq("iv" \in k, <<"iv">>) \o kda_info(k)
               \o OptSeq("VAL" \in k, <<"providedDkm">>),
   uses |-> kda_uses(k) \cup {"mac_mode", "kdf_mode", "ctr_loc", "ctr_len", "iv_len",
                              "iv_str", "hybrid_secret"},
   fails |-> {"MALLOC_FAIL"} \cup acvp_hexstr_to_bin \cup Opt("iv" \in k, {"SUCCESS"}),
   frees |-> {}]

acvp_kda_hkdf_init_tc(k) ==
  [early |-> {},
   alloc |-> cmp_pattern_str("KDA_HKDF", k) \o <<"salt", "z">> \o kda_info(k)
               \o OptSeq("VAL" \in k, <<"providedDkm">>),
   uses |-> kda_uses(k) \cup {"hmac_alg", "hybrid_secret"},
   fails |-> {"MALLOC_FAIL"} \cup acvp_hexstr_to_bin, frees |-> {}]

acvp_kda_onestep_output_tc(k) ==
  [out |-> IF "VAL" \in k THEN {"testPassed"} ELSE {"dkm"},
   fails |-> {"MALLOC_FAIL"} \cup acvp_bin_to_hexstr]

acvp_kda_twostep_output_tc(k) ==
  [out |-> IF "VAL" \in k THEN {"testPassed"} ELSE {"dkm"},
   fails |-> {"MALLOC_FAIL"} \cup acvp_bin_to_hexstr]

acvp_kda_hkdf_output_tc(k) ==
  [out |-> IF "VAL" \in k THEN {"testPassed"} ELSE {"dkm"},
   fails |-> {"MALLOC_FAIL"} \cup acvp_bin_to_hexstr]

acvp_kda_release_tc(a) ==
  {"salt", "z", "literalCandidate", "providedDkm"} \cup ToSet(kda_info({"t"}))
    \cup Opt(a = "KDA_TWOSTEP", {"iv"})

kda_kat_handler ==
  [fails |-> {"NO_CTX", "MALFORMED_JSON"}, cleared |-> TRUE,
   groups |-> {"MALFORMED_JSON", "UNSUPPORTED_OP"}, ends |-> {}]

acvp_kda_hkdf_kat_handler == kda_kat_handler
acvp_kda_onestep_kat_handler == kda_kat_handler
acvp_kda_twostep_kat_handler == kda_kat_handler

acvp_kda_groups(a, k) ==
  [reads |-> {"tgId", "test_type", "pattern_str", "encoding", "salt_method", "saltLen", "l"}
               \cup (CASE a = "KDA_HKDF" -> {"hmac_alg"}
                       [] a = "KDA_ONESTEP" -> {"aux_function"}
                       [] OTHER -> {"mac_mode", "kdf_mode", "ctr_loc", "ctr_len", "iv_len"}),
   fails |-> {"MALFORMED_JSON", "UNSUPPORTED_OP"}
               \cup Opt(a = "KDA_TWOSTEP", {"TC_INVALID_DATA"})]

acvp_kda_tests(a, k) ==
  [reads |-> {"tc_id", "salt", "z", "arr", "t"} \cup Opt("iv" \in k, {"iv_str"}),
   fails |-> {"MALFORMED_JSON", "TC_INVALID_DATA"}, drops |-> {}]

\* The fields the pattern of the group asks for, and the key to be validated.
kda_pattern_reads(k) ==
  {"uparty", "uephemeral", "vparty", "vephemeral", "algid", "label", "context"}
    \cup Opt("VAL" \in k, {"dkm"})

acvp_kda_answer == kas_answer

acvp_kda(a, k) ==
  [handler |-> CASE a = "KDA_HKDF" -> acvp_kda_hkdf_kat_handler
                 [] a = "KDA_ONESTEP" -> acvp_kda_onestep_kat_handler
                 [] OTHER -> acvp_kda_twostep_kat_handler,
   groups |-> acvp_kda_groups(a, k),
   tests |-> [acvp_kda_tests(a, k) EXCEPT !.reads = @ \cup kda_pattern_reads(k)],
   init |-> CASE a = "KDA_HKDF" -> acvp_kda_hkdf_init_tc(k)
              [] a = "KDA_ONESTEP" -> acvp_kda_onestep_init_tc(k)
              [] OTHER -> acvp_kda_twostep_init_tc(k),
   output |-> CASE a = "KDA_HKDF" -> acvp_kda_hkdf_output_tc(k)
                [] a = "KDA_ONESTEP" -> acvp_kda_onestep_output_tc(k)
                [] OTHER -> acvp_kda_twostep_output_tc(k),
   release |-> acvp_kda_release_tc(a), answer |-> acvp_kda_answer]
=============================================================================
