----------------------------- MODULE AcvpKatKdf -----------------------------
(***************************************************************************)
(* KAT handlers of the key derivation functions: acvp_kdf108.c, the        *)
(* acvp_kdf135_*.c files, acvp_kdf_tls12.c, acvp_kdf_tls13.c and           *)
(* acvp_pbkdf.c.  Every init_tc zeroes the test case first.                *)
(***************************************************************************)
EXTENDS AcvpKatTables

----------------------------------------------------------------------------
(* acvp_kdf108.c; k holds "KMAC" (the vector set's mode) or "feedback".    *)
(* The iv of a feedback test is never reset, and init_tc copies it into the *)
(* test cases of the other modes as well.                                  *)

kdf108_kinds(a) == IF a = "KDF108_KMAC" THEN {{"KMAC"}} ELSE SUBSET {"feedback"}

acvp_kdf108_init_tc(a, k) ==
  [early |-> {},
   alloc |-> <<"key_in", "key_out">>
               \o (IF "KMAC" \in k THEN <<"context", "label">> ELSE <<"fixed_data">>)
               \o OptSeq("feedback" \in k, <<"iv">>),
   uses |-> {"tc_id", "kdf_mode", "mac_mode", "key_in_str", "key_in_len",
             "key_out_len"}
              \cup (IF "KMAC" \in k THEN {"context_str", "label_str"}
                    ELSE {"ctr_loc", "ctr_len", "deferred", "iv_str", "iv_len"}),
   fails |-> {"MALLOC_FAIL"} \cup acvp_hexstr_to_bin, frees |-> {}]

acvp_kdf108_output_tc(a, k) ==
  [out |-> IF "KMAC" \in k THEN {"derivedKey"} ELSE {"keyOut", "fixedData"},
   fails |-> {"MALLOC_FAIL", "INVALID_ARG"} \cup acvp_bin_to_hexstr]

acvp_kdf108_release_tc ==
  {"key_in", "key_out", "fixed_data", "iv", "context", "label"}

acvp_kdf108_kat_handler ==
  [fails |-> {"NO_CTX", "MALFORMED_JSON", "INVALID_ARG", "UNSUPPORTED_OP"},
   cleared |-> FALSE, groups |-> {"INVALID_ARG"}, ends |-> {}]

acvp_kdf108_groups(a, k) ==
  [reads |-> {"tgId", "mac_mode", "kdf_mode"}
               \cup Opt("KMAC" \notin k, {"key_out_len", "ctr_len", "ctr_loc"}),
   fails |-> {"MALFORMED_JSON", "MISSING_ARG", "INVALID_ARG"}]

acvp_kdf108_tests(a, k) ==
  [reads |-> {"tc_id", "key_in_str", "key_in_len"}
               \cup (IF "KMAC" \in k THEN {"context_str", "label_str", "key_out_len"}
                     ELSE {"deferred"})
               \cup Opt("feedback" \in k, {"iv_str", "iv_len"}),
   fails |-> {"MISSING_ARG", "INVALID_ARG"}, drops |-> {}]

acvp_kdf108_answer(a, k) == FreedAtOnce

acvp_kdf108(a, k) ==
  [handler |-> acvp_kdf108_kat_handler, groups |-> acvp_kdf108_groups(a, k),
   tests |-> acvp_kdf108_tests(a, k), init |-> acvp_kdf108_init_tc(a, k),
   output |-> acvp_kdf108_output_tc(a, k), release |-> acvp_kdf108_release_tc,
   answer |-> acvp_kdf108_answer(a, k)]

----------------------------------------------------------------------------
(* acvp_kdf135_ikev1.c; k holds "psk" for pre-shared key authentication.   *)
(* The key is never reset, and init_tc copies it whenever it is set.       *)

ikev1_kinds == SUBSET {"psk"}

acvp_kdf135_ikev1_init_tc(a, k) ==
  [early |-> {},
   alloc |-> <<"init_nonce", "resp_nonce", "init_ckey", "resp_ckey", "gxy">>
               \o OptSeq("psk" \in k, <<"psk">>)
               \o <<"s_key_id", "s_key_id_a", "s_key_id_d", "s_key_id_e">>,
   uses |-> {"tc_id", "hash_alg", "auth_method", "init_nonce_len",
             "resp_nonce_len", "dh_secret_len", "init_nonce", "resp_nonce",
             "init_ckey", "resp_ckey", "gxy", "psk", "psk_len"},
   fails |-> {"MALLOC_FAIL"} \cup acvp_hexstr_to_bin, frees |-> {}]

acvp_kdf135_ikev1_output_tc(a, k) ==
  [out |-> {"sKeyId", "sKeyIdD", "sKeyIdA", "sKeyIdE"},
   fails |-> {"MALLOC_FAIL"} \cup acvp_bin_to_hexstr]

acvp_kdf135_ikev1_release_tc ==
  {"init_nonce", "resp_nonce", "init_ckey", "resp_ckey", "gxy", "psk",
   "s_key_id", "s_key_id_d", "s_key_id_a", "s_key_id_e"}

acvp_kdf135_ikev1_kat_handler ==
  [fails |-> {"NO_CTX", "MALFORMED_JSON", "INVALID_ARG", "UNSUPPORTED_OP"},
   cleared |-> FALSE, groups |-> {}, ends |-> {}]

acvp_kdf135_ikev1_groups(a, k) ==
  [reads |-> {"tgId", "hash_alg", "auth_method", "init_nonce_len",
              "resp_nonce_len", "dh_secret_len"}
               \cup Opt("psk" \in k, {"psk_len"}),
   fails |-> {"MALFORMED_JSON", "MISSING_ARG", "INVALID_ARG"}]

acvp_kdf135_ikev1_tests(a, k) ==
  [reads |-> {"tc_id", "init_nonce", "resp_nonce", "init_ckey", "resp_ckey",
              "gxy"}
               \cup Opt("psk" \in k, {"psk"}),
   fails |-> {"MISSING_ARG", "INVALID_ARG"}, drops |-> {}]

acvp_kdf135_ikev1_answer(a, k) == FreedAtOnce

acvp_kdf135_ikev1(a, k) ==
  [handler |-> acvp_kdf135_ikev1_kat_handler, groups |-> acvp_kdf135_ikev1_groups(a, k),
   tests |-> acvp_kdf135_ikev1_tests(a, k), init |-> acvp_kdf135_ikev1_init_tc(a, k),
   output |-> acvp_kdf135_ikev1_output_tc(a, k), release |-> acvp_kdf135_ikev1_release_tc,
   answer |-> acvp_kdf135_ikev1_answer(a, k)]

----------------------------------------------------------------------------
(* acvp_kdf135_ikev2.c                                                     *)

acvp_kdf135_ikev2_init_tc(a, k) ==
  [early |-> {},
   alloc |-> <<"init_nonce", "resp_nonce", "init_spi", "resp_spi", "gir",
              "gir_new", "s_key_seed", "s_key_seed_rekey",
              "derived_keying_material", "derived_keying_material_child_dh",
              "derived_keying_material_child">>,
   uses |-> {"tc_id", "hash_alg", "init_nonce_len", "resp_nonce_len",
             "dh_secret_len", "keying_material_len", "init_nonce",
             "resp_nonce", "init_spi", "resp_spi", "gir", "gir_new"},
   fails |-> {"MALLOC_FAIL"} \cup acvp_hexstr_to_bin, frees |-> {}]

acvp_kdf135_ikev2_output_tc(a, k) ==
  [out |-> {"sKeySeed", "sKeySeedReKey", "derivedKeyingMaterial",
            "derivedKeyingMaterialChild", "derivedKeyingMaterialDh"},
   fails |-> {"MALLOC_FAIL"} \cup acvp_bin_to_hexstr]

acvp_kdf135_ikev2_release_tc ==
  {"init_nonce", "resp_nonce", "init_spi", "resp_spi", "gir", "gir_new",
   "s_key_seed", "s_key_seed_rekey", "derived_keying_material",
   "derived_keying_material_child", "derived_keying_material_child_dh"}

acvp_kdf135_ikev2_kat_handler ==
  [fails |-> {"NO_CTX", "MALFORMED_JSON", "INVALID_ARG", "UNSUPPORTED_OP"},
   cleared |-> FALSE, groups |-> {}, ends |-> {}]

acvp_kdf135_ikev2_groups(a, k) ==
  [reads |-> {"tgId", "hash_alg", "init_nonce_len", "resp_nonce_len",
              "dh_secret_len", "keying_material_len"},
   fails |-> {"MALFORMED_JSON", "MISSING_ARG", "INVALID_ARG"}]

acvp_kdf135_ikev2_tests(a, k) ==
  [reads |-> {"tc_id", "init_nonce", "resp_nonce", "init_spi", "resp_spi",
              "gir", "gir_new"},
   fails |-> {"MISSING_ARG", "INVALID_ARG"}, drops |-> {}]

acvp_kdf135_ikev2_answer(a, k) == FreedAtOnce

acvp_kdf135_ikev2(a, k) ==
  [handler |-> acvp_kdf135_ikev2_kat_handler, groups |-> acvp_kdf135_ikev2_groups(a, k),
   tests |-> acvp_kdf135_ikev2_tests(a, k), init |-> acvp_kdf135_ikev2_init_tc(a, k),
   output |-> acvp_kdf135_ikev2_output_tc(a, k), release |-> acvp_kdf135_ikev2_release_tc,
   answer |-> acvp_kdf135_ikev2_answer(a, k)]

----------------------------------------------------------------------------
(* acvp_kdf135_snmp.c; the password of the test case points into the vector *)
(* set and is not freed.                                                   *)

acvp_kdf135_snmp_init_tc(a, k) ==
  [early |-> {},
   alloc |-> <<"s_key", "engine_id">>,
   uses |-> {"tc_id", "engine_id", "password", "p_len"},
   fails |-> {"MALLOC_FAIL"} \cup acvp_hexstr_to_bin, frees |-> {}]

acvp_kdf135_snmp_output_tc(a, k) ==
  [out |-> {"sharedKey"},
   fails |-> acvp_bin_to_hexstr]

acvp_kdf135_snmp_release_tc ==
  {"s_key", "engine_id"}

acvp_kdf135_snmp_kat_handler ==
  [fails |-> {"NO_CTX", "MALFORMED_JSON", "INVALID_ARG", "UNSUPPORTED_OP"},
   cleared |-> FALSE, groups |-> {"MISSING_ARG"}, ends |-> {}]

acvp_kdf135_snmp_groups(a, k) ==
  [reads |-> {"tgId", "p_len", "engine_id"},
   fails |-> {"MALFORMED_JSON", "MISSING_ARG", "INVALID_ARG"}]

acvp_kdf135_snmp_tests(a, k) ==
  [reads |-> {"tc_id", "password"},
   fails |-> {"MISSING_ARG", "INVALID_ARG"}, drops |-> {}]

acvp_kdf135_snmp_answer(a, k) == FreedAtOnce

acvp_kdf135_snmp(a, k) ==
  [handler |-> acvp_kdf135_snmp_kat_handler, groups |-> acvp_kdf135_snmp_groups(a, k),
   tests |-> acvp_kdf135_snmp_tests(a, k), init |-> acvp_kdf135_snmp_init_tc(a, k),
   output |-> acvp_kdf135_snmp_output_tc(a, k), release |-> acvp_kdf135_snmp_release_tc,
   answer |-> acvp_kdf135_snmp_answer(a, k)]

----------------------------------------------------------------------------
(* acvp_kdf135_srtp.c                                                      *)

acvp_kdf135_srtp_init_tc(a, k) ==
  [early |-> {},
   alloc |-> <<"kdr", "master_key", "master_salt", "idx", "srtcp_idx",
              "srtp_ka", "srtp_ke", "srtp_ks", "srtcp_ka", "srtcp_ke",
              "srtcp_ks">>,
   uses |-> {"tc_id", "aes_key_length", "kdr", "master_key", "master_salt",
             "idx", "srtcp_idx"},
   fails |-> {"MALLOC_FAIL"} \cup acvp_hexstr_to_bin, frees |-> {}]

acvp_kdf135_srtp_output_tc(a, k) ==
  [out |-> {"srtpKe", "srtpKa", "srtpKs", "srtcpKe", "srtcpKa", "srtcpKs"},
   fails |-> {"MALLOC_FAIL"} \cup acvp_bin_to_hexstr]

acvp_kdf135_srtp_release_tc ==
  {"kdr", "master_key", "master_salt", "idx", "srtcp_idx", "srtp_ke",
   "srtp_ka", "srtp_ks", "srtcp_ke", "srtcp_ka", "srtcp_ks"}

acvp_kdf135_srtp_kat_handler ==
  [fails |-> {"NO_CTX", "MALFORMED_JSON", "INVALID_ARG", "UNSUPPORTED_OP"},
   cleared |-> FALSE, groups |-> {}, ends |-> {}]

acvp_kdf135_srtp_groups(a, k) ==
  [reads |-> {"tgId", "aes_key_length", "kdr"},
   fails |-> {"MALFORMED_JSON", "MISSING_ARG", "INVALID_ARG"}]

acvp_kdf135_srtp_tests(a, k) ==
  [reads |-> {"tc_id", "master_key", "master_salt", "idx", "srtcp_idx"},
   fails |-> {"MISSING_ARG"}, drops |-> {}]

acvp_kdf135_srtp_answer(a, k) == FreedAtOnce

acvp_kdf135_srtp(a, k) ==
  [handler |-> acvp_kdf135_srtp_kat_handler, groups |-> acvp_kdf135_srtp_groups(a, k),
   tests |-> acvp_kdf135_srtp_tests(a, k), init |-> acvp_kdf135_srtp_init_tc(a, k),
   output |-> acvp_kdf135_srtp_output_tc(a, k), release |-> acvp_kdf135_srtp_release_tc,
   answer |-> acvp_kdf135_srtp_answer(a, k)]

----------------------------------------------------------------------------
(* acvp_kdf135_ssh.c; the lengths of the group are declared in the loop.   *)

acvp_kdf135_ssh_init_tc(a, k) ==
  [early |-> {},
   alloc |-> <<"shared_secret_k", "hash_h", "session_id", "cs_init_iv",
              "sc_init_iv", "cs_encrypt_key", "sc_encrypt_key",
              "cs_integrity_key", "sc_integrity_key">>,
   uses |-> {"tc_id", "sha_type", "e_key_len", "i_key_len", "iv_len",
             "hash_len", "shared_secret_str", "hash_str", "session_id_str"},
   fails |-> {"MALLOC_FAIL"} \cup acvp_hexstr_to_bin, frees |-> {}]

acvp_kdf135_ssh_output_tc(a, k) ==
  [out |-> {"initialIvClient", "encryptionKeyClient", "integrityKeyClient",
            "initialIvServer", "encryptionKeyServer", "integrityKeyServer"},
   fails |-> {"MALLOC_FAIL", "DATA_TOO_LARGE"} \cup acvp_bin_to_hexstr]

acvp_kdf135_ssh_release_tc ==
  {"shared_secret_k", "hash_h", "session_id", "cs_init_iv", "sc_init_iv",
   "cs_encrypt_key", "sc_encrypt_key", "cs_integrity_key", "sc_integrity_key"}

acvp_kdf135_ssh_kat_handler ==
  [fails |-> {"NO_CTX", "MALFORMED_JSON", "INVALID_ARG", "UNSUPPORTED_OP"},
   cleared |-> FALSE, groups |-> {"MISSING_ARG"}, ends |-> {}]

acvp_kdf135_ssh_groups(a, k) ==
  [reads |-> {"tgId", "sha_type", "e_key_len", "i_key_len", "iv_len",
              "hash_len"},
   fails |-> {"MALFORMED_JSON", "MISSING_ARG", "NO_CAP"}]

acvp_kdf135_ssh_tests(a, k) ==
  [reads |-> {"tc_id", "shared_secret_str", "hash_str", "session_id_str"},
   fails |-> {"MISSING_ARG"}, drops |-> {}]

acvp_kdf135_ssh_answer(a, k) == FreedAtOnce

acvp_kdf135_ssh(a, k) ==
  [handler |-> acvp_kdf135_ssh_kat_handler, groups |-> acvp_kdf135_ssh_groups(a, k),
   tests |-> acvp_kdf135_ssh_tests(a, k), init |-> acvp_kdf135_ssh_init_tc(a, k),
   output |-> acvp_kdf135_ssh_output_tc(a, k), release |-> acvp_kdf135_ssh_release_tc,
   answer |-> acvp_kdf135_ssh_answer(a, k)]

----------------------------------------------------------------------------
(* acvp_kdf135_x942.c                                                      *)

acvp_kdf135_x942_init_tc(a, k) ==
  [early |-> {},
   alloc |-> <<"dkm", "oid", "zz", "party_u_info", "party_v_info",
              "supp_pub_info", "supp_priv_info">>,
   uses |-> {"tc_id", "hash_alg", "kdf_type", "oid", "zz", "key_len",
             "party_u", "party_v", "supp_pub", "supp_priv"},
   fails |-> {"MALLOC_FAIL"} \cup acvp_hexstr_to_bin, frees |-> {}]

acvp_kdf135_x942_output_tc(a, k) ==
  [out |-> {"derivedKey"},
   fails |-> {"MALLOC_FAIL", "TC_INVALID_DATA"} \cup acvp_bin_to_hexstr]

acvp_kdf135_x942_release_tc ==
  {"oid", "zz", "party_u_info", "party_v_info", "supp_pub_info",
   "supp_priv_info", "dkm"}

acvp_kdf135_x942_kat_handler ==
  [fails |-> {"NO_CTX", "MISSING_ARG", "INVALID_ARG", "UNSUPPORTED_OP"},
   cleared |-> FALSE, groups |-> {"MISSING_ARG"}, ends |-> {}]

acvp_kdf135_x942_groups(a, k) ==
  [reads |-> {"tgId", "kdf_type", "hash_alg", "oid"},
   fails |-> {"MALFORMED_JSON", "MISSING_ARG", "INVALID_ARG"}]

acvp_kdf135_x942_tests(a, k) ==
  [reads |-> {"tc_id", "zz", "key_len", "party_u", "party_v", "supp_pub",
              "supp_priv"},
   fails |-> {"MISSING_ARG", "INVALID_ARG"}, drops |-> {}]

acvp_kdf135_x942_answer(a, k) == FreedAtOnce

acvp_kdf135_x942(a, k) ==
  [handler |-> acvp_kdf135_x942_kat_handler, groups |-> acvp_kdf135_x942_groups(a, k),
   tests |-> acvp_kdf135_x942_tests(a, k), init |-> acvp_kdf135_x942_init_tc(a, k),
   output |-> acvp_kdf135_x942_output_tc(a, k), release |-> acvp_kdf135_x942_release_tc,
   answer |-> acvp_kdf135_x942_answer(a, k)]

----------------------------------------------------------------------------
(* acvp_kdf135_x963.c                                                      *)

acvp_kdf135_x963_init_tc(a, k) ==
  [early |-> {},
   alloc |-> <<"z", "shared_info", "key_data">>,
   uses |-> {"tc_id", "hash_alg", "field_size", "key_data_length",
             "shared_info_len", "z", "shared_info"},
   fails |-> {"MALLOC_FAIL"} \cup acvp_hexstr_to_bin, frees |-> {}]

\* A conversion that fails is logged; the function returns ACVP_SUCCESS.
acvp_kdf135_x963_output_tc(a, k) ==
  [out |-> {"keyData"},
   fails |-> {"MALLOC_FAIL", "SUCCESS"}]

acvp_kdf135_x963_release_tc ==
  {"z", "shared_info", "key_data"}

acvp_kdf135_x963_kat_handler ==
  [fails |-> {"NO_CTX", "MISSING_ARG", "INVALID_ARG", "UNSUPPORTED_OP"},
   cleared |-> FALSE, groups |-> {"MISSING_ARG"}, ends |-> {}]

acvp_kdf135_x963_groups(a, k) ==
  [reads |-> {"tgId", "field_size", "key_data_length", "shared_info_len",
              "hash_alg"},
   fails |-> {"MALFORMED_JSON", "MISSING_ARG", "INVALID_ARG"}]

acvp_kdf135_x963_tests(a, k) ==
  [reads |-> {"tc_id", "z", "shared_info"},
   fails |-> {"MISSING_ARG", "INVALID_ARG"}, drops |-> {}]

acvp_kdf135_x963_answer(a, k) == FreedAtOnce

acvp_kdf135_x963(a, k) ==
  [handler |-> acvp_kdf135_x963_kat_handler, groups |-> acvp_kdf135_x963_groups(a, k),
   tests |-> acvp_kdf135_x963_tests(a, k), init |-> acvp_kdf135_x963_init_tc(a, k),
   output |-> acvp_kdf135_x963_output_tc(a, k), release |-> acvp_kdf135_x963_release_tc,
   answer |-> acvp_kdf135_x963_answer(a, k)]

----------------------------------------------------------------------------
(* acvp_kdf_tls12.c                                                        *)

acvp_kdf_tls12_init_tc(a, k) ==
  [early |-> {},
   alloc |-> <<"pm_secret", "session_hash", "c_rnd", "s_rnd", "msecret",
              "kblock">>,
   uses |-> {"tc_id", "md", "pm_len", "kb_len", "pm_secret", "session_hash",
             "s_rnd", "c_rnd"},
   fails |-> {"MALLOC_FAIL"} \cup acvp_hexstr_to_bin, frees |-> {}]

acvp_kdf_tls12_output_tc(a, k) ==
  [out |-> {"masterSecret", "keyBlock"},
   fails |-> {"MALLOC_FAIL"} \cup acvp_bin_to_hexstr]

acvp_kdf_tls12_release_tc ==
  {"pm_secret", "session_hash", "c_rnd", "s_rnd", "msecret", "kblock"}

acvp_kdf_tls12_kat_handler ==
  [fails |-> {"NO_CTX", "MALFORMED_JSON", "INVALID_ARG", "UNSUPPORTED_OP"},
   cleared |-> FALSE, groups |-> {}, ends |-> {}]

acvp_kdf_tls12_groups(a, k) ==
  [reads |-> {"tgId", "pm_len", "kb_len", "md"},
   fails |-> {"MALFORMED_JSON", "MISSING_ARG", "INVALID_ARG", "NO_CAP"}]

acvp_kdf_tls12_tests(a, k) ==
  [reads |-> {"tc_id", "pm_secret", "session_hash", "s_rnd", "c_rnd"},
   fails |-> {"MISSING_ARG", "INVALID_ARG"}, drops |-> {}]

acvp_kdf_tls12_answer(a, k) == FreedAtOnce

acvp_kdf_tls12(a, k) ==
  [handler |-> acvp_kdf_tls12_kat_handler, groups |-> acvp_kdf_tls12_groups(a, k),
   tests |-> acvp_kdf_tls12_tests(a, k), init |-> acvp_kdf_tls12_init_tc(a, k),
   output |-> acvp_kdf_tls12_output_tc(a, k), release |-> acvp_kdf_tls12_release_tc,
   answer |-> acvp_kdf_tls12_answer(a, k)]

----------------------------------------------------------------------------
(* acvp_kdf_tls13.c; k holds "psk" and "dhe" (the running mode).  The      *)
(* strings of a test are declared in the loop.                             *)

tls13_kinds == SUBSET {"psk", "dhe"}

tls13_secrets ==
  <<"c_early_traffic_secret", "early_expt_master_secret", "c_hs_traffic_secret",
    "s_hs_traffic_secret", "c_app_traffic_secret", "s_app_traffic_secret",
    "expt_master_secret", "resume_master_secret">>

acvp_kdf_tls13_init_tc(a, k) ==
  [early |-> {},
   alloc |-> <<"psk", "dhe", "c_hello_rand", "s_hello_rand",
              "fin_c_hello_rand", "fin_s_hello_rand">> \o tls13_secrets,
   uses |-> {"tc_id", "type", "runmode", "hmac", "psk", "dhe", "sh_rnd",
             "ch_rnd", "s_fin_rnd", "c_fin_rnd"},
   fails |-> {"MALLOC_FAIL"} \cup acvp_hexstr_to_bin, frees |-> {}]

acvp_kdf_tls13_output_tc(a, k) ==
  [out |-> ToSet(tls13_secrets),
   fails |-> {"MALLOC_FAIL", "INVALID_ARG"} \cup acvp_bin_to_hexstr]

acvp_kdf_tls13_release_tc ==
  {"psk", "dhe", "c_hello_rand", "s_hello_rand", "fin_c_hello_rand",
   "fin_s_hello_rand"} \cup ToSet(tls13_secrets)

acvp_kdf_tls13_kat_handler ==
  [fails |-> {"NO_CTX", "MALFORMED_JSON", "INVALID_ARG", "UNSUPPORTED_OP"},
   cleared |-> FALSE, groups |-> {}, ends |-> {}]

acvp_kdf_tls13_groups(a, k) ==
  [reads |-> {"tgId", "type", "hmac", "runmode"},
   fails |-> {"MALFORMED_JSON", "MISSING_ARG"}]

acvp_kdf_tls13_tests(a, k) ==
  [reads |-> {"tc_id", "psk", "dhe", "sh_rnd", "ch_rnd", "s_fin_rnd",
              "c_fin_rnd"},
   fails |-> {"MISSING_ARG"}, drops |-> {}]

acvp_kdf_tls13_answer(a, k) == FreedAtOnce

acvp_kdf_tls13(a, k) ==
  [handler |-> acvp_kdf_tls13_kat_handler, groups |-> acvp_kdf_tls13_groups(a, k),
   tests |-> acvp_kdf_tls13_tests(a, k), init |-> acvp_kdf_tls13_init_tc(a, k),
   output |-> acvp_kdf_tls13_output_tc(a, k), release |-> acvp_kdf_tls13_release_tc,
   answer |-> acvp_kdf_tls13_answer(a, k)]

----------------------------------------------------------------------------
(* acvp_pbkdf.c; the answer object is created only after the callback.     *)

acvp_pbkdf_init_tc(a, k) ==
  [early |-> {},
   alloc |-> <<"salt", "password", "key">>,
   uses |-> {"tc_id", "hmac_alg", "test_type", "salt_str", "salt_len",
             "password_str", "password_len", "iteration_count", "key_len"},
   fails |-> {"MALLOC_FAIL"} \cup acvp_hexstr_to_bin, frees |-> {}]

acvp_pbkdf_output_tc(a, k) ==
  [out |-> {"derivedKey"},
   fails |-> {"MALLOC_FAIL", "DATA_TOO_LARGE", "INVALID_ARG"} \cup
              acvp_bin_to_hexstr]

acvp_pbkdf_release_tc ==
  {"salt", "password", "key"}

acvp_pbkdf_kat_handler ==
  [fails |-> {"NO_CTX", "MALFORMED_JSON", "INVALID_ARG", "UNSUPPORTED_OP"},
   cleared |-> FALSE, groups |-> {}, ends |-> {}]

acvp_pbkdf_groups(a, k) ==
  [reads |-> {"tgId", "test_type", "hmac_alg"},
   fails |-> {"MALFORMED_JSON", "MISSING_ARG", "INVALID_ARG"}]

acvp_pbkdf_tests(a, k) ==
  [reads |-> {"tc_id", "key_len", "salt_str", "salt_len", "password_str",
              "password_len", "iteration_count"},
   fails |-> {"MISSING_ARG", "INVALID_ARG"}, drops |-> {}]

acvp_pbkdf_answer(a, k) == FreedAtOnce

acvp_pbkdf(a, k) ==
  [handler |-> acvp_pbkdf_kat_handler, groups |-> acvp_pbkdf_groups(a, k),
   tests |-> acvp_pbkdf_tests(a, k), init |-> acvp_pbkdf_init_tc(a, k),
   output |-> acvp_pbkdf_output_tc(a, k), release |-> acvp_pbkdf_release_tc,
   answer |-> acvp_pbkdf_answer(a, k)]
=============================================================================
