----------------------------- MODULE AcvpCapKdf -----------------------------
(***************************************************************************)
(* The capabilities of the key derivation functions: the setters of        *)
(* acvp_capabilities.c, and what acvp_build_register.c makes of them.      *)
(***************************************************************************)
EXTENDS AcvpCapTables

cap_kdf == {"KDF135_SNMP", "KDF135_SSH", "KDF135_SRTP", "KDF135_IKEV2", "KDF135_IKEV1", "KDF135_X942",
            "KDF135_X963", "KDF108", "PBKDF", "KDF_TLS12", "KDF_TLS13"}
----------------------------------------------------------------------------
acvp_cap_kdf135_snmp_set_parm(c)  == Adds({"pass_lens"})
acvp_cap_kdf135_snmp_set_engid(c) == Adds({"eng_ids"})

acvp_build_kdf135_snmp_register_cap(c, cap) == Fields(cap, {"pass_lens", "eng_ids"})

\* Mutant: the method is kept before the hash is checked.
acvp_cap_kdf135_ssh_set_parm_early(c) ==
  {[r EXCEPT !.wide = "yes"] : r \in Early(1, {<<"v1">>, <<"v2">>}, Adds({"sha"}))}

\* One call names a method and a hash; they are kept, and sent, apart.
acvp_cap_kdf135_ssh_set_parm(c) ==
  {[r EXCEPT !.at = {<<"v1">>, <<"v2">>}, !.wide = "yes"] : r \in Adds({"sha"})}
  \cup Refuse({<<"odd">>})

acvp_build_kdf135_ssh_register_cap(c, cap) == Fields(cap, {"entry", "sha"})

acvp_cap_kdf135_srtp_set_parm(c) == Adds({"aes_keylens", "kdr_exp"}) \cup Flags({"supports_zero_kdr"})

acvp_build_kdf135_srtp_register_cap(c, cap) ==
  Fields(cap, {"aes_keylens", "supports_zero_kdr", "kdr_exp"})

acvp_cap_pbkdf_set_domain(c) ==
  Ranges({"iteration_count_domain", "key_len_domain", "password_len_domain", "salt_len_domain"})
acvp_cap_pbkdf_set_parm(c) == Adds({"hmac_algs"})

acvp_build_pbkdf_register_cap(c, cap) ==
  Fields(cap, {"iteration_count_domain", "key_len_domain", "password_len_domain", "salt_len_domain",
               "hmac_algs"})

acvp_cap_kdf_tls12_set_parm(c) == Adds({"hash_algs"})
acvp_cap_kdf_tls13_set_parm(c) == Adds({"hmac_algs", "running_mode"})

acvp_build_kdf_tls12_register_cap(c, cap) == Fields(cap, {"hash_algs"})
acvp_build_kdf_tls13_register_cap(c, cap) == Fields(cap, {"hmac_algs", "running_mode"})
----------------------------------------------------------------------------
(* IKE and ANSI X9.                                                        *)

IkeRanges == {"init_nonce_len", "respond_nonce_len", "dh_secret_len"}

acvp_cap_kdf135_ikev2_set_parm(c)   == Adds({"hash_algs"})
acvp_cap_kdf135_ikev2_set_length(c) ==
  Adds({"init_nonce_len.values", "respond_nonce_len.values", "dh_secret_len.values",
        "key_material_len.values"})

\* Neither the order of the bounds nor the increment is checked.
acvp_cap_kdf135_ikev2_set_domain(c) ==
  AlsoTaking(Ranges(IkeRanges \cup {"key_material_len"}), {"rev", "zero"})

\* A range with increment 0 is taken for one that was not set.
acvp_build_kdf135_ikev2_register_cap(c, cap) ==
  Fields(cap, {"hash_algs", "init_nonce_len.values", "respond_nonce_len.values",
               "dh_secret_len.values", "key_material_len.values"})
  \cup {s \in Fields(cap, IkeRanges \cup {"key_material_len"}) : s.value # "zero"}

acvp_cap_kdf135_ikev1_set_parm(c)   == Adds({"hash_algs"}) \cup Assigns({"auth_method"})
acvp_cap_kdf135_ikev1_set_domain(c) == AlsoTaking(Ranges(IkeRanges \cup {"psk_len"}), {"rev", "zero"})

acvp_build_kdf135_ikev1_register_cap(c, cap) ==
  Fields(cap, IkeRanges \cup {"psk_len", "hash_algs", "auth_method"})

\* DER is the first type, and so what a new capability has.
X942Defaults == {Setting(<<>>, "type", "DER")}

acvp_validate_kdf135_x942_domain_value(rows) == AlsoTaking(rows, {"rev", "zero"})

acvp_cap_kdf135_x942_set_domain(c) ==
  acvp_validate_kdf135_x942_domain_value(Ranges({"key_len", "other_len", "supp_len", "zz_len"}))

\* Both types together are refused, although the builder knows them.
acvp_cap_kdf135_x942_set_parm(c) ==
  Trying(Taking(Assigns({"type"}), {"DER", "CONCAT"}), {"BOTH", "odd"}) \cup Adds({"hash_algs", "oids"})

acvp_build_kdf135_x942_register_cap(c, cap) ==
  Fields(cap, {"type", "key_len", "other_len", "supp_len", "zz_len", "hash_algs"}
              \cup (IF Is(cap, "type", "DER") THEN {"oids"} ELSE {}))

acvp_cap_kdf135_x963_set_parm(c) ==
  Adds({"hash_algs", "key_data_lengths", "field_sizes", "shared_info_lengths"})

\* Mutant: the lengths of the shared information are forgotten.
acvp_build_kdf135_x963_register_cap_short(c, cap) ==
  Fields(cap, {"hash_algs", "key_data_lengths", "field_sizes"})

acvp_build_kdf135_x963_register_cap(c, cap) ==
  Fields(cap, {"hash_algs", "key_data_lengths", "field_sizes", "shared_info_lengths"})
----------------------------------------------------------------------------
(* KDF108.  Counter, feedback and double pipeline modes are alike: one     *)
(* stands for the three.  KMAC is a mode of the same capability, and is    *)
(* registered as an algorithm of its own.                                  *)

Modes108 == {<<"feedback">>, <<"KMAC">>}
KmacLens == {"derivation_keylens", "derived_keylens", "context_lens", "label_lens"}

\* A value out of range leaves no trace.
acvp_validate_kdf108_param_value(rows) == In(Modes108, rows)

\* A parameter that passes enables its mode, even if it is then found to be one
\* that the mode has not: a MAC of the other kind, or an empty IV that is
\* required, but not supported.
acvp_cap_kdf108_set_parm(c) ==
  acvp_validate_kdf108_param_value(
    Adds({"mac_mode", "counter_lens", "data_order", "supported_lens.values",
          "derivation_keylens.values", "derived_keylens.values", "context_lens.values",
          "label_lens.values"})
    \cup Flags({"empty_iv_support"}) \cup Taking(Flags({"requires_empty_iv"}), {}))
  \cup Early(1, Modes108, Trying(Taking(Adds({"mac_mode"}), {}), {"other"}))
  \cup UNION {Early(1, {m}, {[r EXCEPT !.needs = {Setting(m, "empty_iv_support", "yes")}, !.tries = {}] :
                              r \in Flags({"requires_empty_iv"})}) : m \in Modes108}

\* The mode is enabled before the parameter is found not to be a range.  A range
\* with increment 0 divides by zero: it is not tried.
acvp_cap_kdf108_set_domain(c) ==
  acvp_validate_kdf108_param_value(Trying(Ranges({"supported_lens"} \cup KmacLens), {"odd", "rev"}))
  \cup Early(1, Modes108, Trying(Taking(Ranges({"counter_lens"}), {}), {"v1"}))

acvp_build_kdf108_mode_register(cap) ==
  Fields(cap, {"entry", "mac_mode", "supported_lens", "supported_lens.values", "data_order",
               "counter_lens", "empty_iv_support"}
              \cup (IF Is(cap, "empty_iv_support", "yes") THEN {"requires_empty_iv"} ELSE {}))

acvp_build_kdf108_register_cap(c, cap) ==
  acvp_build_kdf108_mode_register({s \in cap : s.at = <<"feedback">>})

acvp_build_kdf108_kmac_register_cap(c, cap) ==
  Fields({s \in cap : s.at = <<"KMAC">>},
         KmacLens \cup {"entry", "mac_mode", "derivation_keylens.values", "derived_keylens.values",
                        "context_lens.values", "label_lens.values"})
============================================================================
