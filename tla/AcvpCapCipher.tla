--------------------------- MODULE AcvpCapCipher ---------------------------
(***************************************************************************)
(* The capabilities of ciphers, hashes, MACs and DRBGs: the setters of     *)
(* acvp_capabilities.c, and what acvp_build_register.c makes of them.      *)
(***************************************************************************)
EXTENDS AcvpCapTables

cap_aes == {"AES_GCM", "AES_GCM_SIV", "AES_CCM", "AES_ECB", "AES_CBC", "AES_CBC_CS1", "AES_CBC_CS2",
            "AES_CBC_CS3", "AES_CFB1", "AES_CFB8", "AES_CFB128", "AES_OFB", "AES_CTR", "AES_XTS",
            "AES_KW", "AES_KWP", "AES_GMAC", "AES_XPN"}

cap_tdes == {"TDES_ECB", "TDES_CBC", "TDES_CBCI", "TDES_OFB", "TDES_OFBI", "TDES_CFB1", "TDES_CFB8",
             "TDES_CFB64", "TDES_CFBP1", "TDES_CFBP8", "TDES_CFBP64", "TDES_CTR", "TDES_KW"}

cap_cs == {"AES_CBC_CS1", "AES_CBC_CS2", "AES_CBC_CS3"}

cap_sha2  == {"HASH_SHA1", "HASH_SHA224", "HASH_SHA256", "HASH_SHA384", "HASH_SHA512",
              "HASH_SHA512_224", "HASH_SHA512_256"}
cap_sha3  == {"HASH_SHA3_224", "HASH_SHA3_256", "HASH_SHA3_384", "HASH_SHA3_512"}
cap_shake == {"HASH_SHAKE_128", "HASH_SHAKE_256"}
cap_hmac  == {"HMAC_SHA1", "HMAC_SHA2_224", "HMAC_SHA2_256", "HMAC_SHA2_384", "HMAC_SHA2_512",
              "HMAC_SHA2_512_224", "HMAC_SHA2_512_256", "HMAC_SHA3_224", "HMAC_SHA3_256",
              "HMAC_SHA3_384", "HMAC_SHA3_512"}
cap_cmac  == {"CMAC_AES", "CMAC_TDES"}
cap_kmac  == {"KMAC_128", "KMAC_256"}
cap_drbg  == {"HASHDRBG", "HMACDRBG", "CTRDRBG"}

cap_sym  == cap_aes \cup cap_tdes
cap_hash == (cap_sha2 \cup cap_sha3) \cup cap_shake
----------------------------------------------------------------------------
(* Symmetric ciphers.                                                      *)

\* The parameters whose values are checked per cipher.
acvp_validate_sym_cipher_parm_value(c) ==
  {"keylen"}
  \cup (IF c \in {"AES_GCM", "AES_GMAC", "AES_CCM", "AES_XPN"} THEN {"taglen"} ELSE {})
  \cup (IF c \in {"AES_GCM", "AES_GCM_SIV", "AES_CCM", "AES_GMAC", "TDES_CBC", "AES_OFB", "TDES_CFB1",
                  "TDES_OFB", "TDES_CFB8", "TDES_CFB64"} THEN {"ivlen"} ELSE {})
  \cup (IF c = "AES_XTS" THEN {"tweak"} ELSE {})
  \cup (IF c \in cap_aes \ (cap_cs \cup {"AES_XTS", "AES_KW", "AES_KWP"}) THEN {"aadlen"} ELSE {})
  \cup (IF c # "AES_GMAC" THEN {"ptlen"} ELSE {})

\* The list and the range of a length exclude each other.
RangeOf(f) == CASE f = "ivlen" -> {"iv_len"} [] f = "ptlen" -> {"payload_len"}
                [] f = "aadlen" -> {"aad_len"} [] OTHER -> {}
ListOf(f)  == CASE f = "iv_len" -> {"ivlen"} [] f = "payload_len" -> {"ptlen"}
                [] f = "aad_len" -> {"aadlen"} [] OTHER -> {}

\* Mutant: a length may be listed although it is a range already.
Lists_beside_range(c) == Adds(acvp_validate_sym_cipher_parm_value(c))

Lists(c) == {[r EXCEPT !.unless = RangeOf(r.field)] : r \in Adds(acvp_validate_sym_cipher_parm_value(c))}

\* Most parameters are accepted for any cipher.  A negative mode of key wrapping
\* passes, and the keying option may be taken back ("NA").
acvp_cap_sym_cipher_set_parm(c) ==
  AlsoTaking(Adds({"kw_mode"}), {"odd"})
  \cup Assigns({"direction", "ivgen_mode"}) \cup AlsoTaking(Assigns({"keying_option"}), {"NA"})
  \cup Flags({"perform_ctr_tests", "ctr_incr", "ctr_ovrflw"})
  \cup {[Row("ivgen_source", "assign", {"INT", "EXT", "EITHER", "NA"}) EXCEPT !.counts = {"EITHER"}]}
  \cup (IF c = "AES_XPN" THEN Assigns({"salt_source"}) ELSE {})
  \cup (IF c = "AES_CTR" THEN Taking(Assigns({"conformance"}), {"RFC3686"}) ELSE {})
  \cup (IF c = "AES_XTS"
        THEN {[r EXCEPT !.unless = {"du_len"}] : r \in Flags({"dulen_matches_paylen"})} ELSE {})
  \cup Lists(c)

acvp_validate_sym_cipher_domain_value(c) ==
  CASE c \in {"AES_GCM", "AES_CCM", "AES_XPN"} -> {"iv_len", "payload_len", "aad_len"}
    [] c = "AES_GCM_SIV"                       -> {"payload_len", "aad_len"}
    [] c \in cap_cs \cup {"AES_CTR", "AES_KW", "AES_KWP", "TDES_CTR", "TDES_KW"} -> {"payload_len"}
    [] c = "AES_XTS"                           -> {"payload_len", "du_len"}
    [] c = "AES_GMAC"                          -> {"iv_len", "aad_len"}
    [] OTHER                                   -> {}

acvp_cap_sym_cipher_set_domain(c) ==
  {[r EXCEPT !.unless = ListOf(r.field),
             !.needs = IF r.field = "du_len" THEN {Setting(<<>>, "dulen_matches_paylen", "no")} ELSE {}] :
     r \in Ranges(acvp_validate_sym_cipher_domain_value(c))}

\* Whether the source of IVs is needed.
NeedsIvGen(c, cap) ==
  c \in {"AES_GCM", "AES_GMAC", "AES_XPN"} \/ (c = "AES_CTR" /\ Has(cap, "conformance"))

acvp_build_sym_cipher_register_cap(c, cap) ==
  Fields(cap, {"conformance", "direction", "salt_source", "keylen", "ptlen"}
     \cup (IF Has(cap, "keying_option") /\ Values(cap, "keying_option") # {"NA"}
           THEN {"keying_option"} ELSE {})
     \cup (IF c \in {"AES_KW", "AES_KWP", "TDES_KW"} THEN {"kw_mode"} ELSE {})
     \cup (IF c \in {"AES_CTR", "TDES_CTR"}
           THEN {"perform_ctr_tests", "ctr_incr", "ctr_ovrflw"} ELSE {})
     \cup (IF Values(cap, "ivgen_source") \subseteq {"INT", "EXT"} THEN {"ivgen_source"} ELSE {})
     \cup (IF Values(cap, "ivgen_source") = {"INT"} THEN {"ivgen_mode"} ELSE {})
     \cup (IF c \in {"AES_GCM", "AES_CCM", "AES_GMAC", "AES_XPN"} THEN {"taglen"} ELSE {})
     \cup (IF c \in {"AES_GCM", "AES_GCM_SIV", "AES_CCM", "AES_GMAC"}
           THEN {IF Has(cap, "ivlen") THEN "ivlen" ELSE "iv_len"} ELSE {})
     \cup (IF Has(cap, "ptlen") THEN {} ELSE {"payload_len"})
     \cup (IF c = "AES_XTS" THEN {"tweak", "dulen_matches_paylen"} ELSE {})
     \cup (IF c = "AES_XTS" /\ Values(cap, "dulen_matches_paylen") = {"no"} THEN {"du_len"} ELSE {})
     \cup (IF c \in {"AES_GCM", "AES_CCM", "AES_GMAC", "AES_GCM_SIV", "AES_XPN"}
           THEN {IF Has(cap, "aadlen") THEN "aadlen" ELSE "aad_len"} ELSE {}))

\* What must be set for an object to be built.
SymComplete(c, cap) ==
  /\ Has(cap, "direction")
  /\ c \in cap_aes => Has(cap, "keylen")
  /\ NeedsIvGen(c, cap) => Values(cap, "ivgen_source") \in {{"INT"}, {"EXT"}}
  /\ Values(cap, "ivgen_source") = {"INT"} => Has(cap, "ivgen_mode")
  /\ c \in cap_cs \cup {"AES_CCM", "AES_GCM", "AES_GCM_SIV", "AES_CTR", "AES_XTS", "AES_XPN",
                        "AES_KW", "AES_KWP"} => Has(cap, "ptlen") \/ Has(cap, "payload_len")
----------------------------------------------------------------------------
(* Hashes and MACs.                                                        *)

acvp_cap_hash_set_parm(c) ==
  CASE c \in cap_shake -> Flags({"in_bit", "in_empty", "out_bit"})
    [] c \in cap_sha3  -> Flags({"in_bit", "in_empty"}) \cup Adds({"large_lens"})
    [] OTHER           -> Adds({"large_lens"})

\* The minimum is not compared with the maximum.
acvp_cap_hash_set_domain(c) ==
  AlsoTaking(Ranges({IF c \in cap_shake THEN "out_len" ELSE "msg_length"}), {"rev"})

acvp_build_hash_register_cap(c, cap) ==
  Fields(cap, (IF c \in cap_sha3 \cup cap_shake THEN {"in_bit", "in_empty"} ELSE {})
              \cup (IF c \in cap_shake THEN {"out_bit", "out_len"} ELSE {"msg_length", "large_lens"}))

\* A range with increment 0 passes the checks, and is then not sent.
Spanned(cap, F) == {s \in Fields(cap, F) : s.value # "zero"}

acvp_cap_hmac_set_domain(c) == AlsoTaking(Ranges({"key_len", "mac_len"}), {"rev", "zero"})
acvp_cap_hmac_set_parm(c)   == Adds({"key_len.values", "mac_len.values"})

acvp_build_hmac_register_cap(c, cap) ==
  Fields(cap, {"key_len.values", "mac_len.values"}) \cup Spanned(cap, {"key_len", "mac_len"})

acvp_cap_cmac_set_domain(c) == AlsoTaking(Ranges({"msg_len", "mac_len"}), {"rev", "zero"})

acvp_cap_cmac_set_parm(c) ==
  Adds({"msg_len.values", "mac_len.values", "key_len"})
  \cup Flags({"direction_gen", "direction_ver"})
  \cup (IF c = "CMAC_TDES" THEN Adds({"keying_option"}) ELSE {})

acvp_build_cmac_register_cap(c, cap) ==
  Fields(cap, {"direction_gen", "direction_ver", "msg_len.values", "mac_len.values",
               IF c = "CMAC_AES" THEN "key_len" ELSE "keying_option"})
  \cup Spanned(cap, {"msg_len", "mac_len"})

CmacComplete(c, cap) ==
  /\ "yes" \in Values(cap, "direction_gen") \cup Values(cap, "direction_ver")
  /\ c = "CMAC_TDES" => Has(cap, "keying_option")

acvp_cap_kmac_set_parm(c) == Assigns({"xof"}) \cup Flags({"hex_customization"})

\* A range with increment 0 divides by zero: it is not tried.
acvp_cap_kmac_set_domain(c) == Trying(Ranges({"mac_len", "msg_len", "key_len"}), {"odd", "rev"})

acvp_build_kmac_register_cap(c, cap) ==
  Fields(cap, {"xof", "hex_customization", "msg_len", "mac_len", "key_len"})
----------------------------------------------------------------------------
(* DRBGs.  Every setter first creates the mode and the group it names; the *)
(* mode is not checked until the registration is built.                    *)

Groups == {<<"mode", "1">>, <<"odd", "1">>}

InGroup(rows) == Early(2, Groups, rows)

\* Only the maximum is checked.
acvp_cap_drbg_set_length(c) ==
  InGroup(AlsoTaking(Ranges({"entropy_len", "nonce_len", "perso_len", "additional_in_len"}),
                     {"rev", "zero"}))

\* A negative length passes, but for the entropy's and the nonce's.
acvp_cap_drbg_set_parm(c) ==
  InGroup(Assigns({"der_func_enabled", "entropy_input_len", "nonce_length"})
          \cup AlsoTaking(Assigns({"perso_string_len", "additional_input_len", "returned_bits_len"}),
                          {"odd"})
          \cup {[r EXCEPT !.wide = "yes"] : r \in Assigns({"pred_resist"}) \cup
                                                 Flags({"reseed_implemented"})})

\* A range with increment 0 is sent as the single length of its minimum.
acvp_build_drbg_register_cap(c, cap) ==
  Fields(cap, {"pred_resist", "reseed_implemented", "entry", "entropy_len", "nonce_len", "perso_len",
               "additional_in_len", "returned_bits_len"}
              \cup (IF c = "CTRDRBG" THEN {"der_func_enabled"} ELSE {}))

DrbgComplete(cap) == Entries(cap, 2) # {} /\ \A at \in Entries(cap, 2) : at[1] # "odd"
============================================================================
