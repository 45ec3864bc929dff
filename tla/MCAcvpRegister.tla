--------------------------- MODULE MCAcvpRegister ---------------------------
EXTENDS AcvpRegister

Top(fields) == {Setting(<<>>, fv[1], fv[2]) : fv \in fields}
At(at, fields) == {Entry(at)} \cup {Setting(at, fv[1], fv[2]) : fv \in fields}

\* What an application sets at least for a cipher, so that it can be registered.
Basic(c) ==
  CASE c = "AES_GMAC" ->
         Defaults(c) \cup Top({<<"direction", "v1">>, <<"keylen", "v1">>, <<"ivgen_source", "EXT">>})
    [] c \in {"AES_GCM", "AES_XPN"} ->
         Defaults(c) \cup Top({<<"direction", "v1">>, <<"keylen", "v1">>, <<"ivgen_source", "EXT">>,
                               <<"payload_len", "v1">>})
    [] c \in cap_aes ->
         Defaults(c) \cup Top({<<"direction", "v1">>, <<"keylen", "v1">>, <<"ptlen", "v1">>})
    [] c \in cap_tdes -> Defaults(c) \cup Top({<<"direction", "v1">>})
    [] c \in cap_cmac -> Top({<<"direction_gen", "yes">>})
                           \cup (IF c = "CMAC_TDES" THEN Top({<<"keying_option", "v1">>}) ELSE {})
    [] c \in cap_drbg -> At(<<"mode", "1">>, {<<"entropy_input_len", "v1">>})
    [] c = "RSA_KEYGEN" -> At(<<"m1">>, {}) \cup Top({<<"pub_exp_mode", "FIXED">>})
    [] c \in cap_rsa_sig -> At(<<"PKCS1PSS">>, {})
    [] c \in cap_ecdsa -> At(<<"v1">>, IF c \in cap_ecdsa_sig THEN {<<"place", "first">>} ELSE {})
    [] c \in cap_kas_ecc \cup cap_kas_ffc ->
         At(<<KasMode(c)>>, {<<"prereq", IF c \in cap_kas_ecc THEN "ECDSA" ELSE "DSA">>})
         \cup (IF c = "KAS_ECC_CDH" THEN {} ELSE At(<<KasMode(c), "ephemeral">>, {<<"kdf", "v1">>}))
    [] c = "KTS_IFC" -> At(<<"first">>, {<<"scheme", "v1">>})
    [] c \in cap_kda -> Top({<<"patterns", "v1">>})
                          \cup (IF c = "KDA_TWOSTEP" THEN At(<<"counter">>, {<<"empty_iv_support", "yes">>}) ELSE {})
    [] c \in cap_safe_primes -> {Entry(<<"mode">>)}
    [] OTHER -> Defaults(c)

\* More of it.
Rich(c) ==
  CASE c = "AES_GCM" -> Defaults(c) \cup Top({<<"direction", "v1">>, <<"keylen", "v1">>, <<"taglen", "v1">>,
                          <<"ivgen_source", "INT">>, <<"ivgen_mode", "v1">>, <<"ivlen", "v1">>,
                          <<"payload_len", "v1">>, <<"aad_len", "v1">>})
    [] c = "AES_XTS" -> Top({<<"perform_ctr_tests", "yes">>, <<"dulen_matches_paylen", "no">>,
                          <<"direction", "v1">>, <<"keylen", "v1">>, <<"du_len", "v1">>, <<"ptlen", "v1">>})
    [] c = "RSA_KEYGEN" -> Top({<<"pub_exp_mode", "FIXED">>, <<"fixed_pub_exp", "v1">>}) \cup At(<<"m1">>, {})
                             \cup At(<<"m2">>, {}) \cup At(<<"m2", "2048">>, {<<"pMod8", "v1">>})
    [] c \in cap_rsa_sig -> At(<<"PKCS1PSS">>, {}) \cup At(<<"PKCS1V15">>, {})
                             \cup At(<<"PKCS1PSS", "2048">>, {<<"hash_pair", "v1">>, <<"mask_functions", "v1">>})
    [] c \in cap_ecdsa_sig -> At(<<"v1">>, {<<"place", "first">>}) \cup Top({<<"hash_algs", "v2">>})
                             \cup At(<<"v2">>, {<<"algs", "v1">>, <<"place", "second">>})
    [] c = "KDF108" -> At(<<"feedback">>, {<<"mac_mode", "v1">>, <<"empty_iv_support", "yes">>,
                                           <<"requires_empty_iv", "yes">>})
    [] c = "KDF135_X942" -> Top({<<"type", "DER">>, <<"oids", "v1">>, <<"key_len", "v1">>})

RichKinds == {"AES_GCM", "AES_XTS", "RSA_KEYGEN", "RSA_SIGGEN", "RSA_SIGVER", "KDF108", "KDF135_X942"}
               \cup cap_ecdsa_sig

\* One cipher of each kind.
Kinds == {"AES_GCM", "AES_CCM", "AES_CTR", "AES_XTS", "AES_KW", "AES_CBC", "AES_XPN", "AES_GMAC",
          "AES_GCM_SIV", "AES_CBC_CS1", "TDES_CBC", "TDES_CTR", "TDES_KW", "HASH_SHA1", "HASH_SHA3_224",
          "HASH_SHAKE_128", "HMAC_SHA1", "CMAC_AES", "CMAC_TDES", "KMAC_128", "HASHDRBG", "CTRDRBG",
          "RSA_KEYGEN", "RSA_SIGGEN", "RSA_SIGVER", "RSA_SIGPRIM", "RSA_DECPRIM", "EDDSA_KEYGEN",
          "EDDSA_SIGGEN", "KAS_IFC_SSC", "KTS_IFC", "SAFE_PRIMES_KEYGEN", "LMS_SIGGEN"}
         \cup cap_kas_ecc \cup cap_kas_ffc \cup cap_kda \cup cap_ecdsa \cup cap_dsa \cup cap_kdf

One(c, cap) == [cipher |-> c, cap |-> cap]

\* Nothing; one cipher; or two, the second of which is not complete.
MCContexts ==
  {<<>>} \cup {<<One(c, Basic(c))>> : c \in Kinds} \cup {<<One(c, Rich(c))>> : c \in RichKinds}
  \cup {<<One(c, Rich(c)), One("CMAC_AES", {})>> : c \in {"AES_GCM", "ECDSA_SIGGEN"}}

MCEnabled == {"AES_GCM", "ECDSA_SIGGEN"}
============================================================================
