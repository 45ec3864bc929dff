--------------------------- MODULE AcvpKatHandlers ---------------------------
(***************************************************************************)
(* alg_tbl of acvp.c: the handler of every algorithm.  RSA_DECPRIM_1_0 is  *)
(* RSA_DECPRIM in its first revision, AES_CTR_INT is AES_CTR with RFC 3686 *)
(* conformance and internal IVs, KDF108_KMAC is KDF108 in the mode KMAC    *)
(* (a mode of the whole vector set).                                       *)
(***************************************************************************)
EXTENDS AcvpKatMac, AcvpKatSig, AcvpKatKeys, AcvpKatCipher, AcvpKatKas, AcvpKatKdf

aes_algs == aes_mct_algs \cup aes_iv_algs \cup aes_auth_algs
              \cup {"AES_CTR", "AES_CTR_INT", "AES_XTS", "AES_XPN"}

des_algs == {"TDES_ECB", "TDES_CBC", "TDES_CBCI", "TDES_OFB", "TDES_OFBI", "TDES_CFB1",
             "TDES_CFB8", "TDES_CFB64", "TDES_CFBP1", "TDES_CFBP8", "TDES_CFBP64",
             "TDES_CTR", "TDES_KW"}

hash_algs == hash_sha3 \cup hash_shake
               \cup {"HASH_SHA1", "HASH_SHA224", "HASH_SHA256", "HASH_SHA384",
                     "HASH_SHA512", "HASH_SHA512_224", "HASH_SHA512_256"}

hmac_algs == {"HMAC_SHA1", "HMAC_SHA2_224", "HMAC_SHA2_256", "HMAC_SHA2_384",
              "HMAC_SHA2_512", "HMAC_SHA2_512_224", "HMAC_SHA2_512_256",
              "HMAC_SHA3_224", "HMAC_SHA3_256", "HMAC_SHA3_384", "HMAC_SHA3_512"}

alg_tbl(a, k) ==
  CASE a \in aes_algs -> acvp_aes(a, k)
    [] a \in des_algs -> acvp_des(a, k)
    [] a \in hash_algs -> acvp_hash(a, k)
    [] a \in {"HASHDRBG", "HMACDRBG", "CTRDRBG"} -> acvp_drbg(a, k)
    [] a \in hmac_algs -> acvp_hmac(a, k)
    [] a \in {"CMAC_AES", "CMAC_TDES"} -> acvp_cmac(a, k)
    [] a \in {"KMAC_128", "KMAC_256"} -> acvp_kmac(a, k)
    [] a \in {"DSA_KEYGEN", "DSA_PQGGEN", "DSA_PQGVER", "DSA_SIGGEN", "DSA_SIGVER"} -> acvp_dsa(a, k)
    [] a = "RSA_KEYGEN" -> acvp_rsa_keygen(a, k)
    [] a \in {"RSA_SIGGEN", "RSA_SIGVER"} -> acvp_rsa_sig(a, k)
    [] a \in {"RSA_DECPRIM", "RSA_DECPRIM_1_0"} -> acvp_rsa_decprim(a, k)
    [] a = "RSA_SIGPRIM" -> acvp_rsa_sigprim(a, k)
    [] a \in {"ECDSA_KEYGEN", "ECDSA_KEYVER", "ECDSA_SIGGEN", "ECDSA_SIGVER",
              "DET_ECDSA_SIGGEN"} -> acvp_ecdsa(a, k)
    [] a \in {"EDDSA_KEYGEN", "EDDSA_KEYVER", "EDDSA_SIGGEN", "EDDSA_SIGVER"} -> acvp_eddsa(a, k)
    [] a = "KDF135_SNMP" -> acvp_kdf135_snmp(a, k)
    [] a = "KDF135_SSH" -> acvp_kdf135_ssh(a, k)
    [] a = "KDF135_SRTP" -> acvp_kdf135_srtp(a, k)
    [] a = "KDF135_IKEV2" -> acvp_kdf135_ikev2(a, k)
    [] a = "KDF135_IKEV1" -> acvp_kdf135_ikev1(a, k)
    [] a = "KDF135_X942" -> acvp_kdf135_x942(a, k)
    [] a = "KDF135_X963" -> acvp_kdf135_x963(a, k)
    [] a \in {"KDF108", "KDF108_KMAC"} -> acvp_kdf108(a, k)
    [] a = "PBKDF" -> acvp_pbkdf(a, k)
    [] a = "KDF_TLS12" -> acvp_kdf_tls12(a, k)
    [] a = "KDF_TLS13" -> acvp_kdf_tls13(a, k)
    [] a \in {"KAS_ECC_CDH", "KAS_ECC_COMP", "KAS_ECC_SSC"} -> acvp_kas_ecc(a, k)
    [] a \in {"KAS_FFC_COMP", "KAS_FFC_SSC"} -> acvp_kas_ffc(a, k)
    [] a = "KAS_IFC_SSC" -> acvp_kas_ifc(a, k)
    [] a \in {"KDA_ONESTEP", "KDA_TWOSTEP", "KDA_HKDF"} -> acvp_kda(a, k)
    [] a = "KTS_IFC" -> acvp_kts_ifc(a, k)
    [] a \in {"SAFE_PRIMES_KEYGEN", "SAFE_PRIMES_KEYVER"} -> acvp_safe_primes(a, k)
    [] a \in {"LMS_KEYGEN", "LMS_SIGGEN", "LMS_SIGVER"} -> acvp_lms(a, k)

\* The locals that the handler assigns for a group from the last test before it.
alg_leaves(a) ==
  IF a \in {"KDA_ONESTEP", "KDA_TWOSTEP", "KDA_HKDF"} THEN kda_leaves ELSE {}

\* The features a group of the vector set may have.
alg_kinds(a) ==
  CASE a \in aes_algs -> aes_kinds(a)
    [] a \in des_algs -> des_kinds(a)
    [] a \in hash_algs -> hash_kinds(a)
    [] a \in {"HASHDRBG", "HMACDRBG", "CTRDRBG"} -> drbg_kinds(a)
    [] a \in {"CMAC_AES", "CMAC_TDES"} -> SUBSET {"verify"}
    [] a \in {"KMAC_128", "KMAC_256"} -> kmac_kinds
    [] a \in {"DSA_PQGGEN", "DSA_PQGVER"} -> dsa_pqg_kinds
    [] a = "RSA_KEYGEN" -> rsa_keygen_kinds
    [] a \in {"RSA_DECPRIM", "RSA_SIGPRIM"} -> SUBSET {"crt"}
    [] a = "EDDSA_SIGGEN" -> SUBSET {"context"}
    [] a = "KDF135_IKEV1" -> ikev1_kinds
    [] a \in {"KDF108", "KDF108_KMAC"} -> kdf108_kinds(a)
    [] a = "KDF_TLS13" -> tls13_kinds
    [] a \in {"KAS_ECC_COMP", "KAS_ECC_SSC"} -> kas_ecc_kinds
    [] a \in {"KAS_FFC_COMP", "KAS_FFC_SSC"} -> kas_ffc_kinds
    [] a = "KAS_IFC_SSC" -> kas_ifc_kinds
    [] a \in {"KDA_ONESTEP", "KDA_TWOSTEP", "KDA_HKDF"} -> kda_kinds(a)
    [] a = "KTS_IFC" -> kts_ifc_kinds
    [] OTHER -> {{}}
=============================================================================
