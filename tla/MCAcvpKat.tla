------------------------------ MODULE MCAcvpKat ------------------------------
EXTENDS AcvpKatKnown

\* One algorithm for each way through a handler.
KatAlgs ==
  {"AES_ECB", "AES_CBC", "AES_CBC_CS1", "AES_CCM", "AES_GCM", "AES_GCM_SIV", "AES_GMAC",
   "AES_XPN", "AES_XTS", "AES_CTR", "AES_CTR_INT", "AES_KW", "TDES_ECB", "TDES_CBC",
   "TDES_CTR", "HASH_SHA256", "HASH_SHA3_256", "HASH_SHAKE_128", "HASHDRBG",
   "HMAC_SHA2_256", "CMAC_AES", "CMAC_TDES", "KMAC_128", "DSA_KEYGEN", "DSA_PQGGEN",
   "DSA_PQGVER", "DSA_SIGGEN", "DSA_SIGVER", "RSA_KEYGEN", "RSA_SIGGEN", "RSA_SIGVER",
   "RSA_DECPRIM", "RSA_DECPRIM_1_0", "RSA_SIGPRIM", "ECDSA_KEYGEN", "ECDSA_KEYVER",
   "ECDSA_SIGGEN", "ECDSA_SIGVER", "DET_ECDSA_SIGGEN", "EDDSA_KEYGEN", "EDDSA_KEYVER",
   "EDDSA_SIGGEN", "EDDSA_SIGVER", "KDF135_SNMP", "KDF135_SSH", "KDF135_SRTP",
   "KDF135_IKEV2", "KDF135_IKEV1", "KDF135_X942", "KDF135_X963", "KDF108", "KDF108_KMAC",
   "PBKDF", "KDF_TLS12", "KDF_TLS13", "KAS_ECC_CDH", "KAS_ECC_COMP", "KAS_ECC_SSC",
   "KAS_FFC_COMP", "KAS_FFC_SSC", "KAS_IFC_SSC", "KDA_ONESTEP", "KDA_TWOSTEP", "KDA_HKDF",
   "KTS_IFC", "SAFE_PRIMES_KEYGEN", "SAFE_PRIMES_KEYVER", "LMS_KEYGEN", "LMS_SIGGEN",
   "LMS_SIGVER"}
=============================================================================
