---------------------------- MODULE AcvpRegister ----------------------------
(***************************************************************************)
(* Registering capabilities: an application enables algorithms and sets    *)
(* their parameters (acvp_capabilities.c), in any order and with any       *)
(* mistakes, and the library builds the registration from them             *)
(* (acvp_build_register.c), possibly more than once.                       *)
(***************************************************************************)
EXTENDS AcvpCapCipher, AcvpCapSig, AcvpCapKas

CONSTANTS
  Contexts,   \* lists of capabilities with which an application has begun
  Enabled,    \* the ciphers it may enable after that
  MaxCalls    \* bound on its calls after that

VARIABLES
  caps_list,  \* a sequence of capabilities: the cipher, and its settings
  vs_count,   \* how many vector sets the library expects
  calls,      \* how many calls were made
  rv,         \* what the last call returned
  pc,         \* "idle", or in acvp_build_registration_json: "build", "second"
  idx,        \* the capability the builder is at
  reg,        \* the objects of the registration
  begun       \* caps_list when the builder was called

vars == <<caps_list, vs_count, calls, rv, pc, idx, reg, begun>>

Locate(list, c) == {i \in 1..Len(list) : list[i].cipher = c}
----------------------------------------------------------------------------
(* What a cipher has: its setters, and its builder.                        *)

\* The algorithms that may be named as prerequisites.
acvp_validate_prereq_val(c) ==
  CASE c \in cap_aes -> {"AES", "DRBG"}
    [] c \in {"TDES_ECB", "TDES_CBC", "TDES_OFB", "TDES_CFB1", "TDES_CFB8", "TDES_CFB64", "TDES_KW"} ->
         {"TDES"}
    [] c \in cap_hmac \cup {"HASHDRBG", "KDF135_X942", "KDF135_X963"} -> {"SHA"}
    [] c = "HMACDRBG"                        -> {"SHA", "HMAC"}
    [] c = "CTRDRBG"                         -> {"AES", "TDES"}
    [] c = "CMAC_AES"                        -> {"SHA", "AES"}
    [] c = "CMAC_TDES"                       -> {"SHA", "TDES"}
    [] c \in cap_pubkey \cup {"KDF135_IKEV1", "KDF135_IKEV2"} -> {"SHA", "DRBG"}
    [] c \in {"KDF135_SNMP", "KDF135_SSH"}   -> {"SHA", "HMAC", "TDES", "AES"}
    [] c = "KDF135_SRTP"                     -> {"AES"}
    [] c = "KDF108"                          -> {"DRBG", "HMAC", "CMAC", "KMAC", "KAS"}
    [] c \in {"PBKDF", "KDF_TLS13"}          -> {"HMAC"}
    [] c = "KDF_TLS12"                       -> {"HMAC", "SHA"}
    [] c = "KAS_ECC_CDH"                     -> {"ECDSA"}
    [] c \in cap_kas_ecc \ {"KAS_ECC_CDH"}   -> {"DRBG", "HMAC", "CMAC", "SHA", "CCM", "ECDSA"}
    [] c \in cap_kas_ffc                     -> {"DRBG", "HMAC", "CMAC", "SHA", "SAFE_PRIMES", "CCM", "DSA"}
    [] c \in {"KAS_IFC_SSC", "KTS_IFC"}      -> {"DRBG", "HMAC", "SHA", "RSA", "RSADP"}
    [] c = "KDA_ONESTEP"                     -> {"DRBG", "HMAC", "KMAC", "SHA"}
    [] c \in {"KDA_TWOSTEP", "KDA_HKDF"}     -> {"DRBG", "HMAC", "SHA"}
    [] c \in cap_safe_primes                 -> {"DRBG", "SHA"}
    [] c \in cap_lms                         -> {"SHA"}
    [] OTHER                                 -> {}

\* A capability has prerequisites from the first call on, even if the algorithm it
\* names is then refused; a call without a value is refused before.
acvp_cap_set_prereq(c) ==
  {[Row("prereq", "add", acvp_validate_prereq_val(c)) EXCEPT
      !.tries = {"other"}, !.leaves = {Setting(<<>>, "has_prereq", "yes")}],
   [Row("prereq", "add", {}) EXCEPT !.tries = {"empty"}]}

Setters(c) ==
  CASE c \in cap_sym      -> acvp_cap_sym_cipher_set_parm(c) \cup acvp_cap_sym_cipher_set_domain(c)
    [] c \in cap_hash     -> acvp_cap_hash_set_parm(c) \cup acvp_cap_hash_set_domain(c)
    [] c \in cap_hmac     -> acvp_cap_hmac_set_parm(c) \cup acvp_cap_hmac_set_domain(c)
    [] c \in cap_cmac     -> acvp_cap_cmac_set_parm(c) \cup acvp_cap_cmac_set_domain(c)
    [] c \in cap_kmac     -> acvp_cap_kmac_set_parm(c) \cup acvp_cap_kmac_set_domain(c)
    [] c \in cap_drbg     -> acvp_cap_drbg_set_parm(c) \cup acvp_cap_drbg_set_length(c)
    [] c = "RSA_KEYGEN"   -> acvp_cap_rsa_keygen_set_mode(c) \cup acvp_cap_rsa_keygen_set_parm(c)
                               \cup acvp_cap_rsa_keygen_set_exponent(c)
                               \cup acvp_cap_rsa_keygen_set_primes(c)
    [] c = "RSA_SIGGEN"   -> acvp_cap_rsa_siggen_set_parm(c) \cup acvp_cap_rsa_siggen_set_type(c)
                               \cup acvp_cap_rsa_siggen_set_mod_parm(c)
                               \cup acvp_cap_rsa_siggen_set_mod_mask(c)
    [] c = "RSA_SIGVER"   -> acvp_cap_rsa_sigver_set_parm(c) \cup acvp_cap_rsa_sigver_set_type(c)
                               \cup acvp_cap_rsa_sigver_set_exponent(c)
                               \cup acvp_cap_rsa_sigver_set_mod_parm(c)
                               \cup acvp_cap_rsa_sigver_set_mod_mask(c)
    [] c \in cap_rsa_prim -> acvp_cap_rsa_prim_set_parm(c) \cup acvp_cap_rsa_prim_set_exponent(c)
    [] c \in cap_ecdsa    -> acvp_cap_ecdsa_set_parm(c) \cup acvp_cap_ecdsa_set_curve_hash_alg(c)
    [] c \in cap_eddsa    -> acvp_cap_eddsa_set_parm(c)
    [] c \in cap_dsa      -> acvp_cap_dsa_set_parm(c)
    [] c = "KDF135_SNMP"  -> acvp_cap_kdf135_snmp_set_parm(c) \cup acvp_cap_kdf135_snmp_set_engid(c)
    [] c = "KDF135_SSH"   -> acvp_cap_kdf135_ssh_set_parm(c)
    [] c = "KDF135_SRTP"  -> acvp_cap_kdf135_srtp_set_parm(c)
    [] c = "KDF135_IKEV2" -> acvp_cap_kdf135_ikev2_set_parm(c) \cup acvp_cap_kdf135_ikev2_set_length(c)
                               \cup acvp_cap_kdf135_ikev2_set_domain(c)
    [] c = "KDF135_IKEV1" -> acvp_cap_kdf135_ikev1_set_parm(c) \cup acvp_cap_kdf135_ikev1_set_domain(c)
    [] c = "KDF135_X942"  -> acvp_cap_kdf135_x942_set_parm(c) \cup acvp_cap_kdf135_x942_set_domain(c)
    [] c = "KDF135_X963"  -> acvp_cap_kdf135_x963_set_parm(c)
    [] c = "KDF108"       -> acvp_cap_kdf108_set_parm(c) \cup acvp_cap_kdf108_set_domain(c)
    [] c = "PBKDF"        -> acvp_cap_pbkdf_set_parm(c) \cup acvp_cap_pbkdf_set_domain(c)
    [] c = "KDF_TLS12"    -> acvp_cap_kdf_tls12_set_parm(c)
    [] c = "KDF_TLS13"    -> acvp_cap_kdf_tls13_set_parm(c)
    [] c \in cap_kas_ecc  -> acvp_cap_kas_ecc_set_prereq(c) \cup acvp_cap_kas_ecc_set_parm(c)
                               \cup acvp_cap_kas_ecc_set_scheme(c)
    [] c \in cap_kas_ffc  -> acvp_cap_kas_ffc_set_prereq(c) \cup acvp_cap_kas_ffc_set_parm(c)
                               \cup acvp_cap_kas_ffc_set_scheme(c)
    [] c = "KAS_IFC_SSC"  -> acvp_cap_kas_ifc_set_parm(c) \cup acvp_cap_kas_ifc_set_exponent(c)
    [] c = "KTS_IFC"      -> acvp_cap_kts_ifc_set_parm(c) \cup acvp_cap_kts_ifc_set_param_string(c)
                               \cup acvp_cap_kts_ifc_set_scheme_parm(c)
                               \cup acvp_cap_kts_ifc_set_scheme_string(c)
    [] c = "KDA_TWOSTEP"  -> acvp_cap_kda_twostep_set_parm(c) \cup acvp_cap_kda_twostep_set_domain(c)
    [] c \in cap_kda \ {"KDA_TWOSTEP"} -> acvp_cap_kda_set_parm(c) \cup acvp_cap_kda_set_domain(c)
    [] c \in cap_safe_primes -> acvp_cap_safe_primes_set_parm(c)
    [] c \in cap_lms      -> acvp_cap_lms_set_parm(c) \cup acvp_cap_lms_set_mode_compatability_pair(c)

Rows(c) == Setters(c) \cup acvp_cap_set_prereq(c)

\* The builder of the cipher's object; KDF108 has a second one for KMAC.
Builder(c, cap) ==
  CASE c \in cap_sym      -> acvp_build_sym_cipher_register_cap(c, cap)
    [] c \in cap_hash     -> acvp_build_hash_register_cap(c, cap)
    [] c \in cap_hmac     -> acvp_build_hmac_register_cap(c, cap)
    [] c \in cap_cmac     -> acvp_build_cmac_register_cap(c, cap)
    [] c \in cap_kmac     -> acvp_build_kmac_register_cap(c, cap)
    [] c \in cap_drbg     -> acvp_build_drbg_register_cap(c, cap)
    [] c = "RSA_KEYGEN"   -> acvp_build_rsa_keygen_register_cap(c, cap)
    [] c \in cap_rsa_sig  -> acvp_build_rsa_sig_register_cap(c, cap)
    [] c \in cap_rsa_prim -> acvp_build_rsa_prim_register_cap(c, cap)
    [] c \in cap_ecdsa    -> acvp_build_ecdsa_register_cap(c, cap)
    [] c \in cap_eddsa    -> acvp_build_eddsa_register_cap(c, cap)
    [] c \in cap_dsa      -> acvp_build_dsa_register_cap(c, cap)
    [] c = "KDF135_SNMP"  -> acvp_build_kdf135_snmp_register_cap(c, cap)
    [] c = "KDF135_SSH"   -> acvp_build_kdf135_ssh_register_cap(c, cap)
    [] c = "KDF135_SRTP"  -> acvp_build_kdf135_srtp_register_cap(c, cap)
    [] c = "KDF135_IKEV2" -> acvp_build_kdf135_ikev2_register_cap(c, cap)
    [] c = "KDF135_IKEV1" -> acvp_build_kdf135_ikev1_register_cap(c, cap)
    [] c = "KDF135_X942"  -> acvp_build_kdf135_x942_register_cap(c, cap)
    [] c = "KDF135_X963"  -> acvp_build_kdf135_x963_register_cap(c, cap)
    [] c = "KDF108"       -> acvp_build_kdf108_register_cap(c, cap)
    [] c = "PBKDF"        -> acvp_build_pbkdf_register_cap(c, cap)
    [] c = "KDF_TLS12"    -> acvp_build_kdf_tls12_register_cap(c, cap)
    [] c = "KDF_TLS13"    -> acvp_build_kdf_tls13_register_cap(c, cap)
    [] c \in cap_kas_ecc  -> acvp_build_kas_ecc_register_cap(c, cap)
    [] c \in cap_kas_ffc  -> acvp_build_kas_ffc_register_cap(c, cap)
    [] c = "KAS_IFC_SSC"  -> acvp_build_kas_ifc_register_cap(c, cap)
    [] c = "KTS_IFC"      -> acvp_build_kts_ifc_register_cap(c, cap)
    [] c = "KDA_ONESTEP"  -> acvp_build_kda_onestep_register_cap(c, cap)
    [] c = "KDA_TWOSTEP"  -> acvp_build_kda_twostep_register_cap(c, cap)
    [] c = "KDA_HKDF"     -> acvp_build_kda_hkdf_register_cap(c, cap)
    [] c \in cap_safe_primes -> acvp_build_safe_primes_register_cap(c, cap)
    [] c \in cap_lms      -> acvp_build_lms_register_cap(c, cap)

\* Whether a builder succeeds.
Complete(c, cap) ==
  CASE c \in cap_sym     -> SymComplete(c, cap)
    [] c \in cap_cmac    -> CmacComplete(c, cap)
    [] c \in cap_drbg    -> DrbgComplete(cap)
    [] c = "RSA_KEYGEN"  -> RsaKeygenComplete(cap)
    [] c \in cap_rsa_sig -> RsaSigComplete(cap)
    [] c \in cap_ecdsa   -> EcdsaComplete(c, cap)
    [] c \in cap_dsa     -> DsaComplete(c, cap)
    [] c \in cap_kas_ecc -> KasEccComplete(c, cap)
    [] c \in cap_kas_ffc -> KasFfcComplete(c, cap)
    [] c = "KAS_IFC_SSC" -> KasIfcComplete(cap)
    [] c = "KTS_IFC"     -> KtsComplete(cap)
    [] c \in cap_kda     -> KdaComplete(c, cap)
    [] c \in cap_safe_primes -> SafePrimesComplete(cap)
    [] OTHER             -> TRUE

\* Hashes and EdDSA do not send prerequisites, and KAS sends those of its mode; the
\* list of others is sent even if it is empty.
acvp_lookup_prereqVals(c, cap) ==
  IF \/ c \in cap_hash \cup cap_eddsa \cup cap_kas_ecc \cup cap_kas_ffc
     \/ c = "KDA_TWOSTEP" /\ ~SeemsEnabled(cap)
  THEN {}
  ELSE Fields(cap, {"prereq"})
       \cup {s \in {Setting(<<>>, "has_prereq", "yes")} :
               \/ Has(cap, "prereq")
               \/ Has(cap, "has_prereq") /\ c \notin {"KAS_IFC_SSC", "KTS_IFC"} \cup cap_safe_primes \cup cap_lms}

Object(c, cap)     == acvp_lookup_prereqVals(c, cap) \cup Builder(c, cap)
KmacObject(c, cap) == acvp_lookup_prereqVals(c, cap) \cup acvp_build_kdf108_kmac_register_cap(c, cap)
----------------------------------------------------------------------------
(* Enabling and setting.                                                   *)

\* What a new capability holds that is not 0.
Defaults(c) ==
  CASE c \in cap_sym     -> {Setting(<<>>, f, "yes") : f \in {"perform_ctr_tests", "dulen_matches_paylen"}}
    [] c \in cap_rsa_sig \cup {"RSA_KEYGEN"} -> {Blank}
    [] c = "KDF135_X942" -> X942Defaults
    [] OTHER             -> {}

\* One of the calls of an application.
Call == pc = "idle" /\ calls < MaxCalls /\ calls' = calls + 1

Return(r) ==
  /\ rv' = r
  /\ idx' = 1
  /\ reg' = <<>>
  /\ begun' = <<>>
  /\ UNCHANGED pc

\* A cipher is enabled once.
acvp_cap_list_append(c) ==
  /\ Call
  /\ IF Locate(caps_list, c) # {}
     THEN Return("DUP_CIPHER") /\ UNCHANGED <<caps_list, vs_count>>
     ELSE /\ Return("SUCCESS")
          /\ caps_list' = Append(caps_list, [cipher |-> c, cap |-> Defaults(c)])
          /\ vs_count' = vs_count + 1

\* A parameter is set, or the setter refuses.
SetParameter(i, row, at, v) ==
  LET cap == caps_list[i].cap
      ok  == Accepted(row, cap, at, v)
  IN  /\ Call
      /\ Return(IF ok THEN "SUCCESS" ELSE "INVALID_ARG")
      /\ caps_list' = [caps_list EXCEPT ![i].cap = After(row, @, at, v)]
      /\ vs_count' = IF ok /\ v \in row.counts THEN vs_count + 1 ELSE vs_count

\* A cipher that is not enabled has no parameters.
SetWithout(c) ==
  /\ Call
  /\ Locate(caps_list, c) = {}
  /\ Return("NO_CAP")
  /\ UNCHANGED <<caps_list, vs_count>>
----------------------------------------------------------------------------
(* acvp_build_registration_json.                                           *)

\* A capability of which two objects are made, by turning a field that says "both"
\* into the one and then the other.
Both(c, cap) ==
  \/ c \in {"AES_GCM", "AES_XPN", "AES_GMAC", "AES_CTR"} /\ Is(cap, "ivgen_source", "EITHER")
  \/ c \in cap_ecdsa_sig /\ Is(cap, "component", "BOTH")

Turned(c, cap, half) ==
  LET f == IF c \in cap_sym THEN "ivgen_source" ELSE "component"
      v == CASE half = "first"  -> IF c \in cap_sym THEN "INT" ELSE "NO"
             [] half = "second" -> IF c \in cap_sym THEN "EXT" ELSE "YES"
             [] half = "both"   -> IF c \in cap_sym THEN "EITHER" ELSE "BOTH"
  IN  (cap \ Fields(cap, {f})) \cup {Setting(<<>>, f, v)}

acvp_build_registration_json ==
  /\ pc = "idle"
  /\ IF caps_list = <<>>
     THEN rv' = "NO_CAP" /\ UNCHANGED <<pc, idx, reg, begun>>
     ELSE /\ pc' = "build"
          /\ idx' = 1
          /\ reg' = <<>>
          /\ begun' = caps_list
          /\ rv' = "SUCCESS"
  /\ UNCHANGED <<caps_list, vs_count, calls>>

Fail ==
  /\ pc' = "idle"
  /\ rv' = "FAILED"
  /\ reg' = <<>>
  /\ UNCHANGED idx

\* The object is finished, and with the last one the registration.
Finish(o) ==
  /\ reg' = Append(reg, o)
  /\ IF idx = Len(caps_list) THEN pc' = "idle" /\ UNCHANGED idx ELSE pc' = "build" /\ idx' = idx + 1
  /\ UNCHANGED rv

Stores(cap) == caps_list' = [caps_list EXCEPT ![idx].cap = cap]

BuildOnly ==
  LET c == caps_list[idx].cipher
      cap == caps_list[idx].cap
  IN  /\ pc = "build"
      /\ ~Both(c, cap)
      /\ c = "KDF108" => Entry(<<"KMAC">>) \notin cap
      /\ IF Complete(c, cap) THEN Finish(Object(c, cap)) ELSE Fail
      /\ Stores(EcdsaMerged(c, cap))
      /\ UNCHANGED <<vs_count, calls, begun>>

BuildFirst ==
  LET c == caps_list[idx].cipher
      cap == Turned(c, caps_list[idx].cap, "first")
  IN  /\ pc = "build"
      /\ Both(c, caps_list[idx].cap)
      /\ IF Complete(c, cap)
         THEN /\ reg' = Append(reg, Object(c, cap))
              /\ Stores(Turned(c, EcdsaMerged(c, cap), "second"))
              /\ pc' = "second"
              /\ UNCHANGED <<idx, rv>>
         ELSE /\ Fail
              /\ Stores(Turned(c, EcdsaMerged(c, cap), "both"))
      /\ UNCHANGED <<vs_count, calls, begun>>

\* Mutant: the field is not turned back.
BuildSecond_kept ==
  LET c == caps_list[idx].cipher
      cap == caps_list[idx].cap
  IN  /\ pc = "second"
      /\ c # "KDF108"
      /\ IF Complete(c, cap) THEN Finish(Object(c, cap)) ELSE Fail
      /\ Stores(EcdsaMerged(c, cap))
      /\ UNCHANGED <<vs_count, calls, begun>>

BuildSecond ==
  LET c == caps_list[idx].cipher
      cap == caps_list[idx].cap
  IN  /\ pc = "second"
      /\ c # "KDF108"
      /\ IF Complete(c, cap) THEN Finish(Object(c, cap)) ELSE Fail
      /\ Stores(Turned(c, EcdsaMerged(c, cap), "both"))
      /\ UNCHANGED <<vs_count, calls, begun>>

\* KMAC is an object of its own, and so are the other modes, if there is one.
BuildKmac ==
  LET cap == caps_list[idx].cap
  IN  /\ pc = "build"
      /\ caps_list[idx].cipher = "KDF108"
      /\ Entry(<<"KMAC">>) \in cap
      /\ IF Entry(<<"feedback">>) \in cap
         THEN reg' = Append(reg, KmacObject("KDF108", cap)) /\ pc' = "second" /\ UNCHANGED <<idx, rv>>
         ELSE Finish(KmacObject("KDF108", cap))
      /\ UNCHANGED <<caps_list, vs_count, calls, begun>>

BuildModes ==
  /\ pc = "second"
  /\ caps_list[idx].cipher = "KDF108"
  /\ Finish(Object("KDF108", caps_list[idx].cap))
  /\ UNCHANGED <<caps_list, vs_count, calls, begun>>
----------------------------------------------------------------------------
Ciphers == (cap_sym \cup cap_hash \cup cap_hmac \cup cap_cmac \cup cap_kmac \cup cap_drbg)
             \cup (cap_pubkey \cup cap_kdf \cup cap_kas_ecc \cup cap_kas_ffc)
             \cup (cap_kda \cup cap_safe_primes \cup cap_lms \cup {"KAS_IFC_SSC", "KTS_IFC"})

Settings == [at : Seq(STRING), field : STRING, value : STRING]

\* The fields that a call may set in a capability, and those that are assigned.
Settable(c) ==
  {s.field : s \in Defaults(c)}
  \cup UNION {{s.field : s \in row.gives \cup row.leaves}
              \cup (IF row.takes = {} THEN {} ELSE {row.field})
              \cup (IF row.at = {<<>>} /\ row.early = 0 THEN {} ELSE {"entry"}) : row \in Rows(c)}

Assigned(c) == {row.field : row \in {r \in Rows(c) : r.takes # {} /\ r.how \in {"assign", "range"}}}

\* What calls make of a capability: a field that is assigned has one value in a
\* place, and a mode of KDF108 in which something is set is enabled.
WellFormed(c, cap) ==
  /\ \A s \in cap : s.field \in Settable(c)
  /\ \A s, t \in cap : s.field \in Assigned(c) /\ s.field = t.field /\ s.at = t.at => s = t
  /\ c = "KDF108" => \A s \in cap : s.at # <<>> => Entry(s.at) \in cap

\* An application begins with capabilities that calls have made, each of another
\* cipher, and of which one object each is made: Init has counted them.  The fields
\* that are turned are in no entry.
ASSUME ContextsAssumption ==
  /\ Contexts \subseteq Seq([cipher : STRING, cap : SUBSET Settings])
  /\ \A list \in Contexts : \A i \in 1..Len(list) :
       /\ list[i].cipher \in Ciphers
       /\ \A j \in 1..Len(list) : list[i].cipher = list[j].cipher => i = j
       /\ WellFormed(list[i].cipher, list[i].cap)
       /\ ~Both(list[i].cipher, list[i].cap)
       /\ \A s \in Fields(list[i].cap, {"ivgen_source", "component"}) : s.at = <<>>

\* An application enables ciphers the library knows.
ASSUME EnabledAssumption == Enabled \subseteq Ciphers

Init ==
  /\ caps_list \in Contexts
  /\ vs_count = Len(caps_list)
  /\ calls = 0
  /\ rv = "SUCCESS"
  /\ pc = "idle"
  /\ idx = 1
  /\ reg = <<>>
  /\ begun = <<>>

Next ==
  \/ \E c \in Enabled : acvp_cap_list_append(c)
  \/ \E i \in 1..Len(caps_list) : \E row \in Rows(caps_list[i].cipher) :
       /\ Applies(row, caps_list[i].cap)
       /\ \E at \in row.at, v \in Tries(row) : SetParameter(i, row, at, v)
  \/ \E c \in Enabled : SetWithout(c)
  \/ acvp_build_registration_json
  \/ BuildOnly
  \/ BuildFirst
  \/ BuildSecond
  \/ BuildKmac
  \/ BuildModes

Spec == Init /\ [][Next]_vars
----------------------------------------------------------------------------
(* Properties.                                                             *)

\* What is registered of a capability, if it is.
Registered(c, cap) ==
  IF Both(c, cap) THEN Object(c, Turned(c, cap, "first")) \cup Object(c, Turned(c, cap, "second"))
  ELSE IF c = "KDF108" /\ Entry(<<"KMAC">>) \in cap
       THEN KmacObject(c, cap) \cup (IF Entry(<<"feedback">>) \in cap THEN Object(c, cap) ELSE {})
       ELSE Object(c, cap)

Buildable(c, cap) == Complete(c, IF Both(c, cap) THEN Turned(c, cap, "first") ELSE cap)

Same(list, other) ==
  {ij \in (1..Len(list)) \X (1..Len(other)) : list[ij[1]].cipher = other[ij[2]].cipher}

\* The families all of whose parameters are for the server, at any time.
Plain == cap_hash \cup cap_hmac \cup cap_kmac \cup {"CMAC_AES"} \cup cap_ecdsa
           \cup (cap_kdf \ {"KDF108", "KDF135_X942"})
           \cup {"KAS_IFC_SSC"} \cup cap_safe_primes \cup cap_lms

\* A hash of a curve that is in the list of an ECDSA signature twice, behind another one.
OfRepeated(c, cap, s) ==
  /\ c \in cap_ecdsa_sig /\ s.field = "algs"
  /\ Repeated(cap, s.at) /\ \E other \in Entries(cap, 1) : Behind(cap, s.at, other)

\* Every sensible parameter that was accepted is registered: the builders of these
\* families overlook nothing their setters take, in whatever order it was set, but
\* for the pairs of LMS modes, and the hashes of a curve that was set once more and
\* is not the first: the builder may put its second entry beside the curve before it, and
\* then skips the entry with the hashes (acvp_build_register.c:1620).
SettingsAreRegistered ==
  \A i \in 1..Len(caps_list) :
    LET c == caps_list[i].cipher
        cap == caps_list[i].cap
    IN  pc = "idle" /\ c \in Plain =>
          {s \in cap : /\ s.value \in Good \cup Flag
                       /\ s.field \notin {"has_prereq", "specific_list", "place", "again"}
                       /\ ~OfRepeated(c, cap, s)}
            \subseteq Registered(c, cap)

\* The fields that count or not, depending on another.
RuledBy(f) ==
  CASE f = "revision"         -> {"mask_functions", "key_formats", "modulo", "pMod8", "qMod8",
                                  "perform_multi_expansion_tests"}
    [] f = "pub_exp_mode"     -> {"fixed_pub_exp"}
    [] f = "ivgen_source"     -> {"ivgen_mode"}
    [] f = "empty_iv_support" -> {"requires_empty_iv"}
    [] f = "type"             -> {"oids"}
    [] OTHER                  -> {}

\* What may disappear: a scheme of KAS takes the place of the one before, in KTS the
\* last one is sent, and KDA in two steps is only sent as long as a flag that has
\* nothing to do with it is set.
Replaceable(c, s) ==
  \/ c \in cap_kas_ecc \cup cap_kas_ffc /\ Len(s.at) >= 2
  \/ c = "KTS_IFC" /\ s.at # <<>>
  \/ c = "KDA_TWOSTEP"

\* A call that succeeds takes nothing back that would have been registered, but for
\* the former value of the field it sets, and of fields that one rules, and for hashes
\* of a curve that is in the list twice, behind another one.
AcceptedKeepsOthers ==
  [][pc = "idle" /\ pc' = "idle" /\ rv' = "SUCCESS" =>
       \A ij \in Same(caps_list, caps_list') :
         LET c   == caps_list[ij[1]].cipher
             old == caps_list[ij[1]].cap
             new == caps_list'[ij[2]].cap
         IN  \A s \in Registered(c, old) \ Registered(c, new) :
               \/ Replaceable(c, s)
               \/ OfRepeated(c, new, s)
               \/ \E t \in new \ old : s.field \in {t.field} \cup RuledBy(t.field)]_vars

\* The ciphers whose setters make an entry before they check what is set in it.
EntryFirst == cap_drbg \cup cap_dsa \cup cap_rsa_sig \cup cap_kas_ecc \cup cap_kas_ffc \cup cap_kda
                \cup {"RSA_KEYGEN", "KDF108"}

\* A call that is refused changes nothing of what is registered, or whether it can
\* be; only the list of prerequisites may appear, empty.
RefusedChangesNothing ==
  [][pc = "idle" /\ pc' = "idle" /\ rv' = "INVALID_ARG" =>
       /\ vs_count' = vs_count
       /\ \A ij \in Same(caps_list, caps_list') :
            LET c   == caps_list[ij[1]].cipher
                old == caps_list[ij[1]].cap
                new == caps_list'[ij[2]].cap
            IN  c \notin EntryFirst =>
                  /\ Registered(c, new) \ Registered(c, old) \subseteq {Setting(<<>>, "has_prereq", "yes")}
                  /\ Registered(c, old) \subseteq Registered(c, new)
                  /\ Buildable(c, new) <=> Buildable(c, old)]_vars

\* However the building of the registration ends, the next one is the same: the
\* fields that were turned are turned back.
BuildRestores ==
  pc = "idle" /\ begun # <<>> =>
    \A i \in 1..Len(begun) :
      /\ Registered(begun[i].cipher, caps_list[i].cap) = Registered(begun[i].cipher, begun[i].cap)
      /\ Both(begun[i].cipher, caps_list[i].cap) <=> Both(begun[i].cipher, begun[i].cap)

\* KMAC beside another mode of KDF108 makes an object that is not counted.
Uncounted == {i \in 1..Len(caps_list) :
                caps_list[i].cipher = "KDF108" /\ {Entry(<<"KMAC">>), Entry(<<"feedback">>)} \subseteq caps_list[i].cap}

\* The library never expects fewer vector sets than objects it registers.
VsCountCovers ==
  pc = "idle" /\ rv = "SUCCESS" => Len(reg) <= vs_count + Cardinality(Uncounted)

============================================================================
