----------------------------- MODULE AcvpCapKas -----------------------------
(***************************************************************************)
(* The capabilities of key agreement, key transport, the key derivation    *)
(* they use, safe primes and LMS: the setters of acvp_capabilities.c, and  *)
(* what acvp_build_register.c makes of them.                               *)
(***************************************************************************)
EXTENDS AcvpCapKdf

cap_kas_ecc == {"KAS_ECC_CDH", "KAS_ECC_COMP", "KAS_ECC_NOCOMP", "KAS_ECC_SSC"}
cap_kas_ffc == {"KAS_FFC_COMP", "KAS_FFC_NOCOMP", "KAS_FFC_SSC"}
cap_kda     == {"KDA_ONESTEP", "KDA_TWOSTEP", "KDA_HKDF"}
cap_safe_primes == {"SAFE_PRIMES_KEYGEN", "SAFE_PRIMES_KEYVER"}
cap_lms     == {"LMS_KEYGEN", "LMS_SIGGEN", "LMS_SIGVER"}

\* Values that are not looked at until the registration is built.
Unchecked(F) == AlsoTaking(Adds(F), {"odd"})

\* A hash that does not exist is refused only if its number is no sum of others.
HashZ == {[Row("hash", "assign", Good \cup {"odd"}) EXCEPT !.tries = {"out"}]}

\* Other parameters than these are refused.
NoOther(places) == In(places, Trying(Taking(Adds({"other"}), {}), {"v1"}))
----------------------------------------------------------------------------
(* KAS-ECC and KAS-FFC.  A capability has an array of modes, and each call *)
(* names one: the cipher's own, or by mistake another.                     *)

KasMode(c) ==
  CASE c = "KAS_ECC_CDH"                      -> "CDH"
    [] c \in {"KAS_ECC_COMP", "KAS_FFC_COMP"} -> "COMPONENT"
    [] c \in {"KAS_ECC_SSC", "KAS_FFC_SSC"}   -> "NONE"
    [] OTHER                                  -> "NOCOMP"

KasModes(c) == {KasMode(c), IF KasMode(c) = "NONE" THEN "COMPONENT" ELSE "NONE"}

\* The settings in the mode that is registered.
Own(c, cap) == {s \in cap : s.at # <<>> /\ s.at[1] = KasMode(c)}

Prereqs(c, algs) == In({<<m>> : m \in KasModes(c)}, Trying(Taking(Adds({"prereq"}), algs), {"other"}))

acvp_cap_kas_ecc_set_prereq(c) == Prereqs(c, {"CCM", "CMAC", "DRBG", "ECDSA", "HMAC", "SHA"})
acvp_cap_kas_ffc_set_prereq(c) ==
  Prereqs(c, {"CCM", "CMAC", "DRBG", "DSA", "HMAC", "SHA", "SAFE_PRIMES"})

\* One function too many passes ("limit").
Functions == AlsoTaking(Adds({"function"}), {"limit"})

acvp_cap_kas_ecc_set_parm(c) ==
  UNION {NoOther({<<m>>}) \cup In({<<m>>},
           CASE m \in {"CDH", "NONE"} ->
                  (Functions \cup HashZ) \cup AlsoTaking(Adds({"curve"}), {"deprecated"})
                  \cup Taking(Assigns({"revision"}), IF c = "KAS_ECC_CDH" THEN {"56Ar3"} ELSE {})
                  \cup {[Row("none", "assign", {}) EXCEPT !.idle = IF c = "KAS_ECC_SSC" THEN {"v1"} ELSE {}]}
             [] m = "COMPONENT" -> Functions
             [] OTHER           -> {}) : m \in KasModes(c)}

acvp_cap_kas_ffc_set_parm(c) ==
  UNION {NoOther({<<m>>}) \cup In({<<m>>},
           CASE m = "NONE"      -> Unchecked({"genmeth"}) \cup HashZ
             [] m = "COMPONENT" -> Functions
             [] OTHER           -> {}) : m \in KasModes(c)}

\* A scheme that is not there is made before anything is checked, and takes the
\* place of the list of the others.
InScheme(places, rows) == {[r EXCEPT !.alone = "yes"] : r \in Early(2, places, rows)}

Schemes(m) == {<<m, "ephemeral">>, <<m, "v2">>}

\* The parameters of a scheme that both kinds have.
SchemeParms(m) ==
  InScheme(Schemes(m), AlsoTaking(Assigns({"kdf"}), {"PARMSET"}) \cup Adds({"role"}))
  \cup Refuse({<<m, "odd">>})

\* The set of a scheme takes its curve with the first hash, and keeps it.
acvp_cap_kas_ecc_set_scheme(c) ==
  UNION {IF m = "CDH" THEN Refuse(Schemes(m))
         ELSE SchemeParms(m)
              \cup InScheme(Schemes(m), Makes(Schemes(m)))
              \cup InScheme(Schemes(m), NoOther(Schemes(m)))
              \cup UNION {LET set == Append(at, "set")
                          IN  InScheme({set}, {[r EXCEPT !.given = {Entry(set)}] : r \in Unchecked({"sha"})})
                              \cup InScheme({set},
                                     {[r EXCEPT !.lacking = {Entry(set)}, !.gives = {Setting(set, "curve", v)}] :
                                        r \in Unchecked({"sha"}), v \in {"v1", "odd"}}) : at \in Schemes(m)} :
         m \in KasModes(c)}

acvp_cap_kas_ffc_set_scheme(c) ==
  UNION {SchemeParms(m)
         \cup InScheme(Schemes(m), NoOther(Schemes(m)))
         \cup InScheme({Append(at, set) : at \in Schemes(m), set \in {"set", "modp"}}, Unchecked({"sha"})) :
         m \in KasModes(c)}

\* A capability without prerequisites cannot be registered, nor one of the mode
\* NOCOMP.  The one scheme is the ephemeral one.
KasComplete(c, own) ==
  /\ Has(own, "prereq")
  /\ KasMode(c) # "NOCOMP"
  /\ KasMode(c) # "CDH" => Entries(own, 2) \subseteq {<<KasMode(c), "ephemeral">>}

KasEccComplete(c, cap) ==
  LET own == Own(c, cap)
  IN  /\ KasComplete(c, own)
      /\ KasMode(c) = "CDH" => "limit" \notin Values(own, "function")
      /\ KasMode(c) = "NONE" => "odd" \notin Values(own, "hash")
      /\ KasMode(c) \in {"CDH", "NONE"} => "deprecated" \notin Values(own, "curve")
      /\ KasMode(c) = "COMPONENT" =>
           Values(own, "function") \subseteq {"v1"} /\ "odd" \notin Values(own, "sha") \cup Values(own, "curve")

\* The sets of a scheme are sent under its KDF.
acvp_build_kas_ecc_register_cap(c, cap) ==
  LET own  == Own(c, cap)
      sent == CASE KasMode(c) = "CDH"  -> {"revision", "function", "curve"}
                [] KasMode(c) = "NONE" -> {"entry", "role", "curve", "hash"}
                [] OTHER               -> {"entry", "function", "role", "kdf", "sha", "curve"}
  IN  {s \in Fields(own, {"prereq"} \cup sent) :
         Len(s.at) = 3 => KasMode(c) = "COMPONENT" /\ Values(own, "kdf") \cap Good # {}}

KasFfcComplete(c, cap) ==
  LET own == Own(c, cap)
  IN  /\ KasComplete(c, own)
      /\ KasMode(c) = "NONE" => "odd" \notin Values(own, "hash") \cup Values(own, "genmeth")
      /\ KasMode(c) = "COMPONENT" =>
           /\ "limit" \notin Values(own, "function")
           /\ "odd" \notin Values(own, "sha")
           /\ \A at \in Entries(own, 3) : at[3] = "set"
           /\ Entries(own, 2) # {} => Values(own, "kdf") \cap Good # {}

acvp_build_kas_ffc_register_cap(c, cap) ==
  {s \in Fields(Own(c, cap), {"prereq", "entry", "role"}
                  \cup (IF KasMode(c) = "NONE" THEN {"hash", "genmeth"} ELSE {"function", "kdf", "sha"})) :
     Len(s.at) = 3 => KasMode(c) = "COMPONENT"}
----------------------------------------------------------------------------
(* KAS-IFC and KTS-IFC.  Their names, too, are sent with prerequisites     *)
(* only.                                                                   *)

acvp_cap_kas_ifc_set_parm(c) ==
  Unchecked({"kas1_roles", "kas2_roles", "keygen_method", "modulo"}) \cup HashZ \cup NoOther({<<>>})
acvp_cap_kas_ifc_set_exponent(c) == Assigns({"fixed_pub_exp"})

acvp_build_kas_ifc_register_cap(c, cap) ==
  Fields(cap, {"kas1_roles", "kas2_roles", "keygen_method", "modulo", "hash", "fixed_pub_exp"})

KasIfcComplete(cap) ==
  \A f \in {"kas1_roles", "kas2_roles", "keygen_method", "hash"} : "odd" \notin Values(cap, f)

\* Schemes are appended, whatever they are; the first two stand for any number.
AppendScheme ==
  {[r EXCEPT !.at = {<<"first">>}, !.lacking = {Entry(<<"first">>)}, !.tries = {}] : r \in Assigns({"scheme"})}
  \cup {[r EXCEPT !.at = {<<"second">>}, !.given = {Entry(<<"first">>)}, !.lacking = {Entry(<<"second">>)},
                  !.tries = {}] : r \in Assigns({"scheme"})}

acvp_cap_kts_ifc_set_parm(c) ==
  Unchecked({"keygen_method", "functions", "modulo"}) \cup AppendScheme \cup NoOther({<<>>})
acvp_cap_kts_ifc_set_param_string(c) == Assigns({"fixed_pub_exp", "iut_id"}) \cup NoOther({<<>>})

\* A call names a scheme: it gets the first if that is the one, and otherwise the
\* second, whatever that is.
AtScheme(rows) ==
  UNION {LET named == Setting(<<"first">>, "scheme", v)
         IN  {[r EXCEPT !.at = {<<"first">>}, !.given = {named}] : r \in rows}
             \cup {[r EXCEPT !.at = {<<"second">>}, !.given = {Entry(<<"second">>)}, !.lacking = {named}] :
                     r \in rows}
             \cup {[r EXCEPT !.at = {<<"second">>}, !.lacking = {Entry(<<"second">>), named},
                             !.takes = {}, !.tries = {"v1"}] : r \in rows} : v \in Good}

acvp_cap_kts_ifc_set_scheme_parm(c) ==
  AtScheme(Trying(Flags({"null_assoc_data"}), {}) \cup AlsoTaking(Assigns({"l"}), {"odd"}) \cup Unchecked({"roles", "hash"}))
acvp_cap_kts_ifc_set_scheme_string(c) == AtScheme(Assigns({"assoc_data_pattern", "encodings"}))

\* Every scheme is sent under the same name: the last one remains.
acvp_build_kts_ifc_register_cap(c, cap) ==
  LET last == IF Entry(<<"second">>) \in cap THEN <<"second">> ELSE <<"first">>
  IN  {s \in cap : s.field \notin {"prereq", "has_prereq", "scheme", "entry"} /\ s.at \in {<<>>, last}}

KtsComplete(cap) ==
  /\ Entry(<<"first">>) \in cap
  /\ \A f \in {"keygen_method", "functions", "roles", "hash"} : "odd" \notin Values(cap, f)
----------------------------------------------------------------------------
(* KDA.                                                                    *)

\* A literal that was set before is freed before the new one is checked.
Literal ==
  {[Row("literal", "assign", Good) EXCEPT
      !.gives = {Setting(<<>>, "patterns", "LITERAL")}, !.loses = {Setting(<<>>, "literal", v) : v \in Good}],
   [Row("literal", "assign", {}) EXCEPT !.tries = {"null"}]}

KdaParms ==
  (Literal \cup Adds({"patterns", "mac_salt_methods"}))
  \cup Taking(Assigns({"revision"}), {"56Cr1"}) \cup Taking(Adds({"encodings"}), {"v1"})
  \cup Assigns({"l"})

\* For the new revision: secrets of the hybrid kind, and tests with more than one
\* expansion.
Hybrid(rows) == {[r EXCEPT !.unless = {"revision"}] : r \in rows}

NewRevision == Hybrid(Unchecked({"aux_secret_len.values"})) \cup Trying(Flags({"perform_multi_expansion_tests"}), {})

KdaRanges(c) ==
  AlsoTaking(Ranges({"z"}), {"rev", "zero"})
  \cup (IF c = "KDA_ONESTEP" THEN {} ELSE Hybrid(AlsoTaking(Ranges({"aux_secret_len"}), {"rev", "zero"})))

\* The pattern T is for one step.
acvp_cap_kda_set_parm(c) ==
  KdaParms
  \cup (IF c = "KDA_ONESTEP" THEN AlsoTaking(Adds({"patterns"}), {"T"}) \cup Adds({"aux_functions"})
        ELSE Trying(Adds({"patterns"}), {"T"}) \cup Adds({"hmac_algs"}) \cup NewRevision)

acvp_cap_kda_set_domain(c) == KdaRanges(c)

\* One of two modes stands for counter and feedback.
Modes2 == {<<"counter">>, <<"dpi">>}

\* A mode is enabled before the rest is checked.
acvp_cap_kda_twostep_set_parm(c) ==
  (KdaParms \cup NewRevision) \cup AlsoTaking(Adds({"patterns"}), {"T"})
  \cup Refuse({<<"odd">>})
  \cup Early(1, Modes2, Adds({"mac_mode", "data_order", "counter_lens"})
                          \cup Unchecked({"supported_lens.values"})
                          \cup Trying(Flags({"empty_iv_support"}), {}))
  \cup UNION {Early(1, {m}, {[r EXCEPT !.needs = {Setting(m, "empty_iv_support", "yes")}, !.tries = {}] :
                              r \in Flags({"requires_empty_iv"})}) : m \in Modes2}

acvp_cap_kda_twostep_set_domain(c) ==
  KdaRanges(c) \cup Early(1, Modes2, Trying(AlsoTaking(Ranges({"supported_lens"}), {"odd", "rev"}), {"zero"}))

\* Whether a mode is enabled is looked up as if the capability were one of KDF108.
\* On a 64-bit machine that is where the revision is, and the flags of the empty
\* IV in counter and feedback mode.
SeemsEnabled(cap) ==
  \/ Has(cap, "revision")
  \/ \E f \in {"empty_iv_support", "requires_empty_iv"} : Setting(<<"counter">>, f, "yes") \in cap

KdaComplete(c, cap) ==
  \/ c = "KDA_TWOSTEP" /\ ~SeemsEnabled(cap)
  \/ /\ Has(cap, "patterns")
     /\ "LITERAL" \in Values(cap, "patterns") => Has(cap, "literal")

\* What the three send, and two with the new revision.
KdaSent(cap) == Fields(cap, {"revision", "patterns", "literal", "encodings", "l", "z"})

NewRevisionSent(cap) ==
  Fields(cap, {"aux_secret_len", "aux_secret_len.values"}
              \cup (IF Has(cap, "revision") THEN {} ELSE {"perform_multi_expansion_tests"}))

\* The methods of salting are sent with every auxiliary function.
acvp_build_kda_onestep_register_cap(c, cap) ==
  KdaSent(cap) \cup Fields(cap, {"aux_functions"}
                                \cup (IF Has(cap, "aux_functions") THEN {"mac_salt_methods"} ELSE {}))

acvp_build_kda_hkdf_register_cap(c, cap) ==
  (KdaSent(cap) \cup NewRevisionSent(cap)) \cup Fields(cap, {"hmac_algs", "mac_salt_methods"})

\* If no mode seems enabled, an object without content is taken for a success; what
\* the modes have in common is sent with each.
acvp_build_kda_twostep_register_cap(c, cap) ==
  LET common == KdaSent(cap) \cup Fields(cap, {"mac_salt_methods"})
  IN  IF ~SeemsEnabled(cap) THEN {}
      ELSE NewRevisionSent(cap)
           \cup (IF Entries(cap, 1) # {} THEN common ELSE Fields(common, {"revision", "l", "z"}))
           \cup UNION {acvp_build_kdf108_mode_register({s \in cap : s.at = m}) : m \in Modes2}
----------------------------------------------------------------------------
(* Safe primes and LMS.                                                    *)

\* Whatever the parameter, the mode is there after it, and the call succeeds.
acvp_cap_safe_primes_set_parm(c) == In({<<"mode">>}, Unchecked({"genmeth"})) \cup Makes({<<"mode">>})

acvp_build_safe_primes_register_cap(c, cap) == Fields(cap, {"entry", "genmeth"})

SafePrimesComplete(cap) == Entry(<<"mode">>) \in cap /\ "odd" \notin Values(cap, "genmeth")

\* An unknown parameter is accepted, and ignored.
acvp_cap_lms_set_parm(c) ==
  Adds({"lms_modes", "lmots_modes"}) \cup {[Row("other", "assign", {}) EXCEPT !.idle = {"v1"}, !.tries = {}]}
acvp_cap_lms_set_mode_compatability_pair(c) == Adds({"specific_list"})

\* The objects of the pairs are made, but not put into the registration.
acvp_build_lms_register_cap(c, cap) == Fields(cap, {"lms_modes", "lmots_modes"})
============================================================================
