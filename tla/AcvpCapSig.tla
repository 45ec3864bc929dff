----------------------------- MODULE AcvpCapSig -----------------------------
(***************************************************************************)
(* The capabilities of RSA, ECDSA, EdDSA and DSA: the setters of           *)
(* acvp_capabilities.c, and what acvp_build_register.c makes of them.      *)
(***************************************************************************)
EXTENDS AcvpCapTables

cap_ecdsa_sig == {"ECDSA_SIGGEN", "ECDSA_SIGVER", "DET_ECDSA_SIGGEN"}
cap_ecdsa     == cap_ecdsa_sig \cup {"ECDSA_KEYGEN", "ECDSA_KEYVER"}
cap_eddsa     == {"EDDSA_KEYGEN", "EDDSA_KEYVER", "EDDSA_SIGGEN", "EDDSA_SIGVER"}
cap_dsa       == {"DSA_PQGGEN", "DSA_PQGVER", "DSA_KEYGEN", "DSA_SIGGEN", "DSA_SIGVER"}
cap_rsa_sig   == {"RSA_SIGGEN", "RSA_SIGVER"}
cap_rsa_prim  == {"RSA_SIGPRIM", "RSA_DECPRIM"}
cap_pubkey    == (cap_dsa \cup cap_ecdsa) \cup (cap_eddsa \cup {"RSA_KEYGEN"} \cup cap_rsa_sig
                   \cup cap_rsa_prim)
----------------------------------------------------------------------------
(* RSA.  The first node of the list of modes, or of signature types, is    *)
(* there from the start, without a mode or a type ("none"); it also holds  *)
(* what belongs to the whole capability.                                   *)

Blank == Entry(<<"none">>)

Revision(rev) == Taking(Assigns({"revision"}), {rev})

\* The mode of the public exponent is not checked, and sent as random unless it
\* is FIXED.
PubExpMode == AlsoTaking(Taking(Assigns({"pub_exp_mode"}), {"FIXED", "RANDOM"}), {"odd"})

PubExpSent(cap) ==
  {Setting(<<>>, "pub_exp_mode", IF Is(cap, "pub_exp_mode", "FIXED") THEN "FIXED" ELSE "RANDOM")}
    \cup (IF Is(cap, "pub_exp_mode", "FIXED") THEN Fields(cap, {"fixed_pub_exp"}) ELSE {})

\* An exponent is taken once, and only while the mode is FIXED; otherwise the
\* call succeeds and does nothing.
FixedPubExp == {[r EXCEPT !.fresh = "yes", !.onlyIf = {<<"pub_exp_mode", "FIXED">>}] :
                  r \in Assigns({"fixed_pub_exp"})}

\* Any mode is taken, one without a name too.
acvp_cap_rsa_keygen_set_mode(c) ==
  {[r EXCEPT !.fresh = "yes", !.drops = {Blank}] : r \in Makes({<<"m1">>, <<"m2">>, <<"odd">>})}

\* The standard key format is accepted, and does not take CRT back.
acvp_cap_rsa_keygen_set_parm(c) ==
  PubExpMode \cup Revision("186-4") \cup Flags({"info_gen_by_server"})
  \cup {[r EXCEPT !.idle = {"STANDARD"}] : r \in Taking(Assigns({"key_format"}), {"CRT"})}

acvp_cap_rsa_keygen_set_exponent(c) == FixedPubExp

\* The modulus is created before the value is checked.
acvp_cap_rsa_keygen_set_primes(c) ==
  {[r EXCEPT !.under = "yes"] :
     r \in Early(2, {<<"m1", "2048">>, <<"m2", "2048">>},
                 Adds({"hash_algs", "prime_tests"}) \cup Assigns({"pMod8", "qMod8"}))}

\* pMod8 and qMod8 depend on the revision of the mode's node, and only the first
\* node has one.
acvp_lookup_rsa_primes(cap) ==
  {s \in Fields(cap, {"entry", "hash_algs", "prime_tests", "pMod8", "qMod8"}) :
     ~(s.field \in {"pMod8", "qMod8"} /\ s.at[1] = "m1" /\ Has(cap, "revision"))}

acvp_build_rsa_keygen_register_cap(c, cap) ==
  Fields(cap, {"revision", "info_gen_by_server", "key_format"})
    \cup PubExpSent(cap) \cup acvp_lookup_rsa_primes(cap)

RsaKeygenComplete(cap) == Has(cap, "pub_exp_mode")

acvp_cap_rsa_siggen_set_parm(c) == Revision("186-4")
acvp_cap_rsa_sigver_set_parm(c) == Revision("186-4") \cup PubExpMode
acvp_cap_rsa_sigver_set_exponent(c) == FixedPubExp

SigTypes == {<<"PKCS1V15">>, <<"PKCS1PSS">>}

\* X9.31 needs the old revision.
NamedTypes ==
  {[r EXCEPT !.fresh = "yes", !.drops = {Blank}] : r \in Makes(SigTypes)}
  \cup {[r EXCEPT !.fresh = "yes", !.drops = {Blank}, !.needs = {Setting(<<>>, "revision", "186-4")}] :
          r \in Makes({<<"X931">>})}

\* An unknown type is stored before it is refused,
acvp_cap_rsa_siggen_set_type(c) == NamedTypes \cup Early(1, {<<"odd">>}, Refuse({<<"odd">>}))

\* or leaves a node without a type, which the next type takes.
acvp_cap_rsa_sigver_set_type(c) ==
  NamedTypes \cup {[r EXCEPT !.leaves = {Blank}] : r \in Refuse({<<"odd">>})}

Moduli(types) == {<<t[1], "2048">> : t \in types}

\* A hash with a salt ("salted") is for PSS only.
acvp_cap_rsa_siggen_set_mod_parm(c) ==
  Under(Moduli(SigTypes \cup {<<"X931">>}), Adds({"hash_pair"}))
  \cup Under(Moduli({<<"PKCS1PSS">>}), Taking(Adds({"hash_pair"}), {"salted"}))

\* The salt is not checked: too long a one passes ("oversalted").
acvp_cap_rsa_sigver_set_mod_parm(c) ==
  Under(Moduli(SigTypes \cup {<<"X931">>}), AlsoTaking(Adds({"hash_pair"}), {"salted", "oversalted"}))

acvp_cap_rsa_siggen_set_mod_mask(c) == Under(Moduli({<<"PKCS1PSS">>}), Adds({"mask_functions"}))
acvp_cap_rsa_sigver_set_mod_mask(c) == Under(Moduli({<<"PKCS1PSS">>}), Adds({"mask_functions"}))

\* Only PSS has salts, and mask functions too unless the revision is the old one.
acvp_build_rsa_sig_register_cap(c, cap) ==
  Fields(cap, {"revision", "entry"} \cup (IF Has(cap, "revision") THEN {} ELSE {"mask_functions"}))
  \cup {s \in Fields(cap, {"hash_pair"}) : s.value \in Good \/ s.at[1] = "PKCS1PSS"}
  \cup (IF c = "RSA_SIGVER" THEN PubExpSent(cap) ELSE {})

RsaSigComplete(cap) == Entries(cap, 1) \cap {<<"none">>, <<"odd">>} = {}

\* The key format that is set first is called v1.
KeyFormats ==
  {Row("key_formats", "add", {"v1"}),
   [Row("key_formats", "add", {"v2"}) EXCEPT !.given = {Setting(<<>>, "key_formats", "v1")}]}

\* With the old revision a decryption primitive has no parameters, and none has
\* moduli.
acvp_cap_rsa_prim_set_parm(c) ==
  Revision("1_0")
  \cup {[r EXCEPT !.unless = IF c = "RSA_DECPRIM" THEN {"revision"} ELSE {}] :
          r \in PubExpMode \cup KeyFormats}
  \cup {[r EXCEPT !.unless = {"revision"}] : r \in Adds({"modulo"})}

acvp_cap_rsa_prim_set_exponent(c) ==
  {[r EXCEPT !.unless = IF c = "RSA_DECPRIM" THEN {"revision"} ELSE {}] : r \in FixedPubExp}

\* With the old revision a signature primitive has one key format, the first.
acvp_build_rsa_prim_register_cap(c, cap) ==
  Fields(cap, {"revision"}) \cup PubExpSent(cap)
  \cup (IF ~Has(cap, "revision") THEN Fields(cap, {"key_formats", "modulo"})
        ELSE IF c = "RSA_SIGPRIM" THEN {s \in Fields(cap, {"key_formats"}) : s.value = "v1"} ELSE {})
----------------------------------------------------------------------------
(* ECDSA.                                                                  *)

\* Mutant: the second vector set is not counted.
Component_once == {Row("component", "assign", {"NO", "YES", "BOTH"})}

\* Both kinds of signature make two vector sets.
Component == {[Row("component", "assign", {"NO", "YES", "BOTH"}) EXCEPT !.counts = {"BOTH"}]}

Curves == {<<"v1">>, <<"v2">>, <<"deprecated">>}

\* The list of curves that a signature keeps has an order, by which its builder goes:
\* a new curve is placed behind those that are there.
Nth(before) == CASE before = {} -> "first" [] \E at \in Curves : before = {at} -> "second" [] OTHER -> "third"

Appended ==
  {[Row("place", "add", {Nth(before)}) EXCEPT
      !.at = Curves \ before, !.given = {Entry(at) : at \in before},
      !.lacking = {Entry(at) : at \in Curves \ before}, !.tries = {}] : before \in SUBSET Curves}

\* A curve that is set again is appended as well: its second entry has no hashes, and
\* gets none later, because they are set in the first.
AppendedAgain ==
  {[Row("again", "add", {"appended"}) EXCEPT
      !.at = {at}, !.given = {Entry(at)}, !.lacking = {}, !.tries = {}] : at \in Curves}

\* The curves that are deprecated are accepted for all, and known to the builder
\* for verification only.
acvp_cap_ecdsa_set_parm(c) ==
  (IF c \in cap_ecdsa_sig THEN Appended \cup AppendedAgain ELSE Makes(Curves)) \cup Refuse({<<"odd">>})
  \cup (IF c = "DET_ECDSA_SIGGEN" THEN {} ELSE Revision("1_0"))
  \cup (IF c = "ECDSA_KEYGEN" THEN Adds({"secret_gen_modes"}) ELSE {})
  \cup (IF c \in cap_ecdsa_sig
        THEN Adds({"hash_algs"}) \cup Component ELSE {})

acvp_cap_ecdsa_set_curve_hash_alg(c) ==
  IF c \in cap_ecdsa_sig THEN Under(Curves, Adds({"algs"})) ELSE {}

\* Building adds the hashes set for all curves to those of each curve.
EcdsaMerged(c, cap) ==
  IF c \in cap_ecdsa_sig
  THEN cap \cup {Setting(at, "algs", v) : at \in Entries(cap, 1), v \in Values(cap, "hash_algs")}
  ELSE cap

Repeated(cap, at) == Setting(at, "again", "appended") \in cap

Behind(cap, at, other) ==
  \E p \in {<<"second", "first">>, <<"third", "first">>, <<"third", "second">>} :
    Setting(at, "place", p[1]) \in cap /\ Setting(other, "place", p[2]) \in cap

\* Curves with the same hashes share an object, and a curve that was put into one is
\* passed over from then on.  The second entry of a curve has just the hashes for all
\* curves: if that is also what a curve before it has, then the curve is put beside
\* that one, and what was set for it alone, in its first entry, is never looked at.
Overlooked(cap) ==
  {s \in Fields(cap, {"algs"}) :
     /\ s.value \notin Values(cap, "hash_algs")
     /\ Repeated(cap, s.at)
     /\ \E other \in Entries(cap, 1) :
          /\ Behind(cap, s.at, other)
          /\ \A t \in Fields(cap, {"algs"}) : t.at = other => t.value \in Values(cap, "hash_algs")}

\* A hash for all curves is sent with each.
acvp_build_ecdsa_register_cap(c, cap) ==
  LET merged == EcdsaMerged(c, cap)
  IN  Fields(merged \ Overlooked(cap), {"revision", "component", "entry", "algs", "secret_gen_modes"})
      \cup {s \in Fields(cap, {"hash_algs"}) :
              \A at \in Entries(cap, 1) : Setting(at, "algs", s.value) \in merged}

EcdsaComplete(c, cap) ==
  /\ Entries(cap, 1) # {}
  /\ c \notin {"ECDSA_KEYVER", "ECDSA_SIGVER"} => <<"deprecated">> \notin Entries(cap, 1)
----------------------------------------------------------------------------
(* EdDSA and DSA.                                                          *)

\* A negative number is refused, any other but 0 counts as yes.
acvp_cap_eddsa_set_parm(c) == Adds({"curves"}) \cup Flags({"supports_pure", "supports_prehash"})

acvp_build_eddsa_register_cap(c, cap) ==
  Fields(cap, {"curves"} \cup (IF c \in {"EDDSA_SIGGEN", "EDDSA_SIGVER"}
                               THEN {"supports_pure", "supports_prehash"} ELSE {}))

DsaMode(c)  == CASE c = "DSA_PQGGEN" -> "PQGGEN" [] c = "DSA_PQGVER" -> "PQGVER"
                 [] c = "DSA_KEYGEN" -> "KEYGEN" [] c = "DSA_SIGGEN" -> "SIGGEN" [] OTHER -> "SIGVER"

\* A call names the mode once more: the cipher's own, or by mistake another.
DsaModes(c) == {DsaMode(c), IF c = "DSA_PQGVER" THEN "KEYGEN" ELSE "PQGVER"}

\* The hashes are not checked.
Hashes(m, lens) == Early(1, {<<m, l>> : l \in lens}, AlsoTaking(Adds({"sha"}), {"odd"}))

acvp_add_dsa_keygen_parm(m) ==
  Hashes(m, {"2048_224"}) \cup Early(1, {<<m, "1024_160">>}, Refuse({<<m, "1024_160">>}))
  \cup Early(1, {<<m>>}, Taking(Trying(Adds({"gen_pq", "gen_g"}), Good), {}))

\* The short modulus is for verification only.
acvp_add_dsa_pqggen_parm(m) ==
  Early(1, {<<m>>}, Adds({"gen_pq", "gen_g"}))
  \cup (IF m \in {"SIGVER", "PQGVER"} THEN Hashes(m, {"1024_160", "2048_224"})
        ELSE Hashes(m, {"2048_224"}) \cup Early(1, {<<m, "1024_160">>}, Refuse({<<m, "1024_160">>})))

\* The mode counts as defined before anything is checked.
acvp_cap_dsa_set_parm(c) ==
  UNION {IF m = "KEYGEN" THEN acvp_add_dsa_keygen_parm(m) ELSE acvp_add_dsa_pqggen_parm(m) :
           m \in DsaModes(c)}

\* Only the cipher's own mode is sent; hashes but for key generation, p, q and g
\* for their generation and verification only.
acvp_build_dsa_register_cap(c, cap) ==
  {s \in Fields(cap, {"entry"} \cup (IF c = "DSA_KEYGEN" THEN {} ELSE {"sha"})
                     \cup (IF c \in {"DSA_PQGGEN", "DSA_PQGVER"} THEN {"gen_pq", "gen_g"} ELSE {})) :
     s.at[1] = DsaMode(c) /\ s.value # "odd" /\ ~(s.field = "entry" /\ Len(s.at) = 1)}

DsaComplete(c, cap) ==
  LET own  == {s \in cap : s.at # <<>> /\ s.at[1] = DsaMode(c)}
      lens == Entries(own, 2)
  IN  /\ c = "DSA_PQGGEN" /\ Entries(own, 1) # {} => lens # {}
      /\ c \in {"DSA_PQGGEN", "DSA_PQGVER"} /\ lens # {} => Has(own, "gen_pq") /\ Has(own, "gen_g")
      /\ c # "DSA_KEYGEN" =>
           \A at \in lens : \E v \in Good : Setting(at, "sha", v) \in cap
============================================================================
