------------------------- MODULE AcvpRegisterProofs -------------------------
(***************************************************************************)
(* Theorems about AcvpRegister, for any contexts, ciphers and numbers of   *)
(* calls.                                                                  *)
(***************************************************************************)
EXTENDS AcvpRegister, FiniteSetTheorems, TLAPS

----------------------------------------------------------------------------
(* Turning a field and merging hashes.                                     *)

\* The ciphers of which two objects may be made, and the field that says so.
Twofold == {"AES_GCM", "AES_XPN", "AES_GMAC", "AES_CTR"} \cup cap_ecdsa_sig
TurnedField(c) == IF c \in cap_sym THEN "ivgen_source" ELSE "component"

\* The families of ciphers that are turned have different fields.
LEMMA TwofoldFamilies ==
  ASSUME NEW c
  PROVE  /\ c \in {"AES_GCM", "AES_XPN", "AES_GMAC", "AES_CTR"} => c \in cap_sym /\ c \notin cap_ecdsa_sig
         /\ c \in cap_ecdsa_sig => c \notin cap_sym /\ c \in cap_ecdsa /\ c # "KDF108"
<1>. QED BY DEF cap_sym, cap_aes, cap_tdes, cap_ecdsa_sig, cap_ecdsa

\* Turning a field leaves the other fields.
LEMMA TurnedRest ==
  ASSUME NEW c, NEW cap, NEW half
  PROVE  /\ \A s \in Turned(c, cap, half) : s.field # TurnedField(c) => s \in cap
         /\ \A s \in cap : s.field # TurnedField(c) => s \in Turned(c, cap, half)
         /\ \A s \in Turned(c, cap, half) : s.field = TurnedField(c) => s.at = <<>>
<1>. QED BY DEF Turned, TurnedField, Fields, Setting

\* What a turned capability is depends on the other fields only.
LEMMA TurnedSame ==
  ASSUME NEW c, NEW a, NEW b, NEW half,
         \A s \in a : s.field # TurnedField(c) => s \in b,
         \A s \in b : s.field # TurnedField(c) => s \in a
  PROVE  Turned(c, a, half) = Turned(c, b, half)
<1>. DEFINE f == TurnedField(c)
<1>1. a \ Fields(a, {f}) = b \ Fields(b, {f})
  BY DEF Fields
<1>. QED BY <1>1 DEF Turned, TurnedField

\* Turning twice is turning once.
LEMMA TurnedTwice ==
  ASSUME NEW c, NEW cap, NEW half, NEW other
  PROVE  Turned(c, Turned(c, cap, half), other) = Turned(c, cap, other)
<1>. QED BY TurnedRest, TurnedSame

\* A field that is set once has one value.
LEMMA OneValue ==
  ASSUME NEW cap, NEW f, NEW v
  PROVE  Values((cap \ Fields(cap, {f})) \cup {Setting(<<>>, f, v)}, f) = {v}
<1>. DEFINE x == Setting(<<>>, f, v)
            new == (cap \ Fields(cap, {f})) \cup {x}
<1>1. x.field = f /\ x.value = v
  BY DEF Setting
<1>2. {t \in new : t.field = f} = {x}
  BY <1>1 DEF Fields
<1>3. Values(new, f) = {s.value : s \in {x}}
  BY <1>2 DEF Values
<1>4. {s.value : s \in {x}} = {v}
  BY <1>1
<1>. QED BY <1>3, <1>4

\* A capability that is turned back makes two objects.
LEMMA TurnedBack ==
  ASSUME NEW c \in Twofold, NEW cap
  PROVE  Both(c, Turned(c, cap, "both"))
<1>. DEFINE f == TurnedField(c)
            v == IF c \in cap_sym THEN "EITHER" ELSE "BOTH"
<1>1. Turned(c, cap, "both") = (cap \ Fields(cap, {f})) \cup {Setting(<<>>, f, v)}
  BY DEF Turned, TurnedField
<1>2. Values(Turned(c, cap, "both"), f) = {v}
  BY <1>1, OneValue
<1>. QED BY <1>2, TwofoldFamilies DEF Both, Is, TurnedField, Twofold
\* The ciphers of ECDSA belong to no other family.
LEMMA EcdsaFamily ==
  ASSUME NEW c \in cap_ecdsa_sig
  PROVE  /\ c \in cap_ecdsa
         /\ c \notin cap_sym \cup cap_hash \cup cap_hmac \cup cap_cmac \cup cap_kmac \cup cap_drbg
         /\ c \notin cap_rsa_sig \cup cap_rsa_prim \cup cap_eddsa \cup cap_dsa
         /\ c \notin cap_kas_ecc \cup cap_kas_ffc \cup cap_kda \cup cap_safe_primes \cup cap_lms
         /\ c \notin cap_kdf \cup {"RSA_KEYGEN", "KAS_IFC_SSC", "KTS_IFC"}
<1>1. c \in {"ECDSA_SIGGEN", "ECDSA_SIGVER", "DET_ECDSA_SIGGEN"}
  BY DEF cap_ecdsa_sig
<1>2. c \notin cap_sym \cup cap_hash
  BY <1>1 DEF cap_sym, cap_aes, cap_tdes, cap_hash, cap_sha2, cap_sha3, cap_shake
<1>3. c \notin cap_hmac \cup cap_cmac \cup cap_kmac \cup cap_drbg
  BY <1>1 DEF cap_hmac, cap_cmac, cap_kmac, cap_drbg
<1>4. c \notin cap_rsa_sig \cup cap_rsa_prim \cup cap_eddsa \cup cap_dsa
  BY <1>1 DEF cap_rsa_sig, cap_rsa_prim, cap_eddsa, cap_dsa
<1>5. c \notin cap_kas_ecc \cup cap_kas_ffc \cup cap_kda \cup cap_safe_primes \cup cap_lms
  BY <1>1 DEF cap_kas_ecc, cap_kas_ffc, cap_kda, cap_safe_primes, cap_lms
<1>6. c \notin cap_kdf \cup {"RSA_KEYGEN", "KAS_IFC_SSC", "KTS_IFC"}
  BY <1>1 DEF cap_kdf
<1>. QED BY <1>2, <1>3, <1>4, <1>5, <1>6 DEF cap_ecdsa

\* The object of an ECDSA signature.
LEMMA EcdsaObject ==
  ASSUME NEW c \in cap_ecdsa_sig, NEW cap
  PROVE  /\ Builder(c, cap) = acvp_build_ecdsa_register_cap(c, cap)
         /\ acvp_lookup_prereqVals(c, cap) =
              Fields(cap, {"prereq"}) \cup {s \in {Setting(<<>>, "has_prereq", "yes")} :
                                             Has(cap, "prereq") \/ Has(cap, "has_prereq")}
<1>1. c \notin {"KDF135_SNMP", "KDF135_SSH", "KDF135_SRTP", "KDF135_IKEV2", "KDF135_IKEV1", "KDF135_X942",
                "KDF135_X963", "KDF108", "PBKDF", "KDF_TLS12", "KDF_TLS13", "KDA_ONESTEP", "KDA_TWOSTEP",
                "KDA_HKDF", "RSA_KEYGEN", "KAS_IFC_SSC", "KTS_IFC"}
  BY DEF cap_ecdsa_sig
<1>2. Builder(c, cap) = acvp_build_ecdsa_register_cap(c, cap)
  BY <1>1, EcdsaFamily, Zenon DEF Builder
<1>3. acvp_lookup_prereqVals(c, cap) =
              Fields(cap, {"prereq"}) \cup {s \in {Setting(<<>>, "has_prereq", "yes")} :
                                             Has(cap, "prereq") \/ Has(cap, "has_prereq")}
  BY <1>1, EcdsaFamily DEF acvp_lookup_prereqVals
<1>. QED BY <1>2, <1>3
\* What merging adds: hashes of curves.
LEMMA MergedRest ==
  ASSUME NEW c, NEW cap
  PROVE  /\ cap \subseteq EcdsaMerged(c, cap)
         /\ \A s \in EcdsaMerged(c, cap) : s.field # "algs" => s \in cap
         /\ c \notin cap_ecdsa_sig => EcdsaMerged(c, cap) = cap
<1>. QED BY DEF EcdsaMerged, Setting

\* The values and entries of a capability are those of its fields.
LEMMA ValuesSame ==
  ASSUME NEW a, NEW b, NEW f, \A s : s.field = f => (s \in a <=> s \in b)
  PROVE  Values(a, f) = Values(b, f) /\ Fields(a, {f}) = Fields(b, {f})
<1>1. {t \in a : t.field = f} = {t \in b : t.field = f}
  OBVIOUS
<1>. QED BY <1>1 DEF Values, Fields

\* The entries of a capability are settings of one field.
LEMMA EntriesSame ==
  ASSUME NEW a, NEW b, NEW d, \A s : s.field = "entry" => (s \in a <=> s \in b)
  PROVE  Entries(a, d) = Entries(b, d)
<1>1. {t \in a : t.field = "entry" /\ Len(t.at) = d} = {t \in b : t.field = "entry" /\ Len(t.at) = d}
  OBVIOUS
<1>. QED BY <1>1 DEF Entries

\* What is overlooked depends on the hashes set for a curve alone, those set for all,
\* and the list of curves.
LEMMA OverlookedSame ==
  ASSUME NEW a, NEW b, Entries(a, 1) = Entries(b, 1), Values(a, "hash_algs") = Values(b, "hash_algs"),
         \A s : s.field \in {"place", "again"} => (s \in a <=> s \in b),
         \A s : s.field = "algs" /\ s.value \notin Values(a, "hash_algs") => (s \in a <=> s \in b)
  PROVE  Overlooked(a) = Overlooked(b)
<1>1. /\ \A at, v : Setting(at, "place", v) \in a <=> Setting(at, "place", v) \in b
      /\ \A at, v : Setting(at, "again", v) \in a <=> Setting(at, "again", v) \in b
  BY DEF Setting
<1>2. \A at : Repeated(a, at) <=> Repeated(b, at)
  BY <1>1 DEF Repeated
<1>3. \A at, other : Behind(a, at, other) <=> Behind(b, at, other)
  BY <1>1 DEF Behind
<1>. DEFINE U == Values(a, "hash_algs")
            NoneOwn(x, other) == \A t \in Fields(x, {"algs"}) : t.at = other => t.value \in U
<1>4. \A other : NoneOwn(a, other) <=> NoneOwn(b, other)
  BY DEF Fields
<1>5. \A s : s \in Overlooked(a) <=> /\ s \in a /\ s.field = "algs" /\ s.value \notin U /\ Repeated(a, s.at)
                                     /\ \E other \in Entries(a, 1) : Behind(a, s.at, other) /\ NoneOwn(a, other)
  BY DEF Overlooked, Fields
<1>6. \A s : s \in Overlooked(b) <=> /\ s \in b /\ s.field = "algs" /\ s.value \notin U /\ Repeated(b, s.at)
                                     /\ \E other \in Entries(b, 1) : Behind(b, s.at, other) /\ NoneOwn(b, other)
  BY DEF Overlooked, Fields
<1>. HIDE DEF NoneOwn, U
<1>7. \A s : s \in Overlooked(a) <=> s \in Overlooked(b)
  BY <1>2, <1>3, <1>4, <1>5, <1>6 DEF U
<1>8. \A s \in Overlooked(a) : s \in a
  BY <1>5
<1>. QED BY <1>7, <1>8

\* It is hashes, of a curve that was set once more.
LEMMA OverlookedHashes ==
  ASSUME NEW cap, NEW s \in Overlooked(cap)
  PROVE  /\ s \in cap /\ s.field = "algs" /\ s.value \notin Values(cap, "hash_algs")
         /\ Repeated(cap, s.at) /\ \E other \in Entries(cap, 1) : Behind(cap, s.at, other)
BY DEF Overlooked, Fields

\* Merging some of the hashes before makes no difference to the object.
LEMMA MergedObject ==
  ASSUME NEW c \in cap_ecdsa_sig, NEW a, NEW b, a \subseteq b, b \subseteq EcdsaMerged(c, a)
  PROVE  Object(c, a) = Object(c, b)
<1>1. \A s : s.field # "algs" => (s \in a <=> s \in b)
  BY MergedRest
<1>2. /\ Fields(a, {"hash_algs"}) = Fields(b, {"hash_algs"})
      /\ Values(a, "hash_algs") = Values(b, "hash_algs")
  BY <1>1, ValuesSame
<1>3. Entries(a, 1) = Entries(b, 1)
  BY <1>1, EntriesSame
<1>4. EcdsaMerged(c, a) = EcdsaMerged(c, b)
  BY <1>2, <1>3 DEF EcdsaMerged
<1>o. Overlooked(a) = Overlooked(b)
  <2>1. \A s \in EcdsaMerged(c, a) : s \in a \/ s.value \in Values(a, "hash_algs")
    BY DEF EcdsaMerged, Setting
  <2>2. \A s : s.field \in {"place", "again"} => (s \in a <=> s \in b)
    BY <1>1
  <2>3. \A s : s.value \notin Values(a, "hash_algs") => (s \in a <=> s \in b)
    BY <2>1
  <2>. QED BY <1>2, <1>3, <2>2, <2>3, OverlookedSame
<1>5. acvp_build_ecdsa_register_cap(c, a) = acvp_build_ecdsa_register_cap(c, b)
  BY <1>2, <1>3, <1>4, <1>o DEF acvp_build_ecdsa_register_cap
<1>6. /\ Fields(a, {"prereq"}) = Fields(b, {"prereq"})
      /\ Has(a, "prereq") <=> Has(b, "prereq")
      /\ Has(a, "has_prereq") <=> Has(b, "has_prereq")
  <2>1. \A s : s.field = "prereq" \/ s.field = "has_prereq" => (s \in a <=> s \in b)
    BY <1>1
  <2>2. Values(a, "prereq") = Values(b, "prereq") /\ Fields(a, {"prereq"}) = Fields(b, {"prereq"})
    BY <2>1, ValuesSame
  <2>3. Values(a, "has_prereq") = Values(b, "has_prereq")
    BY <2>1, ValuesSame
  <2>. QED BY <2>2, <2>3 DEF Has
<1>7. acvp_lookup_prereqVals(c, a) = acvp_lookup_prereqVals(c, b)
  <2>1. {s \in {Setting(<<>>, "has_prereq", "yes")} : Has(a, "prereq") \/ Has(a, "has_prereq")} =
        {s \in {Setting(<<>>, "has_prereq", "yes")} : Has(b, "prereq") \/ Has(b, "has_prereq")}
    BY <1>6
  <2>. QED BY <1>6, <2>1, EcdsaObject
<1>. QED BY <1>5, <1>7, EcdsaObject DEF Object

\* Merging commutes with turning.
LEMMA MergedTurned ==
  ASSUME NEW c \in cap_ecdsa_sig, NEW cap, NEW half
  PROVE  /\ Turned(c, cap, half) \subseteq Turned(c, EcdsaMerged(c, cap), half)
         /\ Turned(c, EcdsaMerged(c, cap), half) \subseteq EcdsaMerged(c, Turned(c, cap, half))
<1>. DEFINE m == EcdsaMerged(c, cap)
            t == Turned(c, cap, half)
            u == Turned(c, m, half)
<1>f. TurnedField(c) = "component"
  BY TwofoldFamilies DEF TurnedField
<1>1. cap \subseteq m
  BY MergedRest
<1>2. t \subseteq u
  BY <1>1 DEF Turned, Fields
<1>3. \A s : s.field # "component" => (s \in t <=> s \in cap) /\ (s \in u <=> s \in m)
  BY <1>f, TurnedRest
<1>4. \A s \in u : s.field = "component" => s \in t
  BY <1>f DEF Turned, Fields, TurnedField
<1>5. Entries(cap, 1) = Entries(t, 1) /\ Values(cap, "hash_algs") = Values(t, "hash_algs")
  BY <1>3, EntriesSame, ValuesSame
<1>6. \A s \in m \ cap : s \in EcdsaMerged(c, t)
  BY <1>5 DEF EcdsaMerged
<1>7. t \subseteq EcdsaMerged(c, t)
  BY MergedRest
<1>. QED BY <1>2, <1>3, <1>4, <1>6, <1>7
----------------------------------------------------------------------------
(* The next registration is the same.                                      *)

\* What a builder makes of the settings of cap, it makes of other.
SameBuilt(c, cap, other) ==
  /\ Registered(c, other) = Registered(c, cap)
  /\ Both(c, other) <=> Both(c, cap)

\* Only of some ciphers are two objects made.
LEMMA BothTwofold ==
  ASSUME NEW c, NEW cap, Both(c, cap)
  PROVE  c \in Twofold
<1>. QED BY DEF Both, Twofold

\* A field that says "both" is turned back to that.
LEMMA TurnedBackSame ==
  ASSUME NEW c, NEW cap, Both(c, cap)
  PROVE  SameBuilt(c, cap, Turned(c, cap, "both"))
<1>1. Both(c, Turned(c, cap, "both"))
  BY BothTwofold, TurnedBack
<1>2. \A h : Turned(c, Turned(c, cap, "both"), h) = Turned(c, cap, h)
  BY TurnedTwice
<1>. QED BY <1>1, <1>2 DEF SameBuilt, Registered

\* Merging before turning back makes no difference.
LEMMA MergedBackSame ==
  ASSUME NEW c \in Twofold, NEW cap
  PROVE  SameBuilt(c, Turned(c, cap, "both"), Turned(c, EcdsaMerged(c, cap), "both"))
<1>. DEFINE m == EcdsaMerged(c, cap)
<1>1. Both(c, Turned(c, cap, "both")) /\ Both(c, Turned(c, m, "both"))
  BY TurnedBack
<1>2. \A h : /\ Turned(c, Turned(c, cap, "both"), h) = Turned(c, cap, h)
             /\ Turned(c, Turned(c, m, "both"), h) = Turned(c, m, h)
  BY TurnedTwice
<1>3. ASSUME NEW h
      PROVE  Object(c, Turned(c, cap, h)) = Object(c, Turned(c, m, h))
  <2>1. CASE c \in cap_ecdsa_sig
    BY <2>1, MergedTurned, MergedObject
  <2>2. CASE c \notin cap_ecdsa_sig
    BY <2>2, MergedRest
  <2>. QED BY <2>1, <2>2
<1>4. \A x : Both(c, x) => Registered(c, x) = Object(c, Turned(c, x, "first")) \cup Object(c, Turned(c, x, "second"))
  BY DEF Registered
<1>5. Registered(c, Turned(c, cap, "both")) = Object(c, Turned(c, cap, "first")) \cup Object(c, Turned(c, cap, "second"))
  BY <1>1, <1>2, <1>4
<1>6. Registered(c, Turned(c, m, "both")) = Object(c, Turned(c, m, "first")) \cup Object(c, Turned(c, m, "second"))
  BY <1>1, <1>2, <1>4
<1>. QED BY <1>1, <1>3, <1>5, <1>6 DEF SameBuilt

\* Merging, where one object is made, makes no difference.
LEMMA MergedSame ==
  ASSUME NEW c, NEW cap, ~Both(c, cap)
  PROVE  SameBuilt(c, cap, EcdsaMerged(c, cap))
<1>1. CASE c \in cap_ecdsa_sig
  <2>1. Object(c, cap) = Object(c, EcdsaMerged(c, cap))
    BY <1>1, MergedRest, MergedObject
  <2>2. Values(cap, "component") = Values(EcdsaMerged(c, cap), "component")
    <3>1. \A s : s.field = "component" => (s \in cap <=> s \in EcdsaMerged(c, cap))
      BY MergedRest
    <3>. QED BY <3>1, ValuesSame
  <2>3. c \notin {"AES_GCM", "AES_XPN", "AES_GMAC", "AES_CTR"} /\ c # "KDF108"
    BY <1>1 DEF cap_ecdsa_sig
  <2>4. Both(c, EcdsaMerged(c, cap)) <=> Both(c, cap)
    BY <2>2, <2>3 DEF Both, Is
  <2>. QED BY <2>1, <2>3, <2>4 DEF SameBuilt, Registered
<1>2. CASE c \notin cap_ecdsa_sig
  BY <1>2, MergedRest DEF SameBuilt
<1>. QED BY <1>1, <1>2
\* What caps_list is: a sequence of capabilities.
IsList(l)       == l \in Seq({l[i] : i \in DOMAIN l})
IsCapability(x) == x = [cipher |-> x.cipher, cap |-> x.cap]

ListInv ==
  /\ IsList(caps_list)
  /\ \A i \in 1..Len(caps_list) : IsCapability(caps_list[i])
  /\ pc \in {"idle", "build", "second"}
  /\ pc # "idle" => idx \in 1..Len(caps_list) /\ begun # <<>>
  /\ begun # <<>> => IsList(begun) /\ Len(begun) = Len(caps_list)

\* A function on 1..n is a sequence of n elements.
LEMMA FunctionIsList ==
  ASSUME NEW n \in Nat, NEW S, NEW f \in [1..n -> S]
  PROVE  IsList(f) /\ Len(f) = n
<1>1. f \in [1..n -> {f[i] : i \in DOMAIN f}]
  OBVIOUS
<1>. QED BY <1>1 DEF IsList

\* A sequence is a function on its places.
LEMMA ListFacts ==
  ASSUME NEW l, IsList(l)
  PROVE  /\ Len(l) \in Nat /\ DOMAIN l = 1..Len(l)
         /\ l \in [1..Len(l) -> {l[i] : i \in DOMAIN l}]
<1>. QED BY DEF IsList

\* A sequence of anything is a sequence.
LEMMA SeqIsList ==
  ASSUME NEW S, NEW l \in Seq(S)
  PROVE  IsList(l) /\ \A i \in 1..Len(l) : l[i] \in S
<1>1. Len(l) \in Nat /\ l \in [1..Len(l) -> S]
  OBVIOUS
<1>. QED BY <1>1, FunctionIsList

\* What appending does.
LEMMA AppendList ==
  ASSUME NEW l, IsList(l), NEW e
  PROVE  /\ IsList(Append(l, e)) /\ Len(Append(l, e)) = Len(l) + 1
         /\ \A k \in 1..Len(l) : Append(l, e)[k] = l[k]
         /\ Append(l, e)[Len(l) + 1] = e
<1>. DEFINE S == {l[i] : i \in DOMAIN l} \cup {e}
<1>1. l \in Seq(S) /\ DOMAIN l = 1..Len(l)
  BY ListFacts DEF IsList
<1>2. e \in S
  OBVIOUS
<1>. HIDE DEF S
<1>3. /\ Append(l, e) \in Seq(S) /\ Len(Append(l, e)) = Len(l) + 1
      /\ \A k \in 1..Len(l) : Append(l, e)[k] = l[k]
      /\ Append(l, e)[Len(l) + 1] = e
  BY <1>1, <1>2
<1>. QED BY <1>3, SeqIsList

\* A record with the fields of a capability is one.
LEMMA RecordIsCapability ==
  ASSUME NEW S, NEW T, NEW x \in [cipher : S, cap : T]
  PROVE  IsCapability(x)
<1>1. PICK a, b : x = [cipher |-> a, cap |-> b]
  OBVIOUS
<1>. QED BY <1>1 DEF IsCapability

\* A list with the settings of one capability replaced.
Put(l, i, cap) == [l EXCEPT ![i].cap = cap]

\* Storing the settings of one capability leaves the others.
LEMMA Stored ==
  ASSUME NEW l, IsList(l), NEW i \in 1..Len(l), NEW cap, \A j \in 1..Len(l) : IsCapability(l[j])
  PROVE  /\ IsList(Put(l, i, cap)) /\ Len(Put(l, i, cap)) = Len(l)
         /\ \A j \in 1..Len(l) : IsCapability(Put(l, i, cap)[j]) /\ Put(l, i, cap)[j].cipher = l[j].cipher
         /\ \A j \in 1..Len(l) : j # i => Put(l, i, cap)[j] = l[j]
         /\ Put(l, i, cap)[i].cap = cap
<1>. DEFINE m == Put(l, i, cap)
<1>. DEFINE S == {l[j] : j \in DOMAIN l}
            x == [l[i] EXCEPT !.cap = cap]
<1>1. l \in [1..Len(l) -> S] /\ DOMAIN l = 1..Len(l) /\ Len(l) \in Nat
  BY ListFacts
<1>2. m = [l EXCEPT ![i] = x]
  BY DEF Put
<1>3. x = [cipher |-> l[i].cipher, cap |-> cap]
  <2>1. PICK a, b : l[i] = [cipher |-> a, cap |-> b]
    BY DEF IsCapability
  <2>2. x = [[cipher |-> a, cap |-> b] EXCEPT !.cap = cap]
    BY <2>1
  <2>3. x = [cipher |-> a, cap |-> cap]
    BY <2>2
  <2>. QED BY <2>1, <2>3
<1>. HIDE DEF S, x, m
<1>4. DOMAIN m = 1..Len(l) /\ m[i] = x /\ \A j \in 1..Len(l) : j # i => m[j] = l[j]
  BY <1>1, <1>2
<1>. DEFINE T == S \cup {x}
<1>5. m \in [1..Len(l) -> T]
  BY <1>1, <1>2
<1>. HIDE DEF T
<1>6. IsList(m) /\ Len(m) = Len(l)
  BY <1>1, <1>5, FunctionIsList
<1>7. \A j \in 1..Len(l) : IsCapability(m[j]) /\ m[j].cipher = l[j].cipher
  <2>1. IsCapability([cipher |-> l[i].cipher, cap |-> cap])
    BY DEF IsCapability
  <2>2. IsCapability(m[i]) /\ m[i].cipher = l[i].cipher
    BY <2>1, <1>3, <1>4
  <2>3. \A j \in 1..Len(l) : j # i => IsCapability(m[j]) /\ m[j].cipher = l[j].cipher
    BY <1>4
  <2>. QED BY <2>2, <2>3, Zenon
<1>8. m[i].cap = cap
  BY <1>3, <1>4
<1>. QED BY <1>4, <1>6, <1>7, <1>8, Zenon DEF m
\* The calls of an application, and the steps of the builder.
Calls ==
  \/ \E c \in Enabled : acvp_cap_list_append(c)
  \/ \E i \in 1..Len(caps_list) : \E row \in Rows(caps_list[i].cipher) :
       /\ Applies(row, caps_list[i].cap)
       /\ \E at \in row.at, v \in Tries(row) : SetParameter(i, row, at, v)
  \/ \E c \in Enabled : SetWithout(c)

\* Every step is one of these, or changes nothing.
LEMMA RegisterSteps ==
  ASSUME [Next]_vars
  PROVE  \/ Calls \/ acvp_build_registration_json \/ BuildOnly \/ BuildFirst \/ BuildSecond
         \/ BuildKmac \/ BuildModes \/ UNCHANGED vars
<1>. QED BY DEF Next, Calls

\* A call ends what was known of the last registration.
LEMMA CallsEffect ==
  ASSUME Calls
  PROVE  pc = "idle" /\ pc' = "idle" /\ begun' = <<>> /\ reg' = <<>>
<1>. QED BY DEF Calls, acvp_cap_list_append, SetParameter, SetWithout, Call, Return

\* A builder changes the settings of the capability at hand, if any.
LEMMA BuildEffect ==
  ASSUME ListInv, BuildOnly \/ BuildFirst \/ BuildSecond
  PROVE  /\ \E cap : Stores(cap)
         /\ idx \in 1..Len(caps_list)
         /\ pc' \in {"idle", "build", "second"} /\ UNCHANGED <<vs_count, begun>>
         /\ pc' # "idle" => idx' \in 1..Len(caps_list)
<1>1. Len(caps_list) \in Nat
  BY ListFacts DEF ListInv
<1>2. CASE BuildOnly
  BY <1>1, <1>2 DEF BuildOnly, Finish, Fail, ListInv
<1>3. CASE BuildFirst
  BY <1>1, <1>3 DEF BuildFirst, Fail, ListInv
<1>4. CASE BuildSecond
  BY <1>1, <1>4 DEF BuildSecond, Finish, Fail, ListInv
<1>. QED BY <1>2, <1>3, <1>4

\* caps_list stays a list of capabilities.
LEMMA ListStep ==
  ASSUME ListInv, [Next]_vars
  PROVE  ListInv'
<1>. USE DEF ListInv
<1>n. Len(caps_list) \in Nat
  BY ListFacts
<1>1. CASE Calls
  <2>0. pc' = "idle" /\ begun' = <<>>
    BY <1>1, CallsEffect
  <2>1. CASE \E c \in Enabled : acvp_cap_list_append(c)
    <3>1. PICK c \in Enabled : acvp_cap_list_append(c)
      BY <2>1
    <3>. DEFINE new == [cipher |-> c, cap |-> Defaults(c)]
    <3>2. IsCapability(new)
      BY DEF IsCapability
    <3>3. caps_list' = caps_list \/ caps_list' = Append(caps_list, new)
      BY <3>1 DEF acvp_cap_list_append
    <3>. HIDE DEF new
    <3>4. CASE caps_list' = Append(caps_list, new)
      BY <2>0, <3>2, <3>4, <1>n, AppendList
    <3>. QED BY <2>0, <3>3, <3>4
  <2>2. CASE \E i \in 1..Len(caps_list) : \E row \in Rows(caps_list[i].cipher) :
               /\ Applies(row, caps_list[i].cap)
               /\ \E at \in row.at, v \in Tries(row) : SetParameter(i, row, at, v)
    <3>1. PICK i \in 1..Len(caps_list) : \E cap : caps_list' = Put(caps_list, i, cap)
      BY <2>2 DEF SetParameter, Put
    <3>2. PICK cap : caps_list' = Put(caps_list, i, cap)
      BY <3>1
    <3>. QED BY <2>0, <3>2, Stored
  <2>3. CASE \E c \in Enabled : SetWithout(c)
    BY <2>0, <2>3 DEF SetWithout
  <2>. QED BY <1>1, <2>1, <2>2, <2>3 DEF Calls
<1>2. CASE acvp_build_registration_json
  <2>1. CASE caps_list = <<>>
    BY <1>2, <2>1 DEF acvp_build_registration_json
  <2>2. CASE caps_list # <<>>
    <3>1. Len(caps_list) >= 1
      BY <2>2 DEF IsList
    <3>. QED BY <1>2, <2>2, <3>1, <1>n DEF acvp_build_registration_json
  <2>. QED BY <2>1, <2>2
<1>3. CASE BuildOnly \/ BuildFirst \/ BuildSecond
  <2>1. PICK cap : caps_list' = Put(caps_list, idx, cap)
    BY <1>3, BuildEffect DEF Stores, Put
  <2>2. /\ idx \in 1..Len(caps_list)
        /\ pc' \in {"idle", "build", "second"} /\ begun' = begun /\ begun # <<>>
        /\ pc' # "idle" => idx' \in 1..Len(caps_list)
    BY <1>3, BuildEffect DEF BuildOnly, BuildFirst, BuildSecond
  <2>. QED BY <2>1, <2>2, <1>n, Stored
<1>4. CASE BuildKmac \/ BuildModes
  BY <1>4, <1>n DEF BuildKmac, BuildModes, Finish
<1>5. CASE UNCHANGED vars
  BY <1>5 DEF vars
<1>. QED BY <1>1, <1>2, <1>3, <1>4, <1>5, RegisterSteps
----------------------------------------------------------------------------
(* BuildRestores.                                                          *)

\* Of a capability y, what was registered of b is registered; and when the first of
\* its two objects is made, once it is turned back.
Kept(b, y)     == y.cipher = b.cipher /\ SameBuilt(b.cipher, b.cap, y.cap)
HalfKept(b, y) == /\ y.cipher = b.cipher /\ b.cipher \in Twofold
                  /\ SameBuilt(b.cipher, b.cap, Turned(b.cipher, y.cap, "both"))

Halfway(i) == pc = "second" /\ i = idx /\ caps_list[i].cipher # "KDF108"

\* BuildRestores is not inductive: between the two objects of a capability the field
\* is turned, and only turned back it is what it was.
RestoreInv ==
  begun # <<>> =>
    \A i \in 1..Len(caps_list) :
      /\ Halfway(i) => HalfKept(begun[i], caps_list[i])
      /\ ~Halfway(i) => Kept(begun[i], caps_list[i])

\* Being registered alike is transitive.
LEMMA SameBuiltTransitive ==
  ASSUME NEW c, NEW a, NEW b, NEW d, SameBuilt(c, a, b), SameBuilt(c, b, d)
  PROVE  SameBuilt(c, a, d)
<1>. QED BY DEF SameBuilt

\* After the first object, the field can be turned back.
LEMMA FirstBack ==
  ASSUME NEW c, NEW cap, Both(c, cap)
  PROVE  SameBuilt(c, cap, Turned(c, EcdsaMerged(c, Turned(c, cap, "first")), "both"))
<1>. DEFINE t == Turned(c, cap, "first")
<1>1. SameBuilt(c, cap, Turned(c, t, "both"))
  BY TurnedBackSame, TurnedTwice
<1>2. SameBuilt(c, Turned(c, t, "both"), Turned(c, EcdsaMerged(c, t), "both"))
  BY BothTwofold, MergedBackSame
<1>. QED BY <1>1, <1>2, SameBuiltTransitive

\* What the builders leave of the capability they are at.
LEMMA BuildKeeps ==
  ASSUME NEW c, NEW a, NEW b
  PROVE  /\ SameBuilt(c, a, b) /\ ~Both(c, b) => SameBuilt(c, a, EcdsaMerged(c, b))
         /\ SameBuilt(c, a, b) /\ Both(c, b) =>
              /\ c \in Twofold
              /\ SameBuilt(c, a, Turned(c, EcdsaMerged(c, Turned(c, b, "first")), "both"))
              /\ SameBuilt(c, a, Turned(c, Turned(c, EcdsaMerged(c, Turned(c, b, "first")), "second"), "both"))
         /\ c \in Twofold /\ SameBuilt(c, a, Turned(c, b, "both")) =>
              SameBuilt(c, a, Turned(c, EcdsaMerged(c, b), "both"))
<1>1. SameBuilt(c, a, b) /\ ~Both(c, b) => SameBuilt(c, a, EcdsaMerged(c, b))
  BY MergedSame, SameBuiltTransitive
<1>2. SameBuilt(c, a, b) /\ Both(c, b) =>
        /\ c \in Twofold
        /\ SameBuilt(c, a, Turned(c, EcdsaMerged(c, Turned(c, b, "first")), "both"))
  BY FirstBack, BothTwofold, SameBuiltTransitive
<1>3. Turned(c, Turned(c, EcdsaMerged(c, Turned(c, b, "first")), "second"), "both") =
        Turned(c, EcdsaMerged(c, Turned(c, b, "first")), "both")
  BY TurnedTwice
<1>4. c \in Twofold /\ SameBuilt(c, a, Turned(c, b, "both")) =>
        SameBuilt(c, a, Turned(c, EcdsaMerged(c, b), "both"))
  BY MergedBackSame, SameBuiltTransitive
<1>. QED BY <1>1, <1>2, <1>3, <1>4

\* Building one object keeps what is registered of the capability it is at.
LEMMA RestoreBuild ==
  ASSUME ListInv, RestoreInv, begun # <<>>, BuildOnly \/ BuildFirst \/ BuildSecond
  PROVE  /\ idx \in 1..Len(caps_list)
         /\ \E cap : /\ caps_list' = Put(caps_list, idx, cap)
                     /\ pc' = "second" => /\ idx' = idx /\ pc = "build"
                                          /\ HalfKept(begun[idx], [cipher |-> caps_list[idx].cipher, cap |-> cap])
                     /\ pc' # "second" => Kept(begun[idx], [cipher |-> caps_list[idx].cipher, cap |-> cap])
<1>. DEFINE c == caps_list[idx].cipher
            b == caps_list[idx].cap
            a == begun[idx].cap
<1>0. idx \in 1..Len(caps_list)
  BY DEF ListInv, BuildOnly, BuildFirst, BuildSecond
<1>1. CASE BuildOnly
  <2>1. pc = "build" /\ ~Both(c, b) /\ caps_list' = Put(caps_list, idx, EcdsaMerged(c, b)) /\ pc' # "second"
    BY <1>1 DEF BuildOnly, Finish, Fail, Stores, Put
  <2>2. c = begun[idx].cipher /\ SameBuilt(c, a, b)
    BY <1>0, <2>1 DEF RestoreInv, Halfway, Kept
  <2>. HIDE DEF c, b, a
  <2>3. SameBuilt(c, a, EcdsaMerged(c, b))
    BY <2>1, <2>2, BuildKeeps
  <2>. QED BY <1>0, <2>1, <2>2, <2>3 DEF Kept, c, b, a
<1>2. CASE BuildFirst
  <2>. DEFINE t == EcdsaMerged(c, Turned(c, b, "first"))
  <2>1. /\ pc = "build" /\ Both(c, b) /\ idx' = idx
        /\ \/ pc' = "second" /\ caps_list' = Put(caps_list, idx, Turned(c, t, "second"))
           \/ pc' = "idle" /\ caps_list' = Put(caps_list, idx, Turned(c, t, "both"))
    BY <1>2 DEF BuildFirst, Fail, Stores, Put
  <2>2. c = begun[idx].cipher /\ SameBuilt(c, a, b)
    BY <1>0, <2>1 DEF RestoreInv, Halfway, Kept
  <2>. HIDE DEF c, b, a
  <2>3. /\ c \in Twofold /\ SameBuilt(c, a, Turned(c, t, "both"))
        /\ SameBuilt(c, a, Turned(c, Turned(c, t, "second"), "both"))
    BY <2>1, <2>2, BuildKeeps
  <2>. HIDE DEF t
  <2>4. CASE pc' = "second"
    BY <1>0, <2>1, <2>2, <2>3, <2>4 DEF HalfKept, c, b, a
  <2>5. CASE pc' = "idle"
    BY <1>0, <2>1, <2>2, <2>3, <2>5 DEF Kept, c, b, a
  <2>. QED BY <2>1, <2>4, <2>5
<1>3. CASE BuildSecond
  <2>1. /\ pc = "second" /\ c # "KDF108" /\ pc' # "second"
        /\ caps_list' = Put(caps_list, idx, Turned(c, EcdsaMerged(c, b), "both"))
    BY <1>3 DEF BuildSecond, Finish, Fail, Stores, Put
  <2>2. c = begun[idx].cipher /\ c \in Twofold /\ SameBuilt(c, a, Turned(c, b, "both"))
    BY <1>0, <2>1 DEF RestoreInv, Halfway, HalfKept
  <2>. HIDE DEF c, b, a
  <2>3. SameBuilt(c, a, Turned(c, EcdsaMerged(c, b), "both"))
    BY <2>2, BuildKeeps
  <2>. QED BY <1>0, <2>1, <2>2, <2>3 DEF Kept, c, b, a
<1>. QED BY <1>1, <1>2, <1>3

\* Storing what keeps a capability keeps the others.
LEMMA PutKeeps ==
  ASSUME ListInv, NEW i \in 1..Len(caps_list), NEW cap
  PROVE  /\ Len(Put(caps_list, i, cap)) = Len(caps_list)
         /\ \A j \in 1..Len(caps_list) : j # i => Put(caps_list, i, cap)[j] = caps_list[j]
         /\ Put(caps_list, i, cap)[i] = [cipher |-> caps_list[i].cipher, cap |-> cap]
<1>1. /\ IsCapability(Put(caps_list, i, cap)[i]) /\ Put(caps_list, i, cap)[i].cipher = caps_list[i].cipher
      /\ Put(caps_list, i, cap)[i].cap = cap
      /\ Len(Put(caps_list, i, cap)) = Len(caps_list)
      /\ \A j \in 1..Len(caps_list) : j # i => Put(caps_list, i, cap)[j] = caps_list[j]
  BY Stored DEF ListInv
<1>2. Put(caps_list, i, cap)[i] = [cipher |-> caps_list[i].cipher, cap |-> cap]
  BY <1>1 DEF IsCapability
<1>. QED BY <1>1, <1>2

\* RestoreInv holds at every step.
LEMMA RestoreStep ==
  ASSUME ListInv, RestoreInv, [Next]_vars
  PROVE  RestoreInv'
<1>1. CASE Calls
  BY <1>1, CallsEffect DEF RestoreInv
<1>2. CASE acvp_build_registration_json
  <2>1. CASE caps_list = <<>>
    BY <1>2, <2>1 DEF acvp_build_registration_json, RestoreInv, Halfway
  <2>2. CASE caps_list # <<>>
    <3>1. pc' = "build" /\ begun' = caps_list /\ caps_list' = caps_list
      BY <1>2, <2>2 DEF acvp_build_registration_json
    <3>2. \A i \in 1..Len(caps_list) : Kept(caps_list[i], caps_list[i])
      BY DEF Kept, SameBuilt
    <3>. QED BY <3>1, <3>2 DEF RestoreInv, Halfway
  <2>. QED BY <2>1, <2>2
<1>3. CASE BuildOnly \/ BuildFirst \/ BuildSecond
  <2>1. begun' = begun /\ begun # <<>>
    BY <1>3 DEF BuildOnly, BuildFirst, BuildSecond, ListInv
  <2>2. idx \in 1..Len(caps_list)
    BY <1>3, <2>1, RestoreBuild
  <2>3. PICK cap : /\ caps_list' = Put(caps_list, idx, cap)
                   /\ pc' = "second" => /\ idx' = idx /\ pc = "build"
                                        /\ HalfKept(begun[idx], [cipher |-> caps_list[idx].cipher, cap |-> cap])
                   /\ pc' # "second" => Kept(begun[idx], [cipher |-> caps_list[idx].cipher, cap |-> cap])
    BY <1>3, <2>1, RestoreBuild
  <2>4. PICK here \in 1..Len(caps_list) : here = idx
    BY <2>2
  <2>5. /\ Len(caps_list') = Len(caps_list)
        /\ \A j \in 1..Len(caps_list) : j # here => caps_list'[j] = caps_list[j]
        /\ caps_list'[here] = [cipher |-> caps_list[here].cipher, cap |-> cap]
    BY <2>3, <2>4, PutKeeps
  <2>6. \A j \in 1..Len(caps_list) : j # here => Kept(begun[j], caps_list'[j]) /\ ~Halfway(j)'
    <3>1. SUFFICES ASSUME NEW j \in 1..Len(caps_list), j # here
                   PROVE  Kept(begun[j], caps_list'[j]) /\ ~Halfway(j)'
      OBVIOUS
    <3>2. ~Halfway(j)
      BY <2>4, <3>1 DEF Halfway
    <3>3. Kept(begun[j], caps_list[j])
      BY <2>1, <3>2 DEF RestoreInv
    <3>4. ~Halfway(j)'
      BY <2>3, <2>4, <3>1 DEF Halfway
    <3>. QED BY <2>5, <3>1, <3>3, <3>4
  <2>7. CASE pc' = "second"
    <3>1. HalfKept(begun[here], caps_list'[here])
      BY <2>3, <2>4, <2>5, <2>7
    <3>2. caps_list'[here].cipher # "KDF108"
      BY <3>1, TwofoldFamilies DEF HalfKept, Twofold
    <3>3. Halfway(here)'
      BY <2>3, <2>4, <2>7, <3>2 DEF Halfway
    <3>. QED BY <2>1, <2>5, <2>6, <3>1, <3>3 DEF RestoreInv
  <2>8. CASE pc' # "second"
    <3>1. Kept(begun[here], caps_list'[here])
      BY <2>3, <2>4, <2>5, <2>8
    <3>2. ~Halfway(here)'
      BY <2>8 DEF Halfway
    <3>. QED BY <2>1, <2>5, <2>6, <3>1, <3>2 DEF RestoreInv
  <2>. QED BY <2>7, <2>8
<1>4. CASE BuildKmac \/ BuildModes
  <2>1. caps_list' = caps_list /\ begun' = begun /\ begun # <<>> /\ idx \in 1..Len(caps_list)
        /\ caps_list[idx].cipher = "KDF108" /\ (pc' = "second" => idx' = idx)
    BY <1>4 DEF BuildKmac, BuildModes, Finish, ListInv
  <2>2. \A i \in 1..Len(caps_list) : ~Halfway(i) /\ ~Halfway(i)'
    BY <2>1 DEF Halfway
  <2>. QED BY <2>1, <2>2 DEF RestoreInv
<1>5. CASE UNCHANGED vars
  BY <1>5 DEF vars, RestoreInv, Halfway
<1>. QED BY <1>1, <1>2, <1>3, <1>4, <1>5, RegisterSteps

\* caps_list is a list of capabilities, and the builder inside it: ListInv is an
\* invariant of acvp_build_register.c and acvp_capabilities.c.
THEOREM RegisterLists == Spec => []ListInv
<1>1. Init => ListInv
  <2>1. SUFFICES ASSUME Init PROVE ListInv
    OBVIOUS
  <2>2. caps_list \in Seq([cipher : STRING, cap : SUBSET Settings])
    BY <2>1, ContextsAssumption DEF Init
  <2>3. \A i \in 1..Len(caps_list) : IsCapability(caps_list[i])
    <3>. DEFINE R == [cipher : STRING, cap : SUBSET Settings]
    <3>1. \A x \in R : IsCapability(x)
      BY RecordIsCapability
    <3>. HIDE DEF R
    <3>2. \A i \in 1..Len(caps_list) : caps_list[i] \in R
      BY <2>2, SeqIsList DEF R
    <3>. QED BY <3>1, <3>2
  <2>. QED BY <2>1, <2>2, <2>3, SeqIsList DEF Init, ListInv
<1>2. ListInv /\ [Next]_vars => ListInv'
  BY ListStep
<1>. QED BY <1>1, <1>2, PTL DEF Spec

\* However acvp_build_registration_json ends, in success or with a capability whose
\* builder fails, what it would register next is what it registered: ivgen_source and
\* component are what the application has set.
THEOREM RegisterRestores == Spec => []BuildRestores
<1>1. Init => RestoreInv
  BY DEF Init, RestoreInv
<1>2. ListInv /\ RestoreInv /\ [Next]_vars => RestoreInv'
  BY RestoreStep
<1>3. ListInv /\ RestoreInv => BuildRestores
  <2>1. SUFFICES ASSUME ListInv, RestoreInv, pc = "idle", begun # <<>>, NEW i \in 1..Len(begun)
                 PROVE  /\ Registered(begun[i].cipher, caps_list[i].cap) = Registered(begun[i].cipher, begun[i].cap)
                        /\ Both(begun[i].cipher, caps_list[i].cap) <=> Both(begun[i].cipher, begun[i].cap)
    BY DEF BuildRestores
  <2>2. Kept(begun[i], caps_list[i])
    BY <2>1 DEF ListInv, RestoreInv, Halfway
  <2>. QED BY <2>2 DEF Kept, SameBuilt
<1>. QED BY <1>1, <1>2, <1>3, RegisterLists, PTL DEF Spec

----------------------------------------------------------------------------
(* What a call does to the fields that are turned.                         *)

\* The value of the field that says "both".
BothValue(c) == IF c \in cap_sym THEN "EITHER" ELSE "BOTH"

\* A row that leaves a field alone, and one that assigns it and counts value v.
Quiet(r, f) ==
  /\ r.drops = {} /\ r.loses = {} /\ r.gives = {} /\ r.alone = "no"
  /\ \A s \in r.leaves : s.field # f
  /\ r.field # f
Turning(r, f, v) ==
  /\ r.drops = {} /\ r.loses = {} /\ r.gives = {} /\ r.alone = "no" /\ r.leaves = {}
  /\ r.field = f /\ r.how = "assign" /\ r.at = {<<>>} /\ r.early = 0 /\ v \in r.counts

\* A row of another field leaves a field alone, whatever its conditions are.
LEMMA ExceptQuiet ==
  ASSUME NEW f, NEW g, f # g, NEW how, NEW takes, NEW a, NEW b
  PROVE  /\ Quiet([Row(g, how, takes) EXCEPT !.unless = a, !.needs = b], f)
         /\ Quiet([Row(g, how, takes) EXCEPT !.unless = a], f)
         /\ Quiet([Row(g, how, takes) EXCEPT !.tries = a], f)
         /\ Quiet([Row(g, how, takes) EXCEPT !.at = a, !.tries = b], f)
         /\ Quiet([Row(g, how, takes) EXCEPT !.at = a, !.under = b], f)
<1>1. Quiet([Row(g, how, takes) EXCEPT !.unless = a, !.needs = b], f)
  BY DEF Row, Quiet
<1>2. Quiet([Row(g, how, takes) EXCEPT !.unless = a], f)
  BY DEF Row, Quiet
<1>3. Quiet([Row(g, how, takes) EXCEPT !.tries = a], f)
  BY DEF Row, Quiet
<1>4. Quiet([Row(g, how, takes) EXCEPT !.at = a, !.tries = b], f)
  BY DEF Row, Quiet
<1>5. Quiet([Row(g, how, takes) EXCEPT !.at = a, !.under = b], f)
  BY DEF Row, Quiet
<1>. QED BY <1>1, <1>2, <1>3, <1>4, <1>5

\* Rows of other fields leave a field alone.
LEMMA RowsQuiet ==
  ASSUME NEW f, NEW F, f \notin F, NEW takes
  PROVE  /\ \A g \in F : \A how : Quiet(Row(g, how, takes), f)
         /\ \A r \in Adds(F) : Quiet(r, f)
         /\ \A r \in Assigns(F) : Quiet(r, f)
         /\ \A r \in Flags(F) : Quiet(r, f)
         /\ \A r \in AlsoTaking(Adds(F), takes) : Quiet(r, f)
         /\ \A r \in AlsoTaking(Assigns(F), takes) : Quiet(r, f)
         /\ \A r \in Taking(Assigns(F), takes) : Quiet(r, f)
         /\ \A r \in Under(takes, Adds(F)) : Quiet(r, f)
<1>1. \A g \in F : \A how : Quiet(Row(g, how, takes), f)
  BY DEF Row, Quiet
<1>2. /\ \A r \in Adds(F) : Quiet(r, f)
      /\ \A r \in Assigns(F) : Quiet(r, f)
      /\ \A r \in Flags(F) : Quiet(r, f)
  BY DEF Adds, Assigns, Flags, Row, Quiet
<1>3. /\ \A r \in AlsoTaking(Adds(F), takes) : Quiet(r, f)
      /\ \A r \in AlsoTaking(Assigns(F), takes) : Quiet(r, f)
  BY DEF Adds, Assigns, AlsoTaking, Row, Quiet
<1>4. \A r \in Taking(Assigns(F), takes) : Quiet(r, f)
  BY DEF Assigns, Taking, Row, Quiet
<1>5. \A r \in Under(takes, Adds(F)) : Quiet(r, f)
  <2>1. SUFFICES ASSUME NEW r \in Under(takes, Adds(F)) PROVE Quiet(r, f)
    OBVIOUS
  <2>2. PICK g \in F : r = [Row(g, "add", Good) EXCEPT !.at = takes, !.under = "yes"]
    BY Zenon DEF Under, Adds
  <2>. QED BY <2>2, ExceptQuiet
<1>. QED BY <1>1, <1>2, <1>3, <1>4, <1>5

\* The setters of symmetric ciphers touch ivgen_source in one way only.
LEMMA SymRows ==
  ASSUME NEW c \in {"AES_GCM", "AES_XPN", "AES_GMAC", "AES_CTR"},
         NEW r \in acvp_cap_sym_cipher_set_parm(c) \cup acvp_cap_sym_cipher_set_domain(c)
  PROVE  Quiet(r, "ivgen_source") \/ Turning(r, "ivgen_source", "EITHER")
<1>. DEFINE f == "ivgen_source"
<1>1. \A x \in Lists(c) : Quiet(x, f)
  BY DEF Lists, Adds, Row, Quiet, acvp_validate_sym_cipher_parm_value
<1>2. \A x \in acvp_cap_sym_cipher_set_domain(c) : Quiet(x, f)
  <2>1. f \notin acvp_validate_sym_cipher_domain_value(c)
    BY DEF acvp_validate_sym_cipher_domain_value, cap_cs
  <2>2. SUFFICES ASSUME NEW x \in acvp_cap_sym_cipher_set_domain(c) PROVE Quiet(x, f)
    OBVIOUS
  <2>3. PICK q \in Ranges(acvp_validate_sym_cipher_domain_value(c)) :
          x = [q EXCEPT !.unless = ListOf(q.field),
                        !.needs = IF q.field = "du_len" THEN {Setting(<<>>, "dulen_matches_paylen", "no")} ELSE {}]
    BY Zenon DEF acvp_cap_sym_cipher_set_domain
  <2>4. PICK g \in acvp_validate_sym_cipher_domain_value(c) : q = Row(g, "range", Good)
    BY Zenon DEF Ranges
  <2>5. \A a, b : Quiet([q EXCEPT !.unless = a, !.needs = b], f)
    BY <2>1, <2>4, ExceptQuiet
  <2>. QED BY <2>3, <2>5, Zenon
<1>3. Turning([Row(f, "assign", {"INT", "EXT", "EITHER", "NA"}) EXCEPT !.counts = {"EITHER"}], f, "EITHER")
  BY DEF Row, Turning
<1>4. \A x \in (IF c = "AES_XTS" THEN {[y EXCEPT !.unless = {"du_len"}] : y \in Flags({"dulen_matches_paylen"})} ELSE {}) : Quiet(x, f)
  OBVIOUS
<1>5. /\ \A x \in AlsoTaking(Adds({"kw_mode"}), {"odd"}) : Quiet(x, f)
      /\ \A x \in Assigns({"direction", "ivgen_mode"}) : Quiet(x, f)
      /\ \A x \in AlsoTaking(Assigns({"keying_option"}), {"NA"}) : Quiet(x, f)
      /\ \A x \in Flags({"perform_ctr_tests", "ctr_incr", "ctr_ovrflw"}) : Quiet(x, f)
      /\ \A x \in Assigns({"salt_source"}) : Quiet(x, f)
      /\ \A x \in Taking(Assigns({"conformance"}), {"RFC3686"}) : Quiet(x, f)
  BY RowsQuiet
<1>. QED BY <1>1, <1>2, <1>3, <1>4, <1>5, Zenon DEF acvp_cap_sym_cipher_set_parm

\* Nor do the setters of ECDSA signatures touch component in another way.
LEMMA EcdsaRows ==
  ASSUME NEW c \in cap_ecdsa_sig, NEW r \in acvp_cap_ecdsa_set_parm(c) \cup acvp_cap_ecdsa_set_curve_hash_alg(c)
  PROVE  Quiet(r, "component") \/ Turning(r, "component", "BOTH")
<1>. DEFINE f == "component"
<1>1. \A x \in Component : Turning(x, f, "BOTH")
  BY DEF Component, Row, Turning
<1>2. /\ \A x \in Makes(Curves) : Quiet(x, f)
      /\ \A x \in Refuse({<<"odd">>}) : Quiet(x, f)
  <2>1. /\ \A a, b : Quiet([Row("entry", "entry", {"yes"}) EXCEPT !.at = a, !.tries = b], f)
        /\ \A a, b : Quiet([Row("entry", "entry", {}) EXCEPT !.at = a, !.tries = b], f)
    BY ExceptQuiet
  <2>2. ASSUME NEW a PROVE \A x \in Makes(a) : Quiet(x, f)
    <3>1. \A x \in Makes(a) : x = [Row("entry", "entry", {"yes"}) EXCEPT !.at = a, !.tries = {}]
      BY Zenon DEF Makes
    <3>2. Quiet([Row("entry", "entry", {"yes"}) EXCEPT !.at = a, !.tries = {}], f)
      BY <2>1
    <3>. QED BY <3>1, <3>2, Zenon
  <2>3. ASSUME NEW a PROVE \A x \in Refuse(a) : Quiet(x, f)
    <3>1. \A x \in Refuse(a) : x = [Row("entry", "entry", {}) EXCEPT !.at = a, !.tries = {"yes"}]
      BY Zenon DEF Refuse
    <3>2. Quiet([Row("entry", "entry", {}) EXCEPT !.at = a, !.tries = {"yes"}], f)
      BY <2>1
    <3>. QED BY <3>1, <3>2, Zenon
  <2>. QED BY <2>2, <2>3
<1>3. /\ \A x \in Revision("1_0") : Quiet(x, f)
      /\ \A x \in Adds({"secret_gen_modes"}) : Quiet(x, f)
      /\ \A x \in Adds({"hash_algs"}) : Quiet(x, f)
      /\ \A x \in Under(Curves, Adds({"algs"})) : Quiet(x, f)
  BY RowsQuiet DEF Revision
<1>4. \A x \in Appended : Quiet(x, f)
  <2>1. SUFFICES ASSUME NEW x \in Appended PROVE Quiet(x, f)
    OBVIOUS
  <2>2. PICK before \in SUBSET Curves :
          x = [Row("place", "add", {Nth(before)}) EXCEPT
                 !.at = Curves \ before, !.given = {Entry(at) : at \in before},
                 !.lacking = {Entry(at) : at \in Curves \ before}, !.tries = {}]
    BY Zenon DEF Appended
  <2>3. \A n, a, b, d : Quiet([Row("place", "add", n) EXCEPT !.at = a, !.given = b, !.lacking = d, !.tries = {}], f)
    BY DEF Row, Quiet
  <2>. QED BY <2>2, <2>3, Zenon
<1>5. \A x \in AppendedAgain : Quiet(x, f)
  <2>1. SUFFICES ASSUME NEW x \in AppendedAgain PROVE Quiet(x, f)
    OBVIOUS
  <2>2. PICK at \in Curves :
          x = [Row("again", "add", {"appended"}) EXCEPT
                 !.at = {at}, !.given = {Entry(at)}, !.lacking = {}, !.tries = {}]
    BY Zenon DEF AppendedAgain
  <2>3. \A n, a, b, d : Quiet([Row("again", "add", n) EXCEPT !.at = a, !.given = b, !.lacking = d, !.tries = {}], f)
    BY DEF Row, Quiet
  <2>. QED BY <2>2, <2>3, Zenon
<1>. QED BY <1>1, <1>2, <1>3, <1>4, <1>5, Zenon DEF acvp_cap_ecdsa_set_parm, acvp_cap_ecdsa_set_curve_hash_alg

\* Prerequisites are another field.
LEMMA PrereqRows ==
  ASSUME NEW c, NEW f, f \in {"ivgen_source", "component"}, NEW r \in acvp_cap_set_prereq(c)
  PROVE  Quiet(r, f)
<1>1. Quiet([Row("prereq", "add", {}) EXCEPT !.tries = {"empty"}], f)
  BY ExceptQuiet
<1>2. ASSUME NEW a, NEW b, \A s \in b : s.field # f
      PROVE  Quiet([Row("prereq", "add", a) EXCEPT !.tries = {"other"}, !.leaves = b], f)
  BY <1>2 DEF Row, Quiet
<1>3. \A s \in {Setting(<<>>, "has_prereq", "yes")} : s.field # f
  BY DEF Setting
<1>4. Quiet([Row("prereq", "add", acvp_validate_prereq_val(c)) EXCEPT
               !.tries = {"other"}, !.leaves = {Setting(<<>>, "has_prereq", "yes")}], f)
  BY <1>2, <1>3
<1>. QED BY <1>1, <1>4 DEF acvp_cap_set_prereq

\* The symmetric ciphers that are turned belong to no other family.
LEMMA SymFamily ==
  ASSUME NEW c \in {"AES_GCM", "AES_XPN", "AES_GMAC", "AES_CTR"}
  PROVE  /\ c \in cap_sym
         /\ c \notin cap_hash \cup cap_hmac \cup cap_cmac \cup cap_kmac \cup cap_drbg
         /\ c \notin cap_rsa_prim \cup cap_ecdsa \cup cap_eddsa \cup cap_dsa
         /\ c \notin cap_kas_ecc \cup cap_kas_ffc \cup cap_kda \cup cap_safe_primes \cup cap_lms
<1>1. c \in cap_sym
  BY DEF cap_sym, cap_aes
<1>2. c \notin cap_hash \cup cap_hmac \cup cap_cmac \cup cap_kmac \cup cap_drbg
  BY DEF cap_hash, cap_sha2, cap_sha3, cap_shake, cap_hmac, cap_cmac, cap_kmac, cap_drbg
<1>3. c \notin cap_rsa_prim \cup cap_ecdsa \cup cap_eddsa \cup cap_dsa
  BY DEF cap_rsa_prim, cap_ecdsa, cap_ecdsa_sig, cap_eddsa, cap_dsa
<1>4. c \notin cap_kas_ecc \cup cap_kas_ffc \cup cap_kda \cup cap_safe_primes \cup cap_lms
  BY DEF cap_kas_ecc, cap_kas_ffc, cap_kda, cap_safe_primes, cap_lms
<1>. QED BY <1>1, <1>2, <1>3, <1>4

\* The setters of the ciphers that are turned.
LEMMA TwofoldSetters ==
  ASSUME NEW c
  PROVE  /\ c \in {"AES_GCM", "AES_XPN", "AES_GMAC", "AES_CTR"} =>
              Setters(c) = acvp_cap_sym_cipher_set_parm(c) \cup acvp_cap_sym_cipher_set_domain(c)
         /\ c \in cap_ecdsa_sig =>
              Setters(c) = acvp_cap_ecdsa_set_parm(c) \cup acvp_cap_ecdsa_set_curve_hash_alg(c)
<1>. DEFINE named == {"KDF135_SNMP", "KDF135_SSH", "KDF135_SRTP", "KDF135_IKEV2", "KDF135_IKEV1", "KDF135_X942",
                      "KDF135_X963", "KDF108", "PBKDF", "KDF_TLS12", "KDF_TLS13", "KDA_TWOSTEP", "RSA_KEYGEN",
                      "RSA_SIGGEN", "RSA_SIGVER", "KAS_IFC_SSC", "KTS_IFC"}
<1>1. ASSUME c \in {"AES_GCM", "AES_XPN", "AES_GMAC", "AES_CTR"}
      PROVE  Setters(c) = acvp_cap_sym_cipher_set_parm(c) \cup acvp_cap_sym_cipher_set_domain(c)
  <2>1. c \notin named
    BY <1>1
  <2>. QED BY <1>1, <2>1, SymFamily, Zenon DEF Setters
<1>2. ASSUME c \in cap_ecdsa_sig
      PROVE  Setters(c) = acvp_cap_ecdsa_set_parm(c) \cup acvp_cap_ecdsa_set_curve_hash_alg(c)
  <2>1. c \notin named
    BY <1>2 DEF cap_ecdsa_sig
  <2>. QED BY <1>2, <2>1, EcdsaFamily, Zenon DEF Setters
<1>. QED BY <1>1, <1>2

\* Every call that can be made for such a cipher leaves the field alone or sets it.
LEMMA TwofoldRows ==
  ASSUME NEW c \in Twofold, NEW r \in Rows(c)
  PROVE  Quiet(r, TurnedField(c)) \/ Turning(r, TurnedField(c), BothValue(c))
<1>1. r \in acvp_cap_set_prereq(c) => Quiet(r, TurnedField(c))
  BY PrereqRows DEF TurnedField
<1>2. CASE c \in {"AES_GCM", "AES_XPN", "AES_GMAC", "AES_CTR"}
  <2>1. TurnedField(c) = "ivgen_source" /\ BothValue(c) = "EITHER"
    BY <1>2, SymFamily DEF TurnedField, BothValue
  <2>2. r \in Setters(c) => r \in acvp_cap_sym_cipher_set_parm(c) \cup acvp_cap_sym_cipher_set_domain(c)
    BY <1>2, TwofoldSetters
  <2>. QED BY <1>1, <1>2, <2>1, <2>2, SymRows DEF Rows
<1>3. CASE c \in cap_ecdsa_sig
  <2>1. TurnedField(c) = "component" /\ BothValue(c) = "BOTH"
    BY <1>3, EcdsaFamily DEF TurnedField, BothValue
  <2>2. r \in Setters(c) => r \in acvp_cap_ecdsa_set_parm(c) \cup acvp_cap_ecdsa_set_curve_hash_alg(c)
    BY <1>3, TwofoldSetters
  <2>. QED BY <1>1, <1>3, <2>1, <2>2, EcdsaRows DEF Rows
<1>. QED BY <1>2, <1>3 DEF Twofold

\* The field is nowhere but at the top of the capability.
AtTop(c, cap) == \A s \in cap : s.field = TurnedField(c) => s.at = <<>>

\* Two objects are made if the field has the value that says so.
LEMMA BothIsValue ==
  ASSUME NEW c, NEW cap
  PROVE  Both(c, cap) <=> c \in Twofold /\ Values(cap, TurnedField(c)) = {BothValue(c)}
<1>. QED BY TwofoldFamilies DEF Both, Is, Twofold, TurnedField, BothValue

\* A call that makes two objects of a capability counts, and leaves the field at the
\* top.
LEMMA TurningCounts ==
  ASSUME NEW c \in Twofold, NEW cap, AtTop(c, cap), NEW r \in Rows(c), NEW at \in r.at, NEW v
  PROVE  /\ AtTop(c, After(r, cap, at, v))
         /\ Both(c, After(r, cap, at, v)) /\ ~Both(c, cap) => Accepted(r, cap, at, v) /\ v \in r.counts
<1>. DEFINE f == TurnedField(c)
            new == After(r, cap, at, v)
<1>0. f # "entry"
  BY DEF TurnedField
<1>1. Displaced(r, cap, at) = {}
  BY TwofoldRows DEF Displaced, Quiet, Turning
<1>2. CASE Barred(r, cap, at) \/ Ignored(r, cap, v)
  BY <1>2 DEF After
<1>3. CASE ~Barred(r, cap, at) /\ ~Ignored(r, cap, v) /\ ~Passes(r, cap, at, v)
  <2>1. new = (cap \ r.loses) \cup (Created(r, at) \cup r.leaves)
    BY <1>1, <1>3 DEF After
  <2>2. r.loses = {} /\ \A s \in r.leaves : s.field # f
    BY TwofoldRows DEF Quiet, Turning
  <2>3. \A s \in Created(r, at) : s.field # f
    BY <1>0 DEF Created, Entry, Setting
  <2>4. \A s : s.field = f => (s \in new <=> s \in cap)
    BY <2>1, <2>2, <2>3
  <2>5. Values(new, f) = Values(cap, f)
    BY <2>4, ValuesSame
  <2>. QED BY <2>4, <2>5, BothIsValue DEF AtTop
<1>4. CASE ~Barred(r, cap, at) /\ ~Ignored(r, cap, v) /\ Passes(r, cap, at, v)
  <2>1. new = Set(r, cap, at, v) /\ Accepted(r, cap, at, v)
    BY <1>1, <1>4 DEF After, Accepted
  <2>2. \A s \in Created(r, at) \cup (IF at = <<>> THEN {} ELSE {Entry(at)}) : s.field # f
    BY <1>0 DEF Created, Entry, Setting
  <2>3. CASE Quiet(r, f)
    <3>1. \A s \in {t \in cap : t.at = Place(r, at) /\ t.field = r.field} : s.field # f
      BY <2>3 DEF Quiet
    <3>2. Setting(Place(r, at), r.field, v).field # f /\ r.drops = {} /\ r.gives = {}
      BY <2>3 DEF Quiet, Setting
    <3>3. \A s : s.field = f => (s \in new <=> s \in cap)
      BY <2>1, <2>2, <3>1, <3>2 DEF Set
    <3>4. Values(new, f) = Values(cap, f)
      BY <3>3, ValuesSame
    <3>. QED BY <3>3, <3>4, BothIsValue DEF AtTop
  <2>4. CASE Turning(r, f, BothValue(c))
    <3>1. at = <<>> /\ Place(r, at) = <<>> /\ r.field = f /\ Created(r, at) = {}
      BY <2>4 DEF Turning, Place, Created
    <3>2. {t \in cap : t.at = <<>> /\ t.field = f} = Fields(cap, {f})
      BY DEF AtTop, Fields
    <3>3. new = (cap \ Fields(cap, {f})) \cup {Setting(<<>>, f, v)}
      BY <2>1, <2>4, <3>1, <3>2 DEF Set, Turning
    <3>4. Values(new, f) = {v}
      <4>1. \A g : Values((cap \ Fields(cap, {g})) \cup {Setting(<<>>, g, v)}, g) = {v}
        BY OneValue, SMTT(30)
      <4>. HIDE DEF f, new
      <4>. QED BY <3>3, <4>1
    <3>5. Both(c, new) => v = BothValue(c)
      BY <3>4, BothIsValue
    <3>6. AtTop(c, new)
      BY <3>3 DEF AtTop, Setting
    <3>. QED BY <2>1, <2>4, <3>5, <3>6 DEF Turning
  <2>. QED BY <2>3, <2>4, TwofoldRows
<1>. QED BY <1>2, <1>3, <1>4

----------------------------------------------------------------------------
(* VsCountCovers.                                                          *)

\* The capabilities of a list of which two objects are made.
Doubles(list) == {i \in 1..Len(list) : Both(list[i].cipher, list[i].cap)}

\* The fields that are turned stand at the top of their capabilities.
TopInv == \A i \in 1..Len(caps_list) : caps_list[i].cipher \in Twofold => AtTop(caps_list[i].cipher, caps_list[i].cap)

\* vs_count covers the objects of caps_list; while a registration is built, those of
\* the list with which it began, as the fields are being turned.
CountInv ==
  /\ vs_count \in Nat
  /\ begun = <<>> => Len(caps_list) + Cardinality(Doubles(caps_list)) <= vs_count
  /\ begun # <<>> => Len(begun) + Cardinality(Doubles(begun)) <= vs_count

\* How many objects there may be of the capabilities before the n-th.
Before(S, n) == Cardinality({i \in S : i < n})
Quota(n)     == (n - 1) + Before(Doubles(begun), n) + Before(Uncounted, n)

RegInv ==
  /\ IsList(reg)
  /\ reg # <<>> => begun # <<>>
  /\ pc = "build" => Len(reg) <= Quota(idx)
  /\ pc = "second" => Len(reg) <= Quota(idx) + 1 /\ idx \in Doubles(begun) \cup Uncounted
  /\ pc = "idle" /\ reg # <<>> => Len(reg) <= Quota(Len(caps_list) + 1)

\* A set of places is finite.
LEMMA PlacesFinite ==
  ASSUME NEW n \in Nat, NEW S, S \subseteq 1..n
  PROVE  IsFiniteSet(S) /\ Cardinality(S) \in Nat
<1>1. IsFiniteSet(1..n)
  BY FS_Interval
<1>. QED BY <1>1, FS_Subset, FS_CardinalityType

\* How many places of a set there are before the n-th.
LEMMA BeforeFacts ==
  ASSUME NEW N \in Nat, NEW S, S \subseteq 1..N
  PROVE  /\ \A n \in 1..N : /\ Before(S, n) \in Nat /\ Before(S, n + 1) \in Nat
                            /\ Before(S, n) <= Before(S, n + 1)
                            /\ n \in S => Before(S, n + 1) = Before(S, n) + 1
         /\ Before(S, 1) = 0
         /\ Before(S, N + 1) = Cardinality(S)
<1>0. \A i \in S : i \in 1..N
  OBVIOUS
<1>1. ASSUME NEW n \in 1..N
      PROVE  /\ Before(S, n) \in Nat /\ Before(S, n + 1) \in Nat
             /\ Before(S, n) <= Before(S, n + 1)
             /\ n \in S => Before(S, n + 1) = Before(S, n) + 1
  <2>. DEFINE A == {i \in S : i < n}
              B == {i \in S : i < n + 1}
  <2>1. IsFiniteSet(A) /\ IsFiniteSet(B) /\ Cardinality(A) \in Nat /\ Cardinality(B) \in Nat
    <3>1. A \subseteq 1..N /\ B \subseteq 1..N
      OBVIOUS
    <3>. HIDE DEF A, B
    <3>. QED BY <3>1, PlacesFinite
  <2>0. \A i \in S : i < n + 1 <=> i < n \/ i = n
    BY <1>0
  <2>2. n \in S => B = A \cup {n}
    BY <2>0
  <2>3. n \notin S => B = A
    BY <2>0
  <2>4. n \notin A
    OBVIOUS
  <2>5. Before(S, n) = Cardinality(A) /\ Before(S, n + 1) = Cardinality(B)
    BY DEF Before
  <2>. HIDE DEF A, B
  <2>6. Cardinality(A \cup {n}) = Cardinality(A) + 1
    BY <2>1, <2>4, FS_AddElement
  <2>. QED BY <2>1, <2>2, <2>3, <2>5, <2>6
<1>2. {i \in S : i < 1} = {} /\ {i \in S : i < N + 1} = S
  <2>1. \A i \in S : ~(i < 1) /\ i < N + 1
    BY <1>0
  <2>. QED BY <2>1
<1>3. Before(S, 1) = 0
  BY <1>2, FS_EmptySet DEF Before
<1>4. Before(S, N + 1) = Cardinality(S)
  BY <1>2 DEF Before
<1>. QED BY <1>1, <1>3, <1>4

\* One more capability that makes two objects is one more in the count.
LEMMA DoublesGrow ==
  ASSUME NEW n \in Nat, NEW S, S \subseteq 1..n, NEW T, NEW i, T \subseteq S \cup {i}
  PROVE  /\ Cardinality(S) \in Nat /\ Cardinality(T) \in Nat
         /\ Cardinality(T) <= Cardinality(S) + 1
         /\ i \notin T => Cardinality(T) <= Cardinality(S)
         /\ i \in S => Cardinality(T) <= Cardinality(S)
<1>1. IsFiniteSet(S) /\ Cardinality(S) \in Nat
  BY PlacesFinite
<1>2. IsFiniteSet(S \cup {i}) /\ Cardinality(S \cup {i}) = IF i \in S THEN Cardinality(S) ELSE Cardinality(S) + 1
  BY <1>1, FS_AddElement
<1>3. IsFiniteSet(T) /\ Cardinality(T) \in Nat /\ Cardinality(T) <= Cardinality(S \cup {i})
  BY <1>2, FS_Subset, FS_CardinalityType
<1>4. ASSUME i \notin T PROVE Cardinality(T) <= Cardinality(S)
  <2>1. T \subseteq S
    BY <1>4
  <2>. QED BY <2>1, <1>1, FS_Subset
<1>. QED BY <1>1, <1>2, <1>3, <1>4

\* A new capability makes one object, and its fields are at the top.
LEMMA NewSingle ==
  ASSUME NEW c
  PROVE  ~Both(c, Defaults(c)) /\ (c \in Twofold => AtTop(c, Defaults(c)))
<1>1. ASSUME c \in Twofold PROVE \A s \in Defaults(c) : s.field # TurnedField(c)
  <2>1. CASE c \in {"AES_GCM", "AES_XPN", "AES_GMAC", "AES_CTR"}
    <3>1. c \in cap_sym /\ c \notin cap_rsa_sig \cup {"RSA_KEYGEN"} /\ c # "KDF135_X942"
      BY <2>1, SymFamily DEF cap_rsa_sig
    <3>. QED BY <3>1 DEF Defaults, Setting, TurnedField
  <2>2. CASE c \in cap_ecdsa_sig
    <3>1. c \notin cap_sym /\ c \notin cap_rsa_sig \cup {"RSA_KEYGEN"} /\ c # "KDF135_X942"
      BY <2>2, EcdsaFamily DEF cap_kdf, cap_ecdsa_sig
    <3>2. Defaults(c) = {}
      BY <3>1, Zenon DEF Defaults
    <3>. QED BY <3>2
  <2>. QED BY <1>1, <2>1, <2>2 DEF Twofold
<1>2. ASSUME c \in Twofold PROVE Values(Defaults(c), TurnedField(c)) = {}
  BY <1>1, <1>2 DEF Values
<1>. QED BY <1>1, <1>2, BothIsValue DEF AtTop

\* The fields stay at the top.
LEMMA TopStep ==
  ASSUME ListInv, TopInv, [Next]_vars
  PROVE  TopInv'
<1>. DEFINE Fine(y) == y.cipher \in Twofold => AtTop(y.cipher, y.cap)
<1>0. Len(caps_list) \in Nat /\ IsList(caps_list)
  BY ListFacts DEF ListInv
<1>a. \A i \in 1..Len(caps_list) : Fine(caps_list[i])
  BY DEF TopInv
<1>b. ASSUME NEW i \in 1..Len(caps_list), NEW cap, caps_list' = Put(caps_list, i, cap),
             caps_list[i].cipher \in Twofold => AtTop(caps_list[i].cipher, cap)
      PROVE  TopInv'
  <2>1. /\ Len(caps_list') = Len(caps_list)
        /\ \A j \in 1..Len(caps_list) : j # i => caps_list'[j] = caps_list[j]
        /\ caps_list'[i] = [cipher |-> caps_list[i].cipher, cap |-> cap]
    BY <1>b, PutKeeps
  <2>2. Fine(caps_list'[i])
    BY <1>b, <2>1
  <2>. QED BY <1>a, <2>1, <2>2 DEF TopInv
<1>1. CASE \E c \in Enabled : acvp_cap_list_append(c)
  <2>1. PICK c \in Enabled : acvp_cap_list_append(c)
    BY <1>1
  <2>2. caps_list' = caps_list \/ caps_list' = Append(caps_list, [cipher |-> c, cap |-> Defaults(c)])
    BY <2>1 DEF acvp_cap_list_append
  <2>3. Fine([cipher |-> c, cap |-> Defaults(c)])
    BY NewSingle
  <2>4. CASE caps_list' = Append(caps_list, [cipher |-> c, cap |-> Defaults(c)])
    <3>. DEFINE new == [cipher |-> c, cap |-> Defaults(c)]
    <3>. HIDE DEF new
    <3>1. /\ Len(caps_list') = Len(caps_list) + 1
          /\ \A j \in 1..Len(caps_list) : caps_list'[j] = caps_list[j]
          /\ caps_list'[Len(caps_list) + 1] = new
      BY <1>0, <2>4, AppendList DEF new
    <3>2. Fine(new)
      BY <2>3 DEF new
    <3>3. \A j \in 1..(Len(caps_list) + 1) : Fine(caps_list'[j])
      BY <1>0, <1>a, <3>1, <3>2
    <3>. QED BY <3>1, <3>3 DEF TopInv
  <2>. QED BY <2>2, <2>4 DEF TopInv
<1>2. CASE \E i \in 1..Len(caps_list) : \E row \in Rows(caps_list[i].cipher) :
             /\ Applies(row, caps_list[i].cap)
             /\ \E at \in row.at, v \in Tries(row) : SetParameter(i, row, at, v)
  <2>0. PICK i \in 1..Len(caps_list) : \E row \in Rows(caps_list[i].cipher) :
          \E at \in row.at, v \in Tries(row) : SetParameter(i, row, at, v)
    BY <1>2
  <2>1. PICK row \in Rows(caps_list[i].cipher) : \E at \in row.at, v \in Tries(row) : SetParameter(i, row, at, v)
    BY <2>0
  <2>2. PICK at \in row.at, v \in Tries(row) : SetParameter(i, row, at, v)
    BY <2>1
  <2>3. caps_list' = Put(caps_list, i, After(row, caps_list[i].cap, at, v))
    BY <2>2 DEF SetParameter, Put
  <2>4. caps_list[i].cipher \in Twofold => AtTop(caps_list[i].cipher, After(row, caps_list[i].cap, at, v))
    BY <1>a, TurningCounts
  <2>. QED BY <1>b, <2>3, <2>4
<1>3. CASE BuildOnly \/ BuildFirst \/ BuildSecond
  <2>. DEFINE c == caps_list[idx].cipher
              b == caps_list[idx].cap
  <2>1. PICK i \in 1..Len(caps_list) : i = idx
    BY <1>3 DEF BuildOnly, BuildFirst, BuildSecond, ListInv
  <2>2. \/ caps_list' = Put(caps_list, idx, EcdsaMerged(c, b))
        \/ \E y, h : caps_list' = Put(caps_list, idx, Turned(c, y, h))
    BY <1>3 DEF BuildOnly, BuildFirst, BuildSecond, Stores, Put
  <2>3. \A y, h : AtTop(c, Turned(c, y, h))
    BY TurnedRest DEF AtTop
  <2>4. c \in Twofold => AtTop(c, EcdsaMerged(c, b))
    <3>1. c \in Twofold => AtTop(c, b)
      BY <1>a, <2>1
    <3>2. TurnedField(c) # "algs"
      BY DEF TurnedField
    <3>. QED BY <3>1, <3>2, MergedRest DEF AtTop
  <2>. QED BY <1>b, <2>1, <2>2, <2>3, <2>4
<1>4. CASE UNCHANGED caps_list
  BY <1>4 DEF TopInv
<1>5. (\E c \in Enabled : SetWithout(c)) \/ acvp_build_registration_json \/ BuildKmac \/ BuildModes \/ UNCHANGED vars
        => UNCHANGED caps_list
  BY DEF SetWithout, acvp_build_registration_json, BuildKmac, BuildModes, vars
<1>. QED BY <1>1, <1>2, <1>3, <1>4, <1>5, RegisterSteps DEF Calls

\* Outside of the builder, vs_count covers the objects of caps_list.
LEMMA IdleCount ==
  ASSUME ListInv, RestoreInv, CountInv, pc = "idle"
  PROVE  /\ Len(caps_list) \in Nat
         /\ Doubles(caps_list) \subseteq 1..Len(caps_list)
         /\ Len(caps_list) + Cardinality(Doubles(caps_list)) <= vs_count
<1>1. Len(caps_list) \in Nat /\ Doubles(caps_list) \subseteq 1..Len(caps_list)
  BY ListFacts DEF ListInv, Doubles
<1>2. ASSUME begun # <<>>
      PROVE  Doubles(caps_list) = Doubles(begun) /\ Len(caps_list) = Len(begun)
  <2>1. \A i \in 1..Len(caps_list) : Kept(begun[i], caps_list[i])
    BY <1>2 DEF RestoreInv, Halfway
  <2>2. \A i \in 1..Len(caps_list) :
          Both(caps_list[i].cipher, caps_list[i].cap) <=> Both(begun[i].cipher, begun[i].cap)
    BY <2>1 DEF Kept, SameBuilt
  <2>3. Len(caps_list) = Len(begun)
    BY <1>2 DEF ListInv
  <2>. QED BY <2>2, <2>3 DEF Doubles
<1>. QED BY <1>1, <1>2 DEF CountInv

\* The count covers the objects after a call.
LEMMA CountCalls ==
  ASSUME ListInv, RestoreInv, TopInv, CountInv, Calls
  PROVE  vs_count' \in Nat /\ Len(caps_list') + Cardinality(Doubles(caps_list')) <= vs_count'
<1>. DEFINE D == Doubles(caps_list)
            N == Len(caps_list)
<1>0. /\ N \in Nat /\ D \subseteq 1..N /\ Cardinality(D) \in Nat
      /\ N + Cardinality(D) <= vs_count /\ vs_count \in Nat
  BY CallsEffect, IdleCount, PlacesFinite DEF CountInv
<1>1. CASE caps_list' = caps_list /\ vs_count' = vs_count
  BY <1>0, <1>1
<1>2. CASE \E c \in Enabled : acvp_cap_list_append(c)
  <2>1. PICK c \in Enabled : acvp_cap_list_append(c)
    BY <1>2
  <2>. DEFINE new == [cipher |-> c, cap |-> Defaults(c)]
  <2>2. ~Both(new.cipher, new.cap)
    BY NewSingle
  <2>3. \/ caps_list' = caps_list /\ vs_count' = vs_count
        \/ caps_list' = Append(caps_list, new) /\ vs_count' = vs_count + 1
    BY <2>1 DEF acvp_cap_list_append
  <2>. HIDE DEF new
  <2>4. CASE caps_list' = Append(caps_list, new) /\ vs_count' = vs_count + 1
    <3>1. /\ Len(caps_list') = N + 1
          /\ \A j \in 1..N : caps_list'[j] = caps_list[j]
          /\ caps_list'[N + 1] = new
      BY <2>4, AppendList DEF ListInv
    <3>2. Doubles(caps_list') = D
      <4>1. \A j \in 1..(N + 1) : j \in 1..N \/ j = N + 1
        BY <1>0
      <4>2. N + 1 \notin 1..N /\ 1..N \subseteq 1..(N + 1)
        BY <1>0
      <4>. QED BY <2>2, <3>1, <4>1, <4>2 DEF Doubles
    <3>. HIDE DEF D, N
    <3>. QED BY <1>0, <2>4, <3>1, <3>2
  <2>. QED BY <1>1, <2>3, <2>4
<1>3. CASE \E i \in 1..N : \E row \in Rows(caps_list[i].cipher) :
             /\ Applies(row, caps_list[i].cap)
             /\ \E at \in row.at, v \in Tries(row) : SetParameter(i, row, at, v)
  <2>0. PICK i \in 1..N : \E row \in Rows(caps_list[i].cipher) :
          \E at \in row.at, v \in Tries(row) : SetParameter(i, row, at, v)
    BY <1>3
  <2>1. PICK row \in Rows(caps_list[i].cipher) : \E at \in row.at, v \in Tries(row) : SetParameter(i, row, at, v)
    BY <2>0
  <2>2. PICK at \in row.at, v \in Tries(row) : SetParameter(i, row, at, v)
    BY <2>1
  <2>. DEFINE c == caps_list[i].cipher
              cap == caps_list[i].cap
              new == After(row, cap, at, v)
              E == Doubles(caps_list')
  <2>3. /\ caps_list' = Put(caps_list, i, new)
        /\ vs_count' = IF Accepted(row, cap, at, v) /\ v \in row.counts THEN vs_count + 1 ELSE vs_count
    BY <2>2 DEF SetParameter, Put
  <2>4. Both(c, new) /\ ~Both(c, cap) => vs_count' = vs_count + 1
    <3>1. c \in Twofold => AtTop(c, cap)
      BY DEF TopInv
    <3>2. Both(c, new) => c \in Twofold
      BY BothTwofold
    <3>3. c \in Twofold /\ Both(c, new) /\ ~Both(c, cap) => Accepted(row, cap, at, v) /\ v \in row.counts
      BY <3>1, TurningCounts
    <3>. QED BY <2>3, <3>2, <3>3
  <2>5. vs_count' \in Nat /\ vs_count' >= vs_count
    BY <1>0, <2>3
  <2>6. /\ Len(caps_list') = N
        /\ \A j \in 1..N : j # i => caps_list'[j] = caps_list[j]
        /\ caps_list'[i] = [cipher |-> c, cap |-> new]
    BY <2>3, PutKeeps
  <2>7. E \subseteq D \cup {i} /\ (i \in E <=> Both(c, new)) /\ (i \in D <=> Both(c, cap))
    BY <2>6 DEF Doubles
  <2>. HIDE DEF D, N, E, c, cap, new
  <2>8. /\ Cardinality(E) \in Nat /\ Cardinality(E) <= Cardinality(D) + 1
        /\ i \notin E \/ i \in D => Cardinality(E) <= Cardinality(D)
    BY <1>0, <2>7, DoublesGrow
  <2>9. N + Cardinality(E) <= vs_count'
    BY <1>0, <2>4, <2>5, <2>7, <2>8
  <2>. QED BY <2>5, <2>6, <2>9 DEF E
<1>4. CASE \E c \in Enabled : SetWithout(c)
  BY <1>1, <1>4 DEF SetWithout
<1>. QED BY <1>2, <1>3, <1>4 DEF Calls

\* CountInv holds at every step.
LEMMA CountStep ==
  ASSUME ListInv, RestoreInv, TopInv, CountInv, [Next]_vars
  PROVE  CountInv'
<1>1. CASE Calls
  BY <1>1, CallsEffect, CountCalls DEF CountInv
<1>2. CASE acvp_build_registration_json
  <2>1. /\ caps_list' = caps_list /\ vs_count' = vs_count
        /\ begun' = begun \/ begun' = caps_list
        /\ pc = "idle"
    BY <1>2 DEF acvp_build_registration_json
  <2>2. Len(caps_list) + Cardinality(Doubles(caps_list)) <= vs_count
    BY <2>1, IdleCount
  <2>. QED BY <2>1, <2>2 DEF CountInv
<1>3. CASE BuildOnly \/ BuildFirst \/ BuildSecond \/ BuildKmac \/ BuildModes
  <2>1. begun # <<>> /\ begun' = begun /\ vs_count' = vs_count
    BY <1>3 DEF BuildOnly, BuildFirst, BuildSecond, BuildKmac, BuildModes, ListInv
  <2>. QED BY <2>1 DEF CountInv
<1>4. CASE UNCHANGED vars
  BY <1>4 DEF vars, CountInv
<1>. QED BY <1>1, <1>2, <1>3, <1>4, RegisterSteps

\* The quota of objects while a registration is built.
LEMMA QuotaFacts ==
  ASSUME ListInv, begun # <<>>
  PROVE  /\ Quota(1) = 0
         /\ \A n \in 1..Len(caps_list) :
              /\ Quota(n) \in Nat /\ Quota(n + 1) \in Nat /\ Quota(n) + 1 <= Quota(n + 1)
              /\ n \in Doubles(begun) \cup Uncounted => Quota(n) + 2 <= Quota(n + 1)
         /\ Quota(Len(caps_list) + 1) =
              Len(caps_list) + Cardinality(Doubles(begun)) + Cardinality(Uncounted)
<1>. DEFINE N == Len(caps_list)
            D == Doubles(begun)
            U == Uncounted
<1>1. N \in Nat /\ D \subseteq 1..N /\ U \subseteq 1..N
  BY ListFacts DEF ListInv, Doubles, Uncounted
<1>2. \A n : Quota(n) = (n - 1) + Before(D, n) + Before(U, n)
  BY DEF Quota
<1>. HIDE DEF N, D, U
<1>3. /\ \A n \in 1..N : /\ Before(D, n) \in Nat /\ Before(D, n + 1) \in Nat
                         /\ Before(D, n) <= Before(D, n + 1)
                         /\ n \in D => Before(D, n + 1) = Before(D, n) + 1
      /\ Before(D, 1) = 0 /\ Before(D, N + 1) = Cardinality(D)
  BY <1>1, BeforeFacts
<1>4. /\ \A n \in 1..N : /\ Before(U, n) \in Nat /\ Before(U, n + 1) \in Nat
                         /\ Before(U, n) <= Before(U, n + 1)
                         /\ n \in U => Before(U, n + 1) = Before(U, n) + 1
      /\ Before(U, 1) = 0 /\ Before(U, N + 1) = Cardinality(U)
  BY <1>1, BeforeFacts
<1>5. Quota(1) = 0
  BY <1>2, <1>3, <1>4
<1>6. ASSUME NEW n \in 1..N
      PROVE  /\ Quota(n) \in Nat /\ Quota(n + 1) \in Nat /\ Quota(n) + 1 <= Quota(n + 1)
             /\ n \in D \cup U => Quota(n) + 2 <= Quota(n + 1)
  <2>1. n \in Nat /\ n >= 1 /\ (n + 1) - 1 = n
    BY <1>1
  <2>2. Quota(n) = (n - 1) + Before(D, n) + Before(U, n) /\ Quota(n + 1) = n + Before(D, n + 1) + Before(U, n + 1)
    BY <1>2, <2>1
  <2>3. /\ Before(D, n) \in Nat /\ Before(D, n + 1) \in Nat /\ Before(D, n) <= Before(D, n + 1)
        /\ n \in D => Before(D, n + 1) = Before(D, n) + 1
    BY <1>3
  <2>4. /\ Before(U, n) \in Nat /\ Before(U, n + 1) \in Nat /\ Before(U, n) <= Before(U, n + 1)
        /\ n \in U => Before(U, n + 1) = Before(U, n) + 1
    BY <1>4
  <2>5. Quota(n) \in Nat /\ Quota(n + 1) \in Nat /\ Quota(n) + 1 <= Quota(n + 1)
    BY <2>1, <2>2, <2>3, <2>4
  <2>6. n \in D => Quota(n) + 2 <= Quota(n + 1)
    BY <2>1, <2>2, <2>3, <2>4
  <2>7. n \in U => Quota(n) + 2 <= Quota(n + 1)
    BY <2>1, <2>2, <2>3, <2>4
  <2>. QED BY <2>5, <2>6, <2>7
<1>7. Quota(N + 1) = N + Cardinality(D) + Cardinality(U)
  <2>1. (N + 1) - 1 = N
    BY <1>1
  <2>. QED BY <1>2, <1>3, <1>4, <2>1
<1>. QED BY <1>5, <1>6, <1>7 DEF N, D, U

\* The builder leaves the modes of KDF108.
LEMMA UncountedKept ==
  ASSUME ListInv, BuildOnly \/ BuildFirst \/ BuildSecond \/ BuildKmac \/ BuildModes
  PROVE  /\ Len(caps_list') = Len(caps_list) /\ Uncounted' = Uncounted
         /\ begun # <<>> /\ begun' = begun /\ idx \in 1..Len(caps_list)
<1>. DEFINE c == caps_list[idx].cipher
            b == caps_list[idx].cap
<1>1. begun # <<>> /\ begun' = begun /\ idx \in 1..Len(caps_list)
  BY DEF BuildOnly, BuildFirst, BuildSecond, BuildKmac, BuildModes, ListInv
<1>2. CASE BuildKmac \/ BuildModes
  BY <1>1, <1>2 DEF BuildKmac, BuildModes, Uncounted
<1>3. CASE BuildOnly \/ BuildFirst \/ BuildSecond
  <2>1. \E cap : caps_list' = Put(caps_list, idx, cap) /\ (c = "KDF108" => cap = b)
    <3>1. CASE BuildOnly
      <4>1. caps_list' = Put(caps_list, idx, EcdsaMerged(c, b))
        BY <3>1 DEF BuildOnly, Stores, Put
      <4>2. c = "KDF108" => EcdsaMerged(c, b) = b
        BY MergedRest, TwofoldFamilies
      <4>. QED BY <4>1, <4>2
    <3>2. CASE BuildFirst
      <4>1. c # "KDF108"
        BY <3>2, BothTwofold, TwofoldFamilies DEF BuildFirst, Twofold
      <4>. QED BY <3>2, <4>1 DEF BuildFirst, Stores, Put
    <3>3. CASE BuildSecond
      BY <3>3 DEF BuildSecond, Stores, Put
    <3>. QED BY <1>3, <3>1, <3>2, <3>3
  <2>2. PICK cap : caps_list' = Put(caps_list, idx, cap) /\ (c = "KDF108" => cap = b)
    BY <2>1
  <2>3. PICK i \in 1..Len(caps_list) : i = idx
    BY <1>1
  <2>4. /\ Len(caps_list') = Len(caps_list)
        /\ \A j \in 1..Len(caps_list) : j # i => caps_list'[j] = caps_list[j]
        /\ caps_list'[i].cipher = caps_list[i].cipher
        /\ caps_list[i].cipher = "KDF108" => caps_list'[i].cap = caps_list[i].cap
    <3>1. /\ Len(caps_list') = Len(caps_list)
          /\ \A j \in 1..Len(caps_list) : j # i => caps_list'[j] = caps_list[j]
          /\ caps_list'[i] = [cipher |-> caps_list[i].cipher, cap |-> cap]
      BY <2>2, <2>3, PutKeeps
    <3>2. caps_list[i].cipher = "KDF108" => cap = caps_list[i].cap
      BY <2>2, <2>3
    <3>. QED BY <3>1, <3>2
  <2>5. \A j \in 1..Len(caps_list) :
          /\ caps_list'[j].cipher = caps_list[j].cipher
          /\ caps_list[j].cipher = "KDF108" => caps_list'[j].cap = caps_list[j].cap
    BY <2>4
  <2>. QED BY <1>1, <2>4, <2>5 DEF Uncounted
<1>. QED BY <1>2, <1>3

\* RegInv holds at every step.
LEMMA RegStep ==
  ASSUME ListInv, RestoreInv, RegInv, [Next]_vars
  PROVE  RegInv'
<1>e. IsList(<<>>) /\ Len(<<>>) = 0
  BY DEF IsList
<1>1. CASE Calls
  BY <1>e, <1>1, CallsEffect DEF RegInv
<1>2. CASE acvp_build_registration_json
  <2>1. CASE caps_list = <<>>
    <3>1. pc = "idle" /\ UNCHANGED <<pc, idx, reg, begun, caps_list>>
      BY <1>2, <2>1 DEF acvp_build_registration_json
    <3>. QED BY <3>1 DEF RegInv, Quota, Uncounted
  <2>2. CASE caps_list # <<>>
    <3>1. pc' = "build" /\ idx' = 1 /\ reg' = <<>> /\ begun' = caps_list
      BY <1>2, <2>2 DEF acvp_build_registration_json
    <3>2. ListInv'
      BY ListStep
    <3>3. Quota(1)' = 0
      <4>1. /\ Len(caps_list') \in Nat
            /\ Doubles(begun') \subseteq 1..Len(caps_list') /\ Uncounted' \subseteq 1..Len(caps_list')
        BY <2>2, <3>1, <3>2, ListFacts DEF ListInv, Doubles, Uncounted
      <4>2. Before(Doubles(begun'), 1) = 0 /\ Before(Uncounted', 1) = 0
        BY <4>1, BeforeFacts
      <4>3. Quota(1)' = (1 - 1) + Before(Doubles(begun'), 1) + Before(Uncounted', 1)
        BY DEF Quota
      <4>. QED BY <4>2, <4>3
    <3>. QED BY <1>e, <3>1, <3>3 DEF RegInv
  <2>. QED BY <2>1, <2>2
<1>3. CASE BuildOnly \/ BuildFirst \/ BuildSecond \/ BuildKmac \/ BuildModes
  <2>. DEFINE N == Len(caps_list)
              n == idx
              Steps == reg' = <<>> \/ \E o : reg' = Append(reg, o)
  <2>1. /\ Len(caps_list') = N /\ Uncounted' = Uncounted
        /\ begun # <<>> /\ begun' = begun /\ n \in 1..N /\ N \in Nat
    BY <1>3, UncountedKept, ListFacts DEF ListInv
  <2>2. \A m : Quota(m)' = Quota(m)
    BY <2>1 DEF Quota
  <2>3. /\ Quota(n) \in Nat /\ Quota(n + 1) \in Nat /\ Quota(n) + 1 <= Quota(n + 1)
        /\ n \in Doubles(begun) \cup Uncounted => Quota(n) + 2 <= Quota(n + 1)
    BY <2>1, QuotaFacts
  <2>4. IsList(reg) /\ Len(reg) \in Nat
    BY ListFacts DEF RegInv
  <2>5. CASE reg' = <<>> /\ pc' = "idle"
    BY <1>e, <2>5 DEF RegInv
  <2>6. ASSUME NEW o, Finish(o)
        PROVE  RegInv'
    <3>1. /\ reg' = Append(reg, o) /\ IsList(reg') /\ Len(reg') = Len(reg) + 1
      BY <2>4, <2>6, AppendList DEF Finish
    <3>2. Len(reg) + 1 <= Quota(n + 1)
      BY <1>3, <2>3, <2>4 DEF RegInv, BuildOnly, BuildFirst, BuildSecond, BuildKmac, BuildModes
    <3>3. \/ pc' = "idle" /\ n = N
          \/ pc' = "build" /\ idx' = n + 1
      BY <2>6 DEF Finish
    <3>. QED BY <2>1, <2>2, <3>1, <3>2, <3>3 DEF RegInv
  <2>7. ASSUME NEW o, reg' = Append(reg, o), pc = "build", pc' = "second", idx' = idx,
               idx \in Doubles(begun) \cup Uncounted
        PROVE  RegInv'
    <3>1. IsList(reg') /\ Len(reg') = Len(reg) + 1
      BY <2>4, <2>7, AppendList
    <3>2. Len(reg) <= Quota(n)
      BY <2>7 DEF RegInv
    <3>3. Len(reg') <= Quota(n) + 1
      BY <2>3, <2>4, <3>1, <3>2
    <3>. QED BY <2>1, <2>2, <2>7, <3>1, <3>3 DEF RegInv
  <2>8. CASE BuildOnly
    BY <2>5, <2>6, <2>8 DEF BuildOnly, Fail
  <2>9. CASE BuildFirst
    <3>1. Both(caps_list[n].cipher, caps_list[n].cap) /\ pc = "build"
      BY <2>9 DEF BuildFirst
    <3>2. Kept(begun[n], caps_list[n])
      BY <2>1, <3>1 DEF RestoreInv, Halfway
    <3>3. n \in Doubles(begun)
      BY <2>1, <3>1, <3>2 DEF Kept, SameBuilt, Doubles, ListInv
    <3>. QED BY <2>5, <2>7, <2>9, <3>3 DEF BuildFirst, Fail
  <2>10. CASE BuildSecond
    BY <2>5, <2>6, <2>10 DEF BuildSecond, Fail
  <2>11. CASE BuildKmac
    <3>1. pc' = "second" => n \in Uncounted
      BY <2>1, <2>11 DEF BuildKmac, Finish, Uncounted
    <3>. QED BY <2>6, <2>7, <2>11, <3>1 DEF BuildKmac
  <2>12. CASE BuildModes
    BY <2>6, <2>12 DEF BuildModes
  <2>. QED BY <1>3, <2>8, <2>9, <2>10, <2>11, <2>12
<1>4. CASE UNCHANGED vars
  BY <1>4 DEF vars, RegInv, Quota, Uncounted
<1>. QED BY <1>1, <1>2, <1>3, <1>4, RegisterSteps

\* The vs_count that acvp_cap_list_append and the setters keep, and the library tells
\* the application, is never less than the number of objects that
\* acvp_build_registration_json makes, the second one of KDF108 aside.
THEOREM RegisterCounts == Spec => []VsCountCovers
<1>. DEFINE Inv == RestoreInv /\ TopInv /\ CountInv /\ RegInv
<1>1. Init => Inv
  <2>1. SUFFICES ASSUME Init PROVE Inv
    OBVIOUS
  <2>2. caps_list \in Contexts /\ begun = <<>> /\ reg = <<>> /\ pc = "idle" /\ vs_count = Len(caps_list)
    BY <2>1 DEF Init
  <2>3. \A i \in 1..Len(caps_list) : /\ ~Both(caps_list[i].cipher, caps_list[i].cap)
                                     /\ AtTop(caps_list[i].cipher, caps_list[i].cap)
    BY <2>2, ContextsAssumption DEF AtTop, TurnedField, Fields
  <2>4. Len(caps_list) \in Nat
    BY <2>2, ContextsAssumption
  <2>5. Doubles(caps_list) = {} /\ Cardinality({}) = 0
    BY <2>3, FS_EmptySet DEF Doubles
  <2>6. CountInv
    BY <2>2, <2>4, <2>5 DEF CountInv
  <2>7. RestoreInv /\ TopInv /\ RegInv
    BY <2>2, <2>3 DEF RestoreInv, TopInv, RegInv, IsList
  <2>. QED BY <2>6, <2>7
<1>2. ListInv /\ Inv /\ [Next]_vars => Inv'
  BY RestoreStep, TopStep, CountStep, RegStep
<1>3. ListInv /\ Inv => VsCountCovers
  <2>1. SUFFICES ASSUME ListInv, Inv, pc = "idle"
                 PROVE  Len(reg) <= vs_count + Cardinality(Uncounted)
    BY DEF VsCountCovers
  <2>2. Len(caps_list) \in Nat /\ Uncounted \subseteq 1..Len(caps_list)
    BY <2>1, ListFacts DEF ListInv, Uncounted
  <2>3. vs_count \in Nat /\ Cardinality(Uncounted) \in Nat
    BY <2>1, <2>2, PlacesFinite DEF CountInv
  <2>4. CASE reg = <<>>
    BY <2>3, <2>4
  <2>5. CASE reg # <<>>
    <3>1. begun # <<>> /\ Len(reg) <= Quota(Len(caps_list) + 1)
      BY <2>1, <2>5 DEF RegInv
    <3>2. Len(reg) \in Nat
      BY <2>1, ListFacts DEF RegInv
    <3>3. Doubles(begun) \subseteq 1..Len(caps_list) /\ Len(begun) = Len(caps_list)
      BY <2>1, <3>1 DEF Doubles, ListInv
    <3>4. Cardinality(Doubles(begun)) \in Nat
      BY <2>2, <3>3, PlacesFinite
    <3>5. Quota(Len(caps_list) + 1) = Len(caps_list) + Cardinality(Doubles(begun)) + Cardinality(Uncounted)
      BY <2>1, <3>1, QuotaFacts
    <3>6. Len(caps_list) + Cardinality(Doubles(begun)) <= vs_count
      BY <2>1, <3>1, <3>3 DEF CountInv
    <3>. QED BY <2>2, <2>3, <3>1, <3>2, <3>4, <3>5, <3>6
  <2>. QED BY <2>4, <2>5
<1>. HIDE DEF Inv
<1>. QED BY <1>1, <1>2, <1>3, RegisterLists, PTL DEF Spec

----------------------------------------------------------------------------
(* Which fields the rows of a cipher set, and how.                         *)

RowFields == {"field", "how", "takes", "tries", "at", "unless", "needs", "under", "fresh", "idle", "onlyIf",
              "early", "drops", "leaves", "loses", "gives", "alone", "wide", "counts", "given", "lacking"}

\* A field is assigned (A) or collected (B).
Sorted(r, A, B) == IF r.how \in {"assign", "range"} THEN r.field \in A ELSE r.field \in B

\* A row that does nothing but set its field, and one that takes nothing.
Bare(r, B) ==
  /\ DOMAIN r = RowFields
  /\ r.drops = {} /\ r.loses = {} /\ r.gives = {} /\ r.leaves = {} /\ r.alone = "no" /\ r.early = 0
  /\ r.at = {<<>>} \/ "entry" \in B
Tame(r, A, B) == Bare(r, B) /\ Sorted(r, A, B)
Idle(r, B)    == Bare(r, B) /\ r.takes = {}

\* A row that may also make entries before its checks, and give, leave or lose
\* settings.
Gentle(r, A, B) ==
  /\ DOMAIN r = RowFields
  /\ r.drops = {} /\ r.alone = "no"
  /\ \A s \in r.gives \cup r.leaves : s.field \in B
  /\ Sorted(r, A, B)

Tames(R, A, B)   == \A r \in R : Tame(r, A, B)
Gentles(R, A, B) == \A r \in R : Gentle(r, A, B)

\* The rows of the tables are tame.
LEMMA TableRows ==
  ASSUME NEW A, NEW B, NEW F
  PROVE  /\ F \subseteq B => Tames(Adds(F), A, B)
         /\ F \subseteq A => Tames(Assigns(F), A, B) /\ Tames(Flags(F), A, B) /\ Tames(Ranges(F), A, B)
         /\ "entry" \in B => Tames(Makes(F), A, B) /\ Tames(Refuse(F), A, B)
<1>1. ASSUME NEW f, NEW t PROVE f \in B => Tame(Row(f, "add", t), A, B)
  BY DEF Row, Tame, Bare, RowFields, Sorted
<1>2. ASSUME NEW f, NEW t PROVE f \in A => Tame(Row(f, "assign", t), A, B) /\ Tame(Row(f, "range", t), A, B)
  BY DEF Row, Tame, Bare, RowFields, Sorted
<1>3. ASSUME NEW t, NEW x, NEW y
      PROVE  "entry" \in B => Tame([Row("entry", "entry", t) EXCEPT !.at = x, !.tries = y], A, B)
  BY DEF Row, Tame, Bare, RowFields, Sorted
<1>4. F \subseteq B => Tames(Adds(F), A, B)
  BY <1>1, Zenon DEF Adds, Tames
<1>5. F \subseteq A => Tames(Assigns(F), A, B) /\ Tames(Flags(F), A, B) /\ Tames(Ranges(F), A, B)
  BY <1>2, Zenon DEF Assigns, Flags, Ranges, Tames
<1>6. "entry" \in B => Tames(Makes(F), A, B) /\ Tames(Refuse(F), A, B)
  <2>1. "entry" \in B => /\ Tame([Row("entry", "entry", {"yes"}) EXCEPT !.at = F, !.tries = {}], A, B)
                         /\ Tame([Row("entry", "entry", {}) EXCEPT !.at = F, !.tries = {"yes"}], A, B)
    BY <1>3
  <2>. QED BY <2>1, Zenon DEF Makes, Refuse, Tames
<1>. QED BY <1>4, <1>5, <1>6

\* Rows with other values, places or conditions are tame.
LEMMA TameExcept ==
  ASSUME NEW A, NEW B, NEW q, Tame(q, A, B), NEW x, NEW y, NEW z
  PROVE  /\ Tame([q EXCEPT !.takes = x], A, B) /\ Tame([q EXCEPT !.tries = x], A, B)
         /\ Tame([q EXCEPT !.unless = x], A, B) /\ Tame([q EXCEPT !.unless = x, !.needs = y], A, B)
         /\ Tame([q EXCEPT !.counts = x], A, B) /\ Tame([q EXCEPT !.idle = x], A, B)
         /\ Tame([q EXCEPT !.fresh = "yes", !.onlyIf = x], A, B)
         /\ "entry" \in B => /\ Tame([q EXCEPT !.at = x], A, B) /\ Tame([q EXCEPT !.at = x, !.under = "yes"], A, B)
                             /\ Tame([q EXCEPT !.at = x, !.wide = "yes"], A, B)
                             /\ Tame([q EXCEPT !.at = x, !.given = y], A, B)
                             /\ Tame([q EXCEPT !.at = x, !.given = y, !.lacking = z], A, B)
                             /\ Tame([q EXCEPT !.at = x, !.lacking = y, !.tries = z], A, B)
                             /\ Tame([q EXCEPT !.at = x, !.lacking = y, !.takes = {}, !.tries = z], A, B)
                             /\ Tame([q EXCEPT !.at = x, !.given = y, !.lacking = z, !.tries = {}], A, B)
<1>1. /\ Tame([q EXCEPT !.takes = x], A, B) /\ Tame([q EXCEPT !.tries = x], A, B)
      /\ Tame([q EXCEPT !.unless = x], A, B)
  BY DEF Tame, Bare, RowFields, Sorted
<1>2. Tame([q EXCEPT !.unless = x, !.needs = y], A, B)
  BY DEF Tame, Bare, RowFields, Sorted
<1>3. Tame([q EXCEPT !.counts = x], A, B) /\ Tame([q EXCEPT !.idle = x], A, B)
  BY DEF Tame, Bare, RowFields, Sorted
<1>4. Tame([q EXCEPT !.fresh = "yes", !.onlyIf = x], A, B)
  BY DEF Tame, Bare, RowFields, Sorted
<1>5. "entry" \in B => Tame([q EXCEPT !.at = x], A, B) /\ Tame([q EXCEPT !.at = x, !.under = "yes"], A, B)
  BY DEF Tame, Bare, RowFields, Sorted
<1>6. "entry" \in B => Tame([q EXCEPT !.at = x, !.wide = "yes"], A, B) /\ Tame([q EXCEPT !.at = x, !.given = y], A, B)
  BY DEF Tame, Bare, RowFields, Sorted
<1>7. "entry" \in B => Tame([q EXCEPT !.at = x, !.given = y, !.lacking = z], A, B)
  BY DEF Tame, Bare, RowFields, Sorted
<1>8. "entry" \in B => Tame([q EXCEPT !.at = x, !.lacking = y, !.tries = z], A, B)
  BY DEF Tame, Bare, RowFields, Sorted
<1>9. "entry" \in B => Tame([q EXCEPT !.at = x, !.lacking = y, !.takes = {}, !.tries = z], A, B)
  BY DEF Tame, Bare, RowFields, Sorted
<1>10. "entry" \in B => Tame([q EXCEPT !.at = x, !.given = y, !.lacking = z, !.tries = {}], A, B)
  BY DEF Tame, Bare, RowFields, Sorted
<1>. QED BY <1>1, <1>2, <1>3, <1>4, <1>5, <1>6, <1>7, <1>8, <1>9, <1>10

\* The variants of tame rows are tame.
LEMMA TameVariants ==
  ASSUME NEW A, NEW B, NEW R, Tames(R, A, B), NEW x
  PROVE  /\ Tames(Taking(R, x), A, B) /\ Tames(AlsoTaking(R, x), A, B) /\ Tames(Trying(R, x), A, B)
         /\ "entry" \in B => Tames(In(x, R), A, B) /\ Tames(Under(x, R), A, B)
         /\ Tames({[q EXCEPT !.unless = x] : q \in R}, A, B)
         /\ \A r \in Taking(R, {}) : Idle(r, B)
<1>. USE DEF Tames
<1>1. ASSUME NEW q \in R PROVE Idle([q EXCEPT !.takes = {}], B)
  BY DEF Tame, Bare, RowFields, Idle
<1>2. ASSUME NEW q \in R, NEW y
      PROVE  /\ Tame([q EXCEPT !.takes = y], A, B) /\ Tame([q EXCEPT !.tries = y], A, B)
             /\ Tame([q EXCEPT !.unless = y], A, B)
             /\ "entry" \in B => Tame([q EXCEPT !.at = x], A, B) /\ Tame([q EXCEPT !.at = x, !.under = "yes"], A, B)
  BY TameExcept
<1>3. Tames(Taking(R, x), A, B) /\ Tames(Trying(R, x), A, B) /\ Tames({[q EXCEPT !.unless = x] : q \in R}, A, B)
  BY <1>2, Zenon DEF Taking, Trying
<1>4. Tames(AlsoTaking(R, x), A, B)
  <2>1. \A q \in R : [q EXCEPT !.takes = @ \cup x] = [q EXCEPT !.takes = q.takes \cup x]
    OBVIOUS
  <2>. QED BY <1>2, <2>1, Zenon DEF AlsoTaking
<1>5. "entry" \in B => Tames(In(x, R), A, B) /\ Tames(Under(x, R), A, B)
  BY <1>2, Zenon DEF In, Under
<1>6. \A r \in Taking(R, {}) : Idle(r, B)
  BY <1>1, Zenon DEF Taking
<1>. QED BY <1>3, <1>4, <1>5, <1>6

\* A call without a value, or for an algorithm that is not a prerequisite, leaves at
\* most the list of prerequisites.
HasPrereq == Setting(<<>>, "has_prereq", "yes")

\* What a row of an algorithm's prerequisites is.
PrereqRow(r, c) ==
  /\ DOMAIN r = RowFields
  /\ r.drops = {} /\ r.loses = {} /\ r.gives = {} /\ r.leaves \subseteq {HasPrereq} /\ r.alone = "no" /\ r.early = 0
  /\ r.at = {<<>>} /\ r.field = "prereq" /\ r.how = "add"
  /\ r.takes \subseteq acvp_validate_prereq_val(c)

\* Every algorithm has them.
LEMMA PrereqTable ==
  ASSUME NEW c, NEW r \in acvp_cap_set_prereq(c)
  PROVE  PrereqRow(r, c)
<1>1. ASSUME NEW a, NEW b, b \subseteq {HasPrereq}, a \subseteq acvp_validate_prereq_val(c)
      PROVE  PrereqRow([Row("prereq", "add", a) EXCEPT !.tries = {"other"}, !.leaves = b], c)
  BY <1>1 DEF Row, PrereqRow, RowFields
<1>2. PrereqRow([Row("prereq", "add", {}) EXCEPT !.tries = {"empty"}], c)
  BY DEF Row, PrereqRow, RowFields
<1>3. PrereqRow([Row("prereq", "add", acvp_validate_prereq_val(c)) EXCEPT
                  !.tries = {"other"}, !.leaves = {Setting(<<>>, "has_prereq", "yes")}], c)
  BY <1>1 DEF HasPrereq
<1>. QED BY <1>2, <1>3, Zenon DEF acvp_cap_set_prereq

\* A row that takes nothing, one that gives an entry its first name, and one whose
\* entry takes the place of others.
Inert(r, B)  == r.takes = {} /\ r.drops = {} /\ r.alone = "no" /\ \A s \in r.leaves : s.field \in B
Naming(r)    == /\ r.drops = {Blank} /\ r.fresh = "yes" /\ r.wide = "no" /\ r.field = "entry" /\ r.how = "entry"
                /\ r.alone = "no" /\ r.gives = {} /\ r.leaves = {}
Replacing(r, A, B) ==
  /\ r.alone = "yes" /\ r.early = 2 /\ r.drops = {} /\ r.wide = "no"
  /\ \A at \in r.at : Len(at) >= 2
  /\ \A s \in r.gives \cup r.leaves : s.field \in B
  /\ r.takes = {} \/ Sorted(r, A, B)

Proper(r, A, B) == Gentle(r, A, B) \/ Inert(r, B) \/ Naming(r)
Sane(r, A, B)   == Proper(r, A, B) \/ Replacing(r, A, B)

\* A cipher whose fields are either assigned or collected.
Orderly(c, A, B) ==
  /\ "entry" \in B /\ A \cap B = {}
  /\ \A r \in Rows(c) : Sane(r, A, B) /\ (c \notin cap_kas_ecc \cup cap_kas_ffc => Proper(r, A, B))

Single(G, cap) == \A s, t \in cap : s.field \in G /\ s.field = t.field /\ s.at = t.at => s = t

\* The fields that are assigned are not collected.
LEMMA AssignedSorted ==
  ASSUME NEW c, NEW A, NEW B, Orderly(c, A, B)
  PROVE  Assigned(c) \subseteq A
<1>1. ASSUME NEW r \in Rows(c), r.takes # {}, r.how \in {"assign", "range"} PROVE r.field \in A
  <2>1. Sane(r, A, B)
    BY DEF Orderly
  <2>2. ~Inert(r, B) /\ ~Naming(r)
    BY <1>1 DEF Inert, Naming
  <2>3. Sorted(r, A, B)
    BY <1>1, <2>1, <2>2 DEF Sane, Proper, Gentle, Replacing
  <2>. QED BY <1>1, <2>3 DEF Sorted
<1>2. \A f \in Assigned(c) : \E r \in Rows(c) : r.takes # {} /\ r.how \in {"assign", "range"} /\ f = r.field
  BY Zenon DEF Assigned
<1>. QED BY <1>1, <1>2

\* What is new in a capability after a call: the setting itself, and collected ones.
LEMMA AfterAdds ==
  ASSUME NEW A, NEW B, "entry" \in B, NEW r, Sane(r, A, B), NEW cap, NEW at, NEW v,
         NEW s \in After(r, cap, at, v), s \notin cap
  PROVE  \/ s.field \in B
         \/ /\ Passes(r, cap, at, v) /\ r.how \in {"assign", "range"}
            /\ s = Setting(Place(r, at), r.field, v)
            /\ \A t \in After(r, cap, at, v) : t.at = Place(r, at) /\ t.field = r.field => t = s \/ t.field \in B
<1>. DEFINE base == cap \ Displaced(r, cap, at)
<1>1. \A y : Entry(y).field = "entry"
  BY DEF Entry, Setting
<1>2. \A t \in Created(r, at) : t.field = "entry"
  BY <1>1 DEF Created
<1>3. ~(Barred(r, cap, at) \/ Ignored(r, cap, v))
  BY DEF After
<1>4. CASE ~Passes(r, cap, at, v)
  <2>1. s \in Created(r, at) \cup r.leaves
    BY <1>3, <1>4 DEF After
  <2>2. \A t \in r.leaves : t.field \in B
    BY DEF Sane, Proper, Gentle, Inert, Naming, Replacing
  <2>. QED BY <1>2, <2>1, <2>2
<1>5. CASE Passes(r, cap, at, v)
  <2>1. After(r, cap, at, v) = Set(r, base, at, v) /\ r.takes # {}
    BY <1>3, <1>5 DEF After, Passes
  <2>2. (\A t \in r.gives : t.field \in B) /\ (r.how \in {"assign", "range"} \/ r.field \in B)
    BY <2>1 DEF Sane, Proper, Gentle, Inert, Naming, Replacing, Sorted
  <2>. DEFINE p == Place(r, at)
              x == Setting(p, r.field, v)
              old == IF r.how \in {"assign", "range"} THEN {t \in base : t.at = p /\ t.field = r.field} ELSE {}
              more == (Created(r, at) \cup r.gives) \cup (IF at = <<>> THEN {} ELSE {Entry(at)})
  <2>3. Set(r, base, at, v) = ((base \ (old \cup r.drops)) \cup more) \cup {x}
    BY DEF Set
  <2>4. \A t \in more : t.field \in B
    BY <1>1, <1>2, <2>2
  <2>5. x.field = r.field
    BY DEF Setting
  <2>6. s \in more \/ s = x
    BY <2>1, <2>3
  <2>7. CASE s = x /\ r.how \in {"assign", "range"}
    <3>1. \A t \in base \ (old \cup r.drops) : ~(t.at = p /\ t.field = r.field)
      BY <2>7
    <3>. HIDE DEF more, x, p, old, base
    <3>2. \A t \in After(r, cap, at, v) : t.at = p /\ t.field = r.field => t = x \/ t.field \in B
      BY <2>1, <2>3, <2>4, <3>1
    <3>. QED BY <1>5, <2>7, <3>2 DEF p, x
  <2>. HIDE DEF more, x, p, old
  <2>8. CASE s \in more
    BY <2>4, <2>8
  <2>9. CASE s = x /\ r.how \notin {"assign", "range"}
    BY <2>2, <2>5, <2>9
  <2>. QED BY <2>6, <2>7, <2>8, <2>9
<1>. QED BY <1>4, <1>5

\* An assigned field keeps one value in a place.
LEMMA SingleKept ==
  ASSUME NEW c, NEW A, NEW B, Orderly(c, A, B), NEW r \in Rows(c), NEW cap, Single(Assigned(c), cap), NEW at, NEW v
  PROVE  Single(Assigned(c), After(r, cap, at, v))
<1>. DEFINE new == After(r, cap, at, v)
<1>0. Assigned(c) \subseteq A /\ A \cap B = {} /\ "entry" \in B /\ Sane(r, A, B)
  BY AssignedSorted DEF Orderly
<1>1. SUFFICES ASSUME NEW s \in new, NEW t \in new, s.field \in Assigned(c), s.field = t.field, s.at = t.at
               PROVE  s = t
  BY DEF Single
<1>2. s.field \notin B /\ t.field \notin B
  BY <1>0, <1>1
<1>3. ASSUME NEW x \in new, NEW y \in new, x \notin cap, x.field \notin B, y.field \notin B, x.field = y.field, x.at = y.at
      PROVE  x = y
  <2>1. /\ x = Setting(Place(r, at), r.field, v)
        /\ \A z \in new : z.at = Place(r, at) /\ z.field = r.field => z = x \/ z.field \in B
    BY <1>0, <1>3, AfterAdds
  <2>2. x.at = Place(r, at) /\ x.field = r.field
    BY <2>1 DEF Setting
  <2>. QED BY <1>3, <2>1, <2>2
<1>4. CASE s \in cap /\ t \in cap
  BY <1>1, <1>4 DEF Single
<1>. QED BY <1>1, <1>2, <1>3, <1>4

\* What an accepted call takes away is the former value of a field it sets, or in an
\* entry that was replaced.
Swaps(a, b) == \A s \in a \ b : \E t \in b \ a : t.field = s.field

\* So it is for every accepted call, and what is new is its field or collected.
LEMMA AcceptedSwaps ==
  ASSUME NEW c, NEW A, NEW B, Orderly(c, A, B), NEW r \in Rows(c), NEW cap, Single(Assigned(c), cap),
         NEW at \in r.at, NEW v, Accepted(r, cap, at, v)
  PROVE  /\ r.alone = "yes" => \A s \in cap \ After(r, cap, at, v) : Len(s.at) >= 2
         /\ r.alone # "yes" => Swaps(cap, After(r, cap, at, v))
         /\ Gentle(r, A, B) \/ Inert(r, B) => \A s \in cap \ After(r, cap, at, v) : s.field \in A
         /\ Gentle(r, A, B) \/ Inert(r, B) =>
              \A s \in After(r, cap, at, v) \ cap : s.field \in B \/ (s.field = r.field /\ ~Barred(r, cap, at))
<1>. DEFINE new == After(r, cap, at, v)
            base == cap \ Displaced(r, cap, at)
            p == Place(r, at)
            x == Setting(p, r.field, v)
            old == IF r.how \in {"assign", "range"} THEN {s \in base : s.at = p /\ s.field = r.field} ELSE {}
<1>0. Assigned(c) \subseteq A /\ A \cap B = {} /\ "entry" \in B /\ Sane(r, A, B)
  BY AssignedSorted DEF Orderly
<1>1. CASE Ignored(r, cap, v)
  BY <1>1 DEF After, Swaps
<1>2. CASE ~Ignored(r, cap, v)
  <2>1. ~Barred(r, cap, at) /\ Passes(r, cap, at, v) /\ new = Set(r, base, at, v)
    BY <1>2 DEF Accepted, After
  <2>2. r.takes # {}
    BY <2>1 DEF Passes
  <2>3. \A s \in base \ (old \cup r.drops) : s \in new
    BY <2>1 DEF Set
  <2>4. x \in new /\ x.field = r.field /\ x.at = p
    BY <2>1 DEF Set, Setting
  <2>5. r.how \in {"assign", "range"} => r.field \in Assigned(c)
    BY <2>2, Zenon DEF Assigned
  <2>6. \A s \in old : s \notin new => x \notin cap
    <3>1. SUFFICES ASSUME NEW s \in old, s \notin new, x \in cap PROVE FALSE
      OBVIOUS
    <3>2. s \in cap /\ s.at = p /\ s.field = r.field /\ r.field \in Assigned(c)
      BY <2>5
    <3>3. s = x
      BY <2>4, <3>1, <3>2 DEF Single
    <3>. QED BY <2>4, <3>1, <3>3
  <2>7. \A s \in old : s.field = r.field /\ r.how \in {"assign", "range"} /\ s.at = p
    OBVIOUS
  <2>8. r.alone # "yes" => base = cap
    BY DEF Displaced
  <2>9. \A s \in new \ cap : s.field \in B \/ s.field = r.field
    BY <1>0, <2>4, AfterAdds
  <2>. HIDE DEF new, base, x, old
  <2>10. CASE Gentle(r, A, B)
    <3>1. r.drops = {} /\ r.alone = "no" /\ (r.how \in {"assign", "range"} => r.field \in A)
      BY <2>10 DEF Gentle, Sorted
    <3>2. \A s \in cap \ new : s \in old
      BY <2>3, <2>8, <3>1
    <3>3. Swaps(cap, new)
      BY <2>4, <2>6, <2>7, <3>2 DEF Swaps
    <3>. QED BY <2>1, <2>7, <2>9, <3>1, <3>2, <3>3 DEF new
  <2>11. CASE Naming(r)
    <3>1. r.drops = {Blank} /\ r.alone = "no" /\ r.how = "entry" /\ r.field = "entry" /\ r.fresh = "yes"
      BY <2>11 DEF Naming
    <3>2. old = {}
      BY <3>1 DEF old
    <3>3. \A s \in cap \ new : s = Blank
      BY <2>3, <2>8, <3>1, <3>2
    <3>4. x \notin cap
      BY <2>1, <2>4, <3>1 DEF Passes
    <3>5. Blank.field = "entry"
      BY DEF Blank, Entry, Setting
    <3>6. Swaps(cap, new)
      BY <2>4, <3>1, <3>3, <3>4, <3>5 DEF Swaps
    <3>7. ~Gentle(r, A, B) /\ ~Inert(r, B)
      BY <2>2, <3>1 DEF Gentle, Inert
    <3>. QED BY <3>1, <3>6, <3>7 DEF new
  <2>12. CASE Replacing(r, A, B)
    <3>1. r.alone = "yes" /\ r.early = 2 /\ r.drops = {} /\ r.wide = "no" /\ Len(at) >= 2
      BY <2>12 DEF Replacing
    <3>2. \A s \in Displaced(r, cap, at) : Len(s.at) >= 2
      BY <3>1 DEF Displaced
    <3>3. p = at
      BY <3>1 DEF Place
    <3>4. \A s \in old : Len(s.at) >= 2
      BY <2>7, <3>1, <3>3
    <3>5. \A s \in cap \ new : Len(s.at) >= 2
      BY <2>3, <3>1, <3>2, <3>4 DEF base
    <3>6. ~Gentle(r, A, B) /\ ~Inert(r, B)
      BY <3>1 DEF Gentle, Inert
    <3>. QED BY <3>1, <3>5, <3>6 DEF new
  <2>13. ~Inert(r, B)
    BY <2>2 DEF Inert
  <2>. QED BY <1>0, <2>10, <2>11, <2>12, <2>13 DEF Sane, Proper
<1>. QED BY <1>1, <1>2

----------------------------------------------------------------------------
(* The setters and the builder of each kind of cipher: the alternatives by *)
(* which Setters, Builder and Complete choose exclude each other.          *)

\* The ciphers that have a kind of their own.
Named == {"RSA_KEYGEN", "RSA_SIGGEN", "RSA_SIGVER", "KDF135_SNMP", "KDF135_SSH", "KDF135_SRTP", "KDF135_IKEV2",
          "KDF135_IKEV1", "KDF135_X942", "KDF135_X963", "KDF108", "PBKDF", "KDF_TLS12", "KDF_TLS13",
          "KAS_IFC_SSC", "KTS_IFC", "KDA_ONESTEP", "KDA_TWOSTEP", "KDA_HKDF"}

\* The kind of symmetric ciphers.
LEMMA SymKind ==
  ASSUME NEW c, c \in cap_sym
  PROVE  /\ Setters(c) = acvp_cap_sym_cipher_set_parm(c) \cup acvp_cap_sym_cipher_set_domain(c)
         /\ \A cap : Builder(c, cap) = acvp_build_sym_cipher_register_cap(c, cap)
         /\ \A cap : Complete(c, cap) <=> SymComplete(c, cap)
<1>1. c \notin cap_hash \cup cap_hmac \cup cap_cmac \cup cap_kmac \cup cap_drbg \cup cap_rsa_sig \cup cap_rsa_prim
             \cup cap_ecdsa \cup cap_eddsa \cup cap_dsa \cup cap_kdf \cup cap_kas_ecc \cup cap_kas_ffc \cup cap_kda
             \cup cap_safe_primes \cup cap_lms
  BY DEF cap_sym, cap_aes, cap_tdes, cap_hash, cap_sha2, cap_sha3, cap_shake, cap_hmac, cap_cmac, cap_kmac, cap_drbg,
         cap_rsa_sig, cap_rsa_prim, cap_ecdsa, cap_ecdsa_sig, cap_eddsa, cap_dsa, cap_kdf, cap_kas_ecc, cap_kas_ffc,
         cap_kda, cap_safe_primes, cap_lms
<1>2. c \notin Named
  BY <1>1 DEF Named, cap_kdf, cap_kda, cap_rsa_sig, cap_sym, cap_aes, cap_tdes, cap_sha2, cap_sha3, cap_shake
<1>3. Setters(c) = acvp_cap_sym_cipher_set_parm(c) \cup acvp_cap_sym_cipher_set_domain(c)
  BY <1>1, <1>2, Zenon DEF Setters, Named
<1>4. ASSUME NEW cap PROVE Builder(c, cap) = acvp_build_sym_cipher_register_cap(c, cap)
  BY <1>1, <1>2, Zenon DEF Builder, Named
<1>5. ASSUME NEW cap PROVE Complete(c, cap) <=> SymComplete(c, cap)
  BY <1>1, <1>2, Zenon DEF Complete, Named
<1>. QED BY <1>3, <1>4, <1>5, Zenon

\* The kind of hashes.
LEMMA HashKind ==
  ASSUME NEW c, c \in cap_hash
  PROVE  /\ Setters(c) = acvp_cap_hash_set_parm(c) \cup acvp_cap_hash_set_domain(c)
         /\ \A cap : Builder(c, cap) = acvp_build_hash_register_cap(c, cap)
         /\ \A cap : Complete(c, cap)
<1>1. c \notin cap_sym \cup cap_hmac \cup cap_cmac \cup cap_kmac \cup cap_drbg \cup cap_rsa_sig \cup cap_rsa_prim
             \cup cap_ecdsa \cup cap_eddsa \cup cap_dsa \cup cap_kdf \cup cap_kas_ecc \cup cap_kas_ffc \cup cap_kda
             \cup cap_safe_primes \cup cap_lms
  BY DEF cap_sym, cap_aes, cap_tdes, cap_hash, cap_sha2, cap_sha3, cap_shake, cap_hmac, cap_cmac, cap_kmac, cap_drbg,
         cap_rsa_sig, cap_rsa_prim, cap_ecdsa, cap_ecdsa_sig, cap_eddsa, cap_dsa, cap_kdf, cap_kas_ecc, cap_kas_ffc,
         cap_kda, cap_safe_primes, cap_lms
<1>2. c \notin Named
  BY <1>1 DEF Named, cap_kdf, cap_kda, cap_rsa_sig, cap_hash, cap_aes, cap_tdes, cap_sha2, cap_sha3, cap_shake
<1>3. Setters(c) = acvp_cap_hash_set_parm(c) \cup acvp_cap_hash_set_domain(c)
  BY <1>1, <1>2, Zenon DEF Setters, Named
<1>4. ASSUME NEW cap PROVE Builder(c, cap) = acvp_build_hash_register_cap(c, cap)
  BY <1>1, <1>2, Zenon DEF Builder, Named
<1>5. ASSUME NEW cap PROVE Complete(c, cap)
  BY <1>1, <1>2, Zenon DEF Complete, Named
<1>. QED BY <1>3, <1>4, <1>5, Zenon

\* The kind of HMAC.
LEMMA HmacKind ==
  ASSUME NEW c, c \in cap_hmac
  PROVE  /\ Setters(c) = acvp_cap_hmac_set_parm(c) \cup acvp_cap_hmac_set_domain(c)
         /\ \A cap : Builder(c, cap) = acvp_build_hmac_register_cap(c, cap)
         /\ \A cap : Complete(c, cap)
<1>1. c \notin cap_sym \cup cap_hash \cup cap_cmac \cup cap_kmac \cup cap_drbg \cup cap_rsa_sig \cup cap_rsa_prim
             \cup cap_ecdsa \cup cap_eddsa \cup cap_dsa \cup cap_kdf \cup cap_kas_ecc \cup cap_kas_ffc \cup cap_kda
             \cup cap_safe_primes \cup cap_lms
  BY DEF cap_sym, cap_aes, cap_tdes, cap_hash, cap_sha2, cap_sha3, cap_shake, cap_hmac, cap_cmac, cap_kmac, cap_drbg,
         cap_rsa_sig, cap_rsa_prim, cap_ecdsa, cap_ecdsa_sig, cap_eddsa, cap_dsa, cap_kdf, cap_kas_ecc, cap_kas_ffc,
         cap_kda, cap_safe_primes, cap_lms
<1>2. c \notin Named
  BY <1>1 DEF Named, cap_kdf, cap_kda, cap_rsa_sig, cap_hmac
<1>3. Setters(c) = acvp_cap_hmac_set_parm(c) \cup acvp_cap_hmac_set_domain(c)
  BY <1>1, <1>2, Zenon DEF Setters, Named
<1>4. ASSUME NEW cap PROVE Builder(c, cap) = acvp_build_hmac_register_cap(c, cap)
  BY <1>1, <1>2, Zenon DEF Builder, Named
<1>5. ASSUME NEW cap PROVE Complete(c, cap)
  BY <1>1, <1>2, Zenon DEF Complete, Named
<1>. QED BY <1>3, <1>4, <1>5, Zenon

\* The kind of CMAC.
LEMMA CmacKind ==
  ASSUME NEW c, c \in cap_cmac
  PROVE  /\ Setters(c) = acvp_cap_cmac_set_parm(c) \cup acvp_cap_cmac_set_domain(c)
         /\ \A cap : Builder(c, cap) = acvp_build_cmac_register_cap(c, cap)
         /\ \A cap : Complete(c, cap) <=> CmacComplete(c, cap)
<1>1. c \notin cap_sym \cup cap_hash \cup cap_hmac \cup cap_kmac \cup cap_drbg \cup cap_rsa_sig \cup cap_rsa_prim
             \cup cap_ecdsa \cup cap_eddsa \cup cap_dsa \cup cap_kdf \cup cap_kas_ecc \cup cap_kas_ffc \cup cap_kda
             \cup cap_safe_primes \cup cap_lms
  BY DEF cap_sym, cap_aes, cap_tdes, cap_hash, cap_sha2, cap_sha3, cap_shake, cap_hmac, cap_cmac, cap_kmac, cap_drbg,
         cap_rsa_sig, cap_rsa_prim, cap_ecdsa, cap_ecdsa_sig, cap_eddsa, cap_dsa, cap_kdf, cap_kas_ecc, cap_kas_ffc,
         cap_kda, cap_safe_primes, cap_lms
<1>2. c \notin Named
  BY <1>1 DEF Named, cap_kdf, cap_kda, cap_rsa_sig, cap_cmac
<1>3. Setters(c) = acvp_cap_cmac_set_parm(c) \cup acvp_cap_cmac_set_domain(c)
  BY <1>1, <1>2, Zenon DEF Setters, Named
<1>4. ASSUME NEW cap PROVE Builder(c, cap) = acvp_build_cmac_register_cap(c, cap)
  BY <1>1, <1>2, Zenon DEF Builder, Named
<1>5. ASSUME NEW cap PROVE Complete(c, cap) <=> CmacComplete(c, cap)
  BY <1>1, <1>2, Zenon DEF Complete, Named
<1>. QED BY <1>3, <1>4, <1>5, Zenon

\* The kind of KMAC.
LEMMA KmacKind ==
  ASSUME NEW c, c \in cap_kmac
  PROVE  /\ Setters(c) = acvp_cap_kmac_set_parm(c) \cup acvp_cap_kmac_set_domain(c)
         /\ \A cap : Builder(c, cap) = acvp_build_kmac_register_cap(c, cap)
         /\ \A cap : Complete(c, cap)
<1>1. c \notin cap_sym \cup cap_hash \cup cap_hmac \cup cap_cmac \cup cap_drbg \cup cap_rsa_sig \cup cap_rsa_prim
             \cup cap_ecdsa \cup cap_eddsa \cup cap_dsa \cup cap_kdf \cup cap_kas_ecc \cup cap_kas_ffc \cup cap_kda
             \cup cap_safe_primes \cup cap_lms
  BY DEF cap_sym, cap_aes, cap_tdes, cap_hash, cap_sha2, cap_sha3, cap_shake, cap_hmac, cap_cmac, cap_kmac, cap_drbg,
         cap_rsa_sig, cap_rsa_prim, cap_ecdsa, cap_ecdsa_sig, cap_eddsa, cap_dsa, cap_kdf, cap_kas_ecc, cap_kas_ffc,
         cap_kda, cap_safe_primes, cap_lms
<1>2. c \notin Named
  BY <1>1 DEF Named, cap_kdf, cap_kda, cap_rsa_sig, cap_kmac
<1>3. Setters(c) = acvp_cap_kmac_set_parm(c) \cup acvp_cap_kmac_set_domain(c)
  BY <1>1, <1>2, Zenon DEF Setters, Named
<1>4. ASSUME NEW cap PROVE Builder(c, cap) = acvp_build_kmac_register_cap(c, cap)
  BY <1>1, <1>2, Zenon DEF Builder, Named
<1>5. ASSUME NEW cap PROVE Complete(c, cap)
  BY <1>1, <1>2, Zenon DEF Complete, Named
<1>. QED BY <1>3, <1>4, <1>5, Zenon

\* The kind of DRBGs.
LEMMA DrbgKind ==
  ASSUME NEW c, c \in cap_drbg
  PROVE  /\ Setters(c) = acvp_cap_drbg_set_parm(c) \cup acvp_cap_drbg_set_length(c)
         /\ \A cap : Builder(c, cap) = acvp_build_drbg_register_cap(c, cap)
         /\ \A cap : Complete(c, cap) <=> DrbgComplete(cap)
<1>1. c \notin cap_sym \cup cap_hash \cup cap_hmac \cup cap_cmac \cup cap_kmac \cup cap_rsa_sig \cup cap_rsa_prim
             \cup cap_ecdsa \cup cap_eddsa \cup cap_dsa \cup cap_kdf \cup cap_kas_ecc \cup cap_kas_ffc \cup cap_kda
             \cup cap_safe_primes \cup cap_lms
  BY DEF cap_sym, cap_aes, cap_tdes, cap_hash, cap_sha2, cap_sha3, cap_shake, cap_hmac, cap_cmac, cap_kmac, cap_drbg,
         cap_rsa_sig, cap_rsa_prim, cap_ecdsa, cap_ecdsa_sig, cap_eddsa, cap_dsa, cap_kdf, cap_kas_ecc, cap_kas_ffc,
         cap_kda, cap_safe_primes, cap_lms
<1>2. c \notin Named
  BY <1>1 DEF Named, cap_kdf, cap_kda, cap_rsa_sig, cap_drbg
<1>3. Setters(c) = acvp_cap_drbg_set_parm(c) \cup acvp_cap_drbg_set_length(c)
  BY <1>1, <1>2, Zenon DEF Setters, Named
<1>4. ASSUME NEW cap PROVE Builder(c, cap) = acvp_build_drbg_register_cap(c, cap)
  BY <1>1, <1>2, Zenon DEF Builder, Named
<1>5. ASSUME NEW cap PROVE Complete(c, cap) <=> DrbgComplete(cap)
  BY <1>1, <1>2, Zenon DEF Complete, Named
<1>. QED BY <1>3, <1>4, <1>5, Zenon

\* The kind of RSA key generation.
LEMMA RsaKeygenKind ==
  ASSUME NEW c, c = "RSA_KEYGEN"
  PROVE  /\ Setters(c) = acvp_cap_rsa_keygen_set_mode(c) \cup acvp_cap_rsa_keygen_set_parm(c)
             \cup acvp_cap_rsa_keygen_set_exponent(c) \cup acvp_cap_rsa_keygen_set_primes(c)
         /\ \A cap : Builder(c, cap) = acvp_build_rsa_keygen_register_cap(c, cap)
         /\ \A cap : Complete(c, cap) <=> RsaKeygenComplete(cap)
<1>1. c \notin cap_sym \cup cap_hash \cup cap_hmac \cup cap_cmac \cup cap_kmac \cup cap_drbg \cup cap_rsa_sig
             \cup cap_rsa_prim \cup cap_ecdsa \cup cap_eddsa \cup cap_dsa \cup cap_kdf \cup cap_kas_ecc
             \cup cap_kas_ffc \cup cap_kda \cup cap_safe_primes \cup cap_lms
  BY DEF cap_sym, cap_aes, cap_tdes, cap_hash, cap_sha2, cap_sha3, cap_shake, cap_hmac, cap_cmac, cap_kmac, cap_drbg,
         cap_rsa_sig, cap_rsa_prim, cap_ecdsa, cap_ecdsa_sig, cap_eddsa, cap_dsa, cap_kdf, cap_kas_ecc, cap_kas_ffc,
         cap_kda, cap_safe_primes, cap_lms
<1>2. c \notin Named \ {"RSA_KEYGEN"}
  BY <1>1 DEF Named, cap_kdf, cap_kda, cap_rsa_sig
<1>3. Setters(c) = acvp_cap_rsa_keygen_set_mode(c) \cup acvp_cap_rsa_keygen_set_parm(c)
          \cup acvp_cap_rsa_keygen_set_exponent(c) \cup acvp_cap_rsa_keygen_set_primes(c)
  BY <1>1, <1>2, Zenon DEF Setters, Named
<1>4. ASSUME NEW cap PROVE Builder(c, cap) = acvp_build_rsa_keygen_register_cap(c, cap)
  BY <1>1, <1>2, Zenon DEF Builder, Named
<1>5. ASSUME NEW cap PROVE Complete(c, cap) <=> RsaKeygenComplete(cap)
  BY <1>1, <1>2, Zenon DEF Complete, Named
<1>. QED BY <1>3, <1>4, <1>5, Zenon

\* The kind of RSA signature generation.
LEMMA RsaSiggenKind ==
  ASSUME NEW c, c = "RSA_SIGGEN"
  PROVE  /\ Setters(c) = acvp_cap_rsa_siggen_set_parm(c) \cup acvp_cap_rsa_siggen_set_type(c)
             \cup acvp_cap_rsa_siggen_set_mod_parm(c) \cup acvp_cap_rsa_siggen_set_mod_mask(c)
         /\ \A cap : Builder(c, cap) = acvp_build_rsa_sig_register_cap(c, cap)
         /\ \A cap : Complete(c, cap) <=> RsaSigComplete(cap)
<1>1. c \notin cap_sym \cup cap_hash \cup cap_hmac \cup cap_cmac \cup cap_kmac \cup cap_drbg \cup cap_rsa_prim
             \cup cap_ecdsa \cup cap_eddsa \cup cap_dsa \cup cap_kdf \cup cap_kas_ecc \cup cap_kas_ffc \cup cap_kda
             \cup cap_safe_primes \cup cap_lms
  BY DEF cap_sym, cap_aes, cap_tdes, cap_hash, cap_sha2, cap_sha3, cap_shake, cap_hmac, cap_cmac, cap_kmac, cap_drbg,
         cap_rsa_sig, cap_rsa_prim, cap_ecdsa, cap_ecdsa_sig, cap_eddsa, cap_dsa, cap_kdf, cap_kas_ecc, cap_kas_ffc,
         cap_kda, cap_safe_primes, cap_lms
<1>2. c \notin Named \ {"RSA_SIGGEN"} /\ c \in cap_rsa_sig
  BY <1>1 DEF Named, cap_kdf, cap_kda, cap_rsa_sig
<1>3. Setters(c) = acvp_cap_rsa_siggen_set_parm(c) \cup acvp_cap_rsa_siggen_set_type(c)
          \cup acvp_cap_rsa_siggen_set_mod_parm(c) \cup acvp_cap_rsa_siggen_set_mod_mask(c)
  BY <1>1, <1>2, Zenon DEF Setters, Named
<1>4. ASSUME NEW cap PROVE Builder(c, cap) = acvp_build_rsa_sig_register_cap(c, cap)
  BY <1>1, <1>2, Zenon DEF Builder, Named
<1>5. ASSUME NEW cap PROVE Complete(c, cap) <=> RsaSigComplete(cap)
  BY <1>1, <1>2, Zenon DEF Complete, Named
<1>. QED BY <1>3, <1>4, <1>5, Zenon

\* The kind of RSA signature verification.
LEMMA RsaSigverKind ==
  ASSUME NEW c, c = "RSA_SIGVER"
  PROVE  /\ Setters(c) = acvp_cap_rsa_sigver_set_parm(c) \cup acvp_cap_rsa_sigver_set_type(c)
             \cup acvp_cap_rsa_sigver_set_exponent(c) \cup acvp_cap_rsa_sigver_set_mod_parm(c)
             \cup acvp_cap_rsa_sigver_set_mod_mask(c)
         /\ \A cap : Builder(c, cap) = acvp_build_rsa_sig_register_cap(c, cap)
         /\ \A cap : Complete(c, cap) <=> RsaSigComplete(cap)
<1>1. c \notin cap_sym \cup cap_hash \cup cap_hmac \cup cap_cmac \cup cap_kmac \cup cap_drbg \cup cap_rsa_prim
             \cup cap_ecdsa \cup cap_eddsa \cup cap_dsa \cup cap_kdf \cup cap_kas_ecc \cup cap_kas_ffc \cup cap_kda
             \cup cap_safe_primes \cup cap_lms
  BY DEF cap_sym, cap_aes, cap_tdes, cap_hash, cap_sha2, cap_sha3, cap_shake, cap_hmac, cap_cmac, cap_kmac, cap_drbg,
         cap_rsa_sig, cap_rsa_prim, cap_ecdsa, cap_ecdsa_sig, cap_eddsa, cap_dsa, cap_kdf, cap_kas_ecc, cap_kas_ffc,
         cap_kda, cap_safe_primes, cap_lms
<1>2. c \notin Named \ {"RSA_SIGVER"} /\ c \in cap_rsa_sig
  BY <1>1 DEF Named, cap_kdf, cap_kda, cap_rsa_sig
<1>3. Setters(c) = acvp_cap_rsa_sigver_set_parm(c) \cup acvp_cap_rsa_sigver_set_type(c)
          \cup acvp_cap_rsa_sigver_set_exponent(c) \cup acvp_cap_rsa_sigver_set_mod_parm(c)
          \cup acvp_cap_rsa_sigver_set_mod_mask(c)
  BY <1>1, <1>2, Zenon DEF Setters, Named
<1>4. ASSUME NEW cap PROVE Builder(c, cap) = acvp_build_rsa_sig_register_cap(c, cap)
  BY <1>1, <1>2, Zenon DEF Builder, Named
<1>5. ASSUME NEW cap PROVE Complete(c, cap) <=> RsaSigComplete(cap)
  BY <1>1, <1>2, Zenon DEF Complete, Named
<1>. QED BY <1>3, <1>4, <1>5, Zenon

\* The kind of RSA primitives.
LEMMA RsaPrimKind ==
  ASSUME NEW c, c \in cap_rsa_prim
  PROVE  /\ Setters(c) = acvp_cap_rsa_prim_set_parm(c) \cup acvp_cap_rsa_prim_set_exponent(c)
         /\ \A cap : Builder(c, cap) = acvp_build_rsa_prim_register_cap(c, cap)
         /\ \A cap : Complete(c, cap)
<1>1. c \notin cap_sym \cup cap_hash \cup cap_hmac \cup cap_cmac \cup cap_kmac \cup cap_drbg \cup cap_rsa_sig
             \cup cap_ecdsa \cup cap_eddsa \cup cap_dsa \cup cap_kdf \cup cap_kas_ecc \cup cap_kas_ffc \cup cap_kda
             \cup cap_safe_primes \cup cap_lms
  BY DEF cap_sym, cap_aes, cap_tdes, cap_hash, cap_sha2, cap_sha3, cap_shake, cap_hmac, cap_cmac, cap_kmac, cap_drbg,
         cap_rsa_sig, cap_rsa_prim, cap_ecdsa, cap_ecdsa_sig, cap_eddsa, cap_dsa, cap_kdf, cap_kas_ecc, cap_kas_ffc,
         cap_kda, cap_safe_primes, cap_lms
<1>2. c \notin Named
  BY <1>1 DEF Named, cap_kdf, cap_kda, cap_rsa_sig, cap_rsa_prim
<1>3. Setters(c) = acvp_cap_rsa_prim_set_parm(c) \cup acvp_cap_rsa_prim_set_exponent(c)
  BY <1>1, <1>2, Zenon DEF Setters, Named
<1>4. ASSUME NEW cap PROVE Builder(c, cap) = acvp_build_rsa_prim_register_cap(c, cap)
  BY <1>1, <1>2, Zenon DEF Builder, Named
<1>5. ASSUME NEW cap PROVE Complete(c, cap)
  BY <1>1, <1>2, Zenon DEF Complete, Named
<1>. QED BY <1>3, <1>4, <1>5, Zenon

\* The kind of ECDSA.
LEMMA EcdsaKind ==
  ASSUME NEW c, c \in cap_ecdsa
  PROVE  /\ Setters(c) = acvp_cap_ecdsa_set_parm(c) \cup acvp_cap_ecdsa_set_curve_hash_alg(c)
         /\ \A cap : Builder(c, cap) = acvp_build_ecdsa_register_cap(c, cap)
         /\ \A cap : Complete(c, cap) <=> EcdsaComplete(c, cap)
<1>1. c \notin cap_sym \cup cap_hash \cup cap_hmac \cup cap_cmac \cup cap_kmac \cup cap_drbg \cup cap_rsa_sig
             \cup cap_rsa_prim \cup cap_eddsa \cup cap_dsa \cup cap_kdf \cup cap_kas_ecc \cup cap_kas_ffc \cup cap_kda
             \cup cap_safe_primes \cup cap_lms
  BY DEF cap_sym, cap_aes, cap_tdes, cap_hash, cap_sha2, cap_sha3, cap_shake, cap_hmac, cap_cmac, cap_kmac, cap_drbg,
         cap_rsa_sig, cap_rsa_prim, cap_ecdsa, cap_ecdsa_sig, cap_eddsa, cap_dsa, cap_kdf, cap_kas_ecc, cap_kas_ffc,
         cap_kda, cap_safe_primes, cap_lms
<1>2. c \notin Named
  BY <1>1 DEF Named, cap_kdf, cap_kda, cap_rsa_sig, cap_ecdsa, cap_ecdsa_sig
<1>3. Setters(c) = acvp_cap_ecdsa_set_parm(c) \cup acvp_cap_ecdsa_set_curve_hash_alg(c)
  BY <1>1, <1>2, Zenon DEF Setters, Named
<1>4. ASSUME NEW cap PROVE Builder(c, cap) = acvp_build_ecdsa_register_cap(c, cap)
  BY <1>1, <1>2, Zenon DEF Builder, Named
<1>5. ASSUME NEW cap PROVE Complete(c, cap) <=> EcdsaComplete(c, cap)
  BY <1>1, <1>2, Zenon DEF Complete, Named
<1>. QED BY <1>3, <1>4, <1>5, Zenon

\* The kind of EdDSA.
LEMMA EddsaKind ==
  ASSUME NEW c, c \in cap_eddsa
  PROVE  /\ Setters(c) = acvp_cap_eddsa_set_parm(c)
         /\ \A cap : Builder(c, cap) = acvp_build_eddsa_register_cap(c, cap)
         /\ \A cap : Complete(c, cap)
<1>1. c \notin cap_sym \cup cap_hash \cup cap_hmac \cup cap_cmac \cup cap_kmac \cup cap_drbg \cup cap_rsa_sig
             \cup cap_rsa_prim \cup cap_ecdsa \cup cap_dsa \cup cap_kdf \cup cap_kas_ecc \cup cap_kas_ffc \cup cap_kda
             \cup cap_safe_primes \cup cap_lms
  BY DEF cap_sym, cap_aes, cap_tdes, cap_hash, cap_sha2, cap_sha3, cap_shake, cap_hmac, cap_cmac, cap_kmac, cap_drbg,
         cap_rsa_sig, cap_rsa_prim, cap_ecdsa, cap_ecdsa_sig, cap_eddsa, cap_dsa, cap_kdf, cap_kas_ecc, cap_kas_ffc,
         cap_kda, cap_safe_primes, cap_lms
<1>2. c \notin Named
  BY <1>1 DEF Named, cap_kdf, cap_kda, cap_rsa_sig, cap_eddsa
<1>3. Setters(c) = acvp_cap_eddsa_set_parm(c)
  BY <1>1, <1>2, Zenon DEF Setters, Named
<1>4. ASSUME NEW cap PROVE Builder(c, cap) = acvp_build_eddsa_register_cap(c, cap)
  BY <1>1, <1>2, Zenon DEF Builder, Named
<1>5. ASSUME NEW cap PROVE Complete(c, cap)
  BY <1>1, <1>2, Zenon DEF Complete, Named
<1>. QED BY <1>3, <1>4, <1>5, Zenon

\* The kind of DSA.
LEMMA DsaKind ==
  ASSUME NEW c, c \in cap_dsa
  PROVE  /\ Setters(c) = acvp_cap_dsa_set_parm(c)
         /\ \A cap : Builder(c, cap) = acvp_build_dsa_register_cap(c, cap)
         /\ \A cap : Complete(c, cap) <=> DsaComplete(c, cap)
<1>1. c \notin cap_sym \cup cap_hash \cup cap_hmac \cup cap_cmac \cup cap_kmac \cup cap_drbg \cup cap_rsa_sig
             \cup cap_rsa_prim \cup cap_ecdsa \cup cap_eddsa \cup cap_kdf \cup cap_kas_ecc \cup cap_kas_ffc
             \cup cap_kda \cup cap_safe_primes \cup cap_lms
  BY DEF cap_sym, cap_aes, cap_tdes, cap_hash, cap_sha2, cap_sha3, cap_shake, cap_hmac, cap_cmac, cap_kmac, cap_drbg,
         cap_rsa_sig, cap_rsa_prim, cap_ecdsa, cap_ecdsa_sig, cap_eddsa, cap_dsa, cap_kdf, cap_kas_ecc, cap_kas_ffc,
         cap_kda, cap_safe_primes, cap_lms
<1>2. c \notin Named
  BY <1>1 DEF Named, cap_kdf, cap_kda, cap_rsa_sig, cap_dsa
<1>3. Setters(c) = acvp_cap_dsa_set_parm(c)
  BY <1>1, <1>2, Zenon DEF Setters, Named
<1>4. ASSUME NEW cap PROVE Builder(c, cap) = acvp_build_dsa_register_cap(c, cap)
  BY <1>1, <1>2, Zenon DEF Builder, Named
<1>5. ASSUME NEW cap PROVE Complete(c, cap) <=> DsaComplete(c, cap)
  BY <1>1, <1>2, Zenon DEF Complete, Named
<1>. QED BY <1>3, <1>4, <1>5, Zenon

\* The kind of the KDF of SNMP.
LEMMA SnmpKind ==
  ASSUME NEW c, c = "KDF135_SNMP"
  PROVE  /\ Setters(c) = acvp_cap_kdf135_snmp_set_parm(c) \cup acvp_cap_kdf135_snmp_set_engid(c)
         /\ \A cap : Builder(c, cap) = acvp_build_kdf135_snmp_register_cap(c, cap)
         /\ \A cap : Complete(c, cap)
<1>1. c \notin cap_sym \cup cap_hash \cup cap_hmac \cup cap_cmac \cup cap_kmac \cup cap_drbg \cup cap_rsa_sig
             \cup cap_rsa_prim \cup cap_ecdsa \cup cap_eddsa \cup cap_dsa \cup cap_kas_ecc \cup cap_kas_ffc
             \cup cap_kda \cup cap_safe_primes \cup cap_lms
  BY DEF cap_sym, cap_aes, cap_tdes, cap_hash, cap_sha2, cap_sha3, cap_shake, cap_hmac, cap_cmac, cap_kmac, cap_drbg,
         cap_rsa_sig, cap_rsa_prim, cap_ecdsa, cap_ecdsa_sig, cap_eddsa, cap_dsa, cap_kdf, cap_kas_ecc, cap_kas_ffc,
         cap_kda, cap_safe_primes, cap_lms
<1>2. c \notin Named \ {"KDF135_SNMP"} /\ c \in cap_kdf
  BY <1>1 DEF Named, cap_kdf, cap_kda, cap_rsa_sig
<1>3. Setters(c) = acvp_cap_kdf135_snmp_set_parm(c) \cup acvp_cap_kdf135_snmp_set_engid(c)
  BY <1>1, <1>2, Zenon DEF Setters, Named
<1>4. ASSUME NEW cap PROVE Builder(c, cap) = acvp_build_kdf135_snmp_register_cap(c, cap)
  BY <1>1, <1>2, Zenon DEF Builder, Named
<1>5. ASSUME NEW cap PROVE Complete(c, cap)
  BY <1>1, <1>2, Zenon DEF Complete, Named
<1>. QED BY <1>3, <1>4, <1>5, Zenon

\* The kind of the KDF of SSH.
LEMMA SshKind ==
  ASSUME NEW c, c = "KDF135_SSH"
  PROVE  /\ Setters(c) = acvp_cap_kdf135_ssh_set_parm(c)
         /\ \A cap : Builder(c, cap) = acvp_build_kdf135_ssh_register_cap(c, cap)
         /\ \A cap : Complete(c, cap)
<1>1. c \notin cap_sym \cup cap_hash \cup cap_hmac \cup cap_cmac \cup cap_kmac \cup cap_drbg \cup cap_rsa_sig
             \cup cap_rsa_prim \cup cap_ecdsa \cup cap_eddsa \cup cap_dsa \cup cap_kas_ecc \cup cap_kas_ffc
             \cup cap_kda \cup cap_safe_primes \cup cap_lms
  BY DEF cap_sym, cap_aes, cap_tdes, cap_hash, cap_sha2, cap_sha3, cap_shake, cap_hmac, cap_cmac, cap_kmac, cap_drbg,
         cap_rsa_sig, cap_rsa_prim, cap_ecdsa, cap_ecdsa_sig, cap_eddsa, cap_dsa, cap_kdf, cap_kas_ecc, cap_kas_ffc,
         cap_kda, cap_safe_primes, cap_lms
<1>2. c \notin Named \ {"KDF135_SSH"} /\ c \in cap_kdf
  BY <1>1 DEF Named, cap_kdf, cap_kda, cap_rsa_sig
<1>3. Setters(c) = acvp_cap_kdf135_ssh_set_parm(c)
  BY <1>1, <1>2, Zenon DEF Setters, Named
<1>4. ASSUME NEW cap PROVE Builder(c, cap) = acvp_build_kdf135_ssh_register_cap(c, cap)
  BY <1>1, <1>2, Zenon DEF Builder, Named
<1>5. ASSUME NEW cap PROVE Complete(c, cap)
  BY <1>1, <1>2, Zenon DEF Complete, Named
<1>. QED BY <1>3, <1>4, <1>5, Zenon

\* The kind of the KDF of SRTP.
LEMMA SrtpKind ==
  ASSUME NEW c, c = "KDF135_SRTP"
  PROVE  /\ Setters(c) = acvp_cap_kdf135_srtp_set_parm(c)
         /\ \A cap : Builder(c, cap) = acvp_build_kdf135_srtp_register_cap(c, cap)
         /\ \A cap : Complete(c, cap)
<1>1. c \notin cap_sym \cup cap_hash \cup cap_hmac \cup cap_cmac \cup cap_kmac \cup cap_drbg \cup cap_rsa_sig
             \cup cap_rsa_prim \cup cap_ecdsa \cup cap_eddsa \cup cap_dsa \cup cap_kas_ecc \cup cap_kas_ffc
             \cup cap_kda \cup cap_safe_primes \cup cap_lms
  BY DEF cap_sym, cap_aes, cap_tdes, cap_hash, cap_sha2, cap_sha3, cap_shake, cap_hmac, cap_cmac, cap_kmac, cap_drbg,
         cap_rsa_sig, cap_rsa_prim, cap_ecdsa, cap_ecdsa_sig, cap_eddsa, cap_dsa, cap_kdf, cap_kas_ecc, cap_kas_ffc,
         cap_kda, cap_safe_primes, cap_lms
<1>2. c \notin Named \ {"KDF135_SRTP"} /\ c \in cap_kdf
  BY <1>1 DEF Named, cap_kdf, cap_kda, cap_rsa_sig
<1>3. Setters(c) = acvp_cap_kdf135_srtp_set_parm(c)
  BY <1>1, <1>2, Zenon DEF Setters, Named
<1>4. ASSUME NEW cap PROVE Builder(c, cap) = acvp_build_kdf135_srtp_register_cap(c, cap)
  BY <1>1, <1>2, Zenon DEF Builder, Named
<1>5. ASSUME NEW cap PROVE Complete(c, cap)
  BY <1>1, <1>2, Zenon DEF Complete, Named
<1>. QED BY <1>3, <1>4, <1>5, Zenon

\* The kind of the KDF of IKEv2.
LEMMA Ikev2Kind ==
  ASSUME NEW c, c = "KDF135_IKEV2"
  PROVE  /\ Setters(c) = acvp_cap_kdf135_ikev2_set_parm(c) \cup acvp_cap_kdf135_ikev2_set_length(c)
             \cup acvp_cap_kdf135_ikev2_set_domain(c)
         /\ \A cap : Builder(c, cap) = acvp_build_kdf135_ikev2_register_cap(c, cap)
         /\ \A cap : Complete(c, cap)
<1>1. c \notin cap_sym \cup cap_hash \cup cap_hmac \cup cap_cmac \cup cap_kmac \cup cap_drbg \cup cap_rsa_sig
             \cup cap_rsa_prim \cup cap_ecdsa \cup cap_eddsa \cup cap_dsa \cup cap_kas_ecc \cup cap_kas_ffc
             \cup cap_kda \cup cap_safe_primes \cup cap_lms
  BY DEF cap_sym, cap_aes, cap_tdes, cap_hash, cap_sha2, cap_sha3, cap_shake, cap_hmac, cap_cmac, cap_kmac, cap_drbg,
         cap_rsa_sig, cap_rsa_prim, cap_ecdsa, cap_ecdsa_sig, cap_eddsa, cap_dsa, cap_kdf, cap_kas_ecc, cap_kas_ffc,
         cap_kda, cap_safe_primes, cap_lms
<1>2. c \notin Named \ {"KDF135_IKEV2"} /\ c \in cap_kdf
  BY <1>1 DEF Named, cap_kdf, cap_kda, cap_rsa_sig
<1>3. Setters(c) = acvp_cap_kdf135_ikev2_set_parm(c) \cup acvp_cap_kdf135_ikev2_set_length(c)
          \cup acvp_cap_kdf135_ikev2_set_domain(c)
  BY <1>1, <1>2, Zenon DEF Setters, Named
<1>4. ASSUME NEW cap PROVE Builder(c, cap) = acvp_build_kdf135_ikev2_register_cap(c, cap)
  BY <1>1, <1>2, Zenon DEF Builder, Named
<1>5. ASSUME NEW cap PROVE Complete(c, cap)
  BY <1>1, <1>2, Zenon DEF Complete, Named
<1>. QED BY <1>3, <1>4, <1>5, Zenon

\* The kind of the KDF of IKEv1.
LEMMA Ikev1Kind ==
  ASSUME NEW c, c = "KDF135_IKEV1"
  PROVE  /\ Setters(c) = acvp_cap_kdf135_ikev1_set_parm(c) \cup acvp_cap_kdf135_ikev1_set_domain(c)
         /\ \A cap : Builder(c, cap) = acvp_build_kdf135_ikev1_register_cap(c, cap)
         /\ \A cap : Complete(c, cap)
<1>1. c \notin cap_sym \cup cap_hash \cup cap_hmac \cup cap_cmac \cup cap_kmac \cup cap_drbg \cup cap_rsa_sig
             \cup cap_rsa_prim \cup cap_ecdsa \cup cap_eddsa \cup cap_dsa \cup cap_kas_ecc \cup cap_kas_ffc
             \cup cap_kda \cup cap_safe_primes \cup cap_lms
  BY DEF cap_sym, cap_aes, cap_tdes, cap_hash, cap_sha2, cap_sha3, cap_shake, cap_hmac, cap_cmac, cap_kmac, cap_drbg,
         cap_rsa_sig, cap_rsa_prim, cap_ecdsa, cap_ecdsa_sig, cap_eddsa, cap_dsa, cap_kdf, cap_kas_ecc, cap_kas_ffc,
         cap_kda, cap_safe_primes, cap_lms
<1>2. c \notin Named \ {"KDF135_IKEV1"} /\ c \in cap_kdf
  BY <1>1 DEF Named, cap_kdf, cap_kda, cap_rsa_sig
<1>3. Setters(c) = acvp_cap_kdf135_ikev1_set_parm(c) \cup acvp_cap_kdf135_ikev1_set_domain(c)
  BY <1>1, <1>2, Zenon DEF Setters, Named
<1>4. ASSUME NEW cap PROVE Builder(c, cap) = acvp_build_kdf135_ikev1_register_cap(c, cap)
  BY <1>1, <1>2, Zenon DEF Builder, Named
<1>5. ASSUME NEW cap PROVE Complete(c, cap)
  BY <1>1, <1>2, Zenon DEF Complete, Named
<1>. QED BY <1>3, <1>4, <1>5, Zenon

\* The kind of the KDF of X9.42.
LEMMA X942Kind ==
  ASSUME NEW c, c = "KDF135_X942"
  PROVE  /\ Setters(c) = acvp_cap_kdf135_x942_set_parm(c) \cup acvp_cap_kdf135_x942_set_domain(c)
         /\ \A cap : Builder(c, cap) = acvp_build_kdf135_x942_register_cap(c, cap)
         /\ \A cap : Complete(c, cap)
<1>1. c \notin cap_sym \cup cap_hash \cup cap_hmac \cup cap_cmac \cup cap_kmac \cup cap_drbg \cup cap_rsa_sig
             \cup cap_rsa_prim \cup cap_ecdsa \cup cap_eddsa \cup cap_dsa \cup cap_kas_ecc \cup cap_kas_ffc
             \cup cap_kda \cup cap_safe_primes \cup cap_lms
  BY DEF cap_sym, cap_aes, cap_tdes, cap_hash, cap_sha2, cap_sha3, cap_shake, cap_hmac, cap_cmac, cap_kmac, cap_drbg,
         cap_rsa_sig, cap_rsa_prim, cap_ecdsa, cap_ecdsa_sig, cap_eddsa, cap_dsa, cap_kdf, cap_kas_ecc, cap_kas_ffc,
         cap_kda, cap_safe_primes, cap_lms
<1>2. c \notin Named \ {"KDF135_X942"} /\ c \in cap_kdf
  BY <1>1 DEF Named, cap_kdf, cap_kda, cap_rsa_sig
<1>3. Setters(c) = acvp_cap_kdf135_x942_set_parm(c) \cup acvp_cap_kdf135_x942_set_domain(c)
  BY <1>1, <1>2, Zenon DEF Setters, Named
<1>4. ASSUME NEW cap PROVE Builder(c, cap) = acvp_build_kdf135_x942_register_cap(c, cap)
  BY <1>1, <1>2, Zenon DEF Builder, Named
<1>5. ASSUME NEW cap PROVE Complete(c, cap)
  BY <1>1, <1>2, Zenon DEF Complete, Named
<1>. QED BY <1>3, <1>4, <1>5, Zenon

\* The kind of the KDF of X9.63.
LEMMA X963Kind ==
  ASSUME NEW c, c = "KDF135_X963"
  PROVE  /\ Setters(c) = acvp_cap_kdf135_x963_set_parm(c)
         /\ \A cap : Builder(c, cap) = acvp_build_kdf135_x963_register_cap(c, cap)
         /\ \A cap : Complete(c, cap)
<1>1. c \notin cap_sym \cup cap_hash \cup cap_hmac \cup cap_cmac \cup cap_kmac \cup cap_drbg \cup cap_rsa_sig
             \cup cap_rsa_prim \cup cap_ecdsa \cup cap_eddsa \cup cap_dsa \cup cap_kas_ecc \cup cap_kas_ffc
             \cup cap_kda \cup cap_safe_primes \cup cap_lms
  BY DEF cap_sym, cap_aes, cap_tdes, cap_hash, cap_sha2, cap_sha3, cap_shake, cap_hmac, cap_cmac, cap_kmac, cap_drbg,
         cap_rsa_sig, cap_rsa_prim, cap_ecdsa, cap_ecdsa_sig, cap_eddsa, cap_dsa, cap_kdf, cap_kas_ecc, cap_kas_ffc,
         cap_kda, cap_safe_primes, cap_lms
<1>2. c \notin Named \ {"KDF135_X963"} /\ c \in cap_kdf
  BY <1>1 DEF Named, cap_kdf, cap_kda, cap_rsa_sig
<1>3. Setters(c) = acvp_cap_kdf135_x963_set_parm(c)
  BY <1>1, <1>2, Zenon DEF Setters, Named
<1>4. ASSUME NEW cap PROVE Builder(c, cap) = acvp_build_kdf135_x963_register_cap(c, cap)
  BY <1>1, <1>2, Zenon DEF Builder, Named
<1>5. ASSUME NEW cap PROVE Complete(c, cap)
  BY <1>1, <1>2, Zenon DEF Complete, Named
<1>. QED BY <1>3, <1>4, <1>5, Zenon

\* The kind of KDF108.
LEMMA Kdf108Kind ==
  ASSUME NEW c, c = "KDF108"
  PROVE  /\ Setters(c) = acvp_cap_kdf108_set_parm(c) \cup acvp_cap_kdf108_set_domain(c)
         /\ \A cap : Builder(c, cap) = acvp_build_kdf108_register_cap(c, cap)
         /\ \A cap : Complete(c, cap)
<1>1. c \notin cap_sym \cup cap_hash \cup cap_hmac \cup cap_cmac \cup cap_kmac \cup cap_drbg \cup cap_rsa_sig
             \cup cap_rsa_prim \cup cap_ecdsa \cup cap_eddsa \cup cap_dsa \cup cap_kas_ecc \cup cap_kas_ffc
             \cup cap_kda \cup cap_safe_primes \cup cap_lms
  BY DEF cap_sym, cap_aes, cap_tdes, cap_hash, cap_sha2, cap_sha3, cap_shake, cap_hmac, cap_cmac, cap_kmac, cap_drbg,
         cap_rsa_sig, cap_rsa_prim, cap_ecdsa, cap_ecdsa_sig, cap_eddsa, cap_dsa, cap_kdf, cap_kas_ecc, cap_kas_ffc,
         cap_kda, cap_safe_primes, cap_lms
<1>2. c \notin Named \ {"KDF108"} /\ c \in cap_kdf
  BY <1>1 DEF Named, cap_kdf, cap_kda, cap_rsa_sig
<1>3. Setters(c) = acvp_cap_kdf108_set_parm(c) \cup acvp_cap_kdf108_set_domain(c)
  BY <1>1, <1>2, Zenon DEF Setters, Named
<1>4. ASSUME NEW cap PROVE Builder(c, cap) = acvp_build_kdf108_register_cap(c, cap)
  BY <1>1, <1>2, Zenon DEF Builder, Named
<1>5. ASSUME NEW cap PROVE Complete(c, cap)
  BY <1>1, <1>2, Zenon DEF Complete, Named
<1>. QED BY <1>3, <1>4, <1>5, Zenon

\* The kind of PBKDF.
LEMMA PbkdfKind ==
  ASSUME NEW c, c = "PBKDF"
  PROVE  /\ Setters(c) = acvp_cap_pbkdf_set_parm(c) \cup acvp_cap_pbkdf_set_domain(c)
         /\ \A cap : Builder(c, cap) = acvp_build_pbkdf_register_cap(c, cap)
         /\ \A cap : Complete(c, cap)
<1>1. c \notin cap_sym \cup cap_hash \cup cap_hmac \cup cap_cmac \cup cap_kmac \cup cap_drbg \cup cap_rsa_sig
             \cup cap_rsa_prim \cup cap_ecdsa \cup cap_eddsa \cup cap_dsa \cup cap_kas_ecc \cup cap_kas_ffc
             \cup cap_kda \cup cap_safe_primes \cup cap_lms
  BY DEF cap_sym, cap_aes, cap_tdes, cap_hash, cap_sha2, cap_sha3, cap_shake, cap_hmac, cap_cmac, cap_kmac, cap_drbg,
         cap_rsa_sig, cap_rsa_prim, cap_ecdsa, cap_ecdsa_sig, cap_eddsa, cap_dsa, cap_kdf, cap_kas_ecc, cap_kas_ffc,
         cap_kda, cap_safe_primes, cap_lms
<1>2. c \notin Named \ {"PBKDF"} /\ c \in cap_kdf
  BY <1>1 DEF Named, cap_kdf, cap_kda, cap_rsa_sig
<1>3. Setters(c) = acvp_cap_pbkdf_set_parm(c) \cup acvp_cap_pbkdf_set_domain(c)
  BY <1>1, <1>2, Zenon DEF Setters, Named
<1>4. ASSUME NEW cap PROVE Builder(c, cap) = acvp_build_pbkdf_register_cap(c, cap)
  BY <1>1, <1>2, Zenon DEF Builder, Named
<1>5. ASSUME NEW cap PROVE Complete(c, cap)
  BY <1>1, <1>2, Zenon DEF Complete, Named
<1>. QED BY <1>3, <1>4, <1>5, Zenon

\* The kind of the KDF of TLS 1.2.
LEMMA Tls12Kind ==
  ASSUME NEW c, c = "KDF_TLS12"
  PROVE  /\ Setters(c) = acvp_cap_kdf_tls12_set_parm(c)
         /\ \A cap : Builder(c, cap) = acvp_build_kdf_tls12_register_cap(c, cap)
         /\ \A cap : Complete(c, cap)
<1>1. c \notin cap_sym \cup cap_hash \cup cap_hmac \cup cap_cmac \cup cap_kmac \cup cap_drbg \cup cap_rsa_sig
             \cup cap_rsa_prim \cup cap_ecdsa \cup cap_eddsa \cup cap_dsa \cup cap_kas_ecc \cup cap_kas_ffc
             \cup cap_kda \cup cap_safe_primes \cup cap_lms
  BY DEF cap_sym, cap_aes, cap_tdes, cap_hash, cap_sha2, cap_sha3, cap_shake, cap_hmac, cap_cmac, cap_kmac, cap_drbg,
         cap_rsa_sig, cap_rsa_prim, cap_ecdsa, cap_ecdsa_sig, cap_eddsa, cap_dsa, cap_kdf, cap_kas_ecc, cap_kas_ffc,
         cap_kda, cap_safe_primes, cap_lms
<1>2. c \notin Named \ {"KDF_TLS12"} /\ c \in cap_kdf
  BY <1>1 DEF Named, cap_kdf, cap_kda, cap_rsa_sig
<1>3. Setters(c) = acvp_cap_kdf_tls12_set_parm(c)
  BY <1>1, <1>2, Zenon DEF Setters, Named
<1>4. ASSUME NEW cap PROVE Builder(c, cap) = acvp_build_kdf_tls12_register_cap(c, cap)
  BY <1>1, <1>2, Zenon DEF Builder, Named
<1>5. ASSUME NEW cap PROVE Complete(c, cap)
  BY <1>1, <1>2, Zenon DEF Complete, Named
<1>. QED BY <1>3, <1>4, <1>5, Zenon

\* The kind of the KDF of TLS 1.3.
LEMMA Tls13Kind ==
  ASSUME NEW c, c = "KDF_TLS13"
  PROVE  /\ Setters(c) = acvp_cap_kdf_tls13_set_parm(c)
         /\ \A cap : Builder(c, cap) = acvp_build_kdf_tls13_register_cap(c, cap)
         /\ \A cap : Complete(c, cap)
<1>1. c \notin cap_sym \cup cap_hash \cup cap_hmac \cup cap_cmac \cup cap_kmac \cup cap_drbg \cup cap_rsa_sig
             \cup cap_rsa_prim \cup cap_ecdsa \cup cap_eddsa \cup cap_dsa \cup cap_kas_ecc \cup cap_kas_ffc
             \cup cap_kda \cup cap_safe_primes \cup cap_lms
  BY DEF cap_sym, cap_aes, cap_tdes, cap_hash, cap_sha2, cap_sha3, cap_shake, cap_hmac, cap_cmac, cap_kmac, cap_drbg,
         cap_rsa_sig, cap_rsa_prim, cap_ecdsa, cap_ecdsa_sig, cap_eddsa, cap_dsa, cap_kdf, cap_kas_ecc, cap_kas_ffc,
         cap_kda, cap_safe_primes, cap_lms
<1>2. c \notin Named \ {"KDF_TLS13"} /\ c \in cap_kdf
  BY <1>1 DEF Named, cap_kdf, cap_kda, cap_rsa_sig
<1>3. Setters(c) = acvp_cap_kdf_tls13_set_parm(c)
  BY <1>1, <1>2, Zenon DEF Setters, Named
<1>4. ASSUME NEW cap PROVE Builder(c, cap) = acvp_build_kdf_tls13_register_cap(c, cap)
  BY <1>1, <1>2, Zenon DEF Builder, Named
<1>5. ASSUME NEW cap PROVE Complete(c, cap)
  BY <1>1, <1>2, Zenon DEF Complete, Named
<1>. QED BY <1>3, <1>4, <1>5, Zenon

\* The kind of KAS-ECC.
LEMMA KasEccKind ==
  ASSUME NEW c, c \in cap_kas_ecc
  PROVE  /\ Setters(c) = acvp_cap_kas_ecc_set_prereq(c) \cup acvp_cap_kas_ecc_set_parm(c)
             \cup acvp_cap_kas_ecc_set_scheme(c)
         /\ \A cap : Builder(c, cap) = acvp_build_kas_ecc_register_cap(c, cap)
         /\ \A cap : Complete(c, cap) <=> KasEccComplete(c, cap)
<1>1. c \notin cap_sym \cup cap_hash \cup cap_hmac \cup cap_cmac \cup cap_kmac \cup cap_drbg \cup cap_rsa_sig
             \cup cap_rsa_prim \cup cap_ecdsa \cup cap_eddsa \cup cap_dsa \cup cap_kdf \cup cap_kas_ffc \cup cap_kda
             \cup cap_safe_primes \cup cap_lms
  BY DEF cap_sym, cap_aes, cap_tdes, cap_hash, cap_sha2, cap_sha3, cap_shake, cap_hmac, cap_cmac, cap_kmac, cap_drbg,
         cap_rsa_sig, cap_rsa_prim, cap_ecdsa, cap_ecdsa_sig, cap_eddsa, cap_dsa, cap_kdf, cap_kas_ecc, cap_kas_ffc,
         cap_kda, cap_safe_primes, cap_lms
<1>2. c \notin Named
  BY <1>1 DEF Named, cap_kdf, cap_kda, cap_rsa_sig, cap_kas_ecc
<1>3. Setters(c) = acvp_cap_kas_ecc_set_prereq(c) \cup acvp_cap_kas_ecc_set_parm(c)
          \cup acvp_cap_kas_ecc_set_scheme(c)
  BY <1>1, <1>2, Zenon DEF Setters, Named
<1>4. ASSUME NEW cap PROVE Builder(c, cap) = acvp_build_kas_ecc_register_cap(c, cap)
  BY <1>1, <1>2, Zenon DEF Builder, Named
<1>5. ASSUME NEW cap PROVE Complete(c, cap) <=> KasEccComplete(c, cap)
  BY <1>1, <1>2, Zenon DEF Complete, Named
<1>. QED BY <1>3, <1>4, <1>5, Zenon

\* The kind of KAS-FFC.
LEMMA KasFfcKind ==
  ASSUME NEW c, c \in cap_kas_ffc
  PROVE  /\ Setters(c) = acvp_cap_kas_ffc_set_prereq(c) \cup acvp_cap_kas_ffc_set_parm(c)
             \cup acvp_cap_kas_ffc_set_scheme(c)
         /\ \A cap : Builder(c, cap) = acvp_build_kas_ffc_register_cap(c, cap)
         /\ \A cap : Complete(c, cap) <=> KasFfcComplete(c, cap)
<1>1. c \notin cap_sym \cup cap_hash \cup cap_hmac \cup cap_cmac \cup cap_kmac \cup cap_drbg \cup cap_rsa_sig
             \cup cap_rsa_prim \cup cap_ecdsa \cup cap_eddsa \cup cap_dsa \cup cap_kdf \cup cap_kas_ecc \cup cap_kda
             \cup cap_safe_primes \cup cap_lms
  BY DEF cap_sym, cap_aes, cap_tdes, cap_hash, cap_sha2, cap_sha3, cap_shake, cap_hmac, cap_cmac, cap_kmac, cap_drbg,
         cap_rsa_sig, cap_rsa_prim, cap_ecdsa, cap_ecdsa_sig, cap_eddsa, cap_dsa, cap_kdf, cap_kas_ecc, cap_kas_ffc,
         cap_kda, cap_safe_primes, cap_lms
<1>2. c \notin Named
  BY <1>1 DEF Named, cap_kdf, cap_kda, cap_rsa_sig, cap_kas_ffc
<1>3. Setters(c) = acvp_cap_kas_ffc_set_prereq(c) \cup acvp_cap_kas_ffc_set_parm(c)
          \cup acvp_cap_kas_ffc_set_scheme(c)
  BY <1>1, <1>2, Zenon DEF Setters, Named
<1>4. ASSUME NEW cap PROVE Builder(c, cap) = acvp_build_kas_ffc_register_cap(c, cap)
  BY <1>1, <1>2, Zenon DEF Builder, Named
<1>5. ASSUME NEW cap PROVE Complete(c, cap) <=> KasFfcComplete(c, cap)
  BY <1>1, <1>2, Zenon DEF Complete, Named
<1>. QED BY <1>3, <1>4, <1>5, Zenon

\* The kind of KAS-IFC.
LEMMA KasIfcKind ==
  ASSUME NEW c, c = "KAS_IFC_SSC"
  PROVE  /\ Setters(c) = acvp_cap_kas_ifc_set_parm(c) \cup acvp_cap_kas_ifc_set_exponent(c)
         /\ \A cap : Builder(c, cap) = acvp_build_kas_ifc_register_cap(c, cap)
         /\ \A cap : Complete(c, cap) <=> KasIfcComplete(cap)
<1>1. c \notin cap_sym \cup cap_hash \cup cap_hmac \cup cap_cmac \cup cap_kmac \cup cap_drbg \cup cap_rsa_sig
             \cup cap_rsa_prim \cup cap_ecdsa \cup cap_eddsa \cup cap_dsa \cup cap_kdf \cup cap_kas_ecc
             \cup cap_kas_ffc \cup cap_kda \cup cap_safe_primes \cup cap_lms
  BY DEF cap_sym, cap_aes, cap_tdes, cap_hash, cap_sha2, cap_sha3, cap_shake, cap_hmac, cap_cmac, cap_kmac, cap_drbg,
         cap_rsa_sig, cap_rsa_prim, cap_ecdsa, cap_ecdsa_sig, cap_eddsa, cap_dsa, cap_kdf, cap_kas_ecc, cap_kas_ffc,
         cap_kda, cap_safe_primes, cap_lms
<1>2. c \notin Named \ {"KAS_IFC_SSC"}
  BY <1>1 DEF Named, cap_kdf, cap_kda, cap_rsa_sig
<1>3. Setters(c) = acvp_cap_kas_ifc_set_parm(c) \cup acvp_cap_kas_ifc_set_exponent(c)
  BY <1>1, <1>2, Zenon DEF Setters, Named
<1>4. ASSUME NEW cap PROVE Builder(c, cap) = acvp_build_kas_ifc_register_cap(c, cap)
  BY <1>1, <1>2, Zenon DEF Builder, Named
<1>5. ASSUME NEW cap PROVE Complete(c, cap) <=> KasIfcComplete(cap)
  BY <1>1, <1>2, Zenon DEF Complete, Named
<1>. QED BY <1>3, <1>4, <1>5, Zenon

\* The kind of KTS-IFC.
LEMMA KtsKind ==
  ASSUME NEW c, c = "KTS_IFC"
  PROVE  /\ Setters(c) = acvp_cap_kts_ifc_set_parm(c) \cup acvp_cap_kts_ifc_set_param_string(c)
             \cup acvp_cap_kts_ifc_set_scheme_parm(c) \cup acvp_cap_kts_ifc_set_scheme_string(c)
         /\ \A cap : Builder(c, cap) = acvp_build_kts_ifc_register_cap(c, cap)
         /\ \A cap : Complete(c, cap) <=> KtsComplete(cap)
<1>1. c \notin cap_sym \cup cap_hash \cup cap_hmac \cup cap_cmac \cup cap_kmac \cup cap_drbg \cup cap_rsa_sig
             \cup cap_rsa_prim \cup cap_ecdsa \cup cap_eddsa \cup cap_dsa \cup cap_kdf \cup cap_kas_ecc
             \cup cap_kas_ffc \cup cap_kda \cup cap_safe_primes \cup cap_lms
  BY DEF cap_sym, cap_aes, cap_tdes, cap_hash, cap_sha2, cap_sha3, cap_shake, cap_hmac, cap_cmac, cap_kmac, cap_drbg,
         cap_rsa_sig, cap_rsa_prim, cap_ecdsa, cap_ecdsa_sig, cap_eddsa, cap_dsa, cap_kdf, cap_kas_ecc, cap_kas_ffc,
         cap_kda, cap_safe_primes, cap_lms
<1>2. c \notin Named \ {"KTS_IFC"}
  BY <1>1 DEF Named, cap_kdf, cap_kda, cap_rsa_sig
<1>3. Setters(c) = acvp_cap_kts_ifc_set_parm(c) \cup acvp_cap_kts_ifc_set_param_string(c)
          \cup acvp_cap_kts_ifc_set_scheme_parm(c) \cup acvp_cap_kts_ifc_set_scheme_string(c)
  BY <1>1, <1>2, Zenon DEF Setters, Named
<1>4. ASSUME NEW cap PROVE Builder(c, cap) = acvp_build_kts_ifc_register_cap(c, cap)
  BY <1>1, <1>2, Zenon DEF Builder, Named
<1>5. ASSUME NEW cap PROVE Complete(c, cap) <=> KtsComplete(cap)
  BY <1>1, <1>2, Zenon DEF Complete, Named
<1>. QED BY <1>3, <1>4, <1>5, Zenon

\* The kind of KDA in one step.
LEMMA OnestepKind ==
  ASSUME NEW c, c = "KDA_ONESTEP"
  PROVE  /\ Setters(c) = acvp_cap_kda_set_parm(c) \cup acvp_cap_kda_set_domain(c)
         /\ \A cap : Builder(c, cap) = acvp_build_kda_onestep_register_cap(c, cap)
         /\ \A cap : Complete(c, cap) <=> KdaComplete(c, cap)
<1>1. c \notin cap_sym \cup cap_hash \cup cap_hmac \cup cap_cmac \cup cap_kmac \cup cap_drbg \cup cap_rsa_sig
             \cup cap_rsa_prim \cup cap_ecdsa \cup cap_eddsa \cup cap_dsa \cup cap_kdf \cup cap_kas_ecc
             \cup cap_kas_ffc \cup cap_safe_primes \cup cap_lms
  BY DEF cap_sym, cap_aes, cap_tdes, cap_hash, cap_sha2, cap_sha3, cap_shake, cap_hmac, cap_cmac, cap_kmac, cap_drbg,
         cap_rsa_sig, cap_rsa_prim, cap_ecdsa, cap_ecdsa_sig, cap_eddsa, cap_dsa, cap_kdf, cap_kas_ecc, cap_kas_ffc,
         cap_kda, cap_safe_primes, cap_lms
<1>2. c \notin Named \ {"KDA_ONESTEP"} /\ c \in cap_kda
  BY <1>1 DEF Named, cap_kdf, cap_kda, cap_rsa_sig
<1>3. Setters(c) = acvp_cap_kda_set_parm(c) \cup acvp_cap_kda_set_domain(c)
  BY <1>1, <1>2, Zenon DEF Setters, Named
<1>4. ASSUME NEW cap PROVE Builder(c, cap) = acvp_build_kda_onestep_register_cap(c, cap)
  BY <1>1, <1>2, Zenon DEF Builder, Named
<1>5. ASSUME NEW cap PROVE Complete(c, cap) <=> KdaComplete(c, cap)
  BY <1>1, <1>2, Zenon DEF Complete, Named
<1>. QED BY <1>3, <1>4, <1>5, Zenon

\* The kind of KDA in two steps.
LEMMA TwostepKind ==
  ASSUME NEW c, c = "KDA_TWOSTEP"
  PROVE  /\ Setters(c) = acvp_cap_kda_twostep_set_parm(c) \cup acvp_cap_kda_twostep_set_domain(c)
         /\ \A cap : Builder(c, cap) = acvp_build_kda_twostep_register_cap(c, cap)
         /\ \A cap : Complete(c, cap) <=> KdaComplete(c, cap)
<1>1. c \notin cap_sym \cup cap_hash \cup cap_hmac \cup cap_cmac \cup cap_kmac \cup cap_drbg \cup cap_rsa_sig
             \cup cap_rsa_prim \cup cap_ecdsa \cup cap_eddsa \cup cap_dsa \cup cap_kdf \cup cap_kas_ecc
             \cup cap_kas_ffc \cup cap_safe_primes \cup cap_lms
  BY DEF cap_sym, cap_aes, cap_tdes, cap_hash, cap_sha2, cap_sha3, cap_shake, cap_hmac, cap_cmac, cap_kmac, cap_drbg,
         cap_rsa_sig, cap_rsa_prim, cap_ecdsa, cap_ecdsa_sig, cap_eddsa, cap_dsa, cap_kdf, cap_kas_ecc, cap_kas_ffc,
         cap_kda, cap_safe_primes, cap_lms
<1>2. c \notin Named \ {"KDA_TWOSTEP"} /\ c \in cap_kda
  BY <1>1 DEF Named, cap_kdf, cap_kda, cap_rsa_sig
<1>3. Setters(c) = acvp_cap_kda_twostep_set_parm(c) \cup acvp_cap_kda_twostep_set_domain(c)
  BY <1>1, <1>2, Zenon DEF Setters, Named
<1>4. ASSUME NEW cap PROVE Builder(c, cap) = acvp_build_kda_twostep_register_cap(c, cap)
  BY <1>1, <1>2, Zenon DEF Builder, Named
<1>5. ASSUME NEW cap PROVE Complete(c, cap) <=> KdaComplete(c, cap)
  BY <1>1, <1>2, Zenon DEF Complete, Named
<1>. QED BY <1>3, <1>4, <1>5, Zenon

\* The kind of HKDF.
LEMMA HkdfKind ==
  ASSUME NEW c, c = "KDA_HKDF"
  PROVE  /\ Setters(c) = acvp_cap_kda_set_parm(c) \cup acvp_cap_kda_set_domain(c)
         /\ \A cap : Builder(c, cap) = acvp_build_kda_hkdf_register_cap(c, cap)
         /\ \A cap : Complete(c, cap) <=> KdaComplete(c, cap)
<1>1. c \notin cap_sym \cup cap_hash \cup cap_hmac \cup cap_cmac \cup cap_kmac \cup cap_drbg \cup cap_rsa_sig
             \cup cap_rsa_prim \cup cap_ecdsa \cup cap_eddsa \cup cap_dsa \cup cap_kdf \cup cap_kas_ecc
             \cup cap_kas_ffc \cup cap_safe_primes \cup cap_lms
  BY DEF cap_sym, cap_aes, cap_tdes, cap_hash, cap_sha2, cap_sha3, cap_shake, cap_hmac, cap_cmac, cap_kmac, cap_drbg,
         cap_rsa_sig, cap_rsa_prim, cap_ecdsa, cap_ecdsa_sig, cap_eddsa, cap_dsa, cap_kdf, cap_kas_ecc, cap_kas_ffc,
         cap_kda, cap_safe_primes, cap_lms
<1>2. c \notin Named \ {"KDA_HKDF"} /\ c \in cap_kda
  BY <1>1 DEF Named, cap_kdf, cap_kda, cap_rsa_sig
<1>3. Setters(c) = acvp_cap_kda_set_parm(c) \cup acvp_cap_kda_set_domain(c)
  BY <1>1, <1>2, Zenon DEF Setters, Named
<1>4. ASSUME NEW cap PROVE Builder(c, cap) = acvp_build_kda_hkdf_register_cap(c, cap)
  BY <1>1, <1>2, Zenon DEF Builder, Named
<1>5. ASSUME NEW cap PROVE Complete(c, cap) <=> KdaComplete(c, cap)
  BY <1>1, <1>2, Zenon DEF Complete, Named
<1>. QED BY <1>3, <1>4, <1>5, Zenon

\* The kind of safe primes.
LEMMA SafePrimesKind ==
  ASSUME NEW c, c \in cap_safe_primes
  PROVE  /\ Setters(c) = acvp_cap_safe_primes_set_parm(c)
         /\ \A cap : Builder(c, cap) = acvp_build_safe_primes_register_cap(c, cap)
         /\ \A cap : Complete(c, cap) <=> SafePrimesComplete(cap)
<1>1. c \notin cap_sym \cup cap_hash \cup cap_hmac \cup cap_cmac \cup cap_kmac \cup cap_drbg \cup cap_rsa_sig
             \cup cap_rsa_prim \cup cap_ecdsa \cup cap_eddsa \cup cap_dsa \cup cap_kdf \cup cap_kas_ecc
             \cup cap_kas_ffc \cup cap_kda \cup cap_lms
  BY DEF cap_sym, cap_aes, cap_tdes, cap_hash, cap_sha2, cap_sha3, cap_shake, cap_hmac, cap_cmac, cap_kmac, cap_drbg,
         cap_rsa_sig, cap_rsa_prim, cap_ecdsa, cap_ecdsa_sig, cap_eddsa, cap_dsa, cap_kdf, cap_kas_ecc, cap_kas_ffc,
         cap_kda, cap_safe_primes, cap_lms
<1>2. c \notin Named
  BY <1>1 DEF Named, cap_kdf, cap_kda, cap_rsa_sig, cap_safe_primes
<1>3. Setters(c) = acvp_cap_safe_primes_set_parm(c)
  BY <1>1, <1>2, Zenon DEF Setters, Named
<1>4. ASSUME NEW cap PROVE Builder(c, cap) = acvp_build_safe_primes_register_cap(c, cap)
  BY <1>1, <1>2, Zenon DEF Builder, Named
<1>5. ASSUME NEW cap PROVE Complete(c, cap) <=> SafePrimesComplete(cap)
  BY <1>1, <1>2, Zenon DEF Complete, Named
<1>. QED BY <1>3, <1>4, <1>5, Zenon

\* The kind of LMS.
LEMMA LmsKind ==
  ASSUME NEW c, c \in cap_lms
  PROVE  /\ Setters(c) = acvp_cap_lms_set_parm(c) \cup acvp_cap_lms_set_mode_compatability_pair(c)
         /\ \A cap : Builder(c, cap) = acvp_build_lms_register_cap(c, cap)
         /\ \A cap : Complete(c, cap)
<1>1. c \notin cap_sym \cup cap_hash \cup cap_hmac \cup cap_cmac \cup cap_kmac \cup cap_drbg \cup cap_rsa_sig
             \cup cap_rsa_prim \cup cap_ecdsa \cup cap_eddsa \cup cap_dsa \cup cap_kdf \cup cap_kas_ecc
             \cup cap_kas_ffc \cup cap_kda \cup cap_safe_primes
  BY DEF cap_sym, cap_aes, cap_tdes, cap_hash, cap_sha2, cap_sha3, cap_shake, cap_hmac, cap_cmac, cap_kmac, cap_drbg,
         cap_rsa_sig, cap_rsa_prim, cap_ecdsa, cap_ecdsa_sig, cap_eddsa, cap_dsa, cap_kdf, cap_kas_ecc, cap_kas_ffc,
         cap_kda, cap_safe_primes, cap_lms
<1>2. c \notin Named
  BY <1>1 DEF Named, cap_kdf, cap_kda, cap_rsa_sig, cap_lms
<1>3. Setters(c) = acvp_cap_lms_set_parm(c) \cup acvp_cap_lms_set_mode_compatability_pair(c)
  BY <1>1, <1>2, Zenon DEF Setters, Named
<1>4. ASSUME NEW cap PROVE Builder(c, cap) = acvp_build_lms_register_cap(c, cap)
  BY <1>1, <1>2, Zenon DEF Builder, Named
<1>5. ASSUME NEW cap PROVE Complete(c, cap)
  BY <1>1, <1>2, Zenon DEF Complete, Named
<1>. QED BY <1>3, <1>4, <1>5, Zenon

----------------------------------------------------------------------------
(* The rows of the ciphers whose setters check before they change          *)
(* anything.                                                               *)

\* Rows of two tables.
LEMMA TamesUnion ==
  ASSUME NEW A, NEW B, NEW R, NEW S, Tames(R, A, B), Tames(S, A, B)
  PROVE  Tames(R \cup S, A, B)
BY DEF Tames

\* No rows.
LEMMA TamesNothing == \A A, B : Tames({}, A, B)
BY DEF Tames

\* The rows of HMAC.
LEMMA HmacTame ==
  ASSUME NEW c, c \in cap_hmac
  PROVE  Tames(Setters(c), {"key_len", "mac_len"},
               {"key_len.values", "mac_len.values"})
<1>. DEFINE A == {"key_len", "mac_len"}
            B == {"key_len.values", "mac_len.values"}
<1>1. Tames(acvp_cap_hmac_set_domain(c), A, B)
  BY TableRows, TameVariants DEF acvp_cap_hmac_set_domain
<1>2. Tames(acvp_cap_hmac_set_parm(c), A, B)
  BY TableRows DEF acvp_cap_hmac_set_parm
<1>. QED BY <1>1, <1>2, HmacKind, TamesUnion

\* The rows of CMAC.
LEMMA CmacTame ==
  ASSUME NEW c, c \in cap_cmac
  PROVE  Tames(Setters(c), {"msg_len", "mac_len", "direction_gen", "direction_ver"},
               {"msg_len.values", "mac_len.values", "key_len"} \cup (IF c = "CMAC_TDES" THEN {"keying_option"} ELSE {}))
<1>. DEFINE A == {"msg_len", "mac_len", "direction_gen", "direction_ver"}
            B == {"msg_len.values", "mac_len.values", "key_len"} \cup (IF c = "CMAC_TDES" THEN {"keying_option"} ELSE {})
<1>1. Tames(acvp_cap_cmac_set_domain(c), A, B)
  BY TableRows, TameVariants DEF acvp_cap_cmac_set_domain
<1>2. Tames(acvp_cap_cmac_set_parm(c), A, B)
  <2>1. Tames(Adds({"msg_len.values", "mac_len.values", "key_len"}), A, B)
    BY TableRows
  <2>2. Tames(Flags({"direction_gen", "direction_ver"}), A, B)
    BY TableRows
  <2>3. Tames((IF c = "CMAC_TDES" THEN Adds({"keying_option"}) ELSE {}), A, B)
    BY TableRows, TamesNothing
  <2>. HIDE DEF A, B
  <2>. QED BY <2>1, <2>2, <2>3, TamesUnion DEF acvp_cap_cmac_set_parm
<1>. QED BY <1>1, <1>2, CmacKind, TamesUnion

\* The rows of KMAC.
LEMMA KmacTame ==
  ASSUME NEW c, c \in cap_kmac
  PROVE  Tames(Setters(c), {"xof", "hex_customization", "mac_len", "msg_len", "key_len"},
               {})
<1>. DEFINE A == {"xof", "hex_customization", "mac_len", "msg_len", "key_len"}
            B == {}
<1>1. Tames(acvp_cap_kmac_set_domain(c), A, B)
  BY TableRows, TameVariants DEF acvp_cap_kmac_set_domain
<1>2. Tames(acvp_cap_kmac_set_parm(c), A, B)
  <2>1. Tames(Assigns({"xof"}), A, B)
    BY TableRows
  <2>2. Tames(Flags({"hex_customization"}), A, B)
    BY TableRows
  <2>. HIDE DEF A, B
  <2>. QED BY <2>1, <2>2, TamesUnion DEF acvp_cap_kmac_set_parm
<1>. QED BY <1>1, <1>2, KmacKind, TamesUnion

\* The rows of EdDSA.
LEMMA EddsaTame ==
  ASSUME NEW c, c \in cap_eddsa
  PROVE  Tames(Setters(c), {"supports_pure", "supports_prehash"},
               {"curves"})
<1>. DEFINE A == {"supports_pure", "supports_prehash"}
            B == {"curves"}
<1>1. Tames(acvp_cap_eddsa_set_parm(c), A, B)
  <2>1. Tames(Adds({"curves"}), A, B)
    BY TableRows
  <2>2. Tames(Flags({"supports_pure", "supports_prehash"}), A, B)
    BY TableRows
  <2>. HIDE DEF A, B
  <2>. QED BY <2>1, <2>2, TamesUnion DEF acvp_cap_eddsa_set_parm
<1>. QED BY <1>1, EddsaKind, TamesUnion

\* The rows of the KDF of SNMP.
LEMMA SnmpTame ==
  ASSUME NEW c, c = "KDF135_SNMP"
  PROVE  Tames(Setters(c), {},
               {"pass_lens", "eng_ids"})
<1>. DEFINE A == {}
            B == {"pass_lens", "eng_ids"}
<1>1. Tames(acvp_cap_kdf135_snmp_set_parm(c), A, B)
  BY TableRows DEF acvp_cap_kdf135_snmp_set_parm
<1>2. Tames(acvp_cap_kdf135_snmp_set_engid(c), A, B)
  BY TableRows DEF acvp_cap_kdf135_snmp_set_engid
<1>. QED BY <1>1, <1>2, SnmpKind, TamesUnion

\* The rows of the KDF of SSH.
LEMMA SshTame ==
  ASSUME NEW c, c = "KDF135_SSH"
  PROVE  Tames(Setters(c), {},
               {"entry", "sha"})
<1>. DEFINE A == {}
            B == {"entry", "sha"}
<1>1. Tames(acvp_cap_kdf135_ssh_set_parm(c), A, B)
  <2>1. Tames({[r EXCEPT !.at = {<<"v1">>, <<"v2">>}, !.wide = "yes"] : r \in Adds({"sha"})}, A, B)
    <3>1. \A q \in Adds({"sha"}) : Tame([q EXCEPT !.at = {<<"v1">>, <<"v2">>}, !.wide = "yes"], A, B)
      BY TableRows, TameExcept DEF Tames
    <3>. QED BY <3>1, Zenon DEF Tames
  <2>2. Tames(Refuse({<<"odd">>}), A, B)
    BY TableRows
  <2>. HIDE DEF A, B
  <2>. QED BY <2>1, <2>2, TamesUnion DEF acvp_cap_kdf135_ssh_set_parm
<1>. QED BY <1>1, SshKind, TamesUnion

\* The rows of the KDF of SRTP.
LEMMA SrtpTame ==
  ASSUME NEW c, c = "KDF135_SRTP"
  PROVE  Tames(Setters(c), {"supports_zero_kdr"},
               {"aes_keylens", "kdr_exp"})
<1>. DEFINE A == {"supports_zero_kdr"}
            B == {"aes_keylens", "kdr_exp"}
<1>1. Tames(acvp_cap_kdf135_srtp_set_parm(c), A, B)
  <2>1. Tames(Adds({"aes_keylens", "kdr_exp"}), A, B)
    BY TableRows
  <2>2. Tames(Flags({"supports_zero_kdr"}), A, B)
    BY TableRows
  <2>. HIDE DEF A, B
  <2>. QED BY <2>1, <2>2, TamesUnion DEF acvp_cap_kdf135_srtp_set_parm
<1>. QED BY <1>1, SrtpKind, TamesUnion

\* The rows of the KDF of IKE, version 2.
LEMMA Ikev2Tame ==
  ASSUME NEW c, c = "KDF135_IKEV2"
  PROVE  Tames(Setters(c), {"init_nonce_len", "respond_nonce_len", "dh_secret_len", "key_material_len"},
               {"hash_algs", "init_nonce_len.values", "respond_nonce_len.values", "dh_secret_len.values", "key_material_len.values"})
<1>. DEFINE A == {"init_nonce_len", "respond_nonce_len", "dh_secret_len", "key_material_len"}
            B == {"hash_algs", "init_nonce_len.values", "respond_nonce_len.values", "dh_secret_len.values", "key_material_len.values"}
<1>1. Tames(acvp_cap_kdf135_ikev2_set_parm(c), A, B)
  BY TableRows DEF acvp_cap_kdf135_ikev2_set_parm
<1>2. Tames(acvp_cap_kdf135_ikev2_set_length(c), A, B)
  BY TableRows DEF acvp_cap_kdf135_ikev2_set_length
<1>3. Tames(acvp_cap_kdf135_ikev2_set_domain(c), A, B)
  BY TableRows, TameVariants DEF acvp_cap_kdf135_ikev2_set_domain, IkeRanges
<1>. SUFFICES Tames(Setters(c), A, B)
  OBVIOUS
<1>. HIDE DEF A, B
<1>. QED BY <1>1, <1>2, <1>3, Ikev2Kind, Zenon DEF Tames

\* The rows of the KDF of IKE, version 1.
LEMMA Ikev1Tame ==
  ASSUME NEW c, c = "KDF135_IKEV1"
  PROVE  Tames(Setters(c), {"init_nonce_len", "respond_nonce_len", "dh_secret_len", "psk_len", "auth_method"},
               {"hash_algs"})
<1>. DEFINE A == {"init_nonce_len", "respond_nonce_len", "dh_secret_len", "psk_len", "auth_method"}
            B == {"hash_algs"}
<1>1. Tames(acvp_cap_kdf135_ikev1_set_parm(c), A, B)
  <2>1. Tames(Adds({"hash_algs"}), A, B)
    BY TableRows
  <2>2. Tames(Assigns({"auth_method"}), A, B)
    BY TableRows
  <2>. HIDE DEF A, B
  <2>. QED BY <2>1, <2>2, TamesUnion DEF acvp_cap_kdf135_ikev1_set_parm
<1>2. Tames(acvp_cap_kdf135_ikev1_set_domain(c), A, B)
  BY TableRows, TameVariants DEF acvp_cap_kdf135_ikev1_set_domain, IkeRanges
<1>. QED BY <1>1, <1>2, Ikev1Kind, TamesUnion

\* The rows of the KDF of ANSI X9.42.
LEMMA X942Tame ==
  ASSUME NEW c, c = "KDF135_X942"
  PROVE  Tames(Setters(c), {"type", "key_len", "other_len", "supp_len", "zz_len"},
               {"hash_algs", "oids"})
<1>. DEFINE A == {"type", "key_len", "other_len", "supp_len", "zz_len"}
            B == {"hash_algs", "oids"}
<1>1. Tames(acvp_cap_kdf135_x942_set_parm(c), A, B)
  <2>1. Tames(Trying(Taking(Assigns({"type"}), {"DER", "CONCAT"}), {"BOTH", "odd"}), A, B)
    BY TableRows, TameVariants
  <2>2. Tames(Adds({"hash_algs", "oids"}), A, B)
    BY TableRows
  <2>. HIDE DEF A, B
  <2>. QED BY <2>1, <2>2, TamesUnion DEF acvp_cap_kdf135_x942_set_parm
<1>2. Tames(acvp_cap_kdf135_x942_set_domain(c), A, B)
  BY TableRows, TameVariants DEF acvp_cap_kdf135_x942_set_domain, acvp_validate_kdf135_x942_domain_value
<1>. QED BY <1>1, <1>2, X942Kind, TamesUnion

\* The rows of the KDF of ANSI X9.63.
LEMMA X963Tame ==
  ASSUME NEW c, c = "KDF135_X963"
  PROVE  Tames(Setters(c), {},
               {"hash_algs", "key_data_lengths", "field_sizes", "shared_info_lengths"})
<1>. DEFINE A == {}
            B == {"hash_algs", "key_data_lengths", "field_sizes", "shared_info_lengths"}
<1>1. Tames(acvp_cap_kdf135_x963_set_parm(c), A, B)
  BY TableRows DEF acvp_cap_kdf135_x963_set_parm
<1>. QED BY <1>1, X963Kind, TamesUnion

\* The rows of PBKDF.
LEMMA PbkdfTame ==
  ASSUME NEW c, c = "PBKDF"
  PROVE  Tames(Setters(c), {"iteration_count_domain", "key_len_domain", "password_len_domain", "salt_len_domain"},
               {"hmac_algs"})
<1>. DEFINE A == {"iteration_count_domain", "key_len_domain", "password_len_domain", "salt_len_domain"}
            B == {"hmac_algs"}
<1>1. Tames(acvp_cap_pbkdf_set_domain(c), A, B)
  BY TableRows DEF acvp_cap_pbkdf_set_domain
<1>2. Tames(acvp_cap_pbkdf_set_parm(c), A, B)
  BY TableRows DEF acvp_cap_pbkdf_set_parm
<1>. QED BY <1>1, <1>2, PbkdfKind, TamesUnion

\* The rows of the KDF of TLS 1.2.
LEMMA Tls12Tame ==
  ASSUME NEW c, c = "KDF_TLS12"
  PROVE  Tames(Setters(c), {},
               {"hash_algs"})
<1>. DEFINE A == {}
            B == {"hash_algs"}
<1>1. Tames(acvp_cap_kdf_tls12_set_parm(c), A, B)
  BY TableRows DEF acvp_cap_kdf_tls12_set_parm
<1>. QED BY <1>1, Tls12Kind, TamesUnion

\* The rows of the KDF of TLS 1.3.
LEMMA Tls13Tame ==
  ASSUME NEW c, c = "KDF_TLS13"
  PROVE  Tames(Setters(c), {},
               {"hmac_algs", "running_mode"})
<1>. DEFINE A == {}
            B == {"hmac_algs", "running_mode"}
<1>1. Tames(acvp_cap_kdf_tls13_set_parm(c), A, B)
  BY TableRows DEF acvp_cap_kdf_tls13_set_parm
<1>. QED BY <1>1, Tls13Kind, TamesUnion

\* The rows of safe primes.
LEMMA SafePrimesTame ==
  ASSUME NEW c, c \in cap_safe_primes
  PROVE  Tames(Setters(c), {},
               {"entry", "genmeth"})
<1>. DEFINE A == {}
            B == {"entry", "genmeth"}
<1>1. Tames(acvp_cap_safe_primes_set_parm(c), A, B)
  <2>1. Tames(In({<<"mode">>}, Unchecked({"genmeth"})), A, B)
    BY TableRows, TameVariants DEF Unchecked
  <2>2. Tames(Makes({<<"mode">>}), A, B)
    BY TableRows
  <2>. HIDE DEF A, B
  <2>. QED BY <2>1, <2>2, TamesUnion DEF acvp_cap_safe_primes_set_parm
<1>. QED BY <1>1, SafePrimesKind, TamesUnion

\* The rows of hashes.
LEMMA HashTame ==
  ASSUME NEW c, c \in cap_hash
  PROVE  Tames(Setters(c), (IF c \in cap_sha3 \cup cap_shake THEN {"in_bit", "in_empty"} ELSE {})
                             \cup (IF c \in cap_shake THEN {"out_bit", "out_len"} ELSE {"msg_length"}),
               IF c \in cap_shake THEN {} ELSE {"large_lens"})
<1>. DEFINE A == (IF c \in cap_sha3 \cup cap_shake THEN {"in_bit", "in_empty"} ELSE {})
                   \cup (IF c \in cap_shake THEN {"out_bit", "out_len"} ELSE {"msg_length"})
            B == IF c \in cap_shake THEN {} ELSE {"large_lens"}
<1>1. Tames(acvp_cap_hash_set_domain(c), A, B)
  BY TableRows, TameVariants DEF acvp_cap_hash_set_domain
<1>2. Tames(acvp_cap_hash_set_parm(c), A, B)
  <2>1. CASE c \in cap_shake
    <3>0. c \notin cap_sha3
      BY <2>1 DEF cap_sha3, cap_shake
    <3>1. acvp_cap_hash_set_parm(c) = Flags({"in_bit", "in_empty", "out_bit"})
      BY <2>1, <3>0 DEF acvp_cap_hash_set_parm
    <3>. QED BY <2>1, <3>1, TableRows
  <2>2. CASE c \in cap_sha3 /\ c \notin cap_shake
    <3>1. Tames(Flags({"in_bit", "in_empty"}), A, B) /\ Tames(Adds({"large_lens"}), A, B)
      BY <2>2, TableRows
    <3>. HIDE DEF A, B
    <3>. QED BY <2>2, <3>1, TamesUnion DEF acvp_cap_hash_set_parm
  <2>3. CASE c \notin cap_sha3 /\ c \notin cap_shake
    BY <2>3, TableRows DEF acvp_cap_hash_set_parm
  <2>. QED BY <2>1, <2>2, <2>3
<1>. SUFFICES Tames(Setters(c), A, B)
  OBVIOUS
<1>. HIDE DEF A, B
<1>. QED BY <1>1, <1>2, HashKind, TamesUnion

\* The rows of the RSA parameters that several ciphers have.
LEMMA RsaTame ==
  ASSUME NEW A, {"revision", "pub_exp_mode", "fixed_pub_exp"} \subseteq A, NEW B, NEW rev
  PROVE  /\ Tames(Revision(rev), A, B) /\ Tames(PubExpMode, A, B) /\ Tames(FixedPubExp, A, B)
<1>1. Tames(Revision(rev), A, B)
  BY TableRows, TameVariants DEF Revision
<1>2. Tames(PubExpMode, A, B)
  BY TableRows, TameVariants DEF PubExpMode
<1>3. Tames(FixedPubExp, A, B)
  <2>1. \A q \in Assigns({"fixed_pub_exp"}) :
          Tame([q EXCEPT !.fresh = "yes", !.onlyIf = {<<"pub_exp_mode", "FIXED">>}], A, B)
    BY TableRows, TameExcept DEF Tames
  <2>. QED BY <2>1, Zenon DEF Tames, FixedPubExp
<1>. QED BY <1>1, <1>2, <1>3

\* The rows of the RSA primitives.
LEMMA RsaPrimTame ==
  ASSUME NEW c, c \in cap_rsa_prim
  PROVE  Tames(Setters(c), {"revision", "pub_exp_mode", "fixed_pub_exp"}, {"key_formats", "modulo"})
<1>. DEFINE A == {"revision", "pub_exp_mode", "fixed_pub_exp"}
            B == {"key_formats", "modulo"}
            u == IF c = "RSA_DECPRIM" THEN {"revision"} ELSE {}
<1>1. /\ Tames(Revision("1_0"), A, B) /\ Tames(PubExpMode, A, B) /\ Tames(FixedPubExp, A, B)
      /\ Tames(Adds({"modulo"}), A, B)
  BY RsaTame, TableRows
<1>5. Tames(KeyFormats, A, B)
  <2>1. \A n, g : /\ Tame(Row("key_formats", "add", n), A, B)
                  /\ Tame([Row("key_formats", "add", n) EXCEPT !.given = g], A, B)
    BY DEF Row, Tame, Bare, RowFields, Sorted
  <2>. HIDE DEF A, B
  <2>2. SUFFICES ASSUME NEW r \in KeyFormats PROVE Tame(r, A, B)
    BY DEF Tames
  <2>3. \/ r = Row("key_formats", "add", {"v1"})
        \/ r = [Row("key_formats", "add", {"v2"}) EXCEPT !.given = {Setting(<<>>, "key_formats", "v1")}]
    BY Zenon DEF KeyFormats
  <2>4. /\ Tame(Row("key_formats", "add", {"v1"}), A, B)
        /\ Tame([Row("key_formats", "add", {"v2"}) EXCEPT !.given = {Setting(<<>>, "key_formats", "v1")}], A, B)
    BY <2>1
  <2>. QED BY <2>3, <2>4, Zenon
<1>. SUFFICES Tames(Setters(c), A, B)
  OBVIOUS
<1>. HIDE DEF A, B
<1>2. Tames(PubExpMode \cup KeyFormats, A, B)
  BY <1>1, <1>5, TamesUnion
<1>3. /\ Tames({[r EXCEPT !.unless = u] : r \in PubExpMode \cup KeyFormats}, A, B)
      /\ Tames({[r EXCEPT !.unless = u] : r \in FixedPubExp}, A, B)
      /\ Tames({[r EXCEPT !.unless = {"revision"}] : r \in Adds({"modulo"})}, A, B)
  <2>1. /\ \A q \in PubExpMode \cup KeyFormats : Tame([q EXCEPT !.unless = u], A, B)
        /\ \A q \in FixedPubExp : Tame([q EXCEPT !.unless = u], A, B)
        /\ \A q \in Adds({"modulo"}) : Tame([q EXCEPT !.unless = {"revision"}], A, B)
    BY <1>1, <1>2, TameExcept DEF Tames
  <2>. HIDE DEF u
  <2>. QED BY <2>1, Zenon DEF Tames
<1>4. Tames(acvp_cap_rsa_prim_set_parm(c), A, B) /\ Tames(acvp_cap_rsa_prim_set_exponent(c), A, B)
  BY <1>1, <1>3, TamesUnion, Zenon DEF acvp_cap_rsa_prim_set_parm, acvp_cap_rsa_prim_set_exponent
<1>. QED BY <1>4, RsaPrimKind, TamesUnion

\* The rows of ECDSA.
LEMMA EcdsaTame ==
  ASSUME NEW c, c \in cap_ecdsa
  PROVE  Tames(Setters(c), {"revision", "component"},
               {"entry", "secret_gen_modes"} \cup (IF c \in cap_ecdsa_sig THEN {"hash_algs", "algs", "place", "again"} ELSE {}))
<1>. DEFINE A == {"revision", "component"}
            B == {"entry", "secret_gen_modes"} \cup (IF c \in cap_ecdsa_sig THEN {"hash_algs", "algs", "place", "again"} ELSE {})
<1>1. Tames(acvp_cap_ecdsa_set_parm(c), A, B)
  <2>1. Tames(Makes(Curves), A, B) /\ Tames(Refuse({<<"odd">>}), A, B)
    BY TableRows
  <2>6. Tames(IF c \in cap_ecdsa_sig THEN Appended \cup AppendedAgain ELSE Makes(Curves), A, B)
    <3>1. CASE c \in cap_ecdsa_sig
      <4>1. ASSUME NEW f \in {"place", "again"}, NEW n, NEW x, NEW y, NEW z
            PROVE  Tame([Row(f, "add", n) EXCEPT !.at = x, !.given = y, !.lacking = z, !.tries = {}], A, B)
        <5>1. Tame(Row(f, "add", n), A, B)
          BY <3>1, <4>1 DEF Row, Tame, Bare, RowFields, Sorted
        <5>2. "entry" \in B
          OBVIOUS
        <5>. HIDE DEF A, B
        <5>. QED BY <5>1, <5>2, TameExcept
      <4>. HIDE DEF A, B
      <4>2. Tames(Appended, A, B)
        <5>1. SUFFICES ASSUME NEW r \in Appended PROVE Tame(r, A, B)
          BY DEF Tames
        <5>2. PICK before \in SUBSET Curves :
                r = [Row("place", "add", {Nth(before)}) EXCEPT
                       !.at = Curves \ before, !.given = {Entry(at) : at \in before},
                       !.lacking = {Entry(at) : at \in Curves \ before}, !.tries = {}]
          BY Zenon DEF Appended
        <5>. QED BY <4>1, <5>2, Zenon
      <4>3. Tames(AppendedAgain, A, B)
        <5>1. SUFFICES ASSUME NEW r \in AppendedAgain PROVE Tame(r, A, B)
          BY DEF Tames
        <5>2. PICK at \in Curves :
                r = [Row("again", "add", {"appended"}) EXCEPT
                       !.at = {at}, !.given = {Entry(at)}, !.lacking = {}, !.tries = {}]
          BY Zenon DEF AppendedAgain
        <5>. QED BY <4>1, <5>2, Zenon
      <4>. QED BY <3>1, <4>2, <4>3, TamesUnion
    <3>. QED BY <2>1, <3>1
  <2>2. Tames(IF c = "DET_ECDSA_SIGGEN" THEN {} ELSE Revision("1_0"), A, B)
    BY TableRows, TameVariants, TamesNothing DEF Revision
  <2>3. Tames(IF c = "ECDSA_KEYGEN" THEN Adds({"secret_gen_modes"}) ELSE {}, A, B)
    BY TableRows, TamesNothing
  <2>4. Tames(Component, A, B)
    <3>1. Tame(Row("component", "assign", {"NO", "YES", "BOTH"}), A, B)
      BY DEF Row, Tame, Bare, RowFields, Sorted
    <3>2. Tame([Row("component", "assign", {"NO", "YES", "BOTH"}) EXCEPT !.counts = {"BOTH"}], A, B)
      BY <3>1, TameExcept
    <3>. QED BY <3>2, Zenon DEF Component, Tames
  <2>5. Tames(IF c \in cap_ecdsa_sig THEN Adds({"hash_algs"}) \cup Component ELSE {}, A, B)
    <3>1. c \in cap_ecdsa_sig => Tames(Adds({"hash_algs"}), A, B)
      BY TableRows
    <3>. HIDE DEF A, B
    <3>. QED BY <2>4, <3>1, TamesUnion, TamesNothing
  <2>. HIDE DEF A, B
  <2>. QED BY <2>1, <2>2, <2>3, <2>5, <2>6, TamesUnion DEF acvp_cap_ecdsa_set_parm
<1>2. Tames(acvp_cap_ecdsa_set_curve_hash_alg(c), A, B)
  <2>1. CASE c \in cap_ecdsa_sig
    BY <2>1, TableRows, TameVariants DEF acvp_cap_ecdsa_set_curve_hash_alg
  <2>. QED BY <2>1, TamesNothing DEF acvp_cap_ecdsa_set_curve_hash_alg
<1>. SUFFICES Tames(Setters(c), A, B)
  OBVIOUS
<1>. HIDE DEF A, B
<1>. QED BY <1>1, <1>2, EcdsaKind, TamesUnion

\* The rows of KAS and KTS that check their hash late.
LEMMA HashZTame ==
  ASSUME NEW A, NEW B, "hash" \in A
  PROVE  Tames(HashZ, A, B)
<1>1. Tame(Row("hash", "assign", Good \cup {"odd"}), A, B)
  BY DEF Row, Tame, Bare, RowFields, Sorted
<1>2. Tame([Row("hash", "assign", Good \cup {"odd"}) EXCEPT !.tries = {"out"}], A, B)
  BY <1>1, TameExcept
<1>. QED BY <1>2, Zenon DEF Tames, HashZ

\* Rows that are tame or take nothing.
Mild(R, A, B) == \A r \in R : Tame(r, A, B) \/ Idle(r, B)

\* The rows of KAS-IFC; other parameters are refused.
LEMMA KasIfcMild ==
  ASSUME NEW c, c = "KAS_IFC_SSC"
  PROVE  Mild(Setters(c), {"hash", "fixed_pub_exp"}, {"kas1_roles", "kas2_roles", "keygen_method", "modulo"})
<1>. DEFINE A == {"hash", "fixed_pub_exp"}
            B == {"kas1_roles", "kas2_roles", "keygen_method", "modulo"}
<1>1. Tames(Unchecked({"kas1_roles", "kas2_roles", "keygen_method", "modulo"}), A, B)
  BY TableRows, TameVariants DEF Unchecked
<1>2. Tames(HashZ, A, B) /\ Tames(Assigns({"fixed_pub_exp"}), A, B)
  BY HashZTame, TableRows
<1>3. \A r \in NoOther({<<>>}) : Idle(r, B)
  <2>1. \A q \in Taking(Adds({"other"}), {}) : Idle(q, B)
    <3>1. Idle([Row("other", "add", Good) EXCEPT !.takes = {}], B)
      BY DEF Row, Idle, Bare, RowFields
    <3>. QED BY <3>1, Zenon DEF Taking, Adds
  <2>2. ASSUME NEW q, Idle(q, B), NEW x PROVE Idle([q EXCEPT !.tries = x], B) /\ Idle([q EXCEPT !.at = {<<>>}], B)
    BY <2>2 DEF Idle, Bare, RowFields
  <2>3. \A q \in Trying(Taking(Adds({"other"}), {}), {"v1"}) : Idle(q, B)
    <3>1. \A q \in Taking(Adds({"other"}), {}) : Idle([q EXCEPT !.tries = {"v1"}], B)
      BY <2>1, <2>2
    <3>. QED BY <3>1, Zenon DEF Trying
  <2>. QED BY <2>2, <2>3, Zenon DEF NoOther, In
<1>. SUFFICES Mild(Setters(c), A, B)
  OBVIOUS
<1>. HIDE DEF A, B
<1>. QED BY <1>1, <1>2, <1>3, KasIfcKind, Zenon DEF Mild, Tames, acvp_cap_kas_ifc_set_parm, acvp_cap_kas_ifc_set_exponent

\* The rows of LMS; another parameter is ignored.
LEMMA LmsMild ==
  ASSUME NEW c, c \in cap_lms
  PROVE  Mild(Setters(c), {}, {"lms_modes", "lmots_modes", "specific_list"})
<1>. DEFINE B == {"lms_modes", "lmots_modes", "specific_list"}
<1>1. Tames(Adds({"lms_modes", "lmots_modes"}), {}, B) /\ Tames(Adds({"specific_list"}), {}, B)
  BY TableRows
<1>2. Idle([Row("other", "assign", {}) EXCEPT !.idle = {"v1"}, !.tries = {}], B)
  BY DEF Row, Idle, Bare, RowFields
<1>. SUFFICES Mild(Setters(c), {}, B)
  OBVIOUS
<1>. HIDE DEF B
<1>. QED BY <1>1, <1>2, LmsKind, Zenon DEF Mild, Tames, acvp_cap_lms_set_parm, acvp_cap_lms_set_mode_compatability_pair

\* The fields of KTS-IFC.
KtsAssigned  == {"scheme", "fixed_pub_exp", "iut_id", "null_assoc_data", "l", "assoc_data_pattern", "encodings"}
KtsCollected == {"entry", "keygen_method", "functions", "modulo", "roles", "hash", "other"}

\* The rows of KTS-IFC.
LEMMA KtsTame ==
  ASSUME NEW c, c = "KTS_IFC"
  PROVE  Tames(Setters(c), KtsAssigned, KtsCollected)
<1>. DEFINE A == KtsAssigned
            B == KtsCollected
<1>0. "entry" \in B
  BY DEF KtsCollected
<1>1. /\ Tames(Unchecked({"keygen_method", "functions", "modulo"}), A, B)
      /\ Tames(Unchecked({"roles", "hash"}), A, B)
  BY TableRows, TameVariants DEF Unchecked, KtsCollected
<1>2. Tames(NoOther({<<>>}), A, B)
  BY TableRows, TameVariants DEF NoOther, KtsCollected
<1>3. /\ Tames(Assigns({"scheme"}), A, B) /\ Tames(Assigns({"fixed_pub_exp", "iut_id"}), A, B)
      /\ Tames(Assigns({"assoc_data_pattern", "encodings"}), A, B)
      /\ Tames(Trying(Flags({"null_assoc_data"}), {}), A, B) /\ Tames(AlsoTaking(Assigns({"l"}), {"odd"}), A, B)
  BY TableRows, TameVariants DEF KtsAssigned
<1>4. Tames(AppendScheme, A, B)
  <2>1. \A q \in Assigns({"scheme"}) :
          /\ Tame([q EXCEPT !.at = {<<"first">>}, !.lacking = {Entry(<<"first">>)}, !.tries = {}], A, B)
          /\ Tame([q EXCEPT !.at = {<<"second">>}, !.given = {Entry(<<"first">>)}, !.lacking = {Entry(<<"second">>)},
                            !.tries = {}], A, B)
    BY <1>0, <1>3, TameExcept DEF Tames
  <2>. QED BY <2>1, Zenon DEF Tames, AppendScheme
<1>5. ASSUME NEW R, Tames(R, A, B) PROVE Tames(AtScheme(R), A, B)
  <2>. DEFINE named(v) == Setting(<<"first">>, "scheme", v)
  <2>. DEFINE X(v) == {[r EXCEPT !.at = {<<"first">>}, !.given = {named(v)}] : r \in R}
                      \cup {[r EXCEPT !.at = {<<"second">>}, !.given = {Entry(<<"second">>)}, !.lacking = {named(v)}] :
                              r \in R}
                      \cup {[r EXCEPT !.at = {<<"second">>}, !.lacking = {Entry(<<"second">>), named(v)},
                                      !.takes = {}, !.tries = {"v1"}] : r \in R}
  <2>2. AtScheme(R) = UNION {X(v) : v \in Good}
    BY Zenon DEF AtScheme
  <2>3. ASSUME NEW v PROVE \A r \in X(v) : Tame(r, A, B)
    <3>0. ASSUME NEW q \in R
          PROVE  /\ Tame([q EXCEPT !.at = {<<"first">>}, !.given = {named(v)}], A, B)
                 /\ Tame([q EXCEPT !.at = {<<"second">>}, !.given = {Entry(<<"second">>)}, !.lacking = {named(v)}], A, B)
                 /\ Tame([q EXCEPT !.at = {<<"second">>}, !.lacking = {Entry(<<"second">>), named(v)}, !.takes = {},
                                   !.tries = {"v1"}], A, B)
      BY <1>0, <1>5, TameExcept DEF Tames
    <3>. HIDE DEF named
    <3>1. /\ \A r \in {[q EXCEPT !.at = {<<"first">>}, !.given = {named(v)}] : q \in R} : Tame(r, A, B)
          /\ \A r \in {[q EXCEPT !.at = {<<"second">>}, !.given = {Entry(<<"second">>)}, !.lacking = {named(v)}] :
                         q \in R} : Tame(r, A, B)
      BY <3>0, Zenon
    <3>2. \A r \in {[q EXCEPT !.at = {<<"second">>}, !.lacking = {Entry(<<"second">>), named(v)}, !.takes = {},
                              !.tries = {"v1"}] : q \in R} : Tame(r, A, B)
      BY <3>0, Zenon
    <3>. QED BY <3>1, <3>2, Zenon
  <2>. HIDE DEF X
  <2>. QED BY <2>2, <2>3, Zenon DEF Tames
<1>. HIDE DEF A, B
<1>6. Tames(acvp_cap_kts_ifc_set_parm(c), A, B) /\ Tames(acvp_cap_kts_ifc_set_param_string(c), A, B)
  BY <1>1, <1>2, <1>3, <1>4, TamesUnion DEF acvp_cap_kts_ifc_set_parm, acvp_cap_kts_ifc_set_param_string
<1>7. Tames(acvp_cap_kts_ifc_set_scheme_parm(c), A, B) /\ Tames(acvp_cap_kts_ifc_set_scheme_string(c), A, B)
  <2>1. Tames(Trying(Flags({"null_assoc_data"}), {}) \cup AlsoTaking(Assigns({"l"}), {"odd"}) \cup Unchecked({"roles", "hash"}), A, B)
    BY <1>1, <1>3, TamesUnion
  <2>. QED BY <1>3, <1>5, <2>1 DEF acvp_cap_kts_ifc_set_scheme_parm, acvp_cap_kts_ifc_set_scheme_string
<1>8. Tames(Setters(c), A, B)
  BY <1>6, <1>7, KtsKind, Zenon DEF Tames
<1>. QED BY <1>8 DEF A, B

\* The fields of symmetric ciphers.
SymAssigned  == {"direction", "ivgen_mode", "keying_option", "perform_ctr_tests", "ctr_incr", "ctr_ovrflw",
                 "ivgen_source", "salt_source", "conformance", "dulen_matches_paylen", "iv_len", "payload_len",
                 "aad_len", "du_len"}
SymCollected == {"kw_mode", "keylen", "taglen", "ivlen", "tweak", "aadlen", "ptlen"}

\* A row of symmetric ciphers, and when it is barred: a length is not listed beside its
\* range, and du_len is not dropped.
SymRow(r) ==
  /\ Tame(r, SymAssigned, SymCollected)
  /\ r.field \in {"ivlen", "ptlen", "aadlen"} => r.unless = RangeOf(r.field)
  /\ r.field = "dulen_matches_paylen" => r.unless = {"du_len"}

\* All rows of symmetric ciphers are such rows.
LEMMA SymTame ==
  ASSUME NEW c \in cap_sym, NEW r \in Setters(c)
  PROVE  SymRow(r)
<1>. DEFINE A == SymAssigned
            B == SymCollected
            Free == {"ivlen", "ptlen", "aadlen", "dulen_matches_paylen"}
<1>1. ASSUME NEW q, Tame(q, A, B), q.field \notin Free PROVE SymRow(q)
  BY <1>1 DEF SymRow
<1>2. \A q \in Lists(c) : SymRow(q)
  <2>1. SUFFICES ASSUME NEW q \in Lists(c) PROVE SymRow(q)
    OBVIOUS
  <2>2. PICK f \in acvp_validate_sym_cipher_parm_value(c) :
          q = [Row(f, "add", Good) EXCEPT !.unless = RangeOf(Row(f, "add", Good).field)]
    BY Zenon DEF Lists, Adds
  <2>3. f \in {"keylen", "taglen", "ivlen", "tweak", "aadlen", "ptlen"}
    BY DEF acvp_validate_sym_cipher_parm_value
  <2>4. Row(f, "add", Good).field = f
    BY DEF Row
  <2>5. \A x : [Row(f, "add", Good) EXCEPT !.unless = x].field = f /\ [Row(f, "add", Good) EXCEPT !.unless = x].unless = x
    BY DEF Row
  <2>6. q.field = f /\ q.unless = RangeOf(f)
    BY <2>2, <2>4, <2>5
  <2>7. Tame(Row(f, "add", Good), A, B)
    BY <2>3 DEF SymCollected, Row, Tame, Bare, RowFields, Sorted
  <2>8. Tame(q, A, B)
    BY <2>2, <2>7, TameExcept
  <2>. QED BY <2>3, <2>6, <2>8 DEF SymRow
<1>3. \A q \in acvp_cap_sym_cipher_set_domain(c) : SymRow(q)
  <2>1. SUFFICES ASSUME NEW q \in acvp_cap_sym_cipher_set_domain(c) PROVE SymRow(q)
    OBVIOUS
  <2>2. PICK y \in Ranges(acvp_validate_sym_cipher_domain_value(c)) :
          q = [y EXCEPT !.unless = ListOf(y.field),
                        !.needs = IF y.field = "du_len" THEN {Setting(<<>>, "dulen_matches_paylen", "no")} ELSE {}]
    BY Zenon DEF acvp_cap_sym_cipher_set_domain
  <2>3. acvp_validate_sym_cipher_domain_value(c) \subseteq {"iv_len", "payload_len", "aad_len", "du_len"}
    <3>1. acvp_validate_sym_cipher_domain_value(c) \in
            {{"iv_len", "payload_len", "aad_len"}, {"payload_len", "aad_len"}, {"payload_len"},
             {"payload_len", "du_len"}, {"iv_len", "aad_len"}, {}}
      BY DEF acvp_validate_sym_cipher_domain_value, cap_cs
    <3>. QED BY <3>1
  <2>4. PICK f \in {"iv_len", "payload_len", "aad_len", "du_len"} : y = Row(f, "range", Good)
    BY <2>3, Zenon DEF Ranges
  <2>5. Tame(y, A, B) /\ y.field = f /\ DOMAIN y = RowFields
    BY <2>4 DEF SymAssigned, Row, Tame, Bare, RowFields, Sorted
  <2>6. ASSUME NEW x, NEW z PROVE [y EXCEPT !.unless = x, !.needs = z].field = f
    BY <2>5 DEF RowFields
  <2>7. q.field = f
    BY <2>2, <2>6
  <2>8. Tame(q, A, B)
    BY <2>2, <2>5, TameExcept
  <2>. QED BY <1>1, <2>7, <2>8
<1>4. \A q \in (IF c = "AES_XTS" THEN {[y EXCEPT !.unless = {"du_len"}] : y \in Flags({"dulen_matches_paylen"})} ELSE {}) : SymRow(q)
  <2>1. SUFFICES ASSUME NEW y \in Flags({"dulen_matches_paylen"}) PROVE SymRow([y EXCEPT !.unless = {"du_len"}])
    BY Zenon
  <2>2. y = Row("dulen_matches_paylen", "assign", Flag)
    BY Zenon DEF Flags
  <2>3. Tame(y, A, B)
    BY <2>2 DEF SymAssigned, Row, Tame, Bare, RowFields, Sorted
  <2>4. Tame([y EXCEPT !.unless = {"du_len"}], A, B)
    BY <2>2, <2>3, TameExcept
  <2>5. /\ [Row("dulen_matches_paylen", "assign", Flag) EXCEPT !.unless = {"du_len"}].field = "dulen_matches_paylen"
        /\ [Row("dulen_matches_paylen", "assign", Flag) EXCEPT !.unless = {"du_len"}].unless = {"du_len"}
    BY DEF Row
  <2>. QED BY <2>2, <2>4, <2>5 DEF SymRow
<1>5. SymRow([Row("ivgen_source", "assign", {"INT", "EXT", "EITHER", "NA"}) EXCEPT !.counts = {"EITHER"}])
  <2>1. Tame(Row("ivgen_source", "assign", {"INT", "EXT", "EITHER", "NA"}), A, B)
    BY DEF SymAssigned, Row, Tame, Bare, RowFields, Sorted
  <2>2. [Row("ivgen_source", "assign", {"INT", "EXT", "EITHER", "NA"}) EXCEPT !.counts = {"EITHER"}].field = "ivgen_source"
    BY DEF Row
  <2>. QED BY <1>1, <2>1, <2>2, TameExcept
<1>6. ASSUME NEW R, Tames(R, A, B), \A q \in R : q.field \notin Free, NEW x
      PROVE  /\ \A q \in R : SymRow(q)
             /\ \A q \in Taking(R, x) : SymRow(q)
             /\ \A q \in AlsoTaking(R, x) : SymRow(q)
  <2>1. \A q \in R : DOMAIN q = RowFields
    BY <1>6 DEF Tames, Tame, Bare
  <2>2. ASSUME NEW q \in R, NEW y PROVE [q EXCEPT !.takes = y].field = q.field
    BY <2>1 DEF RowFields
  <2>3. ASSUME NEW q \in R, NEW y PROVE SymRow([q EXCEPT !.takes = y])
    <3>1. Tame([q EXCEPT !.takes = y], A, B)
      BY <1>6, TameExcept DEF Tames
    <3>. QED BY <1>1, <1>6, <2>2, <3>1
  <2>4. \A q \in R : [q EXCEPT !.takes = @ \cup x] = [q EXCEPT !.takes = q.takes \cup x]
    OBVIOUS
  <2>5. \A q \in Taking(R, x) : SymRow(q)
    BY <2>3, Zenon DEF Taking
  <2>6. \A q \in AlsoTaking(R, x) : SymRow(q)
    BY <2>3, <2>4, Zenon DEF AlsoTaking
  <2>. QED BY <1>1, <1>6, <2>5, <2>6 DEF Tames
<1>7. ASSUME NEW F, F \cap Free = {}
      PROVE  \A q \in Adds(F) \cup Assigns(F) \cup Flags(F) : q.field \notin Free
  <2>1. \A f \in F : \A h, t : Row(f, h, t).field = f
    BY DEF Row
  <2>2. \A q \in Adds(F) \cup Assigns(F) \cup Flags(F) : \E f \in F : \E h, t : q = Row(f, h, t)
    BY Zenon DEF Adds, Assigns, Flags
  <2>. QED BY <1>7, <2>1, <2>2
<1>8. /\ \A q \in AlsoTaking(Adds({"kw_mode"}), {"odd"}) : SymRow(q)
      /\ \A q \in AlsoTaking(Assigns({"keying_option"}), {"NA"}) : SymRow(q)
      /\ \A q \in Taking(Assigns({"conformance"}), {"RFC3686"}) : SymRow(q)
      /\ \A q \in Assigns({"direction", "ivgen_mode"}) : SymRow(q)
      /\ \A q \in Flags({"perform_ctr_tests", "ctr_incr", "ctr_ovrflw"}) : SymRow(q)
      /\ \A q \in Assigns({"salt_source"}) : SymRow(q)
  <2>1. /\ Tames(Adds({"kw_mode"}), A, B) /\ Tames(Assigns({"keying_option"}), A, B)
        /\ Tames(Assigns({"conformance"}), A, B) /\ Tames(Assigns({"direction", "ivgen_mode"}), A, B)
        /\ Tames(Flags({"perform_ctr_tests", "ctr_incr", "ctr_ovrflw"}), A, B)
        /\ Tames(Assigns({"salt_source"}), A, B)
    BY TableRows DEF SymAssigned, SymCollected
  <2>2. /\ \A q \in Adds({"kw_mode"}) : q.field \notin Free
        /\ \A q \in Assigns({"keying_option"}) : q.field \notin Free
        /\ \A q \in Assigns({"conformance"}) : q.field \notin Free
        /\ \A q \in Assigns({"direction", "ivgen_mode"}) : q.field \notin Free
        /\ \A q \in Flags({"perform_ctr_tests", "ctr_incr", "ctr_ovrflw"}) : q.field \notin Free
        /\ \A q \in Assigns({"salt_source"}) : q.field \notin Free
    BY <1>7
  <2>. HIDE DEF A, B, Free
  <2>. QED BY <1>6, <2>1, <2>2
<1>9. r \in acvp_cap_sym_cipher_set_parm(c) \cup acvp_cap_sym_cipher_set_domain(c)
  BY SymKind
<1>. QED BY <1>2, <1>3, <1>4, <1>5, <1>8, <1>9, Zenon DEF acvp_cap_sym_cipher_set_parm

----------------------------------------------------------------------------
(* Calls that are refused.                                                 *)

\* The rows of a cipher that checks first leave at most the list of prerequisites.
Meek(r) == r.early = 0 /\ r.loses = {} /\ r.alone = "no" /\ r.leaves \subseteq {HasPrereq}

\* The kinds of those ciphers.
Checking == cap_sym \cup cap_hash \cup cap_hmac \cup cap_cmac \cup cap_kmac \cup cap_rsa_prim \cup cap_ecdsa \cup cap_eddsa
              \cup {"KDF135_SNMP", "KDF135_SSH", "KDF135_SRTP", "KDF135_IKEV2", "KDF135_IKEV1", "KDF135_X942",
                    "KDF135_X963", "PBKDF", "KDF_TLS12", "KDF_TLS13", "KAS_IFC_SSC", "KTS_IFC"}
              \cup cap_safe_primes \cup cap_lms

\* They are all but the ones that make an entry first.
LEMMA CheckingKinds == \A c \in Ciphers : c \notin EntryFirst => c \in Checking
BY DEF Ciphers, EntryFirst, Checking, cap_pubkey, cap_kdf, cap_rsa_sig

\* Rows that are tame, or take nothing, are meek.
LEMMA MildMeek ==
  ASSUME NEW R, NEW A, NEW B, Tames(R, A, B) \/ Mild(R, A, B), NEW r \in R
  PROVE  Meek(r)
BY DEF Tames, Mild, Tame, Idle, Bare, Meek

\* A cipher that checks first has meek rows.
LEMMA MeekRows ==
  ASSUME NEW c \in Checking, NEW r \in Rows(c)
  PROVE  Meek(r)
<1>1. CASE r \in acvp_cap_set_prereq(c)
  BY <1>1, PrereqTable DEF PrereqRow, Meek
<1>2. CASE r \in Setters(c)
  <2>1. CASE c \in cap_sym
    BY <1>2, <2>1, SymTame DEF SymRow, Tame, Bare, Meek
  <2>2. CASE c \in cap_hash \cup cap_hmac \cup cap_cmac \cup cap_kmac
    BY <1>2, <2>2, MildMeek, HashTame, HmacTame, CmacTame, KmacTame
  <2>3. CASE c \in cap_rsa_prim \cup cap_ecdsa \cup cap_eddsa
    BY <1>2, <2>3, MildMeek, RsaPrimTame, EcdsaTame, EddsaTame
  <2>4. CASE c \in {"KDF135_SNMP", "KDF135_SSH", "KDF135_SRTP", "KDF135_IKEV2", "KDF135_IKEV1"}
    BY <1>2, <2>4, MildMeek, SnmpTame, SshTame, SrtpTame, Ikev2Tame, Ikev1Tame
  <2>5. CASE c \in {"KDF135_X942", "KDF135_X963", "PBKDF", "KDF_TLS12", "KDF_TLS13"}
    BY <1>2, <2>5, MildMeek, X942Tame, X963Tame, PbkdfTame, Tls12Tame, Tls13Tame
  <2>6. CASE c \in {"KAS_IFC_SSC", "KTS_IFC"} \cup cap_safe_primes \cup cap_lms
    BY <1>2, <2>6, MildMeek, KasIfcMild, KtsTame, SafePrimesTame, LmsMild
  <2>. QED BY <2>1, <2>2, <2>3, <2>4, <2>5, <2>6 DEF Checking
<1>. QED BY <1>1, <1>2 DEF Rows

\* The same but for the list of prerequisites.
Alike(a, b) == a \subseteq b /\ \A s \in b : s \in a \/ s = HasPrereq

\* What a refused call of a meek row leaves.
LEMMA RefusedAlike ==
  ASSUME NEW r, Meek(r), NEW cap, NEW at, NEW v, ~Accepted(r, cap, at, v)
  PROVE  Alike(cap, After(r, cap, at, v))
<1>1. Displaced(r, cap, at) = {} /\ Created(r, at) = {} /\ r.loses = {}
  BY DEF Meek, Displaced, Created
<1>2. After(r, cap, at, v) \in {cap, cap \cup r.leaves}
  BY <1>1 DEF After, Accepted
<1>. QED BY <1>2 DEF Alike, Meek

\* What is the same of capabilities that are alike.
LEMMA AlikeFacts ==
  ASSUME NEW a, NEW b, Alike(a, b)
  PROVE  /\ \A F : "has_prereq" \notin F => Fields(a, F) = Fields(b, F)
         /\ \A f : f # "has_prereq" => /\ Values(a, f) = Values(b, f) /\ (Has(a, f) <=> Has(b, f))
                                       /\ \A v : Is(a, f, v) <=> Is(b, f, v)
         /\ \A d : Entries(a, d) = Entries(b, d)
         /\ \A at : Entry(at) \in a <=> Entry(at) \in b
         /\ \A s : s.field # "has_prereq" => (s \in a <=> s \in b)
<1>1. HasPrereq.field = "has_prereq"
  BY DEF HasPrereq, Setting
<1>2. \A s : s.field # "has_prereq" => (s \in a <=> s \in b)
  BY <1>1 DEF Alike
<1>3. \A F : "has_prereq" \notin F => Fields(a, F) = Fields(b, F)
  BY <1>2 DEF Fields
<1>4. \A f : f # "has_prereq" => Values(a, f) = Values(b, f)
  <2>1. SUFFICES ASSUME NEW f, f # "has_prereq" PROVE Values(a, f) = Values(b, f)
    OBVIOUS
  <2>2. \A s : s.field = f => (s \in a <=> s \in b)
    BY <1>2, <2>1
  <2>. QED BY <2>2, ValuesSame
<1>5. \A d : Entries(a, d) = Entries(b, d)
  <2>1. \A s : s.field = "entry" => (s \in a <=> s \in b)
    BY <1>2
  <2>. QED BY <2>1, EntriesSame
<1>6. \A at : Entry(at) \in a <=> Entry(at) \in b
  <2>1. \A at : Entry(at).field = "entry"
    BY DEF Entry, Setting
  <2>. QED BY <1>2, <2>1
<1>. QED BY <1>2, <1>3, <1>4, <1>5, <1>6 DEF Has, Is

\* What a builder sends, and whether it succeeds, is the same.
Builds(c, a, b) == Builder(c, a) = Builder(c, b) /\ (Complete(c, a) <=> Complete(c, b))

\* The list of prerequisites makes no difference to the builders of ciphers and MACs.
LEMMA CipherBuilds ==
  ASSUME NEW a, NEW b, Alike(a, b), NEW c, c \in cap_sym \cup cap_hash \cup cap_hmac \cup cap_cmac \cup cap_kmac
  PROVE  Builds(c, a, b)
<1>1. CASE c \in cap_sym
  <2>1. /\ \A f \in {"keying_option", "ivgen_source", "ivlen", "ptlen", "dulen_matches_paylen", "aadlen", "direction", "keylen",
                     "ivgen_mode", "payload_len", "conformance"} :
             Values(a, f) = Values(b, f) /\ (Has(a, f) <=> Has(b, f))
    BY AlikeFacts
  <2>2. SymComplete(c, a) <=> SymComplete(c, b)
    BY <2>1 DEF SymComplete, NeedsIvGen
  <2>3. \A F : "has_prereq" \notin F => Fields(a, F) = Fields(b, F)
    BY AlikeFacts
  <2>4. acvp_build_sym_cipher_register_cap(c, a) = acvp_build_sym_cipher_register_cap(c, b)
    BY <2>1, <2>3 DEF acvp_build_sym_cipher_register_cap
  <2>. QED BY <1>1, <2>2, <2>4, SymKind DEF Builds
<1>2. CASE c \in cap_hash
  <2>1. acvp_build_hash_register_cap(c, a) = acvp_build_hash_register_cap(c, b)
    BY AlikeFacts DEF acvp_build_hash_register_cap
  <2>. QED BY <1>2, <2>1, HashKind DEF Builds
<1>3. CASE c \in cap_hmac
  <2>1. acvp_build_hmac_register_cap(c, a) = acvp_build_hmac_register_cap(c, b)
    BY AlikeFacts DEF acvp_build_hmac_register_cap, Spanned
  <2>. QED BY <1>3, <2>1, HmacKind DEF Builds
<1>4. CASE c \in cap_cmac
  <2>1. acvp_build_cmac_register_cap(c, a) = acvp_build_cmac_register_cap(c, b)
    BY AlikeFacts DEF acvp_build_cmac_register_cap, Spanned
  <2>2. CmacComplete(c, a) <=> CmacComplete(c, b)
    BY AlikeFacts DEF CmacComplete
  <2>. QED BY <1>4, <2>1, <2>2, CmacKind DEF Builds
<1>5. CASE c \in cap_kmac
  <2>1. acvp_build_kmac_register_cap(c, a) = acvp_build_kmac_register_cap(c, b)
    BY AlikeFacts DEF acvp_build_kmac_register_cap
  <2>. QED BY <1>5, <2>1, KmacKind DEF Builds
<1>. QED BY <1>1, <1>2, <1>3, <1>4, <1>5

\* Nor to those of signatures.
LEMMA SignatureBuilds ==
  ASSUME NEW a, NEW b, Alike(a, b), NEW c, c \in cap_rsa_prim \cup cap_ecdsa \cup cap_eddsa
  PROVE  Builds(c, a, b)
<1>1. CASE c \in cap_rsa_prim
  <2>1. PubExpSent(a) = PubExpSent(b)
    BY AlikeFacts DEF PubExpSent
  <2>2. acvp_build_rsa_prim_register_cap(c, a) = acvp_build_rsa_prim_register_cap(c, b)
    BY <2>1, AlikeFacts DEF acvp_build_rsa_prim_register_cap
  <2>. QED BY <1>1, <2>2, RsaPrimKind DEF Builds
<1>2. CASE c \in cap_ecdsa
  <2>1. Entries(a, 1) = Entries(b, 1) /\ Values(a, "hash_algs") = Values(b, "hash_algs")
    BY AlikeFacts
  <2>2. Alike(EcdsaMerged(c, a), EcdsaMerged(c, b))
    BY <2>1 DEF EcdsaMerged, Alike
  <2>. DEFINE sent == {"revision", "component", "entry", "algs", "secret_gen_modes"}
              merged(x) == {s \in Fields(x, {"hash_algs"}) :
                              \A at \in Entries(x, 1) : Setting(at, "algs", s.value) \in EcdsaMerged(c, x)}
  <2>o. Overlooked(a) = Overlooked(b)
    <3>1. \A s : s.field # "has_prereq" => (s \in a <=> s \in b)
      BY AlikeFacts
    <3>2. \A s : s.field \in {"place", "again"} => (s \in a <=> s \in b)
      BY <3>1
    <3>3. \A s : s.field = "algs" => (s \in a <=> s \in b)
      BY <3>1
    <3>. QED BY <2>1, <3>2, <3>3, OverlookedSame
  <2>3. Fields(EcdsaMerged(c, a) \ Overlooked(a), sent) = Fields(EcdsaMerged(c, b) \ Overlooked(b), sent)
    <3>1. Fields(EcdsaMerged(c, a), sent) = Fields(EcdsaMerged(c, b), sent)
      BY <2>2, AlikeFacts
    <3>. HIDE DEF sent
    <3>2. ASSUME NEW x, NEW o PROVE Fields(x \ o, sent) = Fields(x, sent) \ o
      BY DEF Fields
    <3>3. /\ Fields(EcdsaMerged(c, a) \ Overlooked(a), sent) = Fields(EcdsaMerged(c, a), sent) \ Overlooked(a)
          /\ Fields(EcdsaMerged(c, b) \ Overlooked(b), sent) = Fields(EcdsaMerged(c, b), sent) \ Overlooked(b)
      BY <3>2
    <3>. QED BY <2>o, <3>1, <3>3, Zenon
  <2>4. \A at, v : Setting(at, "algs", v) \in EcdsaMerged(c, a) <=> Setting(at, "algs", v) \in EcdsaMerged(c, b)
    <3>1. \A at, v : Setting(at, "algs", v).field = "algs"
      BY DEF Setting
    <3>. QED BY <2>2, <3>1, AlikeFacts
  <2>5. Fields(a, {"hash_algs"}) = Fields(b, {"hash_algs"})
    BY AlikeFacts
  <2>6. merged(a) = merged(b)
    BY <2>1, <2>4, <2>5
  <2>7. acvp_build_ecdsa_register_cap(c, a) = acvp_build_ecdsa_register_cap(c, b)
    BY <2>3, <2>6, Zenon DEF acvp_build_ecdsa_register_cap
  <2>8. EcdsaComplete(c, a) <=> EcdsaComplete(c, b)
    BY <2>1 DEF EcdsaComplete
  <2>. QED BY <1>2, <2>7, <2>8, EcdsaKind DEF Builds
<1>3. CASE c \in cap_eddsa
  <2>1. acvp_build_eddsa_register_cap(c, a) = acvp_build_eddsa_register_cap(c, b)
    BY AlikeFacts DEF acvp_build_eddsa_register_cap
  <2>. QED BY <1>3, <2>1, EddsaKind DEF Builds
<1>. QED BY <1>1, <1>2, <1>3

\* Nor to those of key derivation functions.
LEMMA DerivationBuilds ==
  ASSUME NEW a, NEW b, Alike(a, b), NEW c,
         c \in {"KDF135_SNMP", "KDF135_SSH", "KDF135_SRTP", "KDF135_IKEV2", "KDF135_IKEV1", "KDF135_X942",
                "KDF135_X963", "PBKDF", "KDF_TLS12", "KDF_TLS13"}
  PROVE  Builds(c, a, b)
<1>1. \A F : "has_prereq" \notin F => Fields(a, F) = Fields(b, F)
  BY AlikeFacts
<1>2. /\ acvp_build_kdf135_snmp_register_cap(c, a) = acvp_build_kdf135_snmp_register_cap(c, b)
      /\ acvp_build_kdf135_ssh_register_cap(c, a) = acvp_build_kdf135_ssh_register_cap(c, b)
      /\ acvp_build_kdf135_srtp_register_cap(c, a) = acvp_build_kdf135_srtp_register_cap(c, b)
      /\ acvp_build_pbkdf_register_cap(c, a) = acvp_build_pbkdf_register_cap(c, b)
  BY <1>1 DEF acvp_build_kdf135_snmp_register_cap, acvp_build_kdf135_ssh_register_cap,
              acvp_build_kdf135_srtp_register_cap, acvp_build_pbkdf_register_cap
<1>3. /\ acvp_build_kdf135_ikev2_register_cap(c, a) = acvp_build_kdf135_ikev2_register_cap(c, b)
      /\ acvp_build_kdf135_ikev1_register_cap(c, a) = acvp_build_kdf135_ikev1_register_cap(c, b)
  BY <1>1 DEF acvp_build_kdf135_ikev2_register_cap, acvp_build_kdf135_ikev1_register_cap, IkeRanges
<1>4. /\ acvp_build_kdf135_x963_register_cap(c, a) = acvp_build_kdf135_x963_register_cap(c, b)
      /\ acvp_build_kdf_tls12_register_cap(c, a) = acvp_build_kdf_tls12_register_cap(c, b)
      /\ acvp_build_kdf_tls13_register_cap(c, a) = acvp_build_kdf_tls13_register_cap(c, b)
  BY <1>1 DEF acvp_build_kdf135_x963_register_cap, acvp_build_kdf_tls12_register_cap, acvp_build_kdf_tls13_register_cap
<1>5. acvp_build_kdf135_x942_register_cap(c, a) = acvp_build_kdf135_x942_register_cap(c, b)
  <2>1. Is(a, "type", "DER") <=> Is(b, "type", "DER")
    BY AlikeFacts
  <2>. QED BY <1>1, <2>1 DEF acvp_build_kdf135_x942_register_cap
<1>. QED BY <1>2, <1>3, <1>4, <1>5, SnmpKind, SshKind, SrtpKind, Ikev2Kind, Ikev1Kind, X942Kind, X963Kind, PbkdfKind,
            Tls12Kind, Tls13Kind DEF Builds

\* Nor to those of key agreement, safe primes and LMS.
LEMMA AgreementBuilds ==
  ASSUME NEW a, NEW b, Alike(a, b), NEW c, c \in {"KAS_IFC_SSC", "KTS_IFC"} \cup cap_safe_primes \cup cap_lms
  PROVE  Builds(c, a, b)
<1>1. CASE c = "KAS_IFC_SSC"
  <2>1. acvp_build_kas_ifc_register_cap(c, a) = acvp_build_kas_ifc_register_cap(c, b)
    BY AlikeFacts DEF acvp_build_kas_ifc_register_cap
  <2>2. KasIfcComplete(a) <=> KasIfcComplete(b)
    BY AlikeFacts DEF KasIfcComplete
  <2>. QED BY <1>1, <2>1, <2>2, KasIfcKind DEF Builds
<1>2. CASE c = "KTS_IFC"
  <2>1. acvp_build_kts_ifc_register_cap(c, a) = acvp_build_kts_ifc_register_cap(c, b)
    <3>1. Entry(<<"second">>) \in a <=> Entry(<<"second">>) \in b
      BY AlikeFacts
    <3>2. \A s : s.field # "has_prereq" => (s \in a <=> s \in b)
      BY AlikeFacts
    <3>. DEFINE X(x, last) == {s \in x : s.field \notin {"prereq", "has_prereq", "scheme", "entry"} /\ s.at \in {<<>>, last}}
    <3>3. \A last : X(a, last) = X(b, last)
      BY <3>2
    <3>4. \A x : acvp_build_kts_ifc_register_cap(c, x) = X(x, IF Entry(<<"second">>) \in x THEN <<"second">> ELSE <<"first">>)
      BY Zenon DEF acvp_build_kts_ifc_register_cap
    <3>. HIDE DEF X
    <3>. QED BY <3>1, <3>3, <3>4
  <2>2. KtsComplete(a) <=> KtsComplete(b)
    BY AlikeFacts DEF KtsComplete
  <2>. QED BY <1>2, <2>1, <2>2, KtsKind DEF Builds
<1>3. CASE c \in cap_safe_primes
  <2>1. acvp_build_safe_primes_register_cap(c, a) = acvp_build_safe_primes_register_cap(c, b)
    BY AlikeFacts DEF acvp_build_safe_primes_register_cap
  <2>2. SafePrimesComplete(a) <=> SafePrimesComplete(b)
    BY AlikeFacts DEF SafePrimesComplete
  <2>. QED BY <1>3, <2>1, <2>2, SafePrimesKind DEF Builds
<1>4. CASE c \in cap_lms
  <2>1. acvp_build_lms_register_cap(c, a) = acvp_build_lms_register_cap(c, b)
    BY AlikeFacts DEF acvp_build_lms_register_cap
  <2>. QED BY <1>4, <2>1, LmsKind DEF Builds
<1>. QED BY <1>1, <1>2, <1>3, <1>4

\* The prerequisites that are sent are the same but for their list.
LEMMA PrereqsAlike ==
  ASSUME NEW a, NEW b, Alike(a, b), NEW c, c # "KDA_TWOSTEP"
  PROVE  /\ acvp_lookup_prereqVals(c, a) \subseteq acvp_lookup_prereqVals(c, b)
         /\ acvp_lookup_prereqVals(c, b) \ acvp_lookup_prereqVals(c, a) \subseteq {HasPrereq}
<1>1. Fields(a, {"prereq"}) = Fields(b, {"prereq"}) /\ (Has(a, "prereq") <=> Has(b, "prereq"))
  BY AlikeFacts
<1>2. Has(a, "has_prereq") => Has(b, "has_prereq")
  BY DEF Has, Values, Alike
<1>. QED BY <1>1, <1>2 DEF acvp_lookup_prereqVals, HasPrereq

\* Turned capabilities are alike.
LEMMA TurnedAlike ==
  ASSUME NEW a, NEW b, Alike(a, b), NEW c, NEW half
  PROVE  Alike(Turned(c, a, half), Turned(c, b, half)) /\ (Both(c, a) <=> Both(c, b))
<1>1. Both(c, a) <=> Both(c, b)
  BY AlikeFacts DEF Both
<1>2. \A f, x : f # "has_prereq" => Alike((a \ Fields(a, {f})) \cup {x}, (b \ Fields(b, {f})) \cup {x})
  BY DEF Alike, Fields
<1>3. PICK x : \A y : Turned(c, y, half) = (y \ Fields(y, {TurnedField(c)})) \cup {x}
  BY DEF Turned, TurnedField
<1>4. TurnedField(c) # "has_prereq"
  BY DEF TurnedField
<1>5. Alike((a \ Fields(a, {TurnedField(c)})) \cup {x}, (b \ Fields(b, {TurnedField(c)})) \cup {x})
  BY <1>2, <1>4, Zenon
<1>. QED BY <1>1, <1>3, <1>5, Zenon

\* What is registered is the same but for the list of prerequisites.
LEMMA AlikeRegistered ==
  ASSUME NEW a, NEW b, Alike(a, b), NEW c \in Checking
  PROVE  /\ Registered(c, b) \ Registered(c, a) \subseteq {HasPrereq}
         /\ Registered(c, a) \subseteq Registered(c, b)
         /\ Buildable(c, b) <=> Buildable(c, a)
<1>1. c \notin {"KDF108", "KDA_TWOSTEP"}
  BY DEF Checking, cap_sym, cap_aes, cap_tdes, cap_hash, cap_sha2, cap_sha3, cap_shake, cap_hmac, cap_cmac, cap_kmac,
         cap_rsa_prim, cap_ecdsa, cap_ecdsa_sig, cap_eddsa, cap_safe_primes, cap_lms
<1>2. ASSUME NEW x, NEW y, Alike(x, y)
      PROVE  /\ Object(c, y) \ Object(c, x) \subseteq {HasPrereq} /\ Object(c, x) \subseteq Object(c, y)
             /\ Complete(c, y) <=> Complete(c, x)
  <2>1. Builds(c, x, y)
    BY <1>2, CipherBuilds, SignatureBuilds, DerivationBuilds, AgreementBuilds DEF Checking
  <2>. QED BY <1>1, <1>2, <2>1, PrereqsAlike DEF Object, Builds
<1>3. \A h : Alike(Turned(c, a, h), Turned(c, b, h))
  BY TurnedAlike
<1>4. Both(c, a) <=> Both(c, b)
  BY TurnedAlike
<1>5. CASE Both(c, a)
  <2>1. \A h : /\ Object(c, Turned(c, b, h)) \ Object(c, Turned(c, a, h)) \subseteq {HasPrereq}
               /\ Object(c, Turned(c, a, h)) \subseteq Object(c, Turned(c, b, h))
               /\ Complete(c, Turned(c, b, h)) <=> Complete(c, Turned(c, a, h))
    BY <1>2, <1>3
  <2>2. /\ Registered(c, a) = Object(c, Turned(c, a, "first")) \cup Object(c, Turned(c, a, "second"))
        /\ Registered(c, b) = Object(c, Turned(c, b, "first")) \cup Object(c, Turned(c, b, "second"))
    BY <1>4, <1>5 DEF Registered
  <2>. QED BY <1>4, <1>5, <2>1, <2>2 DEF Buildable
<1>6. CASE ~Both(c, a)
  BY <1>1, <1>2, <1>4, <1>6 DEF Registered, Buildable
<1>. QED BY <1>5, <1>6

\* The ciphers of caps_list are known, and each is there once.
CipherInv ==
  \A i \in 1..Len(caps_list) :
    /\ caps_list[i].cipher \in Ciphers
    /\ \A j \in 1..Len(caps_list) : caps_list[i].cipher = caps_list[j].cipher => i = j

\* What a step does to caps_list.
LEMMA ListChanges ==
  ASSUME ListInv, [Next]_vars
  PROVE  \/ caps_list' = caps_list
         \/ \E c \in Enabled : /\ Locate(caps_list, c) = {}
                               /\ caps_list' = Append(caps_list, [cipher |-> c, cap |-> Defaults(c)])
         \/ \E i \in 1..Len(caps_list) : \E cap : caps_list' = Put(caps_list, i, cap)
<1>1. CASE \E c \in Enabled : acvp_cap_list_append(c)
  BY <1>1 DEF acvp_cap_list_append
<1>2. CASE \E i \in 1..Len(caps_list) : \E row \in Rows(caps_list[i].cipher) :
             /\ Applies(row, caps_list[i].cap)
             /\ \E at \in row.at, v \in Tries(row) : SetParameter(i, row, at, v)
  BY <1>2 DEF SetParameter, Put
<1>3. CASE BuildOnly \/ BuildFirst \/ BuildSecond
  <2>1. \E cap : caps_list' = Put(caps_list, idx, cap)
    BY <1>3, BuildEffect DEF Stores, Put
  <2>2. idx \in 1..Len(caps_list)
    BY <1>3, BuildEffect
  <2>. QED BY <2>1, <2>2
<1>4. CASE (\E c \in Enabled : SetWithout(c)) \/ acvp_build_registration_json \/ BuildKmac \/ BuildModes \/ UNCHANGED vars
  BY <1>4 DEF SetWithout, acvp_build_registration_json, BuildKmac, BuildModes, vars
<1>. QED BY <1>1, <1>2, <1>3, <1>4, RegisterSteps DEF Calls

\* A cipher that is enabled is known, and not yet there.
LEMMA CipherStep ==
  ASSUME ListInv, CipherInv, [Next]_vars
  PROVE  CipherInv'
<1>0. Len(caps_list) \in Nat /\ IsList(caps_list)
  BY ListFacts DEF ListInv
<1>1. CASE \E c \in Enabled : /\ Locate(caps_list, c) = {}
                              /\ caps_list' = Append(caps_list, [cipher |-> c, cap |-> Defaults(c)])
  <2>1. PICK c \in Enabled : /\ Locate(caps_list, c) = {}
                             /\ caps_list' = Append(caps_list, [cipher |-> c, cap |-> Defaults(c)])
    BY <1>1
  <2>. DEFINE new == [cipher |-> c, cap |-> Defaults(c)]
  <2>2. c \in Ciphers /\ new.cipher = c
    BY EnabledAssumption
  <2>3. \A i \in 1..Len(caps_list) : caps_list[i].cipher # c
    BY <2>1 DEF Locate
  <2>. HIDE DEF new
  <2>4. /\ Len(caps_list') = Len(caps_list) + 1
        /\ \A j \in 1..Len(caps_list) : caps_list'[j] = caps_list[j]
        /\ caps_list'[Len(caps_list) + 1] = new
    BY <1>0, <2>1, AppendList DEF new
  <2>5. \A j \in 1..(Len(caps_list) + 1) : j \in 1..Len(caps_list) \/ j = Len(caps_list) + 1
    BY <1>0
  <2>. QED BY <2>2, <2>3, <2>4, <2>5 DEF CipherInv
<1>2. CASE \E i \in 1..Len(caps_list) : \E cap : caps_list' = Put(caps_list, i, cap)
  <2>0. PICK i \in 1..Len(caps_list) : \E cap : caps_list' = Put(caps_list, i, cap)
    BY <1>2
  <2>1. PICK cap : caps_list' = Put(caps_list, i, cap)
    BY <2>0
  <2>2. /\ Len(caps_list') = Len(caps_list)
        /\ \A j \in 1..Len(caps_list) : caps_list'[j].cipher = caps_list[j].cipher
    BY <2>1, Stored DEF ListInv
  <2>. QED BY <2>2 DEF CipherInv
<1>3. CASE caps_list' = caps_list
  BY <1>3 DEF CipherInv
<1>. QED BY <1>1, <1>2, <1>3, ListChanges

\* acvp_cap_list_append never adds a cipher twice, nor one the library does not know:
\* acvp_locate_cap_entry finds the one entry there is.
THEOREM RegisterCiphers == Spec => []CipherInv
<1>1. Init => CipherInv
  BY ContextsAssumption DEF Init, CipherInv
<1>2. ListInv /\ CipherInv /\ [Next]_vars => CipherInv'
  BY CipherStep
<1>. QED BY <1>1, <1>2, RegisterLists, PTL DEF Spec

\* A refused call: a setter whose parameter is not accepted.
LEMMA RefusedStep ==
  ASSUME ListInv, CipherInv, [Next]_vars, ~UNCHANGED vars, pc = "idle", pc' = "idle", rv' = "INVALID_ARG"
  PROVE  \E i \in 1..Len(caps_list) : \E row \in Rows(caps_list[i].cipher) : \E at \in row.at, v \in Tries(row) :
           /\ SetParameter(i, row, at, v) /\ ~Accepted(row, caps_list[i].cap, at, v)
<1>1. Calls \/ acvp_build_registration_json
  BY RegisterSteps DEF BuildOnly, BuildFirst, BuildSecond, BuildKmac, BuildModes
<1>2. ~acvp_build_registration_json
  BY DEF acvp_build_registration_json
<1>3. ~\E c \in Enabled : acvp_cap_list_append(c) \/ SetWithout(c)
  BY DEF acvp_cap_list_append, SetWithout, Return
<1>4. PICK i \in 1..Len(caps_list) : \E row \in Rows(caps_list[i].cipher) :
        \E at \in row.at, v \in Tries(row) : SetParameter(i, row, at, v)
  BY <1>1, <1>2, <1>3 DEF Calls
<1>5. PICK row \in Rows(caps_list[i].cipher) : \E at \in row.at, v \in Tries(row) : SetParameter(i, row, at, v)
  BY <1>4
<1>6. PICK at \in row.at, v \in Tries(row) : SetParameter(i, row, at, v)
  BY <1>5
<1>7. ~Accepted(row, caps_list[i].cap, at, v)
  BY <1>6 DEF SetParameter, Return
<1>. QED BY <1>6, <1>7

\* A pair of capabilities of one cipher, before and after a step, is at one place.
LEMMA SamePlace ==
  ASSUME CipherInv, NEW list, Len(list) = Len(caps_list),
         \A j \in 1..Len(caps_list) : list[j].cipher = caps_list[j].cipher, NEW ij \in Same(caps_list, list)
  PROVE  ij[1] = ij[2] /\ ij[1] \in 1..Len(caps_list)
BY DEF Same, CipherInv

\* A call that a setter of a cipher that checks first refuses leaves what is registered,
\* and whether it can be, and vs_count; only an empty list of prerequisites may appear.
THEOREM RegisterRefusals == Spec => RefusedChangesNothing
<1>. DEFINE Act == pc = "idle" /\ pc' = "idle" /\ rv' = "INVALID_ARG" =>
       /\ vs_count' = vs_count
       /\ \A ij \in Same(caps_list, caps_list') :
            LET c   == caps_list[ij[1]].cipher
                old == caps_list[ij[1]].cap
                new == caps_list'[ij[2]].cap
            IN  c \notin EntryFirst =>
                  /\ Registered(c, new) \ Registered(c, old) \subseteq {Setting(<<>>, "has_prereq", "yes")}
                  /\ Registered(c, old) \subseteq Registered(c, new)
                  /\ Buildable(c, new) <=> Buildable(c, old)
<1>1. ASSUME ListInv, CipherInv, [Next]_vars PROVE [Act]_vars
  <2>1. SUFFICES ASSUME ~UNCHANGED vars, pc = "idle", pc' = "idle", rv' = "INVALID_ARG"
                 PROVE  /\ vs_count' = vs_count
                        /\ \A ij \in Same(caps_list, caps_list') :
                             LET c   == caps_list[ij[1]].cipher
                                 old == caps_list[ij[1]].cap
                                 new == caps_list'[ij[2]].cap
                             IN  c \notin EntryFirst =>
                                   /\ Registered(c, new) \ Registered(c, old) \subseteq {Setting(<<>>, "has_prereq", "yes")}
                                   /\ Registered(c, old) \subseteq Registered(c, new)
                                   /\ Buildable(c, new) <=> Buildable(c, old)
    OBVIOUS
  <2>2. PICK i \in 1..Len(caps_list) : \E row \in Rows(caps_list[i].cipher) : \E at \in row.at, v \in Tries(row) :
           /\ SetParameter(i, row, at, v) /\ ~Accepted(row, caps_list[i].cap, at, v)
    BY <1>1, <2>1, RefusedStep
  <2>3. PICK row \in Rows(caps_list[i].cipher) : \E at \in row.at, v \in Tries(row) :
           /\ SetParameter(i, row, at, v) /\ ~Accepted(row, caps_list[i].cap, at, v)
    BY <2>2
  <2>4. PICK at \in row.at, v \in Tries(row) :
           /\ SetParameter(i, row, at, v) /\ ~Accepted(row, caps_list[i].cap, at, v)
    BY <2>3
  <2>. DEFINE cap == caps_list[i].cap
              after == After(row, cap, at, v)
  <2>5. vs_count' = vs_count /\ caps_list' = Put(caps_list, i, after)
    BY <2>4 DEF SetParameter, Put
  <2>6. /\ Len(caps_list') = Len(caps_list)
        /\ \A j \in 1..Len(caps_list) : j # i => caps_list'[j] = caps_list[j]
        /\ caps_list'[i] = [cipher |-> caps_list[i].cipher, cap |-> after]
    BY <1>1, <2>5, PutKeeps
  <2>7. \A j \in 1..Len(caps_list) : caps_list'[j].cipher = caps_list[j].cipher
    BY <2>6
  <2>8. caps_list[i].cipher \notin EntryFirst => Alike(cap, after)
    <3>1. ASSUME caps_list[i].cipher \notin EntryFirst PROVE Meek(row)
      BY <1>1, <3>1, CheckingKinds, MeekRows DEF CipherInv
    <3>. QED BY <2>4, <3>1, RefusedAlike
  <2>. HIDE DEF cap, after
  <2>9. SUFFICES ASSUME NEW ij \in Same(caps_list, caps_list'), caps_list[ij[1]].cipher \notin EntryFirst
                 PROVE  LET c   == caps_list[ij[1]].cipher
                            old == caps_list[ij[1]].cap
                            new == caps_list'[ij[2]].cap
                        IN  /\ Registered(c, new) \ Registered(c, old) \subseteq {Setting(<<>>, "has_prereq", "yes")}
                            /\ Registered(c, old) \subseteq Registered(c, new)
                            /\ Buildable(c, new) <=> Buildable(c, old)
    BY <2>5
  <2>10. PICK j \in 1..Len(caps_list) : ij[1] = j /\ ij[2] = j
    BY <1>1, <2>6, <2>7, SamePlace
  <2>11. caps_list[j].cipher \in Checking
    BY <1>1, <2>9, <2>10, CheckingKinds DEF CipherInv
  <2>12. Alike(caps_list[j].cap, caps_list'[j].cap)
    <3>1. CASE j = i
      BY <2>6, <2>8, <2>9, <2>10, <3>1 DEF cap
    <3>2. CASE j # i
      BY <2>6, <3>2 DEF Alike
    <3>. QED BY <3>1, <3>2
  <2>. QED BY <2>10, <2>11, <2>12, AlikeRegistered DEF HasPrereq
<1>2. ListInv /\ CipherInv /\ [Next]_vars => [Act]_vars
  BY <1>1
<1>3. RefusedChangesNothing <=> [][Act]_vars
  BY DEF RefusedChangesNothing
<1>. HIDE DEF Act
<1>. QED BY <1>2, <1>3, RegisterLists, RegisterCiphers, PTL DEF Spec

----------------------------------------------------------------------------
(* Every cipher is orderly.                                                *)

Propers(R, A, B) == \A r \in R : Proper(r, A, B)
Sanes(R, A, B)   == \A r \in R : Sane(r, A, B)

\* Tame rows are gentle, and all of these are proper.
LEMMA ProperRows ==
  ASSUME NEW A, NEW B, NEW R
  PROVE  /\ Tames(R, A, B) => Gentles(R, A, B) /\ Propers(R, A, B)
         /\ Gentles(R, A, B) => Propers(R, A, B) /\ Sanes(R, A, B)
         /\ Mild(R, A, B) => Propers(R, A, B)
<1>1. \A r \in R : Tame(r, A, B) => Gentle(r, A, B)
  BY DEF Tame, Bare, Gentle
<1>2. \A r \in R : Idle(r, B) => Inert(r, B)
  BY DEF Idle, Bare, Inert
<1>. QED BY <1>1, <1>2 DEF Tames, Gentles, Mild, Propers, Proper, Sanes, Sane

\* With more collected fields they still are.
LEMMA MoreProper ==
  ASSUME NEW A, NEW B, NEW C, B \subseteq C, NEW r
  PROVE  /\ Tame(r, A, B) => Proper(r, A, C)
         /\ Idle(r, B) => Proper(r, A, C)
<1>1. Tame(r, A, B) => Gentle(r, A, C)
  BY DEF Tame, Bare, Gentle, Sorted
<1>2. Idle(r, B) => Inert(r, C)
  BY DEF Idle, Bare, Inert
<1>. QED BY <1>1, <1>2 DEF Proper

\* Gentle rows with other values, places or conditions.
LEMMA GentleExcept ==
  ASSUME NEW A, NEW B, NEW q, Gentle(q, A, B), NEW x, NEW y
  PROVE  /\ Gentle([q EXCEPT !.takes = x], A, B) /\ Gentle([q EXCEPT !.tries = x], A, B)
         /\ Gentle([q EXCEPT !.at = x], A, B) /\ Gentle([q EXCEPT !.at = x, !.under = "yes"], A, B)
         /\ Gentle([q EXCEPT !.at = x, !.early = y], A, B)
         /\ Gentle([q EXCEPT !.wide = "yes"], A, B) /\ Gentle([q EXCEPT !.under = "yes"], A, B)
         /\ Gentle([q EXCEPT !.unless = x], A, B) /\ Gentle([q EXCEPT !.needs = x, !.tries = {}], A, B)
<1>1. Gentle([q EXCEPT !.takes = x], A, B) /\ Gentle([q EXCEPT !.tries = x], A, B)
  BY DEF Gentle, RowFields, Sorted
<1>2. Gentle([q EXCEPT !.at = x], A, B) /\ Gentle([q EXCEPT !.at = x, !.under = "yes"], A, B)
  BY DEF Gentle, RowFields, Sorted
<1>3. Gentle([q EXCEPT !.at = x, !.early = y], A, B)
  BY DEF Gentle, RowFields, Sorted
<1>4. Gentle([q EXCEPT !.wide = "yes"], A, B) /\ Gentle([q EXCEPT !.under = "yes"], A, B)
  BY DEF Gentle, RowFields, Sorted
<1>5. Gentle([q EXCEPT !.unless = x], A, B) /\ Gentle([q EXCEPT !.needs = x, !.tries = {}], A, B)
  BY DEF Gentle, RowFields, Sorted
<1>. QED BY <1>1, <1>2, <1>3, <1>4, <1>5

\* The variants of gentle rows are gentle.
LEMMA GentleVariants ==
  ASSUME NEW A, NEW B, NEW R, Gentles(R, A, B), NEW x, NEW y
  PROVE  /\ Gentles(Taking(R, x), A, B) /\ Gentles(AlsoTaking(R, x), A, B) /\ Gentles(Trying(R, x), A, B)
         /\ Gentles(In(x, R), A, B) /\ Gentles(Under(x, R), A, B) /\ Gentles(Early(y, x, R), A, B)
         /\ Gentles({[q EXCEPT !.wide = "yes"] : q \in R}, A, B)
         /\ Gentles({[q EXCEPT !.under = "yes"] : q \in R}, A, B)
         /\ Gentles({[q EXCEPT !.unless = x] : q \in R}, A, B)
         /\ Gentles({[q EXCEPT !.needs = x, !.tries = {}] : q \in R}, A, B)
<1>. USE DEF Gentles
<1>1. ASSUME NEW q \in R, NEW z
      PROVE  /\ Gentle([q EXCEPT !.takes = z], A, B) /\ Gentle([q EXCEPT !.tries = z], A, B)
             /\ Gentle([q EXCEPT !.at = x], A, B) /\ Gentle([q EXCEPT !.at = x, !.under = "yes"], A, B)
             /\ Gentle([q EXCEPT !.at = x, !.early = y], A, B)
             /\ Gentle([q EXCEPT !.wide = "yes"], A, B) /\ Gentle([q EXCEPT !.under = "yes"], A, B)
             /\ Gentle([q EXCEPT !.unless = x], A, B) /\ Gentle([q EXCEPT !.needs = x, !.tries = {}], A, B)
  BY GentleExcept
<1>2. Gentles(Taking(R, x), A, B) /\ Gentles(Trying(R, x), A, B)
  <2>1. \A q \in R : Gentle([q EXCEPT !.takes = x], A, B) /\ Gentle([q EXCEPT !.tries = x], A, B)
    BY <1>1
  <2>2. Gentles(Taking(R, x), A, B)
    BY <2>1, Zenon DEF Taking
  <2>3. Gentles(Trying(R, x), A, B)
    BY <2>1, Zenon DEF Trying
  <2>. QED BY <2>2, <2>3
<1>3. Gentles(AlsoTaking(R, x), A, B)
  <2>1. \A q \in R : [q EXCEPT !.takes = @ \cup x] = [q EXCEPT !.takes = q.takes \cup x]
    OBVIOUS
  <2>. QED BY <1>1, <2>1, Zenon DEF AlsoTaking
<1>4. Gentles(In(x, R), A, B) /\ Gentles(Under(x, R), A, B) /\ Gentles(Early(y, x, R), A, B)
  BY <1>1, Zenon DEF In, Under, Early
<1>5. Gentles({[q EXCEPT !.wide = "yes"] : q \in R}, A, B) /\ Gentles({[q EXCEPT !.under = "yes"] : q \in R}, A, B)
  BY <1>1, Zenon
<1>6. Gentles({[q EXCEPT !.unless = x] : q \in R}, A, B) /\ Gentles({[q EXCEPT !.needs = x, !.tries = {}] : q \in R}, A, B)
  BY <1>1, Zenon
<1>. QED BY <1>2, <1>3, <1>4, <1>5, <1>6

\* The rows of the tables are gentle.
LEMMA GentleTables ==
  ASSUME NEW A, NEW B, NEW F
  PROVE  /\ F \subseteq B => Gentles(Adds(F), A, B)
         /\ F \subseteq A => Gentles(Assigns(F), A, B) /\ Gentles(Flags(F), A, B) /\ Gentles(Ranges(F), A, B)
         /\ "entry" \in B => Gentles(Makes(F), A, B) /\ Gentles(Refuse(F), A, B)
BY TableRows, ProperRows

\* Rows that take nothing, whatever their field.
LEMMA InertRows ==
  ASSUME NEW A, NEW B, NEW C, NEW R, Gentles(R, A, B), NEW x, NEW y, NEW z
  PROVE  /\ Propers(Early(y, x, Trying(Taking(R, {}), z)), C, B)
         /\ \A r \in Early(y, x, Trying(Taking(R, {}), z)) : Inert(r, B)
<1>. DEFINE Vain(r) == Gentle(r, A, B) /\ r.takes = {}
<1>1. \A r \in Taking(R, {}) : Vain(r)
  <2>1. \A q \in R : Vain([q EXCEPT !.takes = {}])
    BY DEF Gentles, Gentle, RowFields, Sorted
  <2>. HIDE DEF Vain
  <2>. QED BY <2>1, Zenon DEF Taking
<1>2. \A r \in Trying(Taking(R, {}), z) : Vain(r)
  <2>1. \A q : Vain(q) => Vain([q EXCEPT !.tries = z])
    BY DEF Gentle, RowFields, Sorted
  <2>. HIDE DEF Vain
  <2>. QED BY <1>1, <2>1, Zenon DEF Trying
<1>3. \A r \in Early(y, x, Trying(Taking(R, {}), z)) : Vain(r)
  <2>1. \A q : Vain(q) => Vain([q EXCEPT !.at = x, !.early = y])
    BY DEF Gentle, RowFields, Sorted
  <2>. HIDE DEF Vain
  <2>. QED BY <1>2, <2>1, Zenon DEF Early
<1>4. \A r : Vain(r) => Inert(r, B)
  BY DEF Gentle, Inert
<1>. HIDE DEF Vain
<1>. QED BY <1>3, <1>4 DEF Propers, Proper

\* The rows of prerequisites are gentle.
LEMMA PrereqGentle ==
  ASSUME NEW c, NEW A, NEW B, {"prereq", "has_prereq"} \subseteq B
  PROVE  \A r \in acvp_cap_set_prereq(c) : Gentle(r, A, B)
<1>1. HasPrereq.field = "has_prereq"
  BY DEF HasPrereq, Setting
<1>2. \A r \in acvp_cap_set_prereq(c) : PrereqRow(r, c)
  BY PrereqTable
<1>. QED BY <1>1, <1>2 DEF PrereqRow, Gentle, Sorted

\* A cipher with proper rows is orderly: prerequisites are collected.
LEMMA OrderlyRows ==
  ASSUME NEW c, NEW A, NEW B, Propers(Setters(c), A, B), {"entry", "prereq", "has_prereq"} \subseteq B, A \cap B = {}
  PROVE  Orderly(c, A, B)
<1>1. \A r \in acvp_cap_set_prereq(c) : Gentle(r, A, B)
  BY PrereqGentle
<1>. QED BY <1>1 DEF Orderly, Rows, Propers, Proper, Sane

\* So is one of KAS whose rows may replace entries.
LEMMA OrderlySchemes ==
  ASSUME NEW c \in cap_kas_ecc \cup cap_kas_ffc, NEW A, NEW B, Sanes(Setters(c), A, B),
         {"entry", "prereq", "has_prereq"} \subseteq B, A \cap B = {}
  PROVE  Orderly(c, A, B)
<1>1. \A r \in acvp_cap_set_prereq(c) : Gentle(r, A, B)
  BY PrereqGentle
<1>. QED BY <1>1 DEF Orderly, Rows, Sanes, Sane, Proper

\* One with tame rows, too.
LEMMA OrderlyTame ==
  ASSUME NEW c, NEW A, NEW B, Tames(Setters(c), A, B) \/ Mild(Setters(c), A, B),
         A \cap (B \cup {"entry", "prereq", "has_prereq"}) = {}
  PROVE  Orderly(c, A, B \cup {"entry", "prereq", "has_prereq"})
<1>. DEFINE C == B \cup {"entry", "prereq", "has_prereq"}
<1>1. \A r \in Setters(c) : Tame(r, A, B) \/ Idle(r, B)
  BY DEF Tames, Mild
<1>2. Propers(Setters(c), A, C)
  BY <1>1, MoreProper DEF Propers
<1>. QED BY <1>2, OrderlyRows

Ordered(c) == \E A, B : Orderly(c, A, B)

\* The ciphers that check first are orderly.
LEMMA CheckingOrdered ==
  ASSUME NEW c \in Checking
  PROVE  Ordered(c)
<1>0. ASSUME NEW A, NEW B, Tames(Setters(c), A, B) \/ Mild(Setters(c), A, B),
             A \cap (B \cup {"entry", "prereq", "has_prereq"}) = {}
      PROVE  Ordered(c)
  BY <1>0, OrderlyTame DEF Ordered
<1>1. CASE c \in cap_sym
  <2>1. Tames(Setters(c), SymAssigned, SymCollected)
    BY <1>1, SymTame DEF SymRow, Tames
  <2>2. SymAssigned \cap (SymCollected \cup {"entry", "prereq", "has_prereq"}) = {}
    BY DEF SymAssigned, SymCollected
  <2>. QED BY <1>0, <2>1, <2>2
<1>2. CASE c \in cap_hash
  <2>. DEFINE A == (IF c \in cap_sha3 \cup cap_shake THEN {"in_bit", "in_empty"} ELSE {}) \cup (IF c \in cap_shake THEN {"out_bit", "out_len"} ELSE {"msg_length"})
              B == IF c \in cap_shake THEN {} ELSE {"large_lens"}
  <2>1. Tames(Setters(c), A, B)
    BY <1>2, HashTame
  <2>2. A \cap (B \cup {"entry", "prereq", "has_prereq"}) = {}
    OBVIOUS
  <2>. HIDE DEF A, B
  <2>. QED BY <1>0, <2>1, <2>2
<1>3. CASE c \in cap_hmac
  <2>. DEFINE A == {"key_len", "mac_len"}
              B == {"key_len.values", "mac_len.values"}
  <2>1. Tames(Setters(c), A, B)
    BY <1>3, HmacTame
  <2>2. A \cap (B \cup {"entry", "prereq", "has_prereq"}) = {}
    OBVIOUS
  <2>. HIDE DEF A, B
  <2>. QED BY <1>0, <2>1, <2>2
<1>4. CASE c \in cap_cmac
  <2>. DEFINE A == {"msg_len", "mac_len", "direction_gen", "direction_ver"}
              B == {"msg_len.values", "mac_len.values", "key_len"} \cup (IF c = "CMAC_TDES" THEN {"keying_option"} ELSE {})
  <2>1. Tames(Setters(c), A, B)
    BY <1>4, CmacTame
  <2>2. A \cap (B \cup {"entry", "prereq", "has_prereq"}) = {}
    OBVIOUS
  <2>. HIDE DEF A, B
  <2>. QED BY <1>0, <2>1, <2>2
<1>5. CASE c \in cap_kmac
  <2>. DEFINE A == {"xof", "hex_customization", "mac_len", "msg_len", "key_len"}
              B == {}
  <2>1. Tames(Setters(c), A, B)
    BY <1>5, KmacTame
  <2>2. A \cap (B \cup {"entry", "prereq", "has_prereq"}) = {}
    OBVIOUS
  <2>. HIDE DEF A, B
  <2>. QED BY <1>0, <2>1, <2>2
<1>6. CASE c \in cap_rsa_prim
  <2>. DEFINE A == {"revision", "pub_exp_mode", "fixed_pub_exp"}
              B == {"key_formats", "modulo"}
  <2>1. Tames(Setters(c), A, B)
    BY <1>6, RsaPrimTame
  <2>2. A \cap (B \cup {"entry", "prereq", "has_prereq"}) = {}
    OBVIOUS
  <2>. HIDE DEF A, B
  <2>. QED BY <1>0, <2>1, <2>2
<1>7. CASE c \in cap_ecdsa
  <2>. DEFINE A == {"revision", "component"}
              B == {"entry", "secret_gen_modes"} \cup (IF c \in cap_ecdsa_sig THEN {"hash_algs", "algs", "place", "again"} ELSE {})
  <2>1. Tames(Setters(c), A, B)
    BY <1>7, EcdsaTame
  <2>2. A \cap (B \cup {"entry", "prereq", "has_prereq"}) = {}
    OBVIOUS
  <2>. HIDE DEF A, B
  <2>. QED BY <1>0, <2>1, <2>2
<1>8. CASE c \in cap_eddsa
  <2>. DEFINE A == {"supports_pure", "supports_prehash"}
              B == {"curves"}
  <2>1. Tames(Setters(c), A, B)
    BY <1>8, EddsaTame
  <2>2. A \cap (B \cup {"entry", "prereq", "has_prereq"}) = {}
    OBVIOUS
  <2>. HIDE DEF A, B
  <2>. QED BY <1>0, <2>1, <2>2
<1>9. CASE c = "KDF135_SNMP"
  <2>. DEFINE A == {}
              B == {"pass_lens", "eng_ids"}
  <2>1. Tames(Setters(c), A, B)
    BY <1>9, SnmpTame
  <2>2. A \cap (B \cup {"entry", "prereq", "has_prereq"}) = {}
    OBVIOUS
  <2>. HIDE DEF A, B
  <2>. QED BY <1>0, <2>1, <2>2
<1>10. CASE c = "KDF135_SSH"
  <2>. DEFINE A == {}
              B == {"entry", "sha"}
  <2>1. Tames(Setters(c), A, B)
    BY <1>10, SshTame
  <2>2. A \cap (B \cup {"entry", "prereq", "has_prereq"}) = {}
    OBVIOUS
  <2>. HIDE DEF A, B
  <2>. QED BY <1>0, <2>1, <2>2
<1>11. CASE c = "KDF135_SRTP"
  <2>. DEFINE A == {"supports_zero_kdr"}
              B == {"aes_keylens", "kdr_exp"}
  <2>1. Tames(Setters(c), A, B)
    BY <1>11, SrtpTame
  <2>2. A \cap (B \cup {"entry", "prereq", "has_prereq"}) = {}
    OBVIOUS
  <2>. HIDE DEF A, B
  <2>. QED BY <1>0, <2>1, <2>2
<1>12. CASE c = "KDF135_IKEV2"
  <2>. DEFINE A == {"init_nonce_len", "respond_nonce_len", "dh_secret_len", "key_material_len"}
              B == {"hash_algs", "init_nonce_len.values", "respond_nonce_len.values", "dh_secret_len.values", "key_material_len.values"}
  <2>1. Tames(Setters(c), A, B)
    BY <1>12, Ikev2Tame
  <2>2. A \cap (B \cup {"entry", "prereq", "has_prereq"}) = {}
    OBVIOUS
  <2>. HIDE DEF A, B
  <2>. QED BY <1>0, <2>1, <2>2
<1>13. CASE c = "KDF135_IKEV1"
  <2>. DEFINE A == {"init_nonce_len", "respond_nonce_len", "dh_secret_len", "psk_len", "auth_method"}
              B == {"hash_algs"}
  <2>1. Tames(Setters(c), A, B)
    BY <1>13, Ikev1Tame
  <2>2. A \cap (B \cup {"entry", "prereq", "has_prereq"}) = {}
    OBVIOUS
  <2>. HIDE DEF A, B
  <2>. QED BY <1>0, <2>1, <2>2
<1>14. CASE c = "KDF135_X942"
  <2>. DEFINE A == {"type", "key_len", "other_len", "supp_len", "zz_len"}
              B == {"hash_algs", "oids"}
  <2>1. Tames(Setters(c), A, B)
    BY <1>14, X942Tame
  <2>2. A \cap (B \cup {"entry", "prereq", "has_prereq"}) = {}
    OBVIOUS
  <2>. HIDE DEF A, B
  <2>. QED BY <1>0, <2>1, <2>2
<1>15. CASE c = "KDF135_X963"
  <2>. DEFINE A == {}
              B == {"hash_algs", "key_data_lengths", "field_sizes", "shared_info_lengths"}
  <2>1. Tames(Setters(c), A, B)
    BY <1>15, X963Tame
  <2>2. A \cap (B \cup {"entry", "prereq", "has_prereq"}) = {}
    OBVIOUS
  <2>. HIDE DEF A, B
  <2>. QED BY <1>0, <2>1, <2>2
<1>16. CASE c = "PBKDF"
  <2>. DEFINE A == {"iteration_count_domain", "key_len_domain", "password_len_domain", "salt_len_domain"}
              B == {"hmac_algs"}
  <2>1. Tames(Setters(c), A, B)
    BY <1>16, PbkdfTame
  <2>2. A \cap (B \cup {"entry", "prereq", "has_prereq"}) = {}
    OBVIOUS
  <2>. HIDE DEF A, B
  <2>. QED BY <1>0, <2>1, <2>2
<1>17. CASE c = "KDF_TLS12"
  <2>. DEFINE A == {}
              B == {"hash_algs"}
  <2>1. Tames(Setters(c), A, B)
    BY <1>17, Tls12Tame
  <2>2. A \cap (B \cup {"entry", "prereq", "has_prereq"}) = {}
    OBVIOUS
  <2>. HIDE DEF A, B
  <2>. QED BY <1>0, <2>1, <2>2
<1>18. CASE c = "KDF_TLS13"
  <2>. DEFINE A == {}
              B == {"hmac_algs", "running_mode"}
  <2>1. Tames(Setters(c), A, B)
    BY <1>18, Tls13Tame
  <2>2. A \cap (B \cup {"entry", "prereq", "has_prereq"}) = {}
    OBVIOUS
  <2>. HIDE DEF A, B
  <2>. QED BY <1>0, <2>1, <2>2
<1>19. CASE c = "KAS_IFC_SSC"
  <2>. DEFINE A == {"hash", "fixed_pub_exp"}
              B == {"kas1_roles", "kas2_roles", "keygen_method", "modulo"}
  <2>1. Mild(Setters(c), A, B)
    BY <1>19, KasIfcMild
  <2>2. A \cap (B \cup {"entry", "prereq", "has_prereq"}) = {}
    OBVIOUS
  <2>. HIDE DEF A, B
  <2>. QED BY <1>0, <2>1, <2>2
<1>20. CASE c = "KTS_IFC"
  <2>. DEFINE A == KtsAssigned
              B == KtsCollected
  <2>1. Tames(Setters(c), A, B)
    BY <1>20, KtsTame
  <2>2. A \cap (B \cup {"entry", "prereq", "has_prereq"}) = {}
    BY DEF KtsAssigned, KtsCollected
  <2>. HIDE DEF A, B
  <2>. QED BY <1>0, <2>1, <2>2
<1>21. CASE c \in cap_safe_primes
  <2>. DEFINE A == {}
              B == {"entry", "genmeth"}
  <2>1. Tames(Setters(c), A, B)
    BY <1>21, SafePrimesTame
  <2>2. A \cap (B \cup {"entry", "prereq", "has_prereq"}) = {}
    OBVIOUS
  <2>. HIDE DEF A, B
  <2>. QED BY <1>0, <2>1, <2>2
<1>22. CASE c \in cap_lms
  <2>. DEFINE A == {}
              B == {"lms_modes", "lmots_modes", "specific_list"}
  <2>1. Mild(Setters(c), A, B)
    BY <1>22, LmsMild
  <2>2. A \cap (B \cup {"entry", "prereq", "has_prereq"}) = {}
    OBVIOUS
  <2>. HIDE DEF A, B
  <2>. QED BY <1>0, <2>1, <2>2
<1>. QED BY <1>1, <1>2, <1>3, <1>4, <1>5, <1>6, <1>7, <1>8, <1>9, <1>10, <1>11, <1>12, <1>13, <1>14, <1>15, <1>16, <1>17, <1>18, <1>19, <1>20, <1>21, <1>22 DEF Checking

\* The union of proper rows.
LEMMA PropersUnion ==
  ASSUME NEW A, NEW B, NEW R, NEW S
  PROVE  /\ Propers(R, A, B) /\ Propers(S, A, B) => Propers(R \cup S, A, B)
         /\ Gentles(R, A, B) /\ Gentles(S, A, B) => Gentles(R \cup S, A, B)
         /\ Sanes(R, A, B) /\ Sanes(S, A, B) => Sanes(R \cup S, A, B)
BY DEF Propers, Gentles, Sanes

\* DRBGs are orderly.
LEMMA DrbgOrdered ==
  ASSUME NEW c \in cap_drbg
  PROVE  Ordered(c)
<1>. DEFINE A == {"entropy_len", "nonce_len", "perso_len", "additional_in_len", "der_func_enabled", "entropy_input_len",
                  "nonce_length", "perso_string_len", "additional_input_len", "returned_bits_len", "pred_resist",
                  "reseed_implemented"}
            B == {"entry", "prereq", "has_prereq"}
<1>1. /\ Gentles(Ranges({"entropy_len", "nonce_len", "perso_len", "additional_in_len"}), A, B)
      /\ Gentles(Assigns({"der_func_enabled", "entropy_input_len", "nonce_length"}), A, B)
      /\ Gentles(Assigns({"perso_string_len", "additional_input_len", "returned_bits_len"}), A, B)
      /\ Gentles(Assigns({"pred_resist"}), A, B) /\ Gentles(Flags({"reseed_implemented"}), A, B)
  BY GentleTables
<1>2. A \cap B = {} /\ {"entry", "prereq", "has_prereq"} \subseteq B
  OBVIOUS
<1>. HIDE DEF A, B
<1>3. Gentles(acvp_cap_drbg_set_length(c), A, B)
  BY <1>1, GentleVariants DEF acvp_cap_drbg_set_length, InGroup
<1>4. Gentles(acvp_cap_drbg_set_parm(c), A, B)
  <2>1. Gentles(AlsoTaking(Assigns({"perso_string_len", "additional_input_len", "returned_bits_len"}), {"odd"}), A, B)
    BY <1>1, GentleVariants
  <2>2. Gentles({[r EXCEPT !.wide = "yes"] : r \in Assigns({"pred_resist"}) \cup Flags({"reseed_implemented"})}, A, B)
    <3>1. Gentles(Assigns({"pred_resist"}) \cup Flags({"reseed_implemented"}), A, B)
      BY <1>1, PropersUnion
    <3>. QED BY <3>1, GentleVariants
  <2>3. Gentles(Assigns({"der_func_enabled", "entropy_input_len", "nonce_length"})
          \cup AlsoTaking(Assigns({"perso_string_len", "additional_input_len", "returned_bits_len"}),
                          {"odd"})
          \cup {[r EXCEPT !.wide = "yes"] : r \in Assigns({"pred_resist"}) \cup
                                                 Flags({"reseed_implemented"})}, A, B)
    BY <1>1, <2>1, <2>2, Zenon DEF Gentles
  <2>. QED BY <2>3, GentleVariants DEF acvp_cap_drbg_set_parm, InGroup
<1>5. Propers(Setters(c), A, B)
  BY <1>3, <1>4, ProperRows, PropersUnion, DrbgKind
<1>. QED BY <1>2, <1>5, OrderlyRows DEF Ordered

\* The rows that name a mode or a type of RSA.
LEMMA NamingRows ==
  ASSUME NEW places, NEW r \in Makes(places), NEW A, NEW B, NEW x
  PROVE  /\ Proper([r EXCEPT !.fresh = "yes", !.drops = {Blank}], A, B)
         /\ Proper([r EXCEPT !.fresh = "yes", !.drops = {Blank}, !.needs = x], A, B)
<1>1. r = [Row("entry", "entry", {"yes"}) EXCEPT !.at = places, !.tries = {}]
  BY DEF Makes
<1>2. Naming([r EXCEPT !.fresh = "yes", !.drops = {Blank}])
  BY <1>1 DEF Row, Naming
<1>3. Naming([r EXCEPT !.fresh = "yes", !.drops = {Blank}, !.needs = x])
  BY <1>1 DEF Row, Naming
<1>. QED BY <1>2, <1>3 DEF Proper

\* RSA key generation is orderly.
LEMMA RsaKeygenOrdered ==
  ASSUME NEW c, c = "RSA_KEYGEN"
  PROVE  Ordered(c)
<1>. DEFINE A == {"pub_exp_mode", "revision", "info_gen_by_server", "key_format", "fixed_pub_exp", "pMod8", "qMod8"}
            B == {"entry", "prereq", "has_prereq", "hash_algs", "prime_tests"}
<1>1. /\ Tames(PubExpMode, A, B) /\ Tames(Revision("186-4"), A, B) /\ Tames(FixedPubExp, A, B)
      /\ Tames(Flags({"info_gen_by_server"}), A, B) /\ Tames(Assigns({"key_format"}), A, B)
      /\ Gentles(Adds({"hash_algs", "prime_tests"}), A, B) /\ Gentles(Assigns({"pMod8", "qMod8"}), A, B)
  BY RsaTame, TableRows, GentleTables
<1>2. A \cap B = {} /\ {"entry", "prereq", "has_prereq"} \subseteq B
  OBVIOUS
<1>. HIDE DEF A, B
<1>3. Propers(acvp_cap_rsa_keygen_set_mode(c), A, B)
  <2>. DEFINE modes == {<<"m1">>, <<"m2">>, <<"odd">>}
  <2>1. \A r \in Makes(modes) : Proper([r EXCEPT !.fresh = "yes", !.drops = {Blank}], A, B)
    BY NamingRows
  <2>. QED BY <2>1, Zenon DEF acvp_cap_rsa_keygen_set_mode, Propers
<1>4. Tames({[r EXCEPT !.idle = {"STANDARD"}] : r \in Taking(Assigns({"key_format"}), {"CRT"})}, A, B)
  <2>1. Tames(Taking(Assigns({"key_format"}), {"CRT"}), A, B)
    BY <1>1, TameVariants
  <2>2. \A r \in Taking(Assigns({"key_format"}), {"CRT"}) : Tame([r EXCEPT !.idle = {"STANDARD"}], A, B)
    BY <2>1, TameExcept DEF Tames
  <2>. QED BY <2>2, Zenon DEF Tames
<1>5. Tames(acvp_cap_rsa_keygen_set_parm(c), A, B)
  BY <1>1, <1>4, Zenon DEF Tames, acvp_cap_rsa_keygen_set_parm
<1>6. Tames(acvp_cap_rsa_keygen_set_exponent(c), A, B)
  BY <1>1 DEF acvp_cap_rsa_keygen_set_exponent
<1>7. Gentles(acvp_cap_rsa_keygen_set_primes(c), A, B)
  <2>1. Gentles(Adds({"hash_algs", "prime_tests"}) \cup Assigns({"pMod8", "qMod8"}), A, B)
    BY <1>1, PropersUnion
  <2>2. Gentles(Early(2, {<<"m1", "2048">>, <<"m2", "2048">>},
                      Adds({"hash_algs", "prime_tests"}) \cup Assigns({"pMod8", "qMod8"})), A, B)
    BY <2>1, GentleVariants
  <2>. QED BY <2>2, GentleVariants DEF acvp_cap_rsa_keygen_set_primes
<1>8. Propers(Setters(c), A, B)
  <2>1. Propers(acvp_cap_rsa_keygen_set_parm(c), A, B) /\ Propers(acvp_cap_rsa_keygen_set_exponent(c), A, B)
        /\ Propers(acvp_cap_rsa_keygen_set_primes(c), A, B)
    BY <1>5, <1>6, <1>7, ProperRows
  <2>. QED BY <1>3, <2>1, RsaKeygenKind, Zenon DEF Propers
<1>. QED BY <1>2, <1>8, OrderlyRows DEF Ordered

\* RSA signatures are orderly.
LEMMA RsaSigOrdered ==
  ASSUME NEW c \in cap_rsa_sig
  PROVE  Ordered(c)
<1>. DEFINE A == {"revision", "pub_exp_mode", "fixed_pub_exp"}
            B == {"entry", "prereq", "has_prereq", "hash_pair", "mask_functions"}
<1>1. /\ Tames(PubExpMode, A, B) /\ Tames(Revision("186-4"), A, B) /\ Tames(FixedPubExp, A, B)
      /\ Gentles(Adds({"hash_pair"}), A, B) /\ Gentles(Adds({"mask_functions"}), A, B)
      /\ Gentles(Refuse({<<"odd">>}), A, B)
  BY RsaTame, GentleTables
<1>2. A \cap B = {} /\ {"entry", "prereq", "has_prereq"} \subseteq B
  OBVIOUS
<1>. HIDE DEF A, B
<1>3. Propers(NamedTypes, A, B)
  <2>. DEFINE old == {Setting(<<>>, "revision", "186-4")}
              X931 == {<<"X931">>}
  <2>. HIDE DEF old, X931
  <2>1. \A r \in Makes(SigTypes) : Proper([r EXCEPT !.fresh = "yes", !.drops = {Blank}], A, B)
    BY NamingRows
  <2>2. \A r \in Makes(X931) : Proper([r EXCEPT !.fresh = "yes", !.drops = {Blank}, !.needs = old], A, B)
    BY NamingRows
  <2>. QED BY <2>1, <2>2, Zenon DEF NamedTypes, Propers, old, X931
<1>4. Propers(acvp_cap_rsa_siggen_set_type(c), A, B)
  <2>1. Propers(Early(1, {<<"odd">>}, Refuse({<<"odd">>})), A, B)
    BY <1>1, GentleVariants, ProperRows
  <2>. QED BY <1>3, <2>1, PropersUnion DEF acvp_cap_rsa_siggen_set_type
<1>5. Propers(acvp_cap_rsa_sigver_set_type(c), A, B)
  <2>1. \A r \in Refuse({<<"odd">>}) : Gentle([r EXCEPT !.leaves = {Blank}], A, B)
    <3>1. Blank.field \in B
      BY <1>2 DEF Blank, Entry, Setting
    <3>2. \A r \in Refuse({<<"odd">>}) : Gentle(r, A, B)
      BY <1>1 DEF Gentles
    <3>. QED BY <3>1, <3>2 DEF Gentle, RowFields, Sorted
  <2>2. Gentles({[r EXCEPT !.leaves = {Blank}] : r \in Refuse({<<"odd">>})}, A, B)
    BY <2>1, Zenon DEF Gentles
  <2>. QED BY <1>3, <2>2, ProperRows, PropersUnion DEF acvp_cap_rsa_sigver_set_type
<1>6. Propers(acvp_cap_rsa_siggen_set_mod_parm(c), A, B)
  <2>1. /\ Gentles(Under(Moduli(SigTypes \cup {<<"X931">>}), Adds({"hash_pair"})), A, B)
        /\ Gentles(Taking(Adds({"hash_pair"}), {"salted"}), A, B)
    BY <1>1, GentleVariants
  <2>2. Gentles(Under(Moduli({<<"PKCS1PSS">>}), Taking(Adds({"hash_pair"}), {"salted"})), A, B)
    BY <2>1, GentleVariants
  <2>. QED BY <2>1, <2>2, ProperRows, PropersUnion DEF acvp_cap_rsa_siggen_set_mod_parm
<1>7. Propers(acvp_cap_rsa_sigver_set_mod_parm(c), A, B)
  <2>1. Gentles(AlsoTaking(Adds({"hash_pair"}), {"salted", "oversalted"}), A, B)
    BY <1>1, GentleVariants
  <2>. QED BY <2>1, GentleVariants, ProperRows DEF acvp_cap_rsa_sigver_set_mod_parm
<1>8. Propers(acvp_cap_rsa_siggen_set_mod_mask(c), A, B) /\ Propers(acvp_cap_rsa_sigver_set_mod_mask(c), A, B)
  BY <1>1, GentleVariants, ProperRows DEF acvp_cap_rsa_siggen_set_mod_mask, acvp_cap_rsa_sigver_set_mod_mask
<1>9. /\ Propers(acvp_cap_rsa_siggen_set_parm(c), A, B) /\ Propers(acvp_cap_rsa_sigver_set_parm(c), A, B)
      /\ Propers(acvp_cap_rsa_sigver_set_exponent(c), A, B)
  BY <1>1, ProperRows, PropersUnion
     DEF acvp_cap_rsa_siggen_set_parm, acvp_cap_rsa_sigver_set_parm, acvp_cap_rsa_sigver_set_exponent
<1>10. CASE c = "RSA_SIGGEN"
  <2>1. Propers(Setters(c), A, B)
    BY <1>4, <1>6, <1>8, <1>9, <1>10, RsaSiggenKind, Zenon DEF Propers
  <2>. QED BY <1>2, <2>1, OrderlyRows DEF Ordered
<1>11. CASE c = "RSA_SIGVER"
  <2>1. Propers(Setters(c), A, B)
    BY <1>5, <1>7, <1>8, <1>9, <1>11, RsaSigverKind, Zenon DEF Propers
  <2>. QED BY <1>2, <2>1, OrderlyRows DEF Ordered
<1>. QED BY <1>10, <1>11 DEF cap_rsa_sig

\* DSA is orderly.
LEMMA DsaOrdered ==
  ASSUME NEW c \in cap_dsa
  PROVE  Ordered(c)
<1>. DEFINE A == {}
            B == {"entry", "prereq", "has_prereq", "sha", "gen_pq", "gen_g"}
<1>1. /\ Gentles(Adds({"sha"}), A, B) /\ Gentles(Adds({"gen_pq", "gen_g"}), A, B)
      /\ \A F : Gentles(Refuse(F), A, B)
  BY GentleTables
<1>2. A \cap B = {} /\ {"entry", "prereq", "has_prereq"} \subseteq B
  OBVIOUS
<1>. HIDE DEF A, B
<1>3. \A m, lens : Gentles(Hashes(m, lens), A, B)
  <2>1. Gentles(AlsoTaking(Adds({"sha"}), {"odd"}), A, B)
    BY <1>1, GentleVariants
  <2>. QED BY <2>1, GentleVariants DEF Hashes
<1>4. \A m : Gentles(Early(1, {<<m, "1024_160">>}, Refuse({<<m, "1024_160">>})), A, B)
  BY <1>1, GentleVariants
<1>5. \A m : /\ Gentles(Early(1, {<<m>>}, Adds({"gen_pq", "gen_g"})), A, B)
             /\ Gentles(Early(1, {<<m>>}, Taking(Trying(Adds({"gen_pq", "gen_g"}), Good), {})), A, B)
  <2>1. Gentles(Trying(Adds({"gen_pq", "gen_g"}), Good), A, B)
    BY <1>1, GentleVariants
  <2>2. Gentles(Taking(Trying(Adds({"gen_pq", "gen_g"}), Good), {}), A, B)
    BY <2>1, GentleVariants
  <2>. QED BY <1>1, <2>2, GentleVariants
<1>6. \A m : Gentles(acvp_add_dsa_keygen_parm(m), A, B)
  BY <1>3, <1>4, <1>5, Zenon DEF acvp_add_dsa_keygen_parm, Gentles
<1>7. \A m : Gentles(acvp_add_dsa_pqggen_parm(m), A, B)
  BY <1>3, <1>4, <1>5, Zenon DEF acvp_add_dsa_pqggen_parm, Gentles
<1>8. Gentles(acvp_cap_dsa_set_parm(c), A, B)
  <2>. DEFINE X(m) == IF m = "KEYGEN" THEN acvp_add_dsa_keygen_parm(m) ELSE acvp_add_dsa_pqggen_parm(m)
  <2>1. \A m : \A r \in X(m) : Gentle(r, A, B)
    BY <1>6, <1>7 DEF Gentles
  <2>2. acvp_cap_dsa_set_parm(c) = UNION {X(m) : m \in DsaModes(c)}
    BY Zenon DEF acvp_cap_dsa_set_parm
  <2>. HIDE DEF X
  <2>. QED BY <2>1, <2>2, Zenon DEF Gentles
<1>. QED BY <1>2, <1>8, ProperRows, DsaKind, OrderlyRows DEF Ordered

\* The fields of KDF108.
Kdf108Assigned  == {"empty_iv_support", "requires_empty_iv", "supported_lens", "derivation_keylens", "derived_keylens",
                    "context_lens", "label_lens"}
Kdf108Collected == {"entry", "prereq", "has_prereq", "mac_mode", "counter_lens", "data_order", "supported_lens.values",
                    "derivation_keylens.values", "derived_keylens.values", "context_lens.values", "label_lens.values"}

\* KDF108 is orderly.
LEMMA Kdf108Orderly ==
  ASSUME NEW c, c = "KDF108"
  PROVE  /\ Orderly(c, Kdf108Assigned, Kdf108Collected)
         /\ \A r \in Rows(c) : Gentle(r, Kdf108Assigned, Kdf108Collected) \/ Inert(r, Kdf108Collected)
<1>. DEFINE A == Kdf108Assigned
            B == Kdf108Collected
            adds == Adds({"mac_mode", "counter_lens", "data_order", "supported_lens.values",
                          "derivation_keylens.values", "derived_keylens.values", "context_lens.values",
                          "label_lens.values"})
<1>1. /\ Gentles(adds, A, B) /\ Gentles(Flags({"empty_iv_support"}), A, B) /\ Gentles(Flags({"requires_empty_iv"}), A, B)
      /\ Gentles(Adds({"mac_mode"}), A, B) /\ Gentles(Ranges({"supported_lens"} \cup KmacLens), A, B)
      /\ Gentles(Ranges({"counter_lens"}), {"counter_lens"}, B)
  BY GentleTables DEF Kdf108Assigned, Kdf108Collected, KmacLens
<1>2. A \cap B = {} /\ {"entry", "prereq", "has_prereq"} \subseteq B
  BY DEF Kdf108Assigned, Kdf108Collected
<1>. DEFINE Kind(r) == Gentle(r, A, B) \/ Inert(r, B)
<1>. HIDE DEF A, B, adds
<1>3. Gentles(acvp_cap_kdf108_set_parm(c), A, B)
  <2>1. Gentles(Taking(Flags({"requires_empty_iv"}), {}), A, B)
    BY <1>1, GentleVariants
  <2>2. Gentles(adds \cup Flags({"empty_iv_support"}) \cup Taking(Flags({"requires_empty_iv"}), {}), A, B)
    BY <1>1, <2>1, Zenon DEF Gentles
  <2>3. Gentles(acvp_validate_kdf108_param_value(
          adds \cup Flags({"empty_iv_support"}) \cup Taking(Flags({"requires_empty_iv"}), {})), A, B)
    BY <2>2, GentleVariants DEF acvp_validate_kdf108_param_value
  <2>4. Gentles(Early(1, Modes108, Trying(Taking(Adds({"mac_mode"}), {}), {"other"})), A, B)
    <3>1. Gentles(Taking(Adds({"mac_mode"}), {}), A, B)
      BY <1>1, GentleVariants
    <3>2. Gentles(Trying(Taking(Adds({"mac_mode"}), {}), {"other"}), A, B)
      BY <3>1, GentleVariants
    <3>. QED BY <3>2, GentleVariants
  <2>. DEFINE X(m) == Early(1, {m}, {[r EXCEPT !.needs = {Setting(m, "empty_iv_support", "yes")}, !.tries = {}] :
                                       r \in Flags({"requires_empty_iv"})})
  <2>5. \A m : Gentles(X(m), A, B)
    <3>1. ASSUME NEW m PROVE Gentles(X(m), A, B)
      <4>. DEFINE need == {Setting(m, "empty_iv_support", "yes")}
      <4>1. Gentles({[r EXCEPT !.needs = need, !.tries = {}] : r \in Flags({"requires_empty_iv"})}, A, B)
        <5>. HIDE DEF need
        <5>1. \A r \in Flags({"requires_empty_iv"}) : Gentle([r EXCEPT !.needs = need, !.tries = {}], A, B)
          BY <1>1, GentleExcept DEF Gentles
        <5>. QED BY <5>1, Zenon DEF Gentles
      <4>. QED BY <4>1, GentleVariants
    <3>. QED BY <3>1
  <2>6. acvp_cap_kdf108_set_parm(c) =
          acvp_validate_kdf108_param_value(
            adds \cup Flags({"empty_iv_support"}) \cup Taking(Flags({"requires_empty_iv"}), {}))
          \cup Early(1, Modes108, Trying(Taking(Adds({"mac_mode"}), {}), {"other"}))
          \cup UNION {X(m) : m \in Modes108}
    BY Zenon DEF acvp_cap_kdf108_set_parm, adds
  <2>. HIDE DEF X
  <2>. QED BY <2>3, <2>4, <2>5, <2>6, Zenon DEF Gentles
<1>4. \A r \in acvp_cap_kdf108_set_domain(c) : Kind(r)
  <2>1. Gentles(Trying(Ranges({"supported_lens"} \cup KmacLens), {"odd", "rev"}), A, B)
    BY <1>1, GentleVariants
  <2>2. Gentles(acvp_validate_kdf108_param_value(Trying(Ranges({"supported_lens"} \cup KmacLens), {"odd", "rev"})), A, B)
    BY <2>1, GentleVariants DEF acvp_validate_kdf108_param_value
  <2>3. \A r \in Early(1, Modes108, Trying(Taking(Ranges({"counter_lens"}), {}), {"v1"})) : Inert(r, B)
    BY <1>1, InertRows
  <2>. QED BY <2>2, <2>3, Zenon DEF Gentles, acvp_cap_kdf108_set_domain
<1>5. \A r \in Setters(c) : Kind(r)
  BY <1>3, <1>4, Kdf108Kind DEF Gentles
<1>6. \A r \in acvp_cap_set_prereq(c) : Gentle(r, A, B)
  BY <1>2, PrereqGentle
<1>7. Orderly(c, A, B)
  BY <1>2, <1>5, OrderlyRows DEF Propers, Proper
<1>. QED BY <1>5, <1>6, <1>7 DEF Rows, A, B

\* KDA is orderly.
LEMMA KdaOrdered ==
  ASSUME NEW c \in cap_kda
  PROVE  Ordered(c)
<1>. DEFINE A == {"literal", "revision", "l", "z", "aux_secret_len", "perform_multi_expansion_tests", "empty_iv_support",
                  "requires_empty_iv", "supported_lens"}
            B == {"entry", "prereq", "has_prereq", "patterns", "mac_salt_methods", "encodings", "aux_functions", "hmac_algs",
                  "aux_secret_len.values", "mac_mode", "data_order", "counter_lens", "supported_lens.values"}
<1>1. /\ Gentles(Adds({"patterns", "mac_salt_methods"}), A, B) /\ Gentles(Assigns({"revision"}), A, B)
      /\ Gentles(Adds({"encodings"}), A, B) /\ Gentles(Assigns({"l"}), A, B)
      /\ Gentles(Adds({"aux_secret_len.values"}), A, B) /\ Gentles(Flags({"perform_multi_expansion_tests"}), A, B)
      /\ Gentles(Ranges({"z"}), A, B) /\ Gentles(Ranges({"aux_secret_len"}), A, B)
      /\ Gentles(Adds({"patterns"}), A, B) /\ Gentles(Adds({"aux_functions"}), A, B) /\ Gentles(Adds({"hmac_algs"}), A, B)
  BY GentleTables
<1>2. /\ Gentles(Adds({"mac_mode", "data_order", "counter_lens"}), A, B) /\ Gentles(Adds({"supported_lens.values"}), A, B)
      /\ Gentles(Flags({"empty_iv_support"}), A, B) /\ Gentles(Flags({"requires_empty_iv"}), A, B)
      /\ Gentles(Ranges({"supported_lens"}), A, B) /\ Gentles(Refuse({<<"odd">>}), A, B)
  BY GentleTables
<1>3. A \cap B = {} /\ {"entry", "prereq", "has_prereq"} \subseteq B
  OBVIOUS
<1>4. Gentles(Literal, A, B)
  <2>1. ASSUME NEW x PROVE Gentle([Row("literal", "assign", Good) EXCEPT
                             !.gives = {Setting(<<>>, "patterns", "LITERAL")}, !.loses = x], A, B)
    BY DEF Row, Gentle, RowFields, Sorted, Setting
  <2>2. Gentle([Row("literal", "assign", {}) EXCEPT !.tries = {"null"}], A, B)
    BY DEF Row, Gentle, RowFields, Sorted
  <2>. QED BY <2>1, <2>2, Zenon DEF Literal, Gentles
<1>. HIDE DEF A, B
<1>5. Gentles(KdaParms, A, B)
  <2>1. Gentles(Taking(Assigns({"revision"}), {"56Cr1"}), A, B) /\ Gentles(Taking(Adds({"encodings"}), {"v1"}), A, B)
    BY <1>1, GentleVariants
  <2>. QED BY <1>1, <1>4, <2>1, Zenon DEF KdaParms, Gentles
<1>6. ASSUME NEW R, Gentles(R, A, B) PROVE Gentles(Hybrid(R), A, B)
  <2>1. \A r \in R : Gentle([r EXCEPT !.unless = {"revision"}], A, B)
    BY <1>6, GentleExcept DEF Gentles
  <2>. QED BY <2>1, Zenon DEF Hybrid, Gentles
<1>7. Gentles(NewRevision, A, B)
  <2>1. Gentles(Hybrid(Unchecked({"aux_secret_len.values"})), A, B)
    BY <1>1, <1>6, GentleVariants DEF Unchecked
  <2>2. Gentles(Trying(Flags({"perform_multi_expansion_tests"}), {}), A, B)
    BY <1>1, GentleVariants
  <2>. QED BY <2>1, <2>2, PropersUnion DEF NewRevision
<1>8. Gentles(KdaRanges(c), A, B)
  <2>1. Gentles(AlsoTaking(Ranges({"z"}), {"rev", "zero"}), A, B)
    BY <1>1, GentleVariants
  <2>2. Gentles(AlsoTaking(Ranges({"aux_secret_len"}), {"rev", "zero"}), A, B)
    BY <1>1, GentleVariants
  <2>3. Gentles(Hybrid(AlsoTaking(Ranges({"aux_secret_len"}), {"rev", "zero"})), A, B)
    BY <1>6, <2>2
  <2>. QED BY <2>1, <2>3, Zenon DEF KdaRanges, Gentles
<1>9. Gentles(AlsoTaking(Adds({"patterns"}), {"T"}), A, B) /\ Gentles(Trying(Adds({"patterns"}), {"T"}), A, B)
  BY <1>1, GentleVariants
<1>10. CASE c \in {"KDA_ONESTEP", "KDA_HKDF"}
  <2>1. Gentles(acvp_cap_kda_set_parm(c), A, B)
    BY <1>1, <1>5, <1>7, <1>9, Zenon DEF acvp_cap_kda_set_parm, Gentles
  <2>2. Gentles(acvp_cap_kda_set_domain(c), A, B)
    BY <1>8 DEF acvp_cap_kda_set_domain
  <2>3. Setters(c) = acvp_cap_kda_set_parm(c) \cup acvp_cap_kda_set_domain(c)
    BY <1>10, OnestepKind, HkdfKind
  <2>4. Propers(Setters(c), A, B)
    BY <2>1, <2>2, <2>3, PropersUnion, ProperRows
  <2>. QED BY <1>3, <2>4, OrderlyRows DEF Ordered
<1>11. CASE c = "KDA_TWOSTEP"
  <2>. DEFINE inner == Adds({"mac_mode", "data_order", "counter_lens"}) \cup Unchecked({"supported_lens.values"})
                         \cup Trying(Flags({"empty_iv_support"}), {})
              X(m) == Early(1, {m}, {[r EXCEPT !.needs = {Setting(m, "empty_iv_support", "yes")}, !.tries = {}] :
                                       r \in Flags({"requires_empty_iv"})})
  <2>1. Gentles(inner, A, B)
    <3>1. /\ Gentles(Unchecked({"supported_lens.values"}), A, B)
          /\ Gentles(Trying(Flags({"empty_iv_support"}), {}), A, B)
      BY <1>2, GentleVariants DEF Unchecked
    <3>. QED BY <1>2, <3>1, Zenon DEF Gentles
  <2>2. \A m : Gentles(X(m), A, B)
    <3>1. ASSUME NEW m PROVE Gentles(X(m), A, B)
      <4>. DEFINE need == {Setting(m, "empty_iv_support", "yes")}
      <4>1. Gentles({[r EXCEPT !.needs = need, !.tries = {}] : r \in Flags({"requires_empty_iv"})}, A, B)
        <5>. HIDE DEF need
        <5>1. \A r \in Flags({"requires_empty_iv"}) : Gentle([r EXCEPT !.needs = need, !.tries = {}], A, B)
          BY <1>2, GentleExcept DEF Gentles
        <5>. QED BY <5>1, Zenon DEF Gentles
      <4>. QED BY <4>1, GentleVariants
    <3>. QED BY <3>1
  <2>3. acvp_cap_kda_twostep_set_parm(c) =
          (KdaParms \cup NewRevision) \cup AlsoTaking(Adds({"patterns"}), {"T"}) \cup Refuse({<<"odd">>})
          \cup Early(1, Modes2, inner) \cup UNION {X(m) : m \in Modes2}
    BY Zenon DEF acvp_cap_kda_twostep_set_parm
  <2>. HIDE DEF inner, X
  <2>4. Gentles(Early(1, Modes2, inner), A, B)
    BY <2>1, GentleVariants
  <2>5. Gentles(UNION {X(m) : m \in Modes2}, A, B)
    BY <2>2, Zenon DEF Gentles
  <2>6. Gentles(acvp_cap_kda_twostep_set_parm(c), A, B)
    <3>1. Gentles((KdaParms \cup NewRevision) \cup AlsoTaking(Adds({"patterns"}), {"T"}), A, B)
      BY <1>5, <1>7, <1>9, PropersUnion
    <3>2. Gentles((KdaParms \cup NewRevision) \cup AlsoTaking(Adds({"patterns"}), {"T"}) \cup Refuse({<<"odd">>}), A, B)
      BY <1>2, <3>1, PropersUnion
    <3>. QED BY <2>3, <2>4, <2>5, <3>2, Zenon DEF Gentles
  <2>7. Gentles(acvp_cap_kda_twostep_set_domain(c), A, B)
    <3>1. Gentles(AlsoTaking(Ranges({"supported_lens"}), {"odd", "rev"}), A, B)
      BY <1>2, GentleVariants
    <3>2. Gentles(Trying(AlsoTaking(Ranges({"supported_lens"}), {"odd", "rev"}), {"zero"}), A, B)
      BY <3>1, GentleVariants
    <3>3. Gentles(Early(1, Modes2, Trying(AlsoTaking(Ranges({"supported_lens"}), {"odd", "rev"}), {"zero"})), A, B)
      BY <3>2, GentleVariants
    <3>. QED BY <1>8, <3>3, PropersUnion DEF acvp_cap_kda_twostep_set_domain
  <2>8. Propers(Setters(c), A, B)
    BY <1>11, <2>6, <2>7, TwostepKind, PropersUnion, ProperRows
  <2>. QED BY <1>3, <2>8, OrderlyRows DEF Ordered
<1>. QED BY <1>10, <1>11 DEF cap_kda

\* Rows whose field is in the entry they name.
Narrows(R) == \A r \in R : DOMAIN r = RowFields /\ r.wide = "no"

\* The rows of the tables and their variants are narrow.
LEMMA NarrowRows ==
  ASSUME NEW F, NEW R, Narrows(R), NEW x
  PROVE  /\ Narrows(Adds(F)) /\ Narrows(Assigns(F)) /\ Narrows(Makes(F))
         /\ Narrows(Taking(R, x)) /\ Narrows(AlsoTaking(R, x)) /\ Narrows(Trying(R, x)) /\ Narrows(In(x, R))
<1>. DEFINE N(r) == DOMAIN r = RowFields /\ r.wide = "no"
<1>1. \A f, h, t : N(Row(f, h, t))
  BY DEF Row, RowFields
<1>2. N([Row("entry", "entry", {"yes"}) EXCEPT !.at = F, !.tries = {}])
  BY DEF Row, RowFields
<1>3. \A q, y : N(q) => /\ N([q EXCEPT !.takes = y]) /\ N([q EXCEPT !.tries = y]) /\ N([q EXCEPT !.at = y])
  BY DEF RowFields
<1>4. \A q \in R : N(q)
  BY DEF Narrows
<1>5. \A S : Narrows(S) <=> \A r \in S : N(r)
  BY DEF Narrows
<1>. HIDE DEF N
<1>6. Narrows(Adds(F)) /\ Narrows(Assigns(F)) /\ Narrows(Makes(F))
  <2>1. (\A r \in Adds(F) : N(r)) /\ \A r \in Assigns(F) : N(r)
    BY <1>1, Zenon DEF Adds, Assigns
  <2>2. \A r \in Makes(F) : N(r)
    BY <1>2, Zenon DEF Makes
  <2>. QED BY <1>5, <2>1, <2>2
<1>7. Narrows(Taking(R, x)) /\ Narrows(Trying(R, x)) /\ Narrows(In(x, R))
  <2>1. Narrows(Taking(R, x))
    BY <1>3, <1>4, <1>5, Zenon DEF Taking
  <2>2. Narrows(Trying(R, x))
    BY <1>3, <1>4, <1>5, Zenon DEF Trying
  <2>3. Narrows(In(x, R))
    BY <1>3, <1>4, <1>5, Zenon DEF In
  <2>. QED BY <2>1, <2>2, <2>3
<1>8. Narrows(AlsoTaking(R, x))
  <2>1. \A q \in R : [q EXCEPT !.takes = @ \cup x] = [q EXCEPT !.takes = q.takes \cup x]
    OBVIOUS
  <2>2. \A q \in R : N([q EXCEPT !.takes = @ \cup x])
    BY <1>3, <1>4, <2>1
  <2>. QED BY <1>5, <2>2, Zenon DEF AlsoTaking
<1>. QED BY <1>6, <1>7, <1>8

\* The rows of a scheme take the place of other schemes.
LEMMA SchemeRows ==
  ASSUME NEW A, NEW B, NEW R, Gentles(R, A, B), Narrows(R), NEW places, \A at \in places : Len(at) >= 2
  PROVE  Sanes(InScheme(places, R), A, B)
<1>1. ASSUME NEW q \in R PROVE Replacing([[q EXCEPT !.at = places, !.early = 2] EXCEPT !.alone = "yes"], A, B)
  <2>1. Gentle(q, A, B) /\ q.wide = "no"
    BY DEF Gentles, Narrows
  <2>. DEFINE e == [q EXCEPT !.at = places, !.early = 2]
  <2>2. DOMAIN e = RowFields /\ e.at = places /\ e.early = 2 /\ e.wide = "no" /\ e.drops = {}
    BY <2>1 DEF Gentle, RowFields
  <2>3. (\A s \in e.gives \cup e.leaves : s.field \in B) /\ Sorted(e, A, B)
    BY <2>1 DEF Gentle, RowFields, Sorted
  <2>. HIDE DEF e
  <2>4. Replacing([e EXCEPT !.alone = "yes"], A, B)
    BY <2>2, <2>3 DEF Replacing, RowFields, Sorted
  <2>. QED BY <2>4 DEF e
<1>2. \A e \in Early(2, places, R) : Replacing([e EXCEPT !.alone = "yes"], A, B)
  BY <1>1, Zenon DEF Early
<1>3. \A r \in InScheme(places, R) : Replacing(r, A, B)
  BY <1>2, Zenon DEF InScheme
<1>. QED BY <1>3 DEF Sanes, Sane

\* The fields of KAS-ECC and KAS-FFC.
KasAssigned  == {"hash", "revision", "none", "kdf"}
KasCollected == {"entry", "prereq", "has_prereq", "other", "function", "curve", "role", "sha", "genmeth"}

\* The rows both have.
LEMMA KasTables ==
  /\ \A places : Gentles(NoOther(places), KasAssigned, KasCollected) /\ Narrows(NoOther(places))
  /\ \A c, algs : Gentles(Prereqs(c, algs), KasAssigned, KasCollected)
  /\ Gentles(Functions, KasAssigned, KasCollected) /\ Gentles(HashZ, KasAssigned, KasCollected)
  /\ \A F : F \subseteq KasCollected => Gentles(Unchecked(F), KasAssigned, KasCollected) /\ Narrows(Unchecked(F))
  /\ \A F : F \subseteq KasCollected => Gentles(Adds(F), KasAssigned, KasCollected) /\ Narrows(Adds(F))
  /\ \A F : F \subseteq KasAssigned => Gentles(Assigns(F), KasAssigned, KasCollected) /\ Narrows(Assigns(F))
  /\ \A F : Gentles(Makes(F), KasAssigned, KasCollected) /\ Narrows(Makes(F)) /\ Gentles(Refuse(F), KasAssigned, KasCollected)
<1>. DEFINE A == KasAssigned
            B == KasCollected
<1>0. "entry" \in B /\ {"other"} \subseteq B /\ {"prereq"} \subseteq B /\ {"function"} \subseteq B /\ "hash" \in A
  BY DEF KasAssigned, KasCollected
<1>. HIDE DEF A, B
<1>9. \A F : Narrows(Adds(F)) /\ Narrows(Assigns(F)) /\ Narrows(Makes(F))
  <2>1. Narrows({})
    BY DEF Narrows
  <2>. QED BY <2>1, NarrowRows
<1>1. \A F : F \subseteq B => Gentles(Adds(F), A, B) /\ Narrows(Adds(F))
  BY <1>9, GentleTables
<1>2. \A F : F \subseteq A => Gentles(Assigns(F), A, B) /\ Narrows(Assigns(F))
  BY <1>9, GentleTables
<1>3. \A F : Gentles(Makes(F), A, B) /\ Narrows(Makes(F)) /\ Gentles(Refuse(F), A, B)
  BY <1>0, <1>9, GentleTables
<1>4. \A F : F \subseteq B => Gentles(Unchecked(F), A, B) /\ Narrows(Unchecked(F))
  BY <1>1, GentleVariants, NarrowRows DEF Unchecked
<1>5. Gentles(Functions, A, B)
  BY <1>0, <1>1, GentleVariants DEF Functions
<1>6. Gentles(HashZ, A, B)
  BY <1>0, HashZTame, ProperRows
<1>7. \A c, algs : Gentles(Prereqs(c, algs), A, B)
  <2>1. SUFFICES ASSUME NEW c, NEW algs PROVE Gentles(Prereqs(c, algs), A, B)
    OBVIOUS
  <2>2. Gentles(Taking(Adds({"prereq"}), algs), A, B)
    BY <1>0, <1>1, GentleVariants
  <2>3. Gentles(Trying(Taking(Adds({"prereq"}), algs), {"other"}), A, B)
    BY <2>2, GentleVariants
  <2>. QED BY <2>3, GentleVariants DEF Prereqs
<1>8. \A places : Gentles(NoOther(places), A, B) /\ Narrows(NoOther(places))
  <2>1. Gentles(Taking(Adds({"other"}), {}), A, B) /\ Narrows(Taking(Adds({"other"}), {}))
    BY <1>0, <1>1, GentleVariants, NarrowRows
  <2>2. Gentles(Trying(Taking(Adds({"other"}), {}), {"v1"}), A, B) /\ Narrows(Trying(Taking(Adds({"other"}), {}), {"v1"}))
    BY <2>1, GentleVariants, NarrowRows
  <2>. QED BY <2>2, GentleVariants, NarrowRows DEF NoOther
<1>. QED BY <1>1, <1>2, <1>3, <1>4, <1>5, <1>6, <1>7, <1>8 DEF A, B

\* The rows of a scheme that both have.
LEMMA KasSchemes ==
  ASSUME NEW m
  PROVE  /\ \A at \in Schemes(m) : Len(at) >= 2 /\ Len(Append(at, "set")) >= 2 /\ Len(Append(at, "modp")) >= 2
         /\ Sanes(SchemeParms(m), KasAssigned, KasCollected)
         /\ Sanes(InScheme(Schemes(m), Makes(Schemes(m))), KasAssigned, KasCollected)
         /\ Sanes(InScheme(Schemes(m), NoOther(Schemes(m))), KasAssigned, KasCollected)
<1>. DEFINE A == KasAssigned
            B == KasCollected
<1>0. {"kdf"} \subseteq A /\ {"role"} \subseteq B
  BY DEF KasAssigned, KasCollected
<1>. HIDE DEF A, B
<1>1. \A at \in Schemes(m) : Len(at) >= 2 /\ Len(Append(at, "set")) >= 2 /\ Len(Append(at, "modp")) >= 2
  BY DEF Schemes
<1>2. /\ Sanes(InScheme(Schemes(m), Makes(Schemes(m))), A, B)
      /\ Sanes(InScheme(Schemes(m), NoOther(Schemes(m))), A, B)
  BY <1>1, KasTables, SchemeRows DEF A, B
<1>3. Sanes(SchemeParms(m), A, B)
  <2>1. Gentles(Assigns({"kdf"}), A, B) /\ Narrows(Assigns({"kdf"})) /\ Gentles(Adds({"role"}), A, B) /\ Narrows(Adds({"role"}))
    BY <1>0, KasTables DEF A, B
  <2>2. Gentles(AlsoTaking(Assigns({"kdf"}), {"PARMSET"}), A, B) /\ Narrows(AlsoTaking(Assigns({"kdf"}), {"PARMSET"}))
    BY <2>1, GentleVariants, NarrowRows
  <2>3. /\ Gentles(AlsoTaking(Assigns({"kdf"}), {"PARMSET"}) \cup Adds({"role"}), A, B)
        /\ Narrows(AlsoTaking(Assigns({"kdf"}), {"PARMSET"}) \cup Adds({"role"}))
    BY <2>1, <2>2 DEF Gentles, Narrows
  <2>4. Sanes(InScheme(Schemes(m), AlsoTaking(Assigns({"kdf"}), {"PARMSET"}) \cup Adds({"role"})), A, B)
    BY <1>1, <2>3, SchemeRows
  <2>5. Sanes(Refuse({<<m, "odd">>}), A, B)
    BY KasTables, ProperRows DEF A, B
  <2>. QED BY <2>4, <2>5, PropersUnion DEF SchemeParms
<1>. QED BY <1>1, <1>2, <1>3 DEF A, B

\* KAS-FFC is orderly.
LEMMA KasFfcOrderly ==
  ASSUME NEW c \in cap_kas_ffc
  PROVE  Orderly(c, KasAssigned, KasCollected)
<1>. DEFINE A == KasAssigned
            B == KasCollected
<1>0. A \cap B = {} /\ {"entry", "prereq", "has_prereq"} \subseteq B /\ {"genmeth"} \subseteq B /\ {"sha"} \subseteq B
  BY DEF KasAssigned, KasCollected
<1>1. Sanes(acvp_cap_kas_ffc_set_prereq(c), A, B)
  BY KasTables, ProperRows DEF acvp_cap_kas_ffc_set_prereq
<1>. HIDE DEF A, B
<1>2. Sanes(acvp_cap_kas_ffc_set_parm(c), A, B)
  <2>. DEFINE Y(m) == CASE m = "NONE"      -> Unchecked({"genmeth"}) \cup HashZ
                        [] m = "COMPONENT" -> Functions
                        [] OTHER           -> {}
              X(m) == NoOther({<<m>>}) \cup In({<<m>>}, Y(m))
  <2>1. /\ Gentles(Unchecked({"genmeth"}), A, B) /\ Gentles(HashZ, A, B) /\ Gentles(Functions, A, B)
        /\ \A m : Gentles(NoOther({<<m>>}), A, B)
    BY <1>0, KasTables DEF A, B
  <2>2. \A m : Gentles(Y(m), A, B)
    BY <2>1 DEF Gentles
  <2>3. acvp_cap_kas_ffc_set_parm(c) = UNION {X(m) : m \in KasModes(c)}
    BY Zenon DEF acvp_cap_kas_ffc_set_parm
  <2>. HIDE DEF Y
  <2>4. \A m : Gentles(In({<<m>>}, Y(m)), A, B)
    BY <2>2, GentleVariants
  <2>5. \A m : Gentles(X(m), A, B)
    BY <2>1, <2>4, PropersUnion
  <2>. HIDE DEF X
  <2>6. Gentles(acvp_cap_kas_ffc_set_parm(c), A, B)
    BY <2>3, <2>5, Zenon DEF Gentles
  <2>. QED BY <2>6, ProperRows
<1>3. Sanes(acvp_cap_kas_ffc_set_scheme(c), A, B)
  <2>. DEFINE P(m) == {Append(at, set) : at \in Schemes(m), set \in {"set", "modp"}}
              X(m) == SchemeParms(m) \cup InScheme(Schemes(m), NoOther(Schemes(m))) \cup InScheme(P(m), Unchecked({"sha"}))
  <2>1. ASSUME NEW m PROVE Sanes(X(m), A, B)
    <3>1. \A at \in P(m) : Len(at) >= 2
      BY KasSchemes
    <3>2. Gentles(Unchecked({"sha"}), A, B) /\ Narrows(Unchecked({"sha"}))
      BY <1>0, KasTables DEF A, B
    <3>. HIDE DEF P
    <3>3. Sanes(InScheme(P(m), Unchecked({"sha"})), A, B)
      BY <3>1, <3>2, SchemeRows
    <3>4. Sanes(SchemeParms(m), A, B) /\ Sanes(InScheme(Schemes(m), NoOther(Schemes(m))), A, B)
      BY KasSchemes DEF A, B
    <3>. QED BY <3>3, <3>4, PropersUnion
  <2>2. acvp_cap_kas_ffc_set_scheme(c) = UNION {X(m) : m \in KasModes(c)}
    BY DEF acvp_cap_kas_ffc_set_scheme
  <2>. HIDE DEF X
  <2>. QED BY <2>1, <2>2, Zenon DEF Sanes
<1>4. Sanes(Setters(c), A, B)
  BY <1>1, <1>2, <1>3, KasFfcKind, Zenon DEF Sanes
<1>. QED BY <1>0, <1>4, OrderlySchemes DEF A, B

\* KAS-ECC is orderly.
LEMMA KasEccOrderly ==
  ASSUME NEW c \in cap_kas_ecc
  PROVE  Orderly(c, KasAssigned, KasCollected)
<1>. DEFINE A == KasAssigned
            B == KasCollected
<1>0. /\ A \cap B = {} /\ {"entry", "prereq", "has_prereq"} \subseteq B /\ {"curve"} \subseteq B /\ {"sha"} \subseteq B
      /\ {"revision"} \subseteq A /\ "none" \in A /\ "curve" \in B
  BY DEF KasAssigned, KasCollected
<1>. HIDE DEF A, B
<1>1. Sanes(acvp_cap_kas_ecc_set_prereq(c), A, B)
  BY KasTables, ProperRows DEF acvp_cap_kas_ecc_set_prereq, A, B
<1>2. Sanes(acvp_cap_kas_ecc_set_parm(c), A, B)
  <2>. DEFINE none == {[Row("none", "assign", {}) EXCEPT !.idle = IF c = "KAS_ECC_SSC" THEN {"v1"} ELSE {}]}
              rev  == Taking(Assigns({"revision"}), IF c = "KAS_ECC_CDH" THEN {"56Ar3"} ELSE {})
              all  == (Functions \cup HashZ) \cup AlsoTaking(Adds({"curve"}), {"deprecated"}) \cup rev \cup none
              Y(m) == CASE m \in {"CDH", "NONE"} -> all
                        [] m = "COMPONENT"       -> Functions
                        [] OTHER                 -> {}
              X(m) == NoOther({<<m>>}) \cup In({<<m>>}, Y(m))
  <2>1. /\ Gentles(HashZ, A, B) /\ Gentles(Functions, A, B) /\ Gentles(Adds({"curve"}), A, B)
        /\ Gentles(Assigns({"revision"}), A, B) /\ \A m : Gentles(NoOther({<<m>>}), A, B)
    BY <1>0, KasTables DEF A, B
  <2>2. Gentles(none, A, B)
    <3>1. ASSUME NEW x PROVE Gentle([Row("none", "assign", {}) EXCEPT !.idle = x], A, B)
      BY <1>0 DEF Row, Gentle, RowFields, Sorted
    <3>. QED BY <3>1, Zenon DEF Gentles
  <2>3. Gentles(rev, A, B) /\ Gentles(AlsoTaking(Adds({"curve"}), {"deprecated"}), A, B)
    BY <2>1, GentleVariants
  <2>4. acvp_cap_kas_ecc_set_parm(c) = UNION {X(m) : m \in KasModes(c)}
    BY Zenon DEF acvp_cap_kas_ecc_set_parm
  <2>5. Gentles(all, A, B)
    <3>. HIDE DEF none, rev
    <3>. QED BY <2>1, <2>2, <2>3, Zenon DEF Gentles
  <2>. HIDE DEF all
  <2>6. \A m : Gentles(Y(m), A, B)
    BY <2>1, <2>5 DEF Gentles
  <2>. HIDE DEF Y
  <2>7. \A m : Gentles(In({<<m>>}, Y(m)), A, B)
    BY <2>6, GentleVariants
  <2>8. \A m : Gentles(X(m), A, B)
    BY <2>1, <2>7, PropersUnion
  <2>. HIDE DEF X
  <2>9. Gentles(acvp_cap_kas_ecc_set_parm(c), A, B)
    BY <2>4, <2>8, Zenon DEF Gentles
  <2>. QED BY <2>9, ProperRows
<1>3. Sanes(acvp_cap_kas_ecc_set_scheme(c), A, B)
  <2>. DEFINE G(set) == {[r EXCEPT !.given = {Entry(set)}] : r \in Unchecked({"sha"})}
              P(set, r, v) == [r EXCEPT !.lacking = {Entry(set)}, !.gives = {Setting(set, "curve", v)}]
              L(set) == {P(set, r, v) : r \in Unchecked({"sha"}), v \in {"v1", "odd"}}
              Z(at) == LET set == Append(at, "set") IN InScheme({set}, G(set)) \cup InScheme({set}, L(set))
              Y(m) == SchemeParms(m) \cup InScheme(Schemes(m), Makes(Schemes(m)))
                       \cup InScheme(Schemes(m), NoOther(Schemes(m)))
              X(m) == IF m = "CDH" THEN Refuse(Schemes(m)) ELSE Y(m) \cup UNION {Z(at) : at \in Schemes(m)}
  <2>1. Gentles(Unchecked({"sha"}), A, B) /\ Narrows(Unchecked({"sha"}))
    BY <1>0, KasTables DEF A, B
  <2>2. ASSUME NEW set PROVE Gentles(G(set), A, B) /\ Narrows(G(set)) /\ Gentles(L(set), A, B) /\ Narrows(L(set))
    <3>. DEFINE N(q) == Gentle(q, A, B) /\ q.wide = "no"
    <3>1. ASSUME NEW q \in Unchecked({"sha"}), NEW x PROVE N([q EXCEPT !.given = x])
      <4>1. N(q)
        BY <2>1 DEF Gentles, Narrows
      <4>. QED BY <4>1 DEF Gentle, RowFields, Sorted
    <3>2. ASSUME NEW q \in Unchecked({"sha"}), NEW x, NEW v PROVE N([q EXCEPT !.lacking = x, !.gives = {Setting(set, "curve", v)}])
      <4>1. N(q)
        BY <2>1 DEF Gentles, Narrows
      <4>2. ASSUME NEW y, \A s \in y : s.field \in B PROVE N([q EXCEPT !.lacking = x, !.gives = y])
        BY <4>1, <4>2 DEF Gentle, RowFields, Sorted
      <4>3. \A s \in {Setting(set, "curve", v)} : s.field \in B
        BY <1>0 DEF Setting
      <4>. QED BY <4>2, <4>3
    <3>3. \A q : N(q) => Gentle(q, A, B) /\ DOMAIN q = RowFields /\ q.wide = "no"
      BY DEF Gentle
    <3>. HIDE DEF N
    <3>4. (\A q \in G(set) : N(q)) /\ \A q \in L(set) : N(q)
      <4>1. \A q \in G(set) : N(q)
        BY <3>1, Zenon
      <4>2. \A q \in L(set) : N(q)
        <5>1. \A r \in Unchecked({"sha"}), v \in {"v1", "odd"} : N(P(set, r, v))
          BY <3>2
        <5>. HIDE DEF P
        <5>2. \A q \in L(set) : \E r \in Unchecked({"sha"}), v \in {"v1", "odd"} : q = P(set, r, v)
          OBVIOUS
        <5>. HIDE DEF L
        <5>. QED BY <5>1, <5>2
      <4>. HIDE DEF G, L, P
      <4>. QED BY <4>1, <4>2
    <3>. HIDE DEF G, L
    <3>. QED BY <3>3, <3>4 DEF Gentles, Narrows
  <2>3. acvp_cap_kas_ecc_set_scheme(c) = UNION {X(m) : m \in KasModes(c)}
    BY DEF acvp_cap_kas_ecc_set_scheme
  <2>4. ASSUME NEW m PROVE Sanes(Y(m), A, B) /\ Sanes(Refuse(Schemes(m)), A, B)
    <3>1. /\ Sanes(SchemeParms(m), A, B) /\ Sanes(InScheme(Schemes(m), Makes(Schemes(m))), A, B)
          /\ Sanes(InScheme(Schemes(m), NoOther(Schemes(m))), A, B)
      BY KasSchemes DEF A, B
    <3>2. Sanes(Refuse(Schemes(m)), A, B)
      BY KasTables, ProperRows DEF A, B
    <3>. QED BY <3>1, <3>2, PropersUnion
  <2>5. ASSUME NEW m, NEW at \in Schemes(m) PROVE Sanes(Z(at), A, B)
    <3>. DEFINE set == Append(at, "set")
    <3>1. \A p \in {set} : Len(p) >= 2
      BY KasSchemes
    <3>. HIDE DEF set, G, L
    <3>2. Sanes(InScheme({set}, G(set)), A, B) /\ Sanes(InScheme({set}, L(set)), A, B)
      BY <2>2, <3>1, SchemeRows
    <3>. QED BY <3>2, PropersUnion DEF set
  <2>. HIDE DEF Y, Z
  <2>6. \A m : Sanes(X(m), A, B)
    BY <2>4, <2>5 DEF Sanes
  <2>. HIDE DEF X
  <2>. QED BY <2>3, <2>6, Zenon DEF Sanes
<1>4. Sanes(Setters(c), A, B)
  BY <1>1, <1>2, <1>3, KasEccKind, Zenon DEF Sanes
<1>. QED BY <1>0, <1>4, OrderlySchemes DEF A, B

----------------------------------------------------------------------------
(* What calls make of a capability.                                        *)

\* The fields of a capability are such as a call may set.
FieldsFit(c, cap) == \A s \in cap : s.field \in Settable(c)

\* What the rows of a cipher may set is settable.
LEMMA RowSettable ==
  ASSUME NEW c, NEW r \in Rows(c)
  PROVE  /\ \A s \in r.gives \cup r.leaves : s.field \in Settable(c)
         /\ r.takes # {} => r.field \in Settable(c)
         /\ ~(r.at = {<<>>} /\ r.early = 0) => "entry" \in Settable(c)
<1>. DEFINE X(row) == {s.field : s \in row.gives \cup row.leaves}
                        \cup (IF row.takes = {} THEN {} ELSE {row.field})
                        \cup (IF row.at = {<<>>} /\ row.early = 0 THEN {} ELSE {"entry"})
<1>1. \A f \in X(r) : f \in Settable(c)
  <2>1. Settable(c) = {s.field : s \in Defaults(c)} \cup UNION {X(row) : row \in Rows(c)}
    BY Zenon DEF Settable
  <2>. HIDE DEF X
  <2>. QED BY <2>1, Zenon
<1>2. \A s \in r.gives \cup r.leaves : s.field \in X(r)
  BY Zenon
<1>3. r.takes # {} => r.field \in X(r)
  BY Zenon
<1>4. ~(r.at = {<<>>} /\ r.early = 0) => "entry" \in X(r)
  BY Zenon
<1>. HIDE DEF X
<1>. QED BY <1>1, <1>2, <1>3, <1>4

\* A call sets settable fields.
LEMMA AfterFits ==
  ASSUME NEW c, NEW r \in Rows(c), NEW cap, FieldsFit(c, cap), NEW at \in r.at, NEW v
  PROVE  FieldsFit(c, After(r, cap, at, v))
<1>. DEFINE F == Settable(c)
            base == cap \ Displaced(r, cap, at)
<1>1. \A y : Entry(y).field = "entry"
  BY DEF Entry, Setting
<1>2. \A s \in Created(r, at) : s.field \in F
  BY <1>1, RowSettable DEF Created
<1>3. at # <<>> => "entry" \in F
  BY RowSettable
<1>4. \A s \in r.gives \cup r.leaves : s.field \in F
  BY RowSettable
<1>5. \A s \in cap : s.field \in F
  BY DEF FieldsFit
<1>6. v \in r.takes => r.field \in F
  BY RowSettable
<1>7. Setting(Place(r, at), r.field, v).field = r.field
  BY DEF Setting
<1>. HIDE DEF F
<1>8. CASE Barred(r, cap, at) \/ Ignored(r, cap, v)
  BY <1>8 DEF After
<1>9. CASE ~(Barred(r, cap, at) \/ Ignored(r, cap, v)) /\ ~Passes(r, cap, at, v)
  <2>1. \A s \in After(r, cap, at, v) : s \in cap \cup Created(r, at) \cup r.leaves
    BY <1>9 DEF After
  <2>. QED BY <1>2, <1>4, <1>5, <2>1 DEF FieldsFit, F
<1>10. CASE ~(Barred(r, cap, at) \/ Ignored(r, cap, v)) /\ Passes(r, cap, at, v)
  <2>1. \A s \in Set(r, base, at, v) : \/ s \in cap \cup Created(r, at) \cup r.gives
                                       \/ s = Entry(at) /\ at # <<>>
                                       \/ s = Setting(Place(r, at), r.field, v)
    BY DEF Set
  <2>2. v \in r.takes
    BY <1>10 DEF Passes
  <2>3. After(r, cap, at, v) = Set(r, base, at, v)
    BY <1>10 DEF After
  <2>4. \A s \in Set(r, base, at, v) : s.field \in F
    BY <1>1, <1>2, <1>3, <1>4, <1>5, <1>6, <1>7, <2>1, <2>2
  <2>. QED BY <2>3, <2>4 DEF FieldsFit, F
<1>. QED BY <1>8, <1>9, <1>10

\* The fields that the builder turns, and the one it fills, are settable.
LEMMA BuiltSettable ==
  ASSUME NEW c
  PROVE  /\ c \in Twofold => TurnedField(c) \in Settable(c)
         /\ c \in cap_ecdsa_sig => "algs" \in Settable(c)
<1>1. CASE c \in {"AES_GCM", "AES_XPN", "AES_GMAC", "AES_CTR"}
  <2>. DEFINE row == [Row("ivgen_source", "assign", {"INT", "EXT", "EITHER", "NA"}) EXCEPT !.counts = {"EITHER"}]
  <2>1. row.field = "ivgen_source" /\ row.takes = {"INT", "EXT", "EITHER", "NA"}
    BY DEF Row
  <2>2. c \in cap_sym /\ TurnedField(c) = "ivgen_source" /\ c \notin cap_ecdsa_sig
    BY <1>1, TwofoldFamilies DEF TurnedField
  <2>3. row \in acvp_cap_sym_cipher_set_parm(c)
    BY Zenon DEF acvp_cap_sym_cipher_set_parm
  <2>. HIDE DEF row
  <2>4. row \in Rows(c)
    BY <2>2, <2>3, SymKind DEF Rows
  <2>. QED BY <2>1, <2>2, <2>4, RowSettable
<1>2. CASE c \in cap_ecdsa_sig
  <2>. DEFINE row == [Row("component", "assign", {"NO", "YES", "BOTH"}) EXCEPT !.counts = {"BOTH"}]
              alg == [Row("algs", "add", Good) EXCEPT !.at = Curves, !.under = "yes"]
  <2>1. row.field = "component" /\ row.takes = {"NO", "YES", "BOTH"}
    BY DEF Row
  <2>2. alg.field = "algs" /\ alg.takes = Good
    BY DEF Row
  <2>3. c \in cap_ecdsa /\ TurnedField(c) = "component"
    BY <1>2, TwofoldFamilies DEF TurnedField
  <2>4. row \in acvp_cap_ecdsa_set_parm(c)
    BY <1>2, Zenon DEF acvp_cap_ecdsa_set_parm, Component
  <2>5. alg \in acvp_cap_ecdsa_set_curve_hash_alg(c)
    <3>1. Row("algs", "add", Good) \in Adds({"algs"})
      BY Zenon DEF Adds
    <3>2. alg \in Under(Curves, Adds({"algs"}))
      BY <3>1, Zenon DEF Under
    <3>. QED BY <1>2, <3>2 DEF acvp_cap_ecdsa_set_curve_hash_alg
  <2>. HIDE DEF row, alg
  <2>6. row \in Rows(c) /\ alg \in Rows(c)
    BY <2>3, <2>4, <2>5, EcdsaKind DEF Rows
  <2>7. "component" \in Settable(c)
    BY <2>1, <2>6, RowSettable
  <2>8. "algs" \in Settable(c)
    BY <2>2, <2>6, RowSettable DEF Good
  <2>. QED BY <2>3, <2>7, <2>8
<1>. QED BY <1>1, <1>2 DEF Twofold

\* The builder sets such fields.
LEMMA BuiltFits ==
  ASSUME NEW c, NEW cap, FieldsFit(c, cap)
  PROVE  /\ FieldsFit(c, EcdsaMerged(c, cap))
         /\ c \in Twofold => \A half : FieldsFit(c, Turned(c, cap, half))
<1>1. FieldsFit(c, EcdsaMerged(c, cap))
  <2>1. CASE c \in cap_ecdsa_sig
    BY <2>1, BuiltSettable, MergedRest DEF FieldsFit
  <2>. QED BY <2>1, MergedRest
<1>2. c \in Twofold => \A half : FieldsFit(c, Turned(c, cap, half))
  BY BuiltSettable, TurnedRest DEF FieldsFit
<1>. QED BY <1>1, <1>2

\* Every cipher is orderly.
LEMMA AllOrdered == \A c \in Ciphers : Ordered(c)
<1>1. SUFFICES ASSUME NEW c \in Ciphers PROVE Ordered(c)
  OBVIOUS
<1>2. CASE c \notin EntryFirst
  BY <1>2, CheckingKinds, CheckingOrdered
<1>3. CASE c \in EntryFirst
  <2>1. c \in cap_kas_ecc \cup cap_kas_ffc => Ordered(c)
    BY KasEccOrderly, KasFfcOrderly DEF Ordered
  <2>2. c = "KDF108" => Ordered(c)
    BY Kdf108Orderly DEF Ordered
  <2>. QED BY <1>3, <2>1, <2>2, DrbgOrdered, DsaOrdered, RsaSigOrdered, RsaKeygenOrdered, KdaOrdered DEF EntryFirst
<1>. QED BY <1>2, <1>3

\* What a new capability holds, and what the builder makes of one, has one value for an
\* assigned field, too.
LEMMA SingleBuilt ==
  ASSUME NEW c
  PROVE  /\ Single(Assigned(c), Defaults(c))
         /\ \A cap : Single(Assigned(c), cap) => /\ Single(Assigned(c), EcdsaMerged(c, cap))
                                                 /\ \A half : Single(Assigned(c), Turned(c, cap, half))
<1>1. Single(Assigned(c), Defaults(c))
  <2>1. Defaults(c) \in {{Setting(<<>>, f, "yes") : f \in {"perform_ctr_tests", "dulen_matches_paylen"}}, {Blank},
                         X942Defaults, {}}
    BY Zenon DEF Defaults
  <2>2. ASSUME NEW s, NEW t, NEW d, d = {Setting(<<>>, f, "yes") : f \in {"perform_ctr_tests", "dulen_matches_paylen"}},
               s \in d, t \in d, s.field = t.field
        PROVE  s = t
    BY <2>2 DEF Setting
  <2>. QED BY <2>1, <2>2 DEF Single, X942Defaults
<1>2. ASSUME NEW cap, Single(Assigned(c), cap) PROVE Single(Assigned(c), EcdsaMerged(c, cap))
  <2>1. CASE c \notin cap_ecdsa_sig
    BY <1>2, <2>1, MergedRest
  <2>2. CASE c \in cap_ecdsa_sig
    <3>. DEFINE A == {"revision", "component"}
                B == {"entry", "secret_gen_modes"} \cup (IF c \in cap_ecdsa_sig THEN {"hash_algs", "algs", "place", "again"} ELSE {})
    <3>1. Tames(Setters(c), A, B)
      BY <2>2, EcdsaFamily, EcdsaTame
    <3>2. A \cap (B \cup {"entry", "prereq", "has_prereq"}) = {} /\ "algs" \notin A
      OBVIOUS
    <3>. HIDE DEF A, B
    <3>a. Orderly(c, A, B \cup {"entry", "prereq", "has_prereq"})
      BY <3>1, <3>2, OrderlyTame
    <3>b. Assigned(c) \subseteq A
      BY <3>a, AssignedSorted
    <3>3. "algs" \notin Assigned(c)
      BY <3>2, <3>b
    <3>. QED BY <1>2, <3>3, MergedRest DEF Single
  <2>. QED BY <2>1, <2>2
<1>3. ASSUME NEW cap, Single(Assigned(c), cap), NEW half PROVE Single(Assigned(c), Turned(c, cap, half))
  <2>1. \A s, t \in Turned(c, cap, half) : s.field = TurnedField(c) /\ t.field = TurnedField(c) => s = t
    BY DEF Turned, TurnedField, Fields
  <2>. QED BY <1>3, <2>1, TurnedRest DEF Single
<1>. QED BY <1>1, <1>2, <1>3

----------------------------------------------------------------------------
(* The modes of KDF108.                                                    *)

\* Rows that set nothing but their field, and entries.
Mere(r)  == DOMAIN r = RowFields /\ r.gives = {} /\ r.leaves = {} /\ r.loses = {}
Meres(R) == \A r \in R : Mere(r)

\* Those of the tables, and their variants, are such.
LEMMA MereRows ==
  /\ \A F : Meres(Adds(F)) /\ Meres(Flags(F)) /\ Meres(Ranges(F))
  /\ \A R, x, y : Meres(R) => Meres(Taking(R, x)) /\ Meres(Trying(R, x)) /\ Meres(In(x, R)) /\ Meres(Early(y, x, R))
<1>1. \A f, h, t : Mere(Row(f, h, t))
  BY DEF Row, RowFields, Mere
<1>2. \A q, x, y : Mere(q) => /\ Mere([q EXCEPT !.takes = x]) /\ Mere([q EXCEPT !.tries = x]) /\ Mere([q EXCEPT !.at = x])
                              /\ Mere([q EXCEPT !.at = x, !.early = y])
  BY DEF RowFields, Mere
<1>3. \A F : Meres(Adds(F)) /\ Meres(Flags(F)) /\ Meres(Ranges(F))
  BY <1>1, Zenon DEF Adds, Flags, Ranges, Meres
<1>4. ASSUME NEW R, NEW x, NEW y, Meres(R)
      PROVE  Meres(Taking(R, x)) /\ Meres(Trying(R, x)) /\ Meres(In(x, R)) /\ Meres(Early(y, x, R))
  <2>1. \A q \in R : /\ Mere([q EXCEPT !.takes = x]) /\ Mere([q EXCEPT !.tries = x]) /\ Mere([q EXCEPT !.at = x])
                      /\ Mere([q EXCEPT !.at = x, !.early = y])
    BY <1>2, <1>4 DEF Meres
  <2>. QED BY <2>1, Zenon DEF Taking, Trying, In, Early, Meres
<1>. QED BY <1>3, <1>4

\* The setters of KDF108 are such.
LEMMA Kdf108Mere ==
  ASSUME NEW c, c = "KDF108"
  PROVE  Meres(Setters(c))
<1>1. Meres(acvp_cap_kdf108_set_parm(c))
  <2>. DEFINE adds == Adds({"mac_mode", "counter_lens", "data_order", "supported_lens.values",
                            "derivation_keylens.values", "derived_keylens.values", "context_lens.values",
                            "label_lens.values"})
              plain == adds \cup Flags({"empty_iv_support"}) \cup Taking(Flags({"requires_empty_iv"}), {})
              need(m) == {Setting(m, "empty_iv_support", "yes")}
              X(m) == Early(1, {m}, {[r EXCEPT !.needs = need(m), !.tries = {}] : r \in Flags({"requires_empty_iv"})})
  <2>1. Meres(In(Modes108, plain))
    <3>1. Meres(Taking(Flags({"requires_empty_iv"}), {})) /\ Meres(adds) /\ Meres(Flags({"empty_iv_support"}))
      BY MereRows
    <3>. HIDE DEF adds
    <3>2. Meres(plain)
      BY <3>1, Zenon DEF Meres
    <3>. QED BY <3>2, MereRows
  <2>2. Meres(Early(1, Modes108, Trying(Taking(Adds({"mac_mode"}), {}), {"other"})))
    BY MereRows
  <2>3. \A m : Meres(X(m))
    <3>1. \A q, x : Mere(q) => Mere([q EXCEPT !.needs = x, !.tries = {}])
      BY DEF RowFields, Mere
    <3>2. \A r \in Flags({"requires_empty_iv"}) : Mere(r)
      BY MereRows DEF Meres
    <3>. HIDE DEF need
    <3>3. \A m : \A r \in Flags({"requires_empty_iv"}) : Mere([r EXCEPT !.needs = need(m), !.tries = {}])
      BY <3>1, <3>2
    <3>4. \A m : Meres({[r EXCEPT !.needs = need(m), !.tries = {}] : r \in Flags({"requires_empty_iv"})})
      BY <3>3, Zenon DEF Meres
    <3>. QED BY <3>4, MereRows
  <2>4. acvp_cap_kdf108_set_parm(c) = In(Modes108, plain)
          \cup Early(1, Modes108, Trying(Taking(Adds({"mac_mode"}), {}), {"other"})) \cup UNION {X(m) : m \in Modes108}
    BY Zenon DEF acvp_cap_kdf108_set_parm, acvp_validate_kdf108_param_value
  <2>. HIDE DEF X, plain
  <2>. QED BY <2>1, <2>2, <2>3, <2>4, Zenon DEF Meres
<1>2. Meres(acvp_cap_kdf108_set_domain(c))
  <2>1. Meres(In(Modes108, Trying(Ranges({"supported_lens"} \cup KmacLens), {"odd", "rev"})))
    BY MereRows
  <2>2. Meres(Early(1, Modes108, Trying(Taking(Ranges({"counter_lens"}), {}), {"v1"})))
    BY MereRows
  <2>. QED BY <2>1, <2>2, Zenon DEF Meres, acvp_cap_kdf108_set_domain, acvp_validate_kdf108_param_value
<1>. QED BY <1>1, <1>2, Kdf108Kind DEF Meres

\* A mode in which something is set is enabled.
ModesFit(cap) == \A s \in cap : s.at # <<>> => Entry(s.at) \in cap

\* Every call leaves it so, and keeps the entries.
LEMMA ModesKept ==
  ASSUME NEW c, c = "KDF108", NEW r \in Rows(c), NEW cap, ModesFit(cap), NEW at, NEW v
  PROVE  /\ ModesFit(After(r, cap, at, v))
         /\ \A y : Entry(y) \in cap => Entry(y) \in After(r, cap, at, v)
<1>. DEFINE new == After(r, cap, at, v)
            x == Setting(Place(r, at), r.field, v)
            old == IF r.how \in {"assign", "range"} THEN {s \in cap : s.at = Place(r, at) /\ s.field = r.field} ELSE {}
<1>1. /\ r.gives = {} /\ r.loses = {} /\ r.drops = {} /\ r.alone = "no"
      /\ \A s \in r.leaves : s.at = <<>>
      /\ r.takes # {} /\ r.how \in {"assign", "range"} => r.field # "entry"
  <2>1. CASE r \in Setters(c)
    <3>1. Mere(r)
      BY <2>1, Kdf108Mere DEF Meres
    <3>2. Gentle(r, Kdf108Assigned, Kdf108Collected) \/ Inert(r, Kdf108Collected)
      BY Kdf108Orderly
    <3>3. "entry" \notin Kdf108Assigned
      BY DEF Kdf108Assigned
    <3>. QED BY <3>1, <3>2, <3>3 DEF Mere, Gentle, Inert, Sorted
  <2>2. CASE r \in acvp_cap_set_prereq(c)
    <3>1. PrereqRow(r, c) /\ HasPrereq.at = <<>>
      BY <2>2, PrereqTable DEF HasPrereq, Setting
    <3>. QED BY <3>1 DEF PrereqRow
  <2>. QED BY <2>1, <2>2 DEF Rows
<1>2. \A y : Entry(y).at = y /\ Entry(y).field = "entry"
  BY DEF Entry, Setting
<1>3. \A s \in Created(r, at) : \E y : s = Entry(y)
  BY DEF Created
<1>4. CASE Barred(r, cap, at) \/ Ignored(r, cap, v)
  BY <1>4 DEF After
<1>5. CASE ~(Barred(r, cap, at) \/ Ignored(r, cap, v)) /\ ~Passes(r, cap, at, v)
  <2>1. new = cap \cup (Created(r, at) \cup r.leaves)
    BY <1>1, <1>5 DEF After, Displaced
  <2>. HIDE DEF new
  <2>. QED BY <1>1, <1>2, <1>3, <2>1 DEF ModesFit, new
<1>6. CASE ~(Barred(r, cap, at) \/ Ignored(r, cap, v)) /\ Passes(r, cap, at, v)
  <2>1. new = (cap \ old) \cup Created(r, at) \cup (IF at = <<>> THEN {} ELSE {Entry(at)}) \cup {x}
    BY <1>1, <1>6 DEF After, Displaced, Set
  <2>2. \A s \in old : s.field # "entry"
    BY <1>1, <1>6 DEF Passes
  <2>3. x.at = at \/ x.at = <<>>
    BY DEF Setting, Place
  <2>. HIDE DEF new, x, old
  <2>4. \A y : Entry(y) \in cap => Entry(y) \in new
    BY <1>2, <2>1, <2>2
  <2>5. ASSUME NEW s \in new, s.at # <<>> PROVE Entry(s.at) \in new
    <3>1. CASE s \in cap
      BY <2>4, <2>5, <3>1 DEF ModesFit
    <3>2. CASE s \in Created(r, at) \/ (at # <<>> /\ s = Entry(at))
      BY <1>2, <1>3, <2>5, <3>2
    <3>3. CASE s = x
      BY <2>1, <2>3, <2>5, <3>3
    <3>. QED BY <2>1, <2>5, <3>1, <3>2, <3>3
  <2>. QED BY <2>4, <2>5 DEF ModesFit, new
<1>. QED BY <1>4, <1>5, <1>6

----------------------------------------------------------------------------
(* Every capability is well-formed.                                        *)

\* What a setter or the builder makes of a capability.
Made(c, a, b) ==
  \/ \E row \in Rows(c) : \E at \in row.at, v \in Tries(row) : b = After(row, a, at, v)
  \/ b = EcdsaMerged(c, a)
  \/ /\ c \in Twofold
     /\ \E half : \E y \in {a, Turned(c, a, "first")} : b = Turned(c, EcdsaMerged(c, y), half)

\* Every step leaves caps_list, adds to it or changes one capability of it so.
LEMMA CapChanges ==
  ASSUME ListInv, RestoreInv, [Next]_vars
  PROVE  \/ caps_list' = caps_list
         \/ \E c \in Enabled : caps_list' = Append(caps_list, [cipher |-> c, cap |-> Defaults(c)])
         \/ \E i \in 1..Len(caps_list) : \E cap :
              caps_list' = Put(caps_list, i, cap) /\ Made(caps_list[i].cipher, caps_list[i].cap, cap)
<1>1. CASE \E c \in Enabled : acvp_cap_list_append(c)
  BY <1>1 DEF acvp_cap_list_append
<1>2. CASE \E i \in 1..Len(caps_list) : \E row \in Rows(caps_list[i].cipher) :
             /\ Applies(row, caps_list[i].cap)
             /\ \E at \in row.at, v \in Tries(row) : SetParameter(i, row, at, v)
  <2>0. PICK i \in 1..Len(caps_list) : \E row \in Rows(caps_list[i].cipher) :
          \E at \in row.at, v \in Tries(row) : SetParameter(i, row, at, v)
    BY <1>2
  <2>1. PICK row \in Rows(caps_list[i].cipher) : \E at \in row.at, v \in Tries(row) : SetParameter(i, row, at, v)
    BY <2>0
  <2>2. PICK at \in row.at, v \in Tries(row) : SetParameter(i, row, at, v)
    BY <2>1
  <2>3. caps_list' = Put(caps_list, i, After(row, caps_list[i].cap, at, v))
    BY <2>2 DEF SetParameter, Put
  <2>4. Made(caps_list[i].cipher, caps_list[i].cap, After(row, caps_list[i].cap, at, v))
    BY Zenon DEF Made
  <2>. QED BY <2>3, <2>4
<1>3. CASE BuildOnly \/ BuildFirst \/ BuildSecond
  <2>. DEFINE c == caps_list[idx].cipher
              b == caps_list[idx].cap
  <2>1. PICK i \in 1..Len(caps_list) : i = idx
    BY <1>3 DEF BuildOnly, BuildFirst, BuildSecond, ListInv
  <2>3. BuildFirst \/ BuildSecond => c \in Twofold
    <3>1. BuildFirst => c \in Twofold
      BY BothTwofold DEF BuildFirst
    <3>2. ASSUME BuildSecond PROVE c \in Twofold
      <4>1. begun # <<>> /\ Halfway(i)
        BY <2>1, <3>2 DEF BuildSecond, ListInv, Halfway
      <4>2. HalfKept(begun[i], caps_list[i])
        BY <4>1 DEF RestoreInv
      <4>. QED BY <2>1, <4>2 DEF HalfKept
    <3>. QED BY <3>1, <3>2
  <2>4. CASE BuildOnly
    <3>1. caps_list' = Put(caps_list, i, EcdsaMerged(c, b))
      BY <2>1, <2>4 DEF BuildOnly, Stores, Put
    <3>. QED BY <2>1, <3>1 DEF Made
  <2>5. CASE BuildFirst \/ BuildSecond
    <3>1. PICK y, h : /\ caps_list' = Put(caps_list, i, Turned(c, EcdsaMerged(c, y), h))
                      /\ y = b \/ y = Turned(c, b, "first")
      BY <2>1, <2>5 DEF BuildFirst, BuildSecond, Stores, Put
    <3>. HIDE DEF c, b
    <3>2. Made(c, b, Turned(c, EcdsaMerged(c, y), h))
      BY <2>3, <2>5, <3>1, Zenon DEF Made
    <3>. QED BY <2>1, <3>1, <3>2 DEF c, b
  <2>. QED BY <1>3, <2>4, <2>5
<1>4. (\E c \in Enabled : SetWithout(c)) \/ acvp_build_registration_json \/ BuildKmac \/ BuildModes \/ UNCHANGED vars
        => UNCHANGED caps_list
  BY DEF SetWithout, acvp_build_registration_json, BuildKmac, BuildModes, vars
<1>. QED BY <1>1, <1>2, <1>3, <1>4, RegisterSteps DEF Calls

\* Well-formed: what calls make of a capability.
WellInv == \A i \in 1..Len(caps_list) : WellFormed(caps_list[i].cipher, caps_list[i].cap)

\* The parts of being well-formed.
LEMMA WellParts ==
  ASSUME NEW c, NEW cap
  PROVE  WellFormed(c, cap) <=> /\ FieldsFit(c, cap) /\ Single(Assigned(c), cap)
                                /\ c = "KDF108" => ModesFit(cap)
BY DEF WellFormed, FieldsFit, Single, ModesFit

\* A new capability is, and whatever is made of one that is.
LEMMA WellMade ==
  ASSUME NEW c \in Ciphers
  PROVE  /\ WellFormed(c, Defaults(c))
         /\ \A a, b : WellFormed(c, a) /\ Made(c, a, b) => WellFormed(c, b)
<1>1. WellFormed(c, Defaults(c))
  <2>1. FieldsFit(c, Defaults(c))
    BY Zenon DEF FieldsFit, Settable
  <2>2. c = "KDF108" => Defaults(c) = {}
    BY DEF Defaults, cap_sym, cap_aes, cap_tdes, cap_rsa_sig
  <2>. QED BY <2>1, <2>2, SingleBuilt, WellParts DEF ModesFit
<1>2. ASSUME NEW a, WellFormed(c, a)
      PROVE  /\ WellFormed(c, EcdsaMerged(c, a))
             /\ c \in Twofold => \A half : WellFormed(c, Turned(c, a, half))
  <2>1. c = "KDF108" => c \notin Twofold /\ c \notin cap_ecdsa_sig
    BY DEF Twofold, cap_ecdsa_sig
  <2>. QED BY <1>2, <2>1, BuiltFits, SingleBuilt, WellParts, MergedRest
<1>3. ASSUME NEW a, WellFormed(c, a), NEW row \in Rows(c), NEW at \in row.at, NEW v
      PROVE  WellFormed(c, After(row, a, at, v))
  <2>1. PICK A, B : Orderly(c, A, B)
    BY AllOrdered DEF Ordered
  <2>2. FieldsFit(c, a) /\ Single(Assigned(c), a) /\ (c = "KDF108" => ModesFit(a))
    BY <1>3, WellParts
  <2>3. FieldsFit(c, After(row, a, at, v))
    BY <2>2, AfterFits
  <2>4. Single(Assigned(c), After(row, a, at, v))
    BY <2>1, <2>2, SingleKept
  <2>5. c = "KDF108" => ModesFit(After(row, a, at, v))
    BY <2>2, ModesKept
  <2>. QED BY <2>3, <2>4, <2>5, WellParts
<1>4. ASSUME NEW a, NEW b, WellFormed(c, a), Made(c, a, b) PROVE WellFormed(c, b)
  <2>1. CASE \E row \in Rows(c) : \E at \in row.at, v \in Tries(row) : b = After(row, a, at, v)
    BY <1>3, <1>4, <2>1
  <2>2. CASE b = EcdsaMerged(c, a)
    BY <1>2, <1>4, <2>2
  <2>3. CASE c \in Twofold /\ \E half : \E y \in {a, Turned(c, a, "first")} : b = Turned(c, EcdsaMerged(c, y), half)
    <3>1. PICK half : \E y \in {a, Turned(c, a, "first")} : b = Turned(c, EcdsaMerged(c, y), half)
      BY <2>3
    <3>2. PICK y \in {a, Turned(c, a, "first")} : b = Turned(c, EcdsaMerged(c, y), half)
      BY <3>1
    <3>3. WellFormed(c, y)
      BY <1>2, <1>4, <2>3, <3>2
    <3>. QED BY <1>2, <2>3, <3>2, <3>3
  <2>. QED BY <1>4, <2>1, <2>2, <2>3 DEF Made
<1>. QED BY <1>1, <1>4

\* So a step leaves them well-formed.
LEMMA WellStep ==
  ASSUME ListInv, CipherInv, RestoreInv, WellInv, [Next]_vars
  PROVE  WellInv'
<1>. DEFINE Fine(y) == WellFormed(y.cipher, y.cap)
<1>0. Len(caps_list) \in Nat /\ IsList(caps_list)
  BY ListFacts DEF ListInv
<1>a. \A i \in 1..Len(caps_list) : Fine(caps_list[i]) /\ caps_list[i].cipher \in Ciphers
  BY DEF WellInv, CipherInv
<1>1. CASE \E c \in Enabled : caps_list' = Append(caps_list, [cipher |-> c, cap |-> Defaults(c)])
  <2>1. PICK c \in Enabled : caps_list' = Append(caps_list, [cipher |-> c, cap |-> Defaults(c)])
    BY <1>1
  <2>. DEFINE new == [cipher |-> c, cap |-> Defaults(c)]
  <2>2. Fine(new)
    BY WellMade, EnabledAssumption
  <2>. HIDE DEF new
  <2>3. /\ Len(caps_list') = Len(caps_list) + 1
        /\ \A j \in 1..Len(caps_list) : caps_list'[j] = caps_list[j]
        /\ caps_list'[Len(caps_list) + 1] = new
    BY <1>0, <2>1, AppendList DEF new
  <2>4. \A j \in 1..(Len(caps_list) + 1) : Fine(caps_list'[j])
    BY <1>0, <1>a, <2>2, <2>3
  <2>. QED BY <2>3, <2>4 DEF WellInv
<1>2. CASE \E i \in 1..Len(caps_list) : \E cap :
             caps_list' = Put(caps_list, i, cap) /\ Made(caps_list[i].cipher, caps_list[i].cap, cap)
  <2>0. PICK i \in 1..Len(caps_list) : \E cap :
             caps_list' = Put(caps_list, i, cap) /\ Made(caps_list[i].cipher, caps_list[i].cap, cap)
    BY <1>2
  <2>1. PICK cap : caps_list' = Put(caps_list, i, cap) /\ Made(caps_list[i].cipher, caps_list[i].cap, cap)
    BY <2>0
  <2>2. WellFormed(caps_list[i].cipher, cap)
    BY <1>a, <2>1, WellMade
  <2>3. /\ Len(caps_list') = Len(caps_list)
        /\ \A j \in 1..Len(caps_list) : j # i => caps_list'[j] = caps_list[j]
        /\ caps_list'[i] = [cipher |-> caps_list[i].cipher, cap |-> cap]
    BY <2>1, PutKeeps
  <2>4. Fine(caps_list'[i])
    BY <2>2, <2>3
  <2>. QED BY <1>a, <2>3, <2>4 DEF WellInv
<1>3. CASE caps_list' = caps_list
  BY <1>3 DEF WellInv
<1>. QED BY <1>1, <1>2, <1>3, CapChanges

\* Whatever the order of calls and registrations, a capability holds fields its setters
\* set, an assigned field has one value in a place, and a mode of KDF108 in which
\* something is set is enabled.
THEOREM RegisterWellFormed == Spec => []WellInv
<1>1. Init => WellInv
  BY ContextsAssumption DEF Init, WellInv
<1>2. Init => RestoreInv
  BY DEF Init, RestoreInv
<1>3. ListInv /\ RestoreInv /\ [Next]_vars => RestoreInv'
  BY RestoreStep
<1>4. ListInv /\ CipherInv /\ RestoreInv /\ WellInv /\ [Next]_vars => WellInv'
  BY WellStep
<1>. QED BY <1>1, <1>2, <1>3, <1>4, RegisterLists, RegisterCiphers, PTL DEF Spec

----------------------------------------------------------------------------
(* What the builders of plain ciphers overlook: nothing.                   *)

\* The fields of a cipher are those its setters name, and prerequisites.
LEMMA SettableBound ==
  ASSUME NEW c, NEW A, NEW B, Tames(Setters(c), A, B) \/ Mild(Setters(c), A, B), Defaults(c) = {},
         NEW f \in Settable(c), f # "has_prereq"
  PROVE  f \in A \cup B \/ (f = "prereq" /\ acvp_validate_prereq_val(c) # {})
<1>. DEFINE X(row) == {s.field : s \in row.gives \cup row.leaves}
                        \cup (IF row.takes = {} THEN {} ELSE {row.field})
                        \cup (IF row.at = {<<>>} /\ row.early = 0 THEN {} ELSE {"entry"})
<1>1. PICK r \in Rows(c) : f \in X(r)
  <2>1. Settable(c) = {s.field : s \in Defaults(c)} \cup UNION {X(row) : row \in Rows(c)}
    BY Zenon DEF Settable
  <2>. HIDE DEF X
  <2>2. Settable(c) = UNION {X(row) : row \in Rows(c)}
    BY <2>1
  <2>. QED BY <2>2, Zenon
<1>2. CASE r \in acvp_cap_set_prereq(c)
  <2>1. PrereqRow(r, c) /\ HasPrereq.field = "has_prereq"
    BY <1>2, PrereqTable DEF HasPrereq, Setting
  <2>2. /\ r.gives = {} /\ r.at = {<<>>} /\ r.early = 0 /\ r.field = "prereq"
        /\ \A s \in r.leaves : s.field = "has_prereq"
        /\ r.takes # {} => acvp_validate_prereq_val(c) # {}
    BY <2>1 DEF PrereqRow
  <2>. QED BY <1>1, <2>2
<1>3. CASE r \in Setters(c)
  <2>1. Tame(r, A, B) \/ Idle(r, B)
    BY <1>3 DEF Tames, Mild
  <2>2. /\ r.gives = {} /\ r.leaves = {} /\ r.early = 0
        /\ r.at = {<<>>} \/ "entry" \in B
        /\ r.takes = {} \/ r.field \in A \/ r.field \in B
    BY <2>1 DEF Tame, Idle, Bare, Sorted
  <2>. QED BY <1>1, <2>2
<1>. QED BY <1>2, <1>3 DEF Rows

\* A capability of a plain cipher has no defaults.
LEMMA PlainDefaults == \A c \in Plain : Defaults(c) = {}
<1>1. SUFFICES ASSUME NEW c \in Plain PROVE Defaults(c) = {}
  OBVIOUS
<1>2. c \notin cap_sym
  BY DEF Plain, cap_sym, cap_aes, cap_tdes, cap_hash, cap_sha2, cap_sha3, cap_shake, cap_hmac, cap_kmac, cap_ecdsa,
         cap_ecdsa_sig, cap_kdf, cap_safe_primes, cap_lms
<1>3. c \notin cap_rsa_sig \cup {"RSA_KEYGEN"} /\ c # "KDF135_X942"
  BY DEF Plain, cap_rsa_sig, cap_hash, cap_sha2, cap_sha3, cap_shake, cap_hmac, cap_kmac, cap_ecdsa,
         cap_ecdsa_sig, cap_kdf, cap_safe_primes, cap_lms
<1>. QED BY <1>2, <1>3, Zenon DEF Defaults

\* Nor has a hash prerequisites.
LEMMA HashPrereqs == \A c \in cap_hash : acvp_validate_prereq_val(c) = {}
<1>1. SUFFICES ASSUME NEW c \in cap_hash PROVE acvp_validate_prereq_val(c) = {}
  OBVIOUS
<1>2. c \notin cap_aes \cup cap_tdes
  BY DEF cap_aes, cap_tdes, cap_hash, cap_sha2, cap_sha3, cap_shake
<1>3. c \notin cap_hmac \cup cap_cmac \cup cap_kmac \cup cap_drbg
  BY DEF cap_hmac, cap_cmac, cap_kmac, cap_drbg, cap_hash, cap_sha2, cap_sha3, cap_shake
<1>4. c \notin cap_pubkey \cup cap_kdf
  BY DEF cap_pubkey, cap_dsa, cap_ecdsa, cap_ecdsa_sig, cap_eddsa, cap_rsa_sig, cap_rsa_prim, cap_kdf,
         cap_hash, cap_sha2, cap_sha3, cap_shake
<1>5. c \notin cap_kas_ecc \cup cap_kas_ffc \cup cap_kda \cup cap_safe_primes \cup cap_lms \cup {"KAS_IFC_SSC", "KTS_IFC"}
  BY DEF cap_kas_ecc, cap_kas_ffc, cap_kda, cap_safe_primes, cap_lms, cap_hash, cap_sha2, cap_sha3, cap_shake
<1>. QED BY <1>2, <1>3, <1>4, <1>5
     DEF acvp_validate_prereq_val, cap_tdes, cap_cmac, cap_drbg, cap_kdf, cap_kas_ecc, cap_kda

\* A sensible value of a plain cipher is not left out by its builder.
LEMMA PlainBuilder ==
  ASSUME NEW c \in Plain, c \notin cap_ecdsa, NEW cap, FieldsFit(c, cap), NEW s \in cap, s.value \in Good \cup Flag,
         s.field \notin {"prereq", "has_prereq", "specific_list"}
  PROVE  s \in Builder(c, cap)
<1>1. s.field \in Settable(c) /\ s.value # "zero" /\ Defaults(c) = {}
  BY PlainDefaults DEF FieldsFit, Good, Flag
<1>2. CASE c \in cap_hash
  <2>. DEFINE A == (IF c \in cap_sha3 \cup cap_shake THEN {"in_bit", "in_empty"} ELSE {}) \cup (IF c \in cap_shake THEN {"out_bit", "out_len"} ELSE {"msg_length"})
              B == IF c \in cap_shake THEN {} ELSE {"large_lens"}
  <2>1. Tames(Setters(c), A, B)
    BY <1>2, HashTame
  <2>. HIDE DEF A, B
  <2>2. s.field \in A \cup B
    BY <1>1, <2>1, SettableBound
  <2>3. s \in acvp_build_hash_register_cap(c, cap)
    BY <1>1, <1>2, <2>2 DEF A, B, acvp_build_hash_register_cap, Fields
  <2>. QED BY <1>2, <2>3, HashKind
<1>3. CASE c \in cap_hmac
  <2>. DEFINE A == {"key_len", "mac_len"}
              B == {"key_len.values", "mac_len.values"}
  <2>1. Tames(Setters(c), A, B)
    BY <1>3, HmacTame
  <2>. HIDE DEF A, B
  <2>2. s.field \in A \cup B
    BY <1>1, <2>1, SettableBound
  <2>3. s \in acvp_build_hmac_register_cap(c, cap)
    BY <1>1, <1>3, <2>2 DEF A, B, acvp_build_hmac_register_cap, Fields, Spanned
  <2>. QED BY <1>3, <2>3, HmacKind
<1>4. CASE c \in cap_kmac
  <2>. DEFINE A == {"xof", "hex_customization", "mac_len", "msg_len", "key_len"}
              B == {}
  <2>1. Tames(Setters(c), A, B)
    BY <1>4, KmacTame
  <2>. HIDE DEF A, B
  <2>2. s.field \in A \cup B
    BY <1>1, <2>1, SettableBound
  <2>3. s \in acvp_build_kmac_register_cap(c, cap)
    BY <1>1, <1>4, <2>2 DEF A, B, acvp_build_kmac_register_cap, Fields
  <2>. QED BY <1>4, <2>3, KmacKind
<1>5. CASE c = "CMAC_AES"
  <2>. DEFINE A == {"msg_len", "mac_len", "direction_gen", "direction_ver"}
              B == {"msg_len.values", "mac_len.values", "key_len"} \cup (IF c = "CMAC_TDES" THEN {"keying_option"} ELSE {})
  <2>1. Tames(Setters(c), A, B)
    BY <1>5, CmacTame DEF cap_cmac
  <2>. HIDE DEF A, B
  <2>2. s.field \in A \cup B
    BY <1>1, <2>1, SettableBound
  <2>3. s \in acvp_build_cmac_register_cap(c, cap)
    BY <1>1, <1>5, <2>2 DEF A, B, acvp_build_cmac_register_cap, Fields, Spanned, cap_cmac
  <2>. QED BY <1>5, <2>3, CmacKind DEF cap_cmac
<1>6. CASE c = "KDF135_SNMP"
  <2>. DEFINE A == {}
              B == {"pass_lens", "eng_ids"}
  <2>1. Tames(Setters(c), A, B)
    BY <1>6, SnmpTame
  <2>. HIDE DEF A, B
  <2>2. s.field \in A \cup B
    BY <1>1, <2>1, SettableBound
  <2>3. s \in acvp_build_kdf135_snmp_register_cap(c, cap)
    BY <1>1, <1>6, <2>2 DEF A, B, acvp_build_kdf135_snmp_register_cap, Fields
  <2>. QED BY <1>6, <2>3, SnmpKind
<1>7. CASE c = "KDF135_SSH"
  <2>. DEFINE A == {}
              B == {"entry", "sha"}
  <2>1. Tames(Setters(c), A, B)
    BY <1>7, SshTame
  <2>. HIDE DEF A, B
  <2>2. s.field \in A \cup B
    BY <1>1, <2>1, SettableBound
  <2>3. s \in acvp_build_kdf135_ssh_register_cap(c, cap)
    BY <1>1, <1>7, <2>2 DEF A, B, acvp_build_kdf135_ssh_register_cap, Fields
  <2>. QED BY <1>7, <2>3, SshKind
<1>8. CASE c = "KDF135_SRTP"
  <2>. DEFINE A == {"supports_zero_kdr"}
              B == {"aes_keylens", "kdr_exp"}
  <2>1. Tames(Setters(c), A, B)
    BY <1>8, SrtpTame
  <2>. HIDE DEF A, B
  <2>2. s.field \in A \cup B
    BY <1>1, <2>1, SettableBound
  <2>3. s \in acvp_build_kdf135_srtp_register_cap(c, cap)
    BY <1>1, <1>8, <2>2 DEF A, B, acvp_build_kdf135_srtp_register_cap, Fields
  <2>. QED BY <1>8, <2>3, SrtpKind
<1>9. CASE c = "KDF135_IKEV2"
  <2>. DEFINE A == {"init_nonce_len", "respond_nonce_len", "dh_secret_len", "key_material_len"}
              B == {"hash_algs", "init_nonce_len.values", "respond_nonce_len.values", "dh_secret_len.values", "key_material_len.values"}
  <2>1. Tames(Setters(c), A, B)
    BY <1>9, Ikev2Tame
  <2>. HIDE DEF A, B
  <2>2. s.field \in A \cup B
    BY <1>1, <2>1, SettableBound
  <2>3. s \in acvp_build_kdf135_ikev2_register_cap(c, cap)
    BY <1>1, <1>9, <2>2 DEF A, B, acvp_build_kdf135_ikev2_register_cap, Fields, IkeRanges
  <2>. QED BY <1>9, <2>3, Ikev2Kind
<1>10. CASE c = "KDF135_IKEV1"
  <2>. DEFINE A == {"init_nonce_len", "respond_nonce_len", "dh_secret_len", "psk_len", "auth_method"}
              B == {"hash_algs"}
  <2>1. Tames(Setters(c), A, B)
    BY <1>10, Ikev1Tame
  <2>. HIDE DEF A, B
  <2>2. s.field \in A \cup B
    BY <1>1, <2>1, SettableBound
  <2>3. s \in acvp_build_kdf135_ikev1_register_cap(c, cap)
    BY <1>1, <1>10, <2>2 DEF A, B, acvp_build_kdf135_ikev1_register_cap, Fields, IkeRanges
  <2>. QED BY <1>10, <2>3, Ikev1Kind
<1>11. CASE c = "KDF135_X963"
  <2>. DEFINE A == {}
              B == {"hash_algs", "key_data_lengths", "field_sizes", "shared_info_lengths"}
  <2>1. Tames(Setters(c), A, B)
    BY <1>11, X963Tame
  <2>. HIDE DEF A, B
  <2>2. s.field \in A \cup B
    BY <1>1, <2>1, SettableBound
  <2>3. s \in acvp_build_kdf135_x963_register_cap(c, cap)
    BY <1>1, <1>11, <2>2 DEF A, B, acvp_build_kdf135_x963_register_cap, Fields
  <2>. QED BY <1>11, <2>3, X963Kind
<1>12. CASE c = "PBKDF"
  <2>. DEFINE A == {"iteration_count_domain", "key_len_domain", "password_len_domain", "salt_len_domain"}
              B == {"hmac_algs"}
  <2>1. Tames(Setters(c), A, B)
    BY <1>12, PbkdfTame
  <2>. HIDE DEF A, B
  <2>2. s.field \in A \cup B
    BY <1>1, <2>1, SettableBound
  <2>3. s \in acvp_build_pbkdf_register_cap(c, cap)
    BY <1>1, <1>12, <2>2 DEF A, B, acvp_build_pbkdf_register_cap, Fields
  <2>. QED BY <1>12, <2>3, PbkdfKind
<1>13. CASE c = "KDF_TLS12"
  <2>. DEFINE A == {}
              B == {"hash_algs"}
  <2>1. Tames(Setters(c), A, B)
    BY <1>13, Tls12Tame
  <2>. HIDE DEF A, B
  <2>2. s.field \in A \cup B
    BY <1>1, <2>1, SettableBound
  <2>3. s \in acvp_build_kdf_tls12_register_cap(c, cap)
    BY <1>1, <1>13, <2>2 DEF A, B, acvp_build_kdf_tls12_register_cap, Fields
  <2>. QED BY <1>13, <2>3, Tls12Kind
<1>14. CASE c = "KDF_TLS13"
  <2>. DEFINE A == {}
              B == {"hmac_algs", "running_mode"}
  <2>1. Tames(Setters(c), A, B)
    BY <1>14, Tls13Tame
  <2>. HIDE DEF A, B
  <2>2. s.field \in A \cup B
    BY <1>1, <2>1, SettableBound
  <2>3. s \in acvp_build_kdf_tls13_register_cap(c, cap)
    BY <1>1, <1>14, <2>2 DEF A, B, acvp_build_kdf_tls13_register_cap, Fields
  <2>. QED BY <1>14, <2>3, Tls13Kind
<1>15. CASE c = "KAS_IFC_SSC"
  <2>. DEFINE A == {"hash", "fixed_pub_exp"}
              B == {"kas1_roles", "kas2_roles", "keygen_method", "modulo"}
  <2>1. Mild(Setters(c), A, B)
    BY <1>15, KasIfcMild
  <2>. HIDE DEF A, B
  <2>2. s.field \in A \cup B
    BY <1>1, <2>1, SettableBound
  <2>3. s \in acvp_build_kas_ifc_register_cap(c, cap)
    BY <1>1, <1>15, <2>2 DEF A, B, acvp_build_kas_ifc_register_cap, Fields
  <2>. QED BY <1>15, <2>3, KasIfcKind
<1>16. CASE c \in cap_safe_primes
  <2>. DEFINE A == {}
              B == {"entry", "genmeth"}
  <2>1. Tames(Setters(c), A, B)
    BY <1>16, SafePrimesTame
  <2>. HIDE DEF A, B
  <2>2. s.field \in A \cup B
    BY <1>1, <2>1, SettableBound
  <2>3. s \in acvp_build_safe_primes_register_cap(c, cap)
    BY <1>1, <1>16, <2>2 DEF A, B, acvp_build_safe_primes_register_cap, Fields
  <2>. QED BY <1>16, <2>3, SafePrimesKind
<1>17. CASE c \in cap_lms
  <2>. DEFINE A == {}
              B == {"lms_modes", "lmots_modes", "specific_list"}
  <2>1. Mild(Setters(c), A, B)
    BY <1>17, LmsMild
  <2>. HIDE DEF A, B
  <2>2. s.field \in A \cup B
    BY <1>1, <2>1, SettableBound
  <2>3. s \in acvp_build_lms_register_cap(c, cap)
    BY <1>1, <1>17, <2>2 DEF A, B, acvp_build_lms_register_cap, Fields
  <2>. QED BY <1>17, <2>3, LmsKind
<1>. QED BY <1>2, <1>3, <1>4, <1>5, <1>6, <1>7, <1>8, <1>9, <1>10, <1>11, <1>12, <1>13, <1>14, <1>15, <1>16, <1>17 DEF Plain, cap_kdf

\* Nor does the one of ECDSA leave anything out, but for hashes of a curve that was set
\* once more: a hash for all curves is merged into each.
LEMMA EcdsaSent ==
  ASSUME NEW c \in cap_ecdsa, NEW cap, FieldsFit(c, cap), NEW s \in cap,
         s.field \notin {"has_prereq", "place", "again"}, ~OfRepeated(c, cap, s)
  PROVE  s \in Object(c, cap)
<1>. DEFINE A == {"revision", "component"}
            B == {"entry", "secret_gen_modes"} \cup (IF c \in cap_ecdsa_sig THEN {"hash_algs", "algs", "place", "again"} ELSE {})
            merged == EcdsaMerged(c, cap)
<1>1. s.field \in A \cup B \/ s.field = "prereq"
  <2>1. Tames(Setters(c), A, B)
    BY EcdsaTame
  <2>2. c \in Plain /\ s.field \in Settable(c)
    BY DEF Plain, FieldsFit
  <2>3. Defaults(c) = {}
    BY <2>2, PlainDefaults
  <2>. HIDE DEF A, B
  <2>. QED BY <2>1, <2>2, <2>3, SettableBound
<1>2. s \in merged
  BY MergedRest
<1>3. CASE s.field \in {"revision", "component", "entry", "algs", "secret_gen_modes"}
  <2>0. s \notin Overlooked(cap)
    BY <1>1, OverlookedHashes DEF OfRepeated
  <2>1. s \in acvp_build_ecdsa_register_cap(c, cap)
    BY <1>2, <1>3, <2>0 DEF acvp_build_ecdsa_register_cap, Fields
  <2>. QED BY <2>1, EcdsaKind DEF Object
<1>4. CASE s.field = "prereq"
  <2>1. c \notin cap_hash \cup cap_eddsa \cup cap_kas_ecc \cup cap_kas_ffc /\ c # "KDA_TWOSTEP"
    BY DEF cap_ecdsa, cap_ecdsa_sig, cap_eddsa, cap_kas_ecc, cap_kas_ffc, cap_hash, cap_sha2, cap_sha3, cap_shake
  <2>2. s \in acvp_lookup_prereqVals(c, cap)
    BY <1>4, <2>1 DEF acvp_lookup_prereqVals, Fields
  <2>. QED BY <2>2 DEF Object
<1>5. CASE s.field = "hash_algs" /\ c \in cap_ecdsa_sig
  <2>1. s.value \in Values(cap, "hash_algs")
    BY <1>5 DEF Values
  <2>2. \A at \in Entries(cap, 1) : Setting(at, "algs", s.value) \in merged
    <3>1. merged = cap \cup {Setting(at, "algs", v) : at \in Entries(cap, 1), v \in Values(cap, "hash_algs")}
      BY <1>5 DEF EcdsaMerged
    <3>. HIDE DEF merged
    <3>. QED BY <2>1, <3>1
  <2>3. s \in {t \in Fields(cap, {"hash_algs"}) : \A at \in Entries(cap, 1) : Setting(at, "algs", t.value) \in merged}
    BY <1>5, <2>2 DEF Fields
  <2>4. s \in acvp_build_ecdsa_register_cap(c, cap)
    BY <2>3, Zenon DEF acvp_build_ecdsa_register_cap
  <2>. QED BY <2>4, EcdsaKind DEF Object
<1>. QED BY <1>1, <1>3, <1>4, <1>5

\* What a plain cipher sends.
LEMMA PlainRegistered ==
  ASSUME NEW c \in Plain, NEW cap, FieldsFit(c, cap), NEW s \in cap, s.value \in Good \cup Flag,
         s.field \notin {"has_prereq", "specific_list", "place", "again"}, ~OfRepeated(c, cap, s)
  PROVE  s \in Registered(c, cap)
<1>1. CASE c \in cap_ecdsa
  <2>0. c # "KDF108"
    BY <1>1 DEF cap_ecdsa, cap_ecdsa_sig
  <2>1. CASE ~Both(c, cap)
    BY <1>1, <2>0, <2>1, EcdsaSent DEF Registered
  <2>2. CASE Both(c, cap)
    <3>1. c \in Twofold /\ c \notin cap_sym /\ Is(cap, "component", "BOTH")
      BY <1>1, <2>2, BothTwofold, EcdsaFamily DEF Both, cap_ecdsa, cap_ecdsa_sig
    <3>2. s.field # "component"
      <4>1. s.value # "BOTH"
        BY DEF Good, Flag
      <4>. QED BY <3>1, <4>1 DEF Is, Values
    <3>3. s \in Turned(c, cap, "first")
      BY <3>1, <3>2, TurnedRest DEF TurnedField
    <3>4. FieldsFit(c, Turned(c, cap, "first"))
      BY <3>1, BuiltFits
    <3>5. s \in Object(c, Turned(c, cap, "first"))
      <4>1. Setting(s.at, "again", "appended").field # "component"
        BY DEF Setting
      <4>2. Repeated(Turned(c, cap, "first"), s.at) <=> Repeated(cap, s.at)
        BY <3>1, <4>1, TurnedRest DEF TurnedField, Repeated
      <4>3. \A t : t.field \in {"entry", "place"} => (t \in Turned(c, cap, "first") <=> t \in cap)
        BY <3>1, TurnedRest DEF TurnedField
      <4>4. Entries(Turned(c, cap, "first"), 1) = Entries(cap, 1)
        BY <4>3 DEF Entries
      <4>5. \A other : Behind(Turned(c, cap, "first"), s.at, other) <=> Behind(cap, s.at, other)
        BY <4>3 DEF Behind, Setting
      <4>6. ~OfRepeated(c, Turned(c, cap, "first"), s)
        BY <4>2, <4>4, <4>5 DEF OfRepeated
      <4>. QED BY <1>1, <3>3, <3>4, <4>6, EcdsaSent
    <3>. QED BY <2>2, <3>5 DEF Registered
  <2>. QED BY <2>1, <2>2
<1>2. CASE c \notin cap_ecdsa
  <2>1. c \notin Twofold /\ c # "KDF108" /\ c # "KDA_TWOSTEP" /\ c \notin cap_eddsa \cup cap_kas_ecc \cup cap_kas_ffc
    BY <1>2 DEF Twofold, Plain, cap_ecdsa, cap_ecdsa_sig, cap_hash, cap_sha2, cap_sha3, cap_shake, cap_hmac, cap_kmac, cap_kdf,
                cap_safe_primes, cap_lms, cap_eddsa, cap_kas_ecc, cap_kas_ffc
  <2>2. Registered(c, cap) = Object(c, cap)
    BY <2>1, BothTwofold DEF Registered
  <2>3. CASE s.field # "prereq"
    BY <1>2, <2>2, <2>3, PlainBuilder DEF Object
  <2>4. CASE s.field = "prereq"
    <3>1. c \notin cap_hash
      <4>1. SUFFICES ASSUME c \in cap_hash PROVE FALSE
        OBVIOUS
      <4>. DEFINE A == (IF c \in cap_sha3 \cup cap_shake THEN {"in_bit", "in_empty"} ELSE {})
                         \cup (IF c \in cap_shake THEN {"out_bit", "out_len"} ELSE {"msg_length"})
                  B == IF c \in cap_shake THEN {} ELSE {"large_lens"}
      <4>2. "prereq" \notin A \cup B
        OBVIOUS
      <4>3. Tames(Setters(c), A, B)
        BY <4>1, HashTame
      <4>4. s.field \in Settable(c) /\ Defaults(c) = {}
        BY PlainDefaults DEF FieldsFit
      <4>. HIDE DEF A, B
      <4>. QED BY <2>4, <4>1, <4>2, <4>3, <4>4, SettableBound, HashPrereqs
    <3>2. s \in acvp_lookup_prereqVals(c, cap)
      BY <2>1, <2>4, <3>1 DEF acvp_lookup_prereqVals, Fields
    <3>. QED BY <2>2, <3>2 DEF Object
  <2>. QED BY <2>3, <2>4
<1>. QED BY <1>1, <1>2

\* For every list of calls, of any length and on any capabilities: a sensible value that
\* a setter of a plain cipher took is in the registration that is built, but for the
\* hashes of a curve that was set once more.
THEOREM RegisterSettings == Spec => []SettingsAreRegistered
<1>1. WellInv => SettingsAreRegistered
  <2>1. SUFFICES ASSUME WellInv, NEW i \in 1..Len(caps_list), caps_list[i].cipher \in Plain,
                        NEW s \in caps_list[i].cap, s.value \in Good \cup Flag,
                        s.field \notin {"has_prereq", "specific_list", "place", "again"},
                        ~OfRepeated(caps_list[i].cipher, caps_list[i].cap, s)
                 PROVE  s \in Registered(caps_list[i].cipher, caps_list[i].cap)
    BY DEF SettingsAreRegistered
  <2>. QED BY <2>1, PlainRegistered, WellParts DEF WellInv
<1>. QED BY <1>1, RegisterWellFormed, PTL

----------------------------------------------------------------------------
(* What an accepted call takes back.                                       *)

\* A call gave a field a value that was not there.
Changed(a, b, f) == \E t \in b \ a : t.field = f

\* What may be gone after a call.
Excused(c, a, b, s) ==
  Replaceable(c, s) \/ OfRepeated(c, b, s) \/ \E t \in b \ a : s.field \in {t.field} \cup RuledBy(t.field)

\* By a change of its field, or of one that rules it.
LEMMA ExcusedBy ==
  ASSUME NEW c, NEW a, NEW b, NEW s, NEW f, Changed(a, b, f), s.field = f \/ s.field \in RuledBy(f)
  PROVE  Excused(c, a, b, s)
BY DEF Excused, Changed

\* A field whose values differ has changed, and one that is set stays set.
LEMMA SwapsValues ==
  ASSUME NEW a, NEW b, Swaps(a, b), NEW f
  PROVE  /\ Values(a, f) # Values(b, f) => Changed(a, b, f)
         /\ Has(a, f) => Has(b, f)
<1>1. \A v, x : v \in Values(x, f) <=> \E s \in x : s.field = f /\ s.value = v
  BY DEF Values
<1>2. ASSUME NEW v, v \in Values(a, f), v \notin Values(b, f) PROVE Changed(a, b, f)
  <2>1. PICK s \in a : s.field = f /\ s.value = v
    BY <1>1, <1>2
  <2>2. s \notin b
    BY <1>1, <1>2, <2>1
  <2>. QED BY <2>1, <2>2 DEF Swaps, Changed
<1>3. ASSUME NEW v, v \in Values(b, f), v \notin Values(a, f) PROVE Changed(a, b, f)
  <2>1. PICK s \in b : s.field = f /\ s.value = v
    BY <1>1, <1>3
  <2>2. s \notin a
    BY <1>1, <1>3, <2>1
  <2>. QED BY <2>1, <2>2 DEF Changed
<1>4. Values(a, f) # Values(b, f) => Changed(a, b, f)
  BY <1>2, <1>3
<1>5. Changed(a, b, f) => Has(b, f)
  <2>1. ASSUME NEW t \in b, t.field = f PROVE t.value \in Values(b, f)
    BY <1>1, <2>1
  <2>. QED BY <2>1 DEF Changed, Has
<1>. QED BY <1>4, <1>5 DEF Has

\* The values of a field in one place, too.
LEMMA SwapsPart ==
  ASSUME NEW a, NEW b, Swaps(a, b), NEW f, NEW p,
         Values({s \in a : s.at = p}, f) # Values({s \in b : s.at = p}, f)
  PROVE  Changed(a, b, f)
<1>. DEFINE At(x) == {s \in x : s.at = p}
<1>1. \A v, x : v \in Values(At(x), f) <=> \E s \in x : s.at = p /\ s.field = f /\ s.value = v
  BY DEF Values
<1>2. ASSUME NEW v, v \in Values(At(a), f), v \notin Values(At(b), f) PROVE Changed(a, b, f)
  <2>1. PICK s \in a : s.at = p /\ s.field = f /\ s.value = v
    BY <1>1, <1>2
  <2>2. s \notin b
    BY <1>1, <1>2, <2>1
  <2>. QED BY <2>1, <2>2 DEF Swaps, Changed
<1>3. ASSUME NEW v, v \in Values(At(b), f), v \notin Values(At(a), f) PROVE Changed(a, b, f)
  <2>1. PICK s \in b : s.at = p /\ s.field = f /\ s.value = v
    BY <1>1, <1>3
  <2>2. s \notin a
    BY <1>1, <1>3, <2>1
  <2>. QED BY <2>1, <2>2 DEF Changed
<1>. HIDE DEF At
<1>. QED BY <1>2, <1>3 DEF At

\* Prerequisites, and their list, stay.
LEMMA PrereqsKept ==
  ASSUME NEW c, c # "KDA_TWOSTEP", NEW a, NEW b, Swaps(a, b), NEW s \in acvp_lookup_prereqVals(c, a)
  PROVE  s \in acvp_lookup_prereqVals(c, b) \/ Excused(c, a, b, s)
<1>1. (Has(a, "prereq") => Has(b, "prereq")) /\ (Has(a, "has_prereq") => Has(b, "has_prereq"))
  BY SwapsValues
<1>2. CASE s \in Fields(a, {"prereq"})
  <2>1. s \in a /\ s.field = "prereq"
    BY <1>2 DEF Fields
  <2>2. CASE s \in b
    <3>1. s \in Fields(b, {"prereq"})
      BY <2>1, <2>2 DEF Fields
    <3>. QED BY <3>1 DEF acvp_lookup_prereqVals
  <2>3. CASE s \notin b
    BY <2>1, <2>3, ExcusedBy DEF Swaps, Changed
  <2>. QED BY <2>2, <2>3
<1>3. CASE s \notin Fields(a, {"prereq"})
  BY <1>1, <1>3 DEF acvp_lookup_prereqVals
<1>. QED BY <1>2, <1>3

\* A setting that is gone: its field changed.
LEMMA LostExcused ==
  ASSUME NEW c, NEW a, NEW b, Swaps(a, b), NEW s \in a, s \notin b
  PROVE  Excused(c, a, b, s)
BY ExcusedBy DEF Swaps, Changed

\* What the builder of a cipher sends is sent after a call, too, or excused.
Keeps(c, a, b) == \A s \in Builder(c, a) : s \in Builder(c, b) \/ Excused(c, a, b, s)

\* A builder that sends settings as they are, whatever else is set.
Steady(c) == \A a, b, s : s \in Builder(c, a) => s \in a /\ (s \in b => s \in Builder(c, b))

\* It keeps what it sends.
LEMMA SteadyKeeps ==
  ASSUME NEW c, Steady(c), NEW a, NEW b, Swaps(a, b)
  PROVE  Keeps(c, a, b)
BY LostExcused DEF Steady, Keeps

\* The ciphers whose builder is steady.
Straight == cap_hash \cup cap_hmac \cup cap_cmac \cup cap_kmac \cup cap_drbg \cup cap_eddsa \cup cap_dsa
              \cup (cap_kdf \ {"KDF108", "KDF135_X942"}) \cup {"KAS_IFC_SSC"} \cup cap_safe_primes \cup cap_lms

\* They are: none of them looks at one field to send another.
LEMMA StraightSteady == \A c \in Straight : Steady(c)
<1>. USE DEF Steady, Fields
<1>1. \A c \in cap_hash : Steady(c)
  BY HashKind DEF acvp_build_hash_register_cap
<1>2. \A c \in cap_hmac : Steady(c)
  BY HmacKind DEF acvp_build_hmac_register_cap, Spanned
<1>3. \A c \in cap_cmac : Steady(c)
  BY CmacKind DEF acvp_build_cmac_register_cap, Spanned
<1>4. \A c \in cap_kmac : Steady(c)
  BY KmacKind DEF acvp_build_kmac_register_cap
<1>5. \A c \in cap_drbg : Steady(c)
  BY DrbgKind DEF acvp_build_drbg_register_cap
<1>6. \A c \in cap_eddsa : Steady(c)
  BY EddsaKind DEF acvp_build_eddsa_register_cap
<1>7. \A c \in cap_dsa : Steady(c)
  BY DsaKind DEF acvp_build_dsa_register_cap
<1>8. Steady("KDF135_SNMP") /\ Steady("KDF135_SSH") /\ Steady("KDF135_SRTP")
  <2>1. Steady("KDF135_SNMP")
    BY SnmpKind DEF acvp_build_kdf135_snmp_register_cap
  <2>2. Steady("KDF135_SSH")
    BY SshKind DEF acvp_build_kdf135_ssh_register_cap
  <2>3. Steady("KDF135_SRTP")
    BY SrtpKind DEF acvp_build_kdf135_srtp_register_cap
  <2>. QED BY <2>1, <2>2, <2>3
<1>9. Steady("KDF135_IKEV2") /\ Steady("KDF135_IKEV1") /\ Steady("KDF135_X963")
  <2>1. Steady("KDF135_IKEV2")
    BY Ikev2Kind DEF acvp_build_kdf135_ikev2_register_cap
  <2>2. Steady("KDF135_IKEV1")
    BY Ikev1Kind DEF acvp_build_kdf135_ikev1_register_cap
  <2>3. Steady("KDF135_X963")
    BY X963Kind DEF acvp_build_kdf135_x963_register_cap
  <2>. QED BY <2>1, <2>2, <2>3
<1>10. Steady("PBKDF") /\ Steady("KDF_TLS12") /\ Steady("KDF_TLS13")
  <2>1. Steady("PBKDF")
    BY PbkdfKind DEF acvp_build_pbkdf_register_cap
  <2>2. Steady("KDF_TLS12")
    BY Tls12Kind DEF acvp_build_kdf_tls12_register_cap
  <2>3. Steady("KDF_TLS13")
    BY Tls13Kind DEF acvp_build_kdf_tls13_register_cap
  <2>. QED BY <2>1, <2>2, <2>3
<1>11. Steady("KAS_IFC_SSC")
  BY KasIfcKind DEF acvp_build_kas_ifc_register_cap
<1>12. \A c \in cap_safe_primes : Steady(c)
  BY SafePrimesKind DEF acvp_build_safe_primes_register_cap
<1>13. \A c \in cap_lms : Steady(c)
  BY LmsKind DEF acvp_build_lms_register_cap
<1>14. \A c \in cap_kdf \ {"KDF108", "KDF135_X942"} : Steady(c)
  <2>1. cap_kdf \ {"KDF108", "KDF135_X942"} = {"KDF135_SNMP", "KDF135_SSH", "KDF135_SRTP", "KDF135_IKEV2", "KDF135_IKEV1",
          "KDF135_X963", "PBKDF", "KDF_TLS12", "KDF_TLS13"}
    BY DEF cap_kdf
  <2>. QED BY <1>8, <1>9, <1>10, <2>1
<1>. QED BY <1>1, <1>2, <1>3, <1>4, <1>5, <1>6, <1>7, <1>11, <1>12, <1>13, <1>14 DEF Straight

\* RSA: the revision rules some fields, the mode of the public exponent rules that.
LEMMA PubExpKept ==
  ASSUME NEW c, NEW a, NEW b, Swaps(a, b), NEW s \in PubExpSent(a)
  PROVE  s \in PubExpSent(b) \/ Excused(c, a, b, s)
<1>1. CASE Values(a, "pub_exp_mode") = Values(b, "pub_exp_mode")
  <2>1. Is(a, "pub_exp_mode", "FIXED") <=> Is(b, "pub_exp_mode", "FIXED")
    BY <1>1 DEF Is
  <2>2. CASE s \in Fields(a, {"fixed_pub_exp"}) /\ Is(a, "pub_exp_mode", "FIXED")
    BY <2>1, <2>2, LostExcused DEF Fields, PubExpSent
  <2>. QED BY <2>1, <2>2 DEF PubExpSent
<1>2. CASE Values(a, "pub_exp_mode") # Values(b, "pub_exp_mode")
  <2>1. Changed(a, b, "pub_exp_mode")
    BY <1>2, SwapsValues
  <2>2. s.field = "pub_exp_mode" \/ s.field = "fixed_pub_exp"
    BY DEF PubExpSent, Fields, Setting
  <2>3. RuledBy("pub_exp_mode") = {"fixed_pub_exp"}
    BY DEF RuledBy
  <2>. QED BY <2>1, <2>2, <2>3, ExcusedBy
<1>. QED BY <1>1, <1>2

\* A revision that is set excuses the fields it rules.
LEMMA RevisionRules ==
  ASSUME NEW c, NEW a, NEW b, Swaps(a, b), ~Has(a, "revision"), Has(b, "revision"), NEW s,
         s.field \in {"mask_functions", "key_formats", "modulo", "pMod8", "qMod8", "perform_multi_expansion_tests"}
  PROVE  Excused(c, a, b, s)
<1>1. Changed(a, b, "revision")
  BY SwapsValues DEF Has
<1>2. RuledBy("revision") = {"mask_functions", "key_formats", "modulo", "pMod8", "qMod8", "perform_multi_expansion_tests"}
  BY DEF RuledBy
<1>. QED BY <1>1, <1>2, ExcusedBy

\* So the builders of RSA keep what they send.
LEMMA RsaKeeps ==
  ASSUME NEW c \in cap_rsa_sig \cup cap_rsa_prim \cup {"RSA_KEYGEN"}, NEW a, NEW b, Swaps(a, b)
  PROVE  Keeps(c, a, b)
<1>1. CASE c \in cap_rsa_sig
  <2>. DEFINE R(x) == Fields(x, {"revision", "entry"} \cup (IF Has(x, "revision") THEN {} ELSE {"mask_functions"}))
              H(x) == {s \in Fields(x, {"hash_pair"}) : s.value \in Good \/ s.at[1] = "PKCS1PSS"}
              P(x) == IF c = "RSA_SIGVER" THEN PubExpSent(x) ELSE {}
  <2>1. \A x : Builder(c, x) = R(x) \cup H(x) \cup P(x)
    <3>1. \A x : Builder(c, x) = acvp_build_rsa_sig_register_cap(c, x)
      BY <1>1, RsaSiggenKind, RsaSigverKind DEF cap_rsa_sig
    <3>. QED BY <3>1 DEF acvp_build_rsa_sig_register_cap
  <2>2. ASSUME NEW s \in R(a) PROVE s \in R(b) \/ Excused(c, a, b, s)
    <3>1. s \in a
      BY <2>2 DEF Fields
    <3>2. CASE s \notin b
      BY <3>1, <3>2, LostExcused
    <3>3. CASE s \in b /\ (Has(b, "revision") => Has(a, "revision"))
      BY <2>2, <3>3 DEF Fields
    <3>4. CASE s \in b /\ Has(b, "revision") /\ ~Has(a, "revision")
      BY <2>2, <3>4, RevisionRules DEF Fields
    <3>. QED BY <3>2, <3>3, <3>4
  <2>3. ASSUME NEW s \in H(a) PROVE s \in H(b) \/ Excused(c, a, b, s)
    BY <2>3, LostExcused DEF Fields
  <2>4. ASSUME NEW s \in P(a) PROVE s \in P(b) \/ Excused(c, a, b, s)
    BY <2>4, PubExpKept
  <2>. HIDE DEF R, H, P
  <2>. QED BY <2>1, <2>2, <2>3, <2>4 DEF Keeps
<1>2. CASE c \in cap_rsa_prim
  <2>. DEFINE F(x) == IF ~Has(x, "revision") THEN Fields(x, {"key_formats", "modulo"})
                      ELSE IF c = "RSA_SIGPRIM" THEN {s \in Fields(x, {"key_formats"}) : s.value = "v1"} ELSE {}
              R(x) == Fields(x, {"revision"})
  <2>1. \A x : Builder(c, x) = R(x) \cup PubExpSent(x) \cup F(x)
    BY <1>2, RsaPrimKind DEF acvp_build_rsa_prim_register_cap
  <2>2. ASSUME NEW s \in F(a) PROVE s \in F(b) \/ Excused(c, a, b, s)
    <3>1. s \in a /\ s.field \in {"key_formats", "modulo"}
      BY <2>2 DEF Fields
    <3>2. CASE s \notin b
      BY <3>1, <3>2, LostExcused
    <3>3. CASE Has(b, "revision") /\ ~Has(a, "revision")
      BY <3>1, <3>3, RevisionRules
    <3>4. CASE s \in b /\ (Has(b, "revision") <=> Has(a, "revision"))
      BY <2>2, <3>4 DEF Fields
    <3>5. Has(a, "revision") => Has(b, "revision")
      BY SwapsValues
    <3>. QED BY <3>2, <3>3, <3>4, <3>5
  <2>3. ASSUME NEW s \in R(a) PROVE s \in R(b) \/ Excused(c, a, b, s)
    BY <2>3, LostExcused DEF Fields
  <2>. HIDE DEF R, F
  <2>. QED BY <2>1, <2>2, <2>3, PubExpKept DEF Keeps
<1>3. CASE c = "RSA_KEYGEN"
  <2>. DEFINE R(x) == Fields(x, {"revision", "info_gen_by_server", "key_format"})
  <2>1. \A x : Builder(c, x) = R(x) \cup PubExpSent(x) \cup acvp_lookup_rsa_primes(x)
    BY <1>3, RsaKeygenKind DEF acvp_build_rsa_keygen_register_cap
  <2>2. ASSUME NEW s \in acvp_lookup_rsa_primes(a) PROVE s \in acvp_lookup_rsa_primes(b) \/ Excused(c, a, b, s)
    <3>1. s \in a
      BY <2>2 DEF Fields, acvp_lookup_rsa_primes
    <3>2. CASE s \notin b
      BY <3>1, <3>2, LostExcused
    <3>3. CASE s \in b /\ (Has(b, "revision") => Has(a, "revision"))
      BY <2>2, <3>3 DEF Fields, acvp_lookup_rsa_primes
    <3>4. CASE s \in b /\ Has(b, "revision") /\ ~Has(a, "revision")
      BY <2>2, <3>4, RevisionRules DEF Fields, acvp_lookup_rsa_primes
    <3>. QED BY <3>2, <3>3, <3>4
  <2>3. ASSUME NEW s \in R(a) PROVE s \in R(b) \/ Excused(c, a, b, s)
    BY <2>3, LostExcused DEF Fields
  <2>. HIDE DEF R
  <2>. QED BY <2>1, <2>2, <2>3, PubExpKept DEF Keeps
<1>. QED BY <1>1, <1>2, <1>3

\* X9.42: the type rules the OIDs.
LEMMA X942Keeps ==
  ASSUME NEW c, c = "KDF135_X942", NEW a, NEW b, Swaps(a, b)
  PROVE  Keeps(c, a, b)
<1>0. \A x : Builder(c, x) = Fields(x, {"type", "key_len", "other_len", "supp_len", "zz_len", "hash_algs"}
                                         \cup (IF Is(x, "type", "DER") THEN {"oids"} ELSE {}))
  BY X942Kind DEF acvp_build_kdf135_x942_register_cap
<1>1. SUFFICES ASSUME NEW s \in Builder(c, a), s \notin Builder(c, b) PROVE Excused(c, a, b, s)
  BY DEF Keeps
<1>2. s \in a
  BY <1>0, <1>1 DEF Fields
<1>3. CASE s \notin b
  BY <1>2, <1>3, LostExcused
<1>4. CASE s \in b
  <2>1. s.field = "oids" /\ Is(a, "type", "DER") /\ ~Is(b, "type", "DER")
    BY <1>0, <1>1, <1>4 DEF Fields
  <2>2. Changed(a, b, "type")
    BY <2>1, SwapsValues DEF Is
  <2>3. RuledBy("type") = {"oids"}
    BY DEF RuledBy
  <2>. QED BY <2>1, <2>2, <2>3, ExcusedBy
<1>. QED BY <1>3, <1>4

\* KDA in one step: as long as there is an auxiliary function, the methods of salting
\* are sent.
LEMMA OnestepKeeps ==
  ASSUME NEW c, c = "KDA_ONESTEP", NEW a, NEW b, Swaps(a, b)
  PROVE  Keeps(c, a, b)
<1>0. \A x : Builder(c, x) = KdaSent(x) \cup Fields(x, {"aux_functions"}
                               \cup (IF Has(x, "aux_functions") THEN {"mac_salt_methods"} ELSE {}))
  BY OnestepKind DEF acvp_build_kda_onestep_register_cap
<1>1. Has(a, "aux_functions") => Has(b, "aux_functions")
  BY SwapsValues
<1>2. ASSUME NEW s \in Builder(c, a) PROVE s \in a /\ (s \in b => s \in Builder(c, b))
  BY <1>0, <1>1, <1>2 DEF KdaSent, Fields
<1>. QED BY <1>2, LostExcused DEF Keeps

\* HKDF: the revision rules the tests of more than one expansion.
LEMMA HkdfKeeps ==
  ASSUME NEW c, c = "KDA_HKDF", NEW a, NEW b, Swaps(a, b)
  PROVE  Keeps(c, a, b)
<1>0. \A x : Builder(c, x) = (KdaSent(x) \cup NewRevisionSent(x)) \cup Fields(x, {"hmac_algs", "mac_salt_methods"})
  BY HkdfKind DEF acvp_build_kda_hkdf_register_cap
<1>1. SUFFICES ASSUME NEW s \in Builder(c, a), s \notin Builder(c, b) PROVE Excused(c, a, b, s)
  BY DEF Keeps
<1>2. s \in a
  BY <1>0, <1>1 DEF KdaSent, NewRevisionSent, Fields
<1>3. CASE s \notin b
  BY <1>2, <1>3, LostExcused
<1>4. CASE s \in b
  <2>1. s.field = "perform_multi_expansion_tests" /\ ~Has(a, "revision") /\ Has(b, "revision")
    BY <1>0, <1>1, <1>4 DEF KdaSent, NewRevisionSent, Fields
  <2>. QED BY <2>1, RevisionRules
<1>. QED BY <1>3, <1>4

\* KTS: what is sent of no scheme stays.
LEMMA KtsKeeps ==
  ASSUME NEW c, c = "KTS_IFC", NEW a, NEW b, Swaps(a, b)
  PROVE  Keeps(c, a, b)
<1>1. SUFFICES ASSUME NEW s \in Builder(c, a), s \notin Builder(c, b) PROVE Excused(c, a, b, s)
  BY DEF Keeps
<1>2. s \in acvp_build_kts_ifc_register_cap(c, a) /\ s \notin acvp_build_kts_ifc_register_cap(c, b)
  BY <1>1, KtsKind
<1>3. s \in a
  BY <1>2 DEF acvp_build_kts_ifc_register_cap
<1>4. CASE s.at # <<>>
  BY <1>4 DEF Excused, Replaceable
<1>5. CASE s.at = <<>>
  <2>1. s \notin b
    BY <1>2, <1>5 DEF acvp_build_kts_ifc_register_cap
  <2>. QED BY <1>3, <2>1, LostExcused
<1>. QED BY <1>4, <1>5

\* KAS: what is sent of no scheme stays, although a scheme replaces others.
LEMMA KasKeeps ==
  ASSUME NEW c \in cap_kas_ecc \cup cap_kas_ffc, NEW a, NEW b,
         Swaps(a, b) \/ \A s \in a \ b : Len(s.at) >= 2
  PROVE  Keeps(c, a, b)
<1>1. SUFFICES ASSUME NEW s \in Builder(c, a), s \notin Builder(c, b) PROVE Excused(c, a, b, s)
  BY DEF Keeps
<1>2. CASE Len(s.at) >= 2
  BY <1>2 DEF Excused, Replaceable
<1>3. CASE ~(Len(s.at) >= 2)
  <2>0. 3 >= 2
    OBVIOUS
  <2>1. Len(s.at) # 3
    BY <1>3, <2>0, Zenon
  <2>2. CASE c \in cap_kas_ecc
    <3>1. s \in acvp_build_kas_ecc_register_cap(c, a) /\ s \notin acvp_build_kas_ecc_register_cap(c, b)
      BY <1>1, <2>2, KasEccKind
    <3>2. s \in a
      BY <3>1 DEF acvp_build_kas_ecc_register_cap, Fields, Own
    <3>3. s \notin b
      BY <2>1, <3>1 DEF acvp_build_kas_ecc_register_cap, Fields, Own
    <3>. QED BY <1>3, <3>2, <3>3, LostExcused
  <2>3. CASE c \in cap_kas_ffc
    <3>1. s \in acvp_build_kas_ffc_register_cap(c, a) /\ s \notin acvp_build_kas_ffc_register_cap(c, b)
      BY <1>1, <2>3, KasFfcKind
    <3>2. s \in a
      BY <3>1 DEF acvp_build_kas_ffc_register_cap, Fields, Own
    <3>3. s \notin b
      BY <2>1, <3>1 DEF acvp_build_kas_ffc_register_cap, Fields, Own
    <3>. QED BY <1>3, <3>2, <3>3, LostExcused
  <2>. QED BY <2>2, <2>3
<1>. QED BY <1>2, <1>3

\* KDF108: the modes that are enabled stay.
LEMMA Kdf108Kept ==
  ASSUME NEW c, c = "KDF108", NEW a, NEW b, Swaps(a, b), ModesFit(a), \A y : Entry(y) \in a => Entry(y) \in b,
         NEW s \in Registered(c, a), s \notin Registered(c, b)
  PROVE  Excused(c, a, b, s)
<1>0. \A x : ~Both(c, x)
  BY BothTwofold DEF Twofold, cap_ecdsa_sig
<1>. DEFINE Km == Entry(<<"KMAC">>)
            Fb == Entry(<<"feedback">>)
            Modes(x) == acvp_build_kdf108_mode_register({t \in x : t.at = <<"feedback">>})
            Kmac(x) == acvp_build_kdf108_kmac_register_cap(c, x)
            Pre(x) == acvp_lookup_prereqVals(c, x)
<1>1. \A x : /\ Km \in x => Registered(c, x) = (Pre(x) \cup Kmac(x)) \cup (IF Fb \in x THEN Pre(x) \cup Modes(x) ELSE {})
             /\ Km \notin x => Registered(c, x) = Pre(x) \cup Modes(x)
  BY <1>0, Kdf108Kind DEF Registered, Object, KmacObject, acvp_build_kdf108_register_cap
<1>2. \A t \in Modes(a) : t \in a /\ t.at = <<"feedback">>
  BY DEF acvp_build_kdf108_mode_register, Fields
<1>3. \A t \in Modes(a) : Fb \in a /\ Fb \in b
  BY <1>2 DEF ModesFit
<1>4. ASSUME NEW t \in Modes(a) PROVE t \in Modes(b) \/ Excused(c, a, b, t)
  <2>. DEFINE A == {x \in a : x.at = <<"feedback">>}
              B == {x \in b : x.at = <<"feedback">>}
  <2>1. CASE t \notin b
    BY <1>2, <1>4, <2>1, LostExcused
  <2>2. CASE t \in b /\ Values(A, "empty_iv_support") = Values(B, "empty_iv_support")
    <3>1. t \in A /\ t \in B
      BY <1>2, <1>4, <2>2
    <3>. QED BY <1>4, <2>2, <3>1 DEF acvp_build_kdf108_mode_register, Fields, Is
  <2>3. CASE t \in b /\ Values(A, "empty_iv_support") # Values(B, "empty_iv_support")
    <3>1. Changed(a, b, "empty_iv_support")
      BY <2>3, SwapsPart
    <3>2. t \in B
      BY <1>2, <1>4, <2>3
    <3>3. t \in Modes(b) \/ t.field = "requires_empty_iv"
      BY <1>4, <3>2 DEF acvp_build_kdf108_mode_register, Fields
    <3>4. RuledBy("empty_iv_support") = {"requires_empty_iv"}
      BY DEF RuledBy
    <3>. QED BY <3>1, <3>3, <3>4, ExcusedBy
  <2>. QED BY <2>1, <2>2, <2>3
<1>5. ASSUME NEW t \in Kmac(a) PROVE t \in Kmac(b) \/ Excused(c, a, b, t)
  <2>1. t \in a /\ (t \in b => t \in Kmac(b))
    BY <1>5 DEF acvp_build_kdf108_kmac_register_cap, Fields
  <2>. QED BY <2>1, LostExcused
<1>6. ASSUME NEW t \in Pre(a) PROVE t \in Pre(b) \/ Excused(c, a, b, t)
  BY <1>6, PrereqsKept
<1>7. Km \in a => Km \in b
  OBVIOUS
<1>. HIDE DEF Km, Fb, Modes, Kmac, Pre
<1>8. CASE s \in Pre(a)
  BY <1>1, <1>6, <1>8
<1>9. CASE s \in Modes(a)
  BY <1>1, <1>3, <1>4, <1>9
<1>10. CASE Km \in a /\ s \in Kmac(a)
  BY <1>1, <1>5, <1>7, <1>10
<1>. QED BY <1>1, <1>8, <1>9, <1>10

\* ECDSA: what is sent depends on the component in that alone.
LEMMA EcdsaRest ==
  ASSUME NEW c \in cap_ecdsa_sig, NEW a, NEW b, \A t : t.field # "component" => (t \in a <=> t \in b),
         NEW s \in Object(c, a), s.field # "component"
  PROVE  s \in Object(c, b)
<1>1. /\ Fields(a, {"hash_algs"}) = Fields(b, {"hash_algs"})
      /\ Values(a, "hash_algs") = Values(b, "hash_algs")
  BY ValuesSame
<1>2. Entries(a, 1) = Entries(b, 1)
  BY EntriesSame
<1>3. \A t : t.field # "component" => (t \in EcdsaMerged(c, a) <=> t \in EcdsaMerged(c, b))
  <2>1. {Setting(at, "algs", v) : at \in Entries(a, 1), v \in Values(a, "hash_algs")} =
        {Setting(at, "algs", v) : at \in Entries(b, 1), v \in Values(b, "hash_algs")}
    BY <1>1, <1>2
  <2>. QED BY <2>1 DEF EcdsaMerged
<1>4. \A at, v : Setting(at, "algs", v).field # "component"
  BY DEF Setting
<1>o. Overlooked(a) = Overlooked(b)
  <2>1. \A t : t.field \in {"place", "again"} => (t \in a <=> t \in b)
    OBVIOUS
  <2>2. \A t : t.field = "algs" => (t \in a <=> t \in b)
    OBVIOUS
  <2>. QED BY <1>1, <1>2, <2>1, <2>2, OverlookedSame
<1>5. CASE s \in acvp_build_ecdsa_register_cap(c, a)
  <2>1. s \in acvp_build_ecdsa_register_cap(c, b)
    BY <1>1, <1>2, <1>3, <1>4, <1>5, <1>o DEF acvp_build_ecdsa_register_cap, Fields
  <2>. QED BY <2>1, EcdsaObject DEF Object
<1>6. CASE s \in acvp_lookup_prereqVals(c, a)
  <2>1. /\ Fields(a, {"prereq"}) = Fields(b, {"prereq"})
        /\ Has(a, "prereq") <=> Has(b, "prereq")
    BY ValuesSame DEF Has
  <2>2. Has(a, "has_prereq") <=> Has(b, "has_prereq")
    <3>1. \A t : t.field = "has_prereq" => (t \in a <=> t \in b)
      OBVIOUS
    <3>2. Values(a, "has_prereq") = Values(b, "has_prereq")
      BY <3>1, ValuesSame
    <3>. QED BY <3>2 DEF Has
  <2>3. s \in acvp_lookup_prereqVals(c, b)
    BY <1>6, <2>1, <2>2, EcdsaObject
  <2>. QED BY <2>3 DEF Object
<1>. QED BY <1>5, <1>6, EcdsaObject DEF Object

\* The object of ECDSA keeps what it sends, merged hashes too.
LEMMA EcdsaKeeps ==
  ASSUME NEW c \in cap_ecdsa, NEW a, NEW b, Swaps(a, b), FieldsFit(c, b),
         \A t \in a : t.field \notin {"revision", "component"} => t \in b,
         NEW s \in Object(c, a)
  PROVE  s \in Object(c, b) \/ Excused(c, a, b, s)
<1>1. CASE s \in acvp_lookup_prereqVals(c, a)
  <2>1. c # "KDA_TWOSTEP"
    BY DEF cap_ecdsa, cap_ecdsa_sig
  <2>. QED BY <1>1, <2>1, PrereqsKept DEF Object
<1>2. CASE s \in acvp_build_ecdsa_register_cap(c, a)
  <2>1. s \in EcdsaMerged(c, a) /\ s.field \notin {"has_prereq", "place", "again"}
    BY <1>2, MergedRest DEF acvp_build_ecdsa_register_cap, Fields
  <2>2. CASE s \in a /\ s \in b
    <3>1. OfRepeated(c, b, s) => Excused(c, a, b, s)
      BY DEF Excused
    <3>. QED BY <2>1, <2>2, <3>1, EcdsaSent
  <2>3. CASE s \in a /\ s \notin b
    BY <2>3, LostExcused
  <2>4. CASE s \notin a
    <3>1. s.field = "algs" /\ c \in cap_ecdsa_sig
      BY <2>1, <2>4, MergedRest
    <3>2. PICK at \in Entries(a, 1), v \in Values(a, "hash_algs") : s = Setting(at, "algs", v)
      BY <2>1, <2>4, <3>1 DEF EcdsaMerged
    <3>3. at \in Entries(b, 1)
      BY <3>2 DEF Entries
    <3>4. v \in Values(b, "hash_algs")
      BY <3>2 DEF Values
    <3>5. s \in EcdsaMerged(c, b)
      BY <3>1, <3>2, <3>3, <3>4 DEF EcdsaMerged
    <3>o. s \notin Overlooked(b)
      BY <3>2, <3>4, OverlookedHashes DEF Setting
    <3>6. s \in acvp_build_ecdsa_register_cap(c, b)
      BY <3>1, <3>5, <3>o DEF acvp_build_ecdsa_register_cap, Fields
    <3>. QED BY <3>6, EcdsaKind DEF Object
  <2>. QED BY <2>2, <2>3, <2>4
<1>. QED BY <1>1, <1>2, EcdsaKind DEF Object

\* So does what is registered, whether it is one object or two.
LEMMA EcdsaKept ==
  ASSUME NEW c \in cap_ecdsa, NEW a, NEW b, Swaps(a, b), FieldsFit(c, b),
         \A t \in a : t.field \notin {"revision", "component"} => t \in b,
         NEW s \in Registered(c, a), s \notin Registered(c, b)
  PROVE  Excused(c, a, b, s)
<1>0. c # "KDF108" /\ c \notin {"AES_GCM", "AES_XPN", "AES_GMAC", "AES_CTR"}
  BY DEF cap_ecdsa, cap_ecdsa_sig
<1>1. \A x : ~Both(c, x) => Registered(c, x) = Object(c, x)
  BY <1>0 DEF Registered
<1>2. \A x : Both(c, x) <=> c \in cap_ecdsa_sig /\ Is(x, "component", "BOTH")
  BY <1>0 DEF Both
<1>3. \A x : Both(c, x) => Registered(c, x) = Object(c, Turned(c, x, "first")) \cup Object(c, Turned(c, x, "second"))
  BY DEF Registered
<1>4. CASE c \notin cap_ecdsa_sig
  BY <1>1, <1>2, <1>4, EcdsaKeeps
<1>5. CASE c \in cap_ecdsa_sig
  <2>0. TurnedField(c) = "component"
    BY <1>5, TwofoldFamilies DEF TurnedField
  <2>1. \A x, h, t : t.field # "component" => (t \in Turned(c, x, h) <=> t \in x)
    BY <2>0, TurnedRest
  <2>2. CASE s.field # "component"
    <3>1. \A x, h : s \in Object(c, Turned(c, x, h)) <=> s \in Object(c, x)
      BY <1>5, <2>1, <2>2, EcdsaRest
    <3>2. \A x : s \in Registered(c, x) <=> s \in Object(c, x)
      BY <1>1, <1>3, <3>1
    <3>. QED BY <3>2, EcdsaKeeps
  <2>3. CASE s.field = "component" /\ Values(a, "component") # Values(b, "component")
    BY <2>3, SwapsValues, ExcusedBy
  <2>4. CASE s.field = "component" /\ Values(a, "component") = Values(b, "component")
    <3>1. Both(c, a) <=> Both(c, b)
      BY <1>2, <2>4 DEF Is
    <3>2. CASE ~Both(c, a)
      BY <1>1, <3>1, <3>2, EcdsaKeeps
    <3>3. CASE Both(c, a)
      <4>1. ASSUME NEW x, NEW y, NEW h, s \in Object(c, Turned(c, x, h)) PROVE s \in Object(c, Turned(c, y, h))
        <5>1. s \in Turned(c, x, h)
          <6>1. s \notin acvp_lookup_prereqVals(c, Turned(c, x, h))
            BY <1>5, <2>4, EcdsaObject DEF Fields, Setting
          <6>2. s \in acvp_build_ecdsa_register_cap(c, Turned(c, x, h))
            BY <1>5, <4>1, <6>1, EcdsaObject DEF Object
          <6>. QED BY <2>4, <6>2, MergedRest DEF acvp_build_ecdsa_register_cap, Fields
        <5>2. s \in Turned(c, y, h)
          BY <2>0, <2>4, <5>1 DEF Turned, TurnedField, Fields
        <5>3. s \in acvp_build_ecdsa_register_cap(c, Turned(c, y, h))
          BY <2>4, <5>2, MergedRest, OverlookedHashes DEF acvp_build_ecdsa_register_cap, Fields
        <5>. QED BY <1>5, <5>3, EcdsaObject DEF Object
      <4>. QED BY <1>3, <3>1, <3>3, <4>1
    <3>. QED BY <3>2, <3>3
  <2>. QED BY <2>2, <2>3, <2>4
<1>. QED BY <1>4, <1>5

\* What an accepted call adds where rows are tame: its entry, a prerequisite, or its
\* field, if that is not barred.
LEMMA TameAdds ==
  ASSUME NEW c, NEW A, NEW B, Tames(Setters(c), A, B), NEW r \in Rows(c), NEW cap, NEW at, NEW v,
         Accepted(r, cap, at, v), NEW t \in After(r, cap, at, v), t \notin cap
  PROVE  t.field \in {"entry", "prereq"} \/ (r \in Setters(c) /\ t.field = r.field /\ ~Barred(r, cap, at))
<1>1. ~Barred(r, cap, at) /\ Passes(r, cap, at, v) /\ After(r, cap, at, v) = Set(r, cap \ Displaced(r, cap, at), at, v)
  BY DEF Accepted, After
<1>2. r.gives = {} /\ r.early = 0 /\ (r \in Setters(c) \/ r.field = "prereq")
  <2>1. CASE r \in Setters(c)
    BY <2>1 DEF Tames, Tame, Bare
  <2>2. CASE r \in acvp_cap_set_prereq(c)
    BY <2>2, PrereqTable DEF PrereqRow
  <2>. QED BY <2>1, <2>2 DEF Rows
<1>3. t = Entry(at) \/ t = Setting(Place(r, at), r.field, v)
  BY <1>1, <1>2 DEF Set, Created
<1>4. Entry(at).field = "entry" /\ Setting(Place(r, at), r.field, v).field = r.field
  BY DEF Entry, Setting
<1>. QED BY <1>1, <1>2, <1>3, <1>4

\* So a symmetric cipher whose length is a range is not given a list, and keeps its
\* length of data units.
SymGuards(a, b) ==
  /\ \A f \in {"ivlen", "ptlen", "aadlen"} : Changed(a, b, f) => \A g \in RangeOf(f) : ~Has(a, g)
  /\ Changed(a, b, "dulen_matches_paylen") => ~Has(a, "du_len")

\* The conditions of the setters see to it.
LEMMA SymGuarded ==
  ASSUME NEW c \in cap_sym, NEW r \in Rows(c), NEW a, NEW at, NEW v, Accepted(r, a, at, v)
  PROVE  SymGuards(a, After(r, a, at, v))
<1>. DEFINE b == After(r, a, at, v)
<1>1. Tames(Setters(c), SymAssigned, SymCollected)
  BY SymTame DEF SymRow, Tames
<1>2. ASSUME NEW f \in {"ivlen", "ptlen", "aadlen", "dulen_matches_paylen"}, Changed(a, b, f)
      PROVE  r \in Setters(c) /\ r.field = f /\ \A g \in r.unless : ~Has(a, g)
  <2>1. PICK t \in b \ a : t.field = f
    BY <1>2 DEF Changed
  <2>2. r \in Setters(c) /\ t.field = r.field /\ ~Barred(r, a, at)
    BY <1>1, <2>1, TameAdds
  <2>. QED BY <2>1, <2>2 DEF Barred
<1>3. r \in Setters(c) => SymRow(r)
  BY SymTame
<1>. QED BY <1>2, <1>3 DEF SymRow, SymGuards

\* The fields a symmetric cipher sends.
SymSent(c, cap) ==
  {"conformance", "direction", "salt_source", "keylen", "ptlen"}
     \cup (IF Has(cap, "keying_option") /\ Values(cap, "keying_option") # {"NA"}
           THEN {"keying_option"} ELSE {})
     \cup (IF c \in {"AES_KW", "AES_KWP", "TDES_KW"} THEN {"kw_mode"} ELSE {})
     \cup (IF c \in {"AES_CTR", "TDES_CTR"}
           THEN {"perform_ctr_tests", "ctr_incr", "ctr_ovrflw"} ELSE {})
     \cup (IF Values(cap, "ivgen_source") \subseteq {"INT", "EXT"} THEN {"ivgen_source"} ELSE {})
     \cup (IF Values(cap, "ivgen_source") = {"INT"} THEN {"ivgen_mode"} ELSE {})
     \cup (IF c \in {"AES_GCM", "AES_CCM", "AES_GMAC", "AES_XPN"} THEN {"taglen"} ELSE {})
     \cup (IF c \in {"AES_GCM", "AES_GCM_SIV", "AES_CCM", "AES_GMAC"}
           THEN {IF Has(cap, "ivlen") THEN "ivlen" ELSE "iv_len"} ELSE {})
     \cup (IF Has(cap, "ptlen") THEN {} ELSE {"payload_len"})
     \cup (IF c = "AES_XTS" THEN {"tweak", "dulen_matches_paylen"} ELSE {})
     \cup (IF c = "AES_XTS" /\ Values(cap, "dulen_matches_paylen") = {"no"} THEN {"du_len"} ELSE {})
     \cup (IF c \in {"AES_GCM", "AES_CCM", "AES_GMAC", "AES_GCM_SIV", "AES_XPN"}
           THEN {IF Has(cap, "aadlen") THEN "aadlen" ELSE "aad_len"} ELSE {})

\* The fields on which it depends whether one is sent.
Deciding(f) ==
  CASE f = "keying_option" -> {"keying_option"}
    [] f \in {"ivgen_source", "ivgen_mode"} -> {"ivgen_source"}
    [] f \in {"ivlen", "iv_len"} -> {"ivlen"}
    [] f = "payload_len" -> {"ptlen"}
    [] f = "du_len" -> {"dulen_matches_paylen"}
    [] f \in {"aadlen", "aad_len"} -> {"aadlen"}
    [] OTHER -> {}

\* And on no others.
LEMMA SymDecided ==
  ASSUME NEW c \in cap_sym, NEW a, NEW b, NEW f, \A d \in Deciding(f) : Values(a, d) = Values(b, d)
  PROVE  f \in SymSent(c, a) => f \in SymSent(c, b)
<1>1. /\ f = "keying_option" => Values(a, "keying_option") = Values(b, "keying_option")
      /\ f \in {"ivgen_source", "ivgen_mode"} => Values(a, "ivgen_source") = Values(b, "ivgen_source")
      /\ f \in {"ivlen", "iv_len"} => Values(a, "ivlen") = Values(b, "ivlen")
      /\ f = "payload_len" => Values(a, "ptlen") = Values(b, "ptlen")
      /\ f = "du_len" => Values(a, "dulen_matches_paylen") = Values(b, "dulen_matches_paylen")
      /\ f \in {"aadlen", "aad_len"} => Values(a, "aadlen") = Values(b, "aadlen")
  BY DEF Deciding
<1>. QED BY <1>1 DEF SymSent, Has

\* The object of a symmetric cipher.
LEMMA SymObject ==
  ASSUME NEW c \in cap_sym, NEW cap
  PROVE  /\ Builder(c, cap) = Fields(cap, SymSent(c, cap))
         /\ c \notin cap_hash \cup cap_eddsa \cup cap_kas_ecc \cup cap_kas_ffc \cup cap_safe_primes \cup cap_lms
         /\ c \notin {"KDA_TWOSTEP", "KDF108", "KAS_IFC_SSC", "KTS_IFC"} /\ c \notin cap_ecdsa_sig
<1>1. Builder(c, cap) = Fields(cap, SymSent(c, cap))
  BY SymKind DEF acvp_build_sym_cipher_register_cap, SymSent
<1>. QED BY <1>1 DEF cap_sym, cap_aes, cap_tdes, cap_hash, cap_sha2, cap_sha3, cap_shake, cap_eddsa, cap_kas_ecc, cap_kas_ffc,
       cap_safe_primes, cap_lms, cap_ecdsa_sig

\* It keeps what it sends.
LEMMA SymKeeps ==
  ASSUME NEW c \in cap_sym, NEW a, NEW b, Swaps(a, b), SymGuards(a, b), NEW s \in Object(c, a)
  PROVE  s \in Object(c, b) \/ Excused(c, a, b, s)
<1>1. CASE s \in acvp_lookup_prereqVals(c, a)
  BY <1>1, SymObject, PrereqsKept DEF Object
<1>2. CASE s \in Builder(c, a)
  <2>1. s \in a /\ s.field \in SymSent(c, a)
    BY <1>2, SymObject DEF Fields
  <2>2. s.field \in SymSent(c, b) /\ s \in b => s \in Object(c, b)
    BY SymObject DEF Object, Fields
  <2>3. CASE s \notin b
    BY <2>1, <2>3, LostExcused
  <2>4. CASE s.field \in {"keying_option", "ivgen_source", "ivgen_mode"}
    <3>1. \A d \in {"keying_option", "ivgen_source"} : Values(a, d) # Values(b, d) => Changed(a, b, d)
      BY SwapsValues
    <3>2. RuledBy("ivgen_source") = {"ivgen_mode"}
      BY DEF RuledBy
    <3>3. Deciding(s.field) = {"keying_option"} \/ Deciding(s.field) = {"ivgen_source"}
      BY <2>4 DEF Deciding
    <3>4. \A d \in Deciding(s.field) : s.field = d \/ s.field \in RuledBy(d)
      BY <2>4, <3>2 DEF Deciding
    <3>5. CASE \A d \in Deciding(s.field) : Values(a, d) = Values(b, d)
      BY <2>1, <2>2, <2>3, <3>5, SymDecided
    <3>6. CASE \E d \in Deciding(s.field) : Values(a, d) # Values(b, d)
      BY <3>1, <3>3, <3>4, <3>6, ExcusedBy
    <3>. QED BY <3>5, <3>6
  <2>5. CASE s.field \in {"iv_len", "payload_len", "aad_len", "du_len"}
    <3>1. Has(a, s.field)
      BY <2>1 DEF Has, Values
    <3>2. /\ RangeOf("ivlen") = {"iv_len"} /\ RangeOf("ptlen") = {"payload_len"} /\ RangeOf("aadlen") = {"aad_len"}
          /\ Deciding("iv_len") = {"ivlen"} /\ Deciding("payload_len") = {"ptlen"} /\ Deciding("aad_len") = {"aadlen"}
          /\ Deciding("du_len") = {"dulen_matches_paylen"}
      BY DEF RangeOf, Deciding
    <3>3. \A d \in Deciding(s.field) : ~Changed(a, b, d)
      BY <2>5, <3>1, <3>2 DEF SymGuards
    <3>4. \A d \in Deciding(s.field) : Values(a, d) = Values(b, d)
      BY <3>3, SwapsValues
    <3>. QED BY <2>1, <2>2, <2>3, <3>4, SymDecided
  <2>6. CASE s.field \notin {"keying_option", "ivgen_source", "ivgen_mode", "iv_len", "payload_len", "aad_len", "du_len"}
    <3>1. (Has(a, "ivlen") => Has(b, "ivlen")) /\ (Has(a, "aadlen") => Has(b, "aadlen"))
      BY SwapsValues
    <3>2. s.field \in SymSent(c, b)
      BY <2>1, <2>6, <3>1 DEF SymSent
    <3>. QED BY <2>2, <2>3, <3>2
  <2>. QED BY <2>4, <2>5, <2>6
<1>. QED BY <1>1, <1>2 DEF Object

\* The source of IVs decides of itself and the mode of their generation alone.
LEMMA SymRest ==
  ASSUME NEW c \in cap_sym, NEW a, NEW b, \A t : t.field # "ivgen_source" => (t \in a <=> t \in b),
         NEW s \in Object(c, a), s.field \notin {"ivgen_source", "ivgen_mode"}
  PROVE  s \in Object(c, b)
<1>1. \A f : f # "ivgen_source" => \A t : t.field = f => (t \in a <=> t \in b)
  OBVIOUS
<1>2. \A f : f # "ivgen_source" => Values(a, f) = Values(b, f) /\ Fields(a, {f}) = Fields(b, {f})
  BY <1>1, ValuesSame
<1>3. CASE s \in Builder(c, a)
  <2>1. s \in a /\ s.field \in SymSent(c, a)
    BY <1>3, SymObject DEF Fields
  <2>2. \A d \in Deciding(s.field) : d # "ivgen_source"
    BY DEF Deciding
  <2>3. s.field \in SymSent(c, b)
    BY <1>2, <2>1, <2>2, SymDecided
  <2>. QED BY <2>1, <2>3, SymObject DEF Object, Fields
<1>4. CASE s \in acvp_lookup_prereqVals(c, a)
  <2>1. /\ Fields(a, {"prereq"}) = Fields(b, {"prereq"})
        /\ Has(a, "prereq") <=> Has(b, "prereq")
        /\ Has(a, "has_prereq") <=> Has(b, "has_prereq")
    BY <1>2 DEF Has
  <2>2. s \in acvp_lookup_prereqVals(c, b)
    BY <1>4, <2>1, SymObject DEF acvp_lookup_prereqVals
  <2>. QED BY <2>2 DEF Object
<1>. QED BY <1>3, <1>4 DEF Object

\* So what is registered is kept, whether it is one object or two.
LEMMA SymKept ==
  ASSUME NEW c \in cap_sym, NEW a, NEW b, Swaps(a, b), SymGuards(a, b),
         NEW s \in Registered(c, a), s \notin Registered(c, b)
  PROVE  Excused(c, a, b, s)
<1>1. \A x : ~Both(c, x) => Registered(c, x) = Object(c, x)
  BY SymObject DEF Registered
<1>2. \A x : Both(c, x) => Registered(c, x) = Object(c, Turned(c, x, "first")) \cup Object(c, Turned(c, x, "second"))
  BY DEF Registered
<1>3. TurnedField(c) = "ivgen_source"
  BY DEF TurnedField
<1>4. \A x, h, t : t.field # "ivgen_source" => (t \in Turned(c, x, h) <=> t \in x)
  BY <1>3, TurnedRest
<1>5. CASE s.field \notin {"ivgen_source", "ivgen_mode"}
  <2>1. \A x, h : s \in Object(c, Turned(c, x, h)) <=> s \in Object(c, x)
    BY <1>4, <1>5, SymRest
  <2>2. \A x : s \in Registered(c, x) <=> s \in Object(c, x)
    BY <1>1, <1>2, <2>1
  <2>. QED BY <2>2, SymKeeps
<1>6. CASE s.field \in {"ivgen_source", "ivgen_mode"} /\ Values(a, "ivgen_source") # Values(b, "ivgen_source")
  <2>1. RuledBy("ivgen_source") = {"ivgen_mode"}
    BY DEF RuledBy
  <2>2. Changed(a, b, "ivgen_source")
    BY <1>6, SwapsValues
  <2>. QED BY <1>6, <2>1, <2>2, ExcusedBy
<1>7. CASE s.field \in {"ivgen_source", "ivgen_mode"} /\ Values(a, "ivgen_source") = Values(b, "ivgen_source")
  <2>1. Both(c, a) <=> Both(c, b)
    BY <1>7, SymObject DEF Both, Is
  <2>2. CASE ~Both(c, a)
    BY <1>1, <2>1, <2>2, SymKeeps
  <2>3. CASE Both(c, a)
    <3>1. ASSUME NEW h, s \in Object(c, Turned(c, a, h))
          PROVE  s \in Object(c, Turned(c, b, h)) \/ Excused(c, a, b, s)
      <4>. DEFINE x == Turned(c, a, h)
                  y == Turned(c, b, h)
      <4>1. s \notin acvp_lookup_prereqVals(c, x)
        BY <1>7 DEF acvp_lookup_prereqVals, Fields, Setting
      <4>2. s \in x /\ s.field \in SymSent(c, x)
        BY <3>1, <4>1, SymObject DEF Object, Fields
      <4>3. \A t : t.field = "ivgen_source" => (t \in x <=> t \in y)
        BY <1>3 DEF Turned, TurnedField, Fields
      <4>4. Deciding(s.field) = {"ivgen_source"}
        BY <1>7 DEF Deciding
      <4>5. s.field \in SymSent(c, y)
        BY <4>2, <4>3, <4>4, ValuesSame, SymDecided
      <4>6. CASE s \in y
        BY <4>5, <4>6, SymObject DEF Object, Fields
      <4>7. CASE s \notin y
        <5>1. s.field # "ivgen_source" /\ s \in a /\ s \notin b
          BY <1>4, <4>2, <4>3, <4>7
        <5>. QED BY <5>1, LostExcused
      <4>. QED BY <4>6, <4>7
    <3>. QED BY <1>2, <2>1, <2>3, <3>1
  <2>. QED BY <2>2, <2>3
<1>. QED BY <1>5, <1>6, <1>7

\* What an accepted call does to a capability.
LEMMA AcceptedTakes ==
  ASSUME NEW c \in Ciphers, NEW a, Single(Assigned(c), a), NEW r \in Rows(c), NEW at \in r.at, NEW v,
         Accepted(r, a, at, v)
  PROVE  /\ c \notin cap_kas_ecc \cup cap_kas_ffc => Swaps(a, After(r, a, at, v))
         /\ Swaps(a, After(r, a, at, v)) \/ \A s \in a \ After(r, a, at, v) : Len(s.at) >= 2
<1>1. PICK A, B : Orderly(c, A, B)
  BY AllOrdered DEF Ordered
<1>2. c \notin cap_kas_ecc \cup cap_kas_ffc => Proper(r, A, B)
  BY <1>1 DEF Orderly
<1>3. Proper(r, A, B) => r.alone = "no"
  BY DEF Proper, Gentle, Inert, Naming
<1>4. /\ r.alone = "yes" => \A s \in a \ After(r, a, at, v) : Len(s.at) >= 2
      /\ r.alone # "yes" => Swaps(a, After(r, a, at, v))
  BY <1>1, AcceptedSwaps
<1>. QED BY <1>2, <1>3, <1>4

\* To a capability of ECDSA.
LEMMA EcdsaTakes ==
  ASSUME NEW c \in cap_ecdsa, NEW a, Single(Assigned(c), a), NEW r \in Rows(c), NEW at \in r.at, NEW v,
         Accepted(r, a, at, v)
  PROVE  \A t \in a : t.field \notin {"revision", "component"} => t \in After(r, a, at, v)
<1>. DEFINE A == {"revision", "component"}
            B == {"entry", "secret_gen_modes"} \cup (IF c \in cap_ecdsa_sig THEN {"hash_algs", "algs", "place", "again"} ELSE {})
            C == B \cup {"entry", "prereq", "has_prereq"}
<1>1. Tames(Setters(c), A, B)
  BY EcdsaTame
<1>2. A \cap C = {} /\ B \subseteq C /\ {"prereq", "has_prereq"} \subseteq C
  OBVIOUS
<1>. HIDE DEF A, B
<1>3. Orderly(c, A, C)
  BY <1>1, <1>2, OrderlyTame
<1>. HIDE DEF C
<1>4. Gentle(r, A, C)
  <2>1. Tame(r, A, B) => Gentle(r, A, C)
    BY <1>2 DEF Tame, Bare, Gentle, Sorted
  <2>. QED BY <1>1, <1>2, <2>1, PrereqGentle DEF Tames, Rows
<1>5. \A s \in a \ After(r, a, at, v) : s.field \in A
  BY <1>3, <1>4, AcceptedSwaps
<1>. QED BY <1>5 DEF A

\* The ciphers of which one object is made that keeps what it sends.
Lasting == Straight \cup cap_rsa_sig \cup cap_rsa_prim
             \cup {"RSA_KEYGEN", "KDF135_X942", "KTS_IFC", "KDA_ONESTEP", "KDA_HKDF"} \cup cap_kas_ecc \cup cap_kas_ffc

\* They are all but the symmetric ciphers, ECDSA, KDF108 and KDA in two steps.
LEMMA LastingKinds ==
  /\ \A c \in Ciphers : c \in cap_sym \/ c \in cap_ecdsa \/ c \in {"KDF108", "KDA_TWOSTEP"} \/ c \in Lasting
  /\ \A c \in Lasting : c \notin Twofold /\ c \notin {"KDF108", "KDA_TWOSTEP"}
<1>1. \A c \in Ciphers : c \in cap_sym \/ c \in cap_ecdsa \/ c \in {"KDF108", "KDA_TWOSTEP"} \/ c \in Lasting
  <2>1. cap_kda = {"KDA_ONESTEP", "KDA_TWOSTEP", "KDA_HKDF"}
    BY DEF cap_kda
  <2>. QED BY <2>1 DEF Ciphers, Lasting, Straight, cap_pubkey
<1>2. \A c \in Lasting : c \notin Twofold /\ c \notin {"KDF108", "KDA_TWOSTEP"}
  BY DEF Lasting, Straight, Twofold, cap_ecdsa_sig, cap_hash, cap_sha2, cap_sha3, cap_shake, cap_hmac, cap_cmac, cap_kmac, cap_drbg,
         cap_eddsa, cap_dsa, cap_kdf, cap_safe_primes, cap_lms, cap_rsa_sig, cap_rsa_prim, cap_kas_ecc, cap_kas_ffc
<1>. QED BY <1>1, <1>2

\* An accepted call takes nothing back of what would be registered, but for what is
\* excused.
LEMMA AcceptedKept ==
  ASSUME NEW c \in Ciphers, NEW a, WellFormed(c, a), NEW r \in Rows(c), NEW at \in r.at, NEW v, Accepted(r, a, at, v),
         NEW s \in Registered(c, a), s \notin Registered(c, After(r, a, at, v))
  PROVE  Excused(c, a, After(r, a, at, v), s)
<1>. DEFINE b == After(r, a, at, v)
<1>1. FieldsFit(c, a) /\ Single(Assigned(c), a) /\ (c = "KDF108" => ModesFit(a))
  BY WellParts
<1>2. /\ c \notin cap_kas_ecc \cup cap_kas_ffc => Swaps(a, b)
      /\ Swaps(a, b) \/ \A t \in a \ b : Len(t.at) >= 2
  BY <1>1, AcceptedTakes
<1>3. CASE c = "KDA_TWOSTEP"
  BY <1>3 DEF Excused, Replaceable
<1>4. CASE c = "KDF108"
  <2>1. Swaps(a, b)
    BY <1>2, <1>4 DEF cap_kas_ecc, cap_kas_ffc
  <2>2. \A y : Entry(y) \in a => Entry(y) \in b
    BY <1>1, <1>4, ModesKept
  <2>. HIDE DEF b
  <2>. QED BY <1>1, <1>4, <2>1, <2>2, Kdf108Kept DEF b
<1>5. CASE c \in cap_ecdsa
  <2>1. Swaps(a, b)
    BY <1>2, <1>5 DEF cap_kas_ecc, cap_kas_ffc, cap_ecdsa, cap_ecdsa_sig
  <2>2. FieldsFit(c, b)
    BY <1>1, AfterFits
  <2>3. \A t \in a : t.field \notin {"revision", "component"} => t \in b
    BY <1>1, <1>5, EcdsaTakes
  <2>. HIDE DEF b
  <2>. QED BY <1>5, <2>1, <2>2, <2>3, EcdsaKept DEF b
<1>6. CASE c \in cap_sym
  <2>1. Swaps(a, b)
    BY <1>2, <1>6, SymObject
  <2>2. SymGuards(a, b)
    BY <1>6, SymGuarded
  <2>. HIDE DEF b
  <2>. QED BY <1>6, <2>1, <2>2, SymKept DEF b
<1>7. CASE c \in Lasting
  <2>. HIDE DEF b
  <2>1. \A x : Registered(c, x) = acvp_lookup_prereqVals(c, x) \cup Builder(c, x)
    BY <1>7, LastingKinds, BothTwofold DEF Registered, Object
  <2>2. CASE c \in cap_kas_ecc \cup cap_kas_ffc
    <3>1. \A x : acvp_lookup_prereqVals(c, x) = {}
      BY <2>2 DEF acvp_lookup_prereqVals
    <3>. QED BY <1>2, <2>1, <2>2, <3>1, KasKeeps DEF Keeps, b
  <2>3. CASE c \notin cap_kas_ecc \cup cap_kas_ffc
    <3>1. Swaps(a, b)
      BY <1>2, <2>3
    <3>2. c # "KDA_TWOSTEP"
      BY <1>7, LastingKinds
    <3>3. Keeps(c, a, b)
      BY <1>7, <2>3, <3>1, StraightSteady, SteadyKeeps, RsaKeeps, X942Keeps, KtsKeeps, OnestepKeeps, HkdfKeeps DEF Lasting
    <3>4. s \in acvp_lookup_prereqVals(c, a) \/ s \in Builder(c, a)
      BY <2>1
    <3>5. s \notin acvp_lookup_prereqVals(c, b) /\ s \notin Builder(c, b)
      BY <2>1 DEF b
    <3>. QED BY <3>1, <3>2, <3>3, <3>4, <3>5, PrereqsKept DEF Keeps, b
  <2>. QED BY <2>2, <2>3
<1>. QED BY <1>3, <1>4, <1>5, <1>6, <1>7, LastingKinds

\* A call that succeeds: a cipher that was not there is enabled, or a parameter is
\* accepted.
LEMMA AcceptedStep ==
  ASSUME [Next]_vars, ~UNCHANGED vars, pc = "idle", pc' = "idle", rv' = "SUCCESS"
  PROVE  \/ \E c \in Enabled : /\ Locate(caps_list, c) = {}
                               /\ caps_list' = Append(caps_list, [cipher |-> c, cap |-> Defaults(c)])
         \/ \E i \in 1..Len(caps_list) : \E row \in Rows(caps_list[i].cipher) : \E at \in row.at, v \in Tries(row) :
              /\ SetParameter(i, row, at, v) /\ Accepted(row, caps_list[i].cap, at, v)
<1>1. Calls \/ acvp_build_registration_json
  BY RegisterSteps DEF BuildOnly, BuildFirst, BuildSecond, BuildKmac, BuildModes
<1>2. ~acvp_build_registration_json
  BY DEF acvp_build_registration_json
<1>3. ~\E c \in Enabled : SetWithout(c)
  BY DEF SetWithout, Return
<1>4. CASE \E c \in Enabled : acvp_cap_list_append(c)
  BY <1>4 DEF acvp_cap_list_append, Return
<1>5. CASE ~\E c \in Enabled : acvp_cap_list_append(c)
  <2>1. PICK i \in 1..Len(caps_list) : \E row \in Rows(caps_list[i].cipher) :
          \E at \in row.at, v \in Tries(row) : SetParameter(i, row, at, v)
    BY <1>1, <1>2, <1>3, <1>5 DEF Calls
  <2>2. PICK row \in Rows(caps_list[i].cipher) : \E at \in row.at, v \in Tries(row) : SetParameter(i, row, at, v)
    BY <2>1
  <2>3. PICK at \in row.at, v \in Tries(row) : SetParameter(i, row, at, v)
    BY <2>2
  <2>4. Accepted(row, caps_list[i].cap, at, v)
    BY <2>3 DEF SetParameter, Return
  <2>. QED BY <2>3, <2>4
<1>. QED BY <1>4, <1>5

\* What such a call keeps of the capability of one cipher.
LEMMA AcceptedPair ==
  ASSUME ListInv, CipherInv, WellInv, [Next]_vars, ~UNCHANGED vars, pc = "idle", pc' = "idle", rv' = "SUCCESS",
         NEW ij \in Same(caps_list, caps_list')
  PROVE  \/ caps_list'[ij[2]].cap = caps_list[ij[1]].cap
         \/ \E row \in Rows(caps_list[ij[1]].cipher) : \E at \in row.at, v \in Tries(row) :
              /\ caps_list'[ij[2]].cap = After(row, caps_list[ij[1]].cap, at, v)
              /\ Accepted(row, caps_list[ij[1]].cap, at, v)
<1>0. Len(caps_list) \in Nat /\ IsList(caps_list)
  BY ListFacts DEF ListInv
<1>1. CASE \E c \in Enabled : /\ Locate(caps_list, c) = {}
                              /\ caps_list' = Append(caps_list, [cipher |-> c, cap |-> Defaults(c)])
  <2>1. PICK c \in Enabled : /\ Locate(caps_list, c) = {}
                             /\ caps_list' = Append(caps_list, [cipher |-> c, cap |-> Defaults(c)])
    BY <1>1
  <2>2. /\ Len(caps_list') = Len(caps_list) + 1
        /\ \A j \in 1..Len(caps_list) : caps_list'[j] = caps_list[j]
        /\ caps_list'[Len(caps_list) + 1].cipher = c
    BY <1>0, <2>1, AppendList
  <2>3. /\ ij[1] \in 1..Len(caps_list) /\ ij[2] \in 1..Len(caps_list')
        /\ caps_list[ij[1]].cipher = caps_list'[ij[2]].cipher
    BY DEF Same
  <2>4. caps_list[ij[1]].cipher # c
    BY <2>1, <2>3 DEF Locate
  <2>5. ij[2] \in 1..Len(caps_list)
    BY <1>0, <2>2, <2>3, <2>4
  <2>. QED BY <2>2, <2>3, <2>5 DEF CipherInv
<1>2. CASE \E i \in 1..Len(caps_list) : \E row \in Rows(caps_list[i].cipher) : \E at \in row.at, v \in Tries(row) :
             /\ SetParameter(i, row, at, v) /\ Accepted(row, caps_list[i].cap, at, v)
  <2>1. PICK i \in 1..Len(caps_list) : \E row \in Rows(caps_list[i].cipher) : \E at \in row.at, v \in Tries(row) :
             /\ SetParameter(i, row, at, v) /\ Accepted(row, caps_list[i].cap, at, v)
    BY <1>2
  <2>2. PICK row \in Rows(caps_list[i].cipher) : \E at \in row.at, v \in Tries(row) :
             /\ SetParameter(i, row, at, v) /\ Accepted(row, caps_list[i].cap, at, v)
    BY <2>1
  <2>3. PICK at \in row.at, v \in Tries(row) :
             /\ SetParameter(i, row, at, v) /\ Accepted(row, caps_list[i].cap, at, v)
    BY <2>2
  <2>. DEFINE after == After(row, caps_list[i].cap, at, v)
  <2>4. caps_list' = Put(caps_list, i, after)
    BY <2>3 DEF SetParameter, Put
  <2>5. /\ Len(caps_list') = Len(caps_list)
        /\ \A j \in 1..Len(caps_list) : j # i => caps_list'[j] = caps_list[j]
        /\ caps_list'[i] = [cipher |-> caps_list[i].cipher, cap |-> after]
    BY <2>4, PutKeeps
  <2>6. \A j \in 1..Len(caps_list) : caps_list'[j].cipher = caps_list[j].cipher
    BY <2>5
  <2>7. PICK j \in 1..Len(caps_list) : ij[1] = j /\ ij[2] = j
    BY <2>5, <2>6, SamePlace
  <2>8. CASE j # i
    BY <2>5, <2>7, <2>8
  <2>9. CASE j = i
    <3>1. caps_list'[j].cap = after
      BY <2>5, <2>9
    <3>. QED BY <2>3, <2>7, <2>9, <3>1
  <2>. QED BY <2>8, <2>9
<1>. QED BY <1>1, <1>2, AcceptedStep

\* For every cipher, every capability that calls can make and every call that succeeds:
\* what was registered before would be registered after it, but for the former value of
\* the field that is set, the fields that one rules, what Replaceable names, and hashes of
\* a curve that is in the list twice.
THEOREM RegisterAccepts == Spec => AcceptedKeepsOthers
<1>. DEFINE Act == pc = "idle" /\ pc' = "idle" /\ rv' = "SUCCESS" =>
       \A ij \in Same(caps_list, caps_list') :
         LET c   == caps_list[ij[1]].cipher
             old == caps_list[ij[1]].cap
             new == caps_list'[ij[2]].cap
         IN  \A s \in Registered(c, old) \ Registered(c, new) :
               \/ Replaceable(c, s)
               \/ OfRepeated(c, new, s)
               \/ \E t \in new \ old : s.field \in {t.field} \cup RuledBy(t.field)
<1>1. ASSUME ListInv, CipherInv, WellInv, [Next]_vars PROVE [Act]_vars
  <2>1. SUFFICES ASSUME ~UNCHANGED vars, pc = "idle", pc' = "idle", rv' = "SUCCESS",
                        NEW ij \in Same(caps_list, caps_list')
                 PROVE  LET c   == caps_list[ij[1]].cipher
                            old == caps_list[ij[1]].cap
                            new == caps_list'[ij[2]].cap
                        IN  \A s \in Registered(c, old) \ Registered(c, new) :
                              \/ Replaceable(c, s)
                              \/ OfRepeated(c, new, s)
                              \/ \E t \in new \ old : s.field \in {t.field} \cup RuledBy(t.field)
    OBVIOUS
  <2>2. PICK c, old, new : c = caps_list[ij[1]].cipher /\ old = caps_list[ij[1]].cap /\ new = caps_list'[ij[2]].cap
    OBVIOUS
  <2>3. c \in Ciphers /\ WellFormed(c, old)
    BY <1>1, <2>2 DEF Same, CipherInv, WellInv
  <2>4. \/ new = old
        \/ \E row \in Rows(c) : \E at \in row.at, v \in Tries(row) :
              new = After(row, old, at, v) /\ Accepted(row, old, at, v)
    BY <1>1, <2>1, <2>2, AcceptedPair
  <2>5. \A s \in Registered(c, old) \ Registered(c, new) : Excused(c, old, new, s)
    BY <2>3, <2>4, AcceptedKept
  <2>. QED BY <2>2, <2>5 DEF Excused
<1>2. ListInv /\ CipherInv /\ WellInv /\ [Next]_vars => [Act]_vars
  BY <1>1
<1>3. AcceptedKeepsOthers <=> [][Act]_vars
  BY DEF AcceptedKeepsOthers
<1>. HIDE DEF Act
<1>. QED BY <1>2, <1>3, RegisterLists, RegisterCiphers, RegisterWellFormed, PTL DEF Spec
============================================================================
