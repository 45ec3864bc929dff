---------------------------- MODULE AcvpKatKnown ----------------------------
(***************************************************************************)
(* What the KAT handlers keep and what they do not keep: the properties of *)
(* AcvpKat with the algorithms named whose handlers are known not to keep  *)
(* them, and what the tables of all other handlers have in common that     *)
(* makes them keep the properties.                                         *)
(***************************************************************************)
EXTENDS AcvpKat, AcvpKatHandlers

rsa_algs == {"RSA_KEYGEN", "RSA_SIGGEN", "RSA_SIGVER", "RSA_DECPRIM", "RSA_DECPRIM_1_0",
             "RSA_SIGPRIM"}

ecdsa_algs == {"ECDSA_KEYGEN", "ECDSA_KEYVER", "ECDSA_SIGGEN", "ECDSA_SIGVER",
               "DET_ECDSA_SIGGEN"}

\* The locals that are declared outside the loop over the groups, assigned for
\* some groups only, and never reset, or assigned from what the last test of
\* the group before has left.
CarriedOver(a) ==
  CASE a \in {"AES_GCM", "AES_GMAC", "AES_XPN"} -> {"readIv"}
    [] a = "AES_XTS" -> {"seq_num"}
    [] a \in des_algs -> {"keyingOption", "incr_ctr", "ovrflw_ctr"}
    [] a = "RSA_KEYGEN" -> {"bitlen", "prime_test", "hash_alg", "seed", "e_str", "p_str",
                            "q_str"} \cup ToSet(rsa_xs)
    [] a = "RSA_DECPRIM" -> {"dmp1_str", "dmq1_str", "iqmp_str"}
    [] a = "RSA_SIGPRIM" -> {"d_str", "p_str", "q_str", "dmp1_str", "dmq1_str", "iqmp_str"}
    [] a = "KAS_IFC_SSC" -> {"n", "e", "p", "q", "d", "server_n", "server_e", "server_ct_z",
                             "kas2_z"} \cup ifc_crt
    [] a = "KTS_IFC" -> {"d"}
    [] a \in {"KDA_ONESTEP", "KDA_HKDF"} -> {"hybrid_secret"}
    [] a = "KDA_TWOSTEP" -> {"hybrid_secret", "iv_str"}
    [] a = "KDF108" -> {"iv_str", "iv_len"}
    [] a = "KDF135_IKEV1" -> {"psk", "psk_len"}
    [] OTHER -> {}

\* The handlers that release members of a test case that are not buffers.
Unclean == {"CMAC_AES", "CMAC_TDES", "EDDSA_KEYGEN", "EDDSA_SIGGEN", "EDDSA_SIGVER"} \cup ecdsa_algs

\* The handlers whose output_tc swallows a failed conversion.
Swallowing == (ecdsa_algs \ {"ECDSA_KEYVER", "ECDSA_SIGVER"}) \cup {"KAS_IFC_SSC", "KDF135_X963"}

\* The handlers that may fail after they have handed their answers over.
FailsLate == {"DSA_PQGVER", "DSA_SIGVER"}

\* What a handler may forget: buffers of a test case (q, message, ...), the
\* answer of a test, of a group or of the vector set, a result of a Monte
\* Carlo test.
Forgotten(a) ==
  {"array"} \cup
    (CASE a \in aes_algs -> {"tval", "result"}
       [] a \in des_algs \cup {"DSA_KEYGEN", "DSA_SIGGEN", "RSA_SIGVER", "RSA_DECPRIM"} -> {"tval"}
       [] a = "KDA_TWOSTEP" -> {"stray"}
       [] a = "EDDSA_SIGGEN" -> {"gval", "vs", "q", "message", "signature", "context"}
       [] OTHER -> {})
----------------------------------------------------------------------------
(* What the tables have in common.  The theorems of AcvpKatProofs hold for *)
(* all handlers with such tables.                                          *)

\* The locals that a group with features k and its tests assign.
Locals(a, k) == Table(a, k).groups.reads \cup Table(a, k).tests.reads

\* init_tc reads a local that another group has left only if it is known.
ResetsLocals(a) ==
  \A k, other \in Kinds(a) :
    /\ Table(a, k).init.uses \subseteq STRING
    /\ Table(a, k).init.uses \cap (Locals(a, other) \ Locals(a, k)) \subseteq CarriedOver(a)
    /\ Table(a, k).init.uses \cap Leaves(a) \subseteq CarriedOver(a)

\* Only the handlers that are known for it go on after a failure.
StopsAtFailure(a, h, k) ==
  /\ ~h.answer.stops => a \in rsa_algs
  /\ h.answer.tolerates /\ "decrypt" \notin k => a \in aes_auth_algs
  /\ "SUCCESS" \in h.init.fails => a \in {"KDA_ONESTEP", "KDA_TWOSTEP"}
  /\ "SUCCESS" \in h.output.fails => a \in Swallowing

\* A test case that is not zeroed at first is not released before init_tc has
\* filled it, and init_tc leaves no pointer to what it has freed (with one
\* buffer only, there is nothing to free when its allocation fails).
ReleasesOnlyBuffers(a) ==
  a \notin Unclean =>
    /\ \A k \in Kinds(a) : Table(a, k).init.frees = {} \/ Len(Table(a, k).init.alloc) = 1
    /\ \/ \A k \in Kinds(a) : Table(a, k).handler.cleared
       \/ \A k \in Kinds(a) : LET h == Table(a, k)
                               IN  "tc" \notin h.answer.err /\ (h.init.early = {} \/ "tc" \notin h.answer.init)

\* What the failures with a test case and its answer under way release.
Releases(h) ==
  {h.answer.crypto}
    \cup Opt(h.answer.stops \/ h.init.early # {}, {h.answer.init})
    \cup Opt(h.output.fails # {} \/ h.answer.key.fails # {}, {h.answer.output})

\* A failure with which a test case or its answer is under way releases it,
\* at once or at the label err.
ReleasesAll(a, h) ==
  /\ h.init.alloc \in Seq(STRING) /\ h.release \subseteq STRING
  /\ ToSet(h.init.alloc) \ h.release \subseteq Forgotten(a)
  /\ \A S \in Releases(h) : \/ "tc" \in S \cup h.answer.err
                            \/ ToSet(h.init.alloc) \subseteq Forgotten(a)
  /\ (\E S \in Releases(h) : "tval" \notin S) \/ h.tests.drops # {} => "tval" \in Forgotten(a)
  /\ h.answer.mct.drops # {} => "result" \in Forgotten(a)

\* A refusal or failure is not reported as a success (or all that is under way
\* may be forgotten), and there is none after the answers are handed over.
ReportsFailure(a, h) ==
  /\ a # "EDDSA_SIGGEN" =>
       "SUCCESS" \notin h.handler.fails \cup h.handler.groups \cup h.groups.fails \cup h.tests.fails
                        \cup h.tests.drops \cup h.init.early \cup h.answer.key.fails
                        \cup h.answer.mct.fails \cup h.answer.mct.drops
  /\ h.handler.ends # {} => a \in FailsLate
  /\ a = "EDDSA_SIGGEN" => ToSet(h.init.alloc) \cup {"gval", "vs"} \subseteq Forgotten(a)

ASSUME TablesAssumption ==
  \A a \in Algs :
    /\ Kinds(a) # {}
    /\ ResetsLocals(a)
    /\ ReleasesOnlyBuffers(a)
    /\ \A k \in Kinds(a) : /\ StopsAtFailure(a, Table(a, k), k)
                          /\ ReleasesAll(a, Table(a, k))
                          /\ ReportsFailure(a, Table(a, k))
----------------------------------------------------------------------------
(* Properties.                                                             *)

\* Inputs of one test group reach the test cases of another only through the
\* locals that the handler never resets, or (KDA) assigns from the last test of
\* the group before; in all other handlers, a test case is made of its own
\* group's and its own test's inputs alone.
OnlyKnownCarryOver == pc \in {"crypto", "mct"} => stc.stale \subseteq CarriedOver(alg)

\* An answer that the module did not compute from all of its inputs, or not
\* all of whose fields were written, comes only from the RSA handlers (which
\* ignore a failed init_tc), the authenticated AES modes (which tolerate a
\* failed encryption), the KDA handlers (whose init_tc may stop early) and
\* the output_tc functions that swallow a failed conversion.
OnlyKnownBadAnswers ==
  /\ "unasked" \in ans => alg \in rsa_algs
  /\ "failed" \in ans => alg \in aes_auth_algs
  /\ "guessed" \in ans => alg \in {"KDA_ONESTEP", "KDA_TWOSTEP"}
  /\ "short" \in ans => alg \in Swallowing

\* On no path, success or failure, does a handler forget a buffer, an answer
\* or a group's answer, or release what is not there to release, but for the
\* buffers named here, the test cases that init_tc leaves half made (CMAC,
\* ECDSA, EdDSA), and the DSA handlers that fail after they have handed their
\* answers over.
OnlyKnownMemoryFaults ==
  /\ "wild" \in faults => alg \in Unclean
  /\ "twice" \in faults => alg \in FailsLate
  /\ pc = "return" => lost \subseteq Forgotten(alg)

\* Success means a complete response, but for an EdDSA signature handler that
\* cannot allocate the group's key; failure leaves no answers behind, but for
\* the DSA handlers that fail after the end.
ResultMatchesResponse ==
  /\ alg # "EDDSA_SIGGEN" => SuccessIsComplete
  /\ alg \notin FailsLate => FailureLeavesNothing
=============================================================================
