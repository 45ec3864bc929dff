---------------------- MODULE AcvpFipsValidationProofs ----------------------
(***************************************************************************)
(* Proofs about the metadata of a FIPS validation and its verification,    *)
(* for every set of files, every server and all limits.                    *)
(***************************************************************************)
EXTENDS AcvpFipsValidation, WellFoundedInduction, TLAPS

----------------------------------------------------------------------------
(* Lists, and objects found in them *)

\* A nonempty set of numbers has a least one: what CHOOSE picks for "the first".
LEMMA LeastExists ==
    ASSUME NEW S, S \subseteq Nat, S # {}
    PROVE  \E k \in S : \A j \in S : k <= j
<1> DEFINE R == {ss \in Nat \X Nat : ss[1] < ss[2]}
<1>1. IsWellFoundedOn(R, Nat)
  BY NatLessThanWellFounded DEF OpToRel
<1>2. PICK x \in S : \A y \in S : ~ (<<y, x>> \in R)
  <2> HIDE DEF R
  <2> QED
    BY <1>1, WFMin
<1>3. \A y \in S : ~(y < x)
  BY <1>2
<1> QED
  BY <1>3

\* The places of a list.
LEMMA ListFacts ==
    ASSUME NEW s, IsList(s)
    PROVE  Len(s) \in Nat /\ DOMAIN s = 1..Len(s)
BY DEF IsList

\* The empty list.
LEMMA EmptyList == IsList(<<>>) /\ Len(<<>>) = 0 /\ DOMAIN <<>> = {}
BY DEF IsList

\* A function on 1..n is a list of n elements.
LEMMA FunctionIsList ==
    ASSUME NEW n \in Nat, NEW S, NEW f \in [1..n -> S]
    PROVE  IsList(f) /\ Len(f) = n
<1>1. f \in [1..n -> ToSet(f)]
  BY DEF ToSet
<1> QED
  BY <1>1 DEF IsList

\* What appending does.
LEMMA AppendList ==
    ASSUME NEW s, IsList(s), NEW e
    PROVE  /\ IsList(Append(s, e))
           /\ Len(Append(s, e)) = Len(s) + 1
           /\ DOMAIN Append(s, e) = 1..(Len(s) + 1)
           /\ \A k \in DOMAIN s : Append(s, e)[k] = s[k]
           /\ Append(s, e)[Len(s) + 1] = e
<1> DEFINE S == ToSet(s) \cup {e}
<1>1. s \in Seq(S)
  BY DEF IsList
<1> HIDE DEF S
<1>2. e \in S
  BY DEF S
<1>3. /\ Append(s, e) \in Seq(S)
      /\ Len(Append(s, e)) = Len(s) + 1
      /\ \A k \in DOMAIN s : Append(s, e)[k] = s[k]
      /\ Append(s, e)[Len(s) + 1] = e
  BY <1>1, <1>2
<1>4. Len(s) + 1 \in Nat
  BY <1>1
<1> DEFINE t == Append(s, e)
<1>5. t \in Seq(S) /\ Len(t) = Len(s) + 1
  BY <1>3
<1> HIDE DEF t
<1>6. t \in [1..(Len(s) + 1) -> S]
  BY <1>4, <1>5
<1>7. IsList(t) /\ DOMAIN t = 1..(Len(s) + 1)
  BY <1>4, <1>6, FunctionIsList
<1> QED
  BY <1>3, <1>7 DEF t

\* What changing one element does.
LEMMA ExceptList ==
    ASSUME NEW s, IsList(s), NEW k \in DOMAIN s, NEW e, NEW t,
           t = [s EXCEPT ![k] = e]
    PROVE  /\ IsList(t) /\ Len(t) = Len(s) /\ DOMAIN t = DOMAIN s
           /\ t[k] = e
           /\ \A j \in DOMAIN s : j # k => t[j] = s[j]
<1>1. Len(s) \in Nat /\ DOMAIN s = 1..Len(s)
  BY ListFacts
<1>2. s \in [1..Len(s) -> ToSet(s)]
  BY <1>1 DEF IsList
<1>3. t \in [1..Len(s) -> ToSet(s) \cup {e}]
  BY <1>1, <1>2
<1>4. IsList(t) /\ Len(t) = Len(s)
  BY <1>1, <1>3, FunctionIsList
<1> QED
  BY <1>1, <1>2, <1>3, <1>4

\* If some places of a list are wanted, there is a first one.
LEMMA FirstExists ==
    ASSUME NEW s, IsList(s), NEW S, S \subseteq DOMAIN s, S # {}
    PROVE  \E k \in DOMAIN s : k \in S /\ \A j \in 1..(k - 1) : j \notin S
<1>1. Len(s) \in Nat /\ DOMAIN s = 1..Len(s)
  BY ListFacts
<1>2. PICK k \in S : \A j \in S : k <= j
  BY <1>1, LeastExists
<1> QED
  BY <1>1, <1>2

\* find returns the place of the first object with the id, and 0 only when
\* there is none.
LEMMA FindFacts ==
    ASSUME NEW list, IsList(list), NEW id
    PROVE  /\ find(list, id) = 0 <=> id = 0 \/ id \notin Ids(list)
           /\ find(list, id) # 0 =>
                /\ find(list, id) \in DOMAIN list
                /\ list[find(list, id)].id = id
                /\ \A j \in 1..(find(list, id) - 1) : list[j].id # id
<1>1. Len(list) \in Nat /\ DOMAIN list = 1..Len(list)
  BY ListFacts
<1>2. CASE id = 0 \/ id \notin Ids(list)
  BY <1>2 DEF find
<1>3. CASE ~(id = 0 \/ id \notin Ids(list))
  <2> DEFINE S == {k \in DOMAIN list : list[k].id = id}
             P(m) == list[m].id = id /\ \A j \in 1..(m - 1) : list[j].id # id
  <2>1. S \subseteq DOMAIN list /\ S # {}
    BY <1>3 DEF Ids
  <2>2. PICK k \in DOMAIN list : k \in S /\ \A j \in 1..(k - 1) : j \notin S
    <3> HIDE DEF S
    <3> QED
      BY <2>1, FirstExists
  <2>3. \E m \in DOMAIN list : P(m)
    BY <1>1, <2>2
  <2>4. find(list, id) = CHOOSE m \in DOMAIN list : P(m)
    BY <1>3 DEF find
  <2>5. find(list, id) \in DOMAIN list /\ P(find(list, id))
    <3> HIDE DEF P
    <3> QED
      BY <2>3, <2>4
  <2> QED
    BY <1>1, <1>3, <2>5
<1> QED
  BY <1>2, <1>3

\* It finds the same place when the list has grown, or when its objects have
\* changed but kept their ids.
LEMMA FindKept ==
    ASSUME NEW s, IsList(s), NEW t, IsList(t), NEW id,
           DOMAIN s \subseteq DOMAIN t,
           \A k \in DOMAIN s : t[k].id = s[k].id,
           find(s, id) # 0
    PROVE  find(t, id) = find(s, id)
<1>1. /\ Len(s) \in Nat /\ DOMAIN s = 1..Len(s)
      /\ Len(t) \in Nat /\ DOMAIN t = 1..Len(t)
  BY ListFacts
<1> DEFINE k == find(s, id)
           m == find(t, id)
<1>2. /\ id # 0 /\ k \in DOMAIN s /\ s[k].id = id
      /\ \A j \in 1..(k - 1) : s[j].id # id
  BY FindFacts
<1>3. t[k].id = id /\ k \in DOMAIN t
  BY <1>2
<1>4. id \in Ids(t)
  BY <1>3 DEF Ids
<1>5. /\ m \in DOMAIN t /\ t[m].id = id
      /\ \A j \in 1..(m - 1) : t[j].id # id
  BY <1>2, <1>4, FindFacts
<1> HIDE DEF k, m
<1>6. ~(k < m)
  BY <1>1, <1>2, <1>3, <1>5
<1>7. ~(m < k)
  BY <1>1, <1>2, <1>5
<1> QED
  BY <1>1, <1>2, <1>5, <1>6, <1>7 DEF k, m

----------------------------------------------------------------------------
(* Where the program is *)

Reading == {"vendors", "modules", "oes", "deps"}
InVerification == Verifying \/ pc \in {"verified", "hung"}

Fields == {"of", "k", "read", "page", "i", "link", "tmp"}

\* Types of the counters, of the choice and of the place in the file.
PlaceOK ==
    /\ glb \in [vendor : Nat, module : Nat, oe : Nat, dependency : Nat]
    /\ fips \in [module : Nat, oe : Nat, metadata_loaded : {0, 1}]
    /\ pc \in {"idle", "crashed"} \cup Reading \/ InVerification
    /\ pc \in Reading => file \in Files /\ pos \in Nat \ {0}
    /\ DOMAIN q = Fields

\* A query keeps its fields.
LEMMA NoQueryFields == DOMAIN NoQuery = Fields
BY DEF NoQuery, Fields

\* The initial states are typed.
LEMMA PlaceOKInit == FVInit => PlaceOK
BY NoQueryFields DEF FVInit, Init, PlaceOK, Reading

\* The counters only count.
LEMMA CountersTyped ==
    ASSUME PlaceOK, NEW c \in {"vendor", "module", "oe", "dependency"}
    PROVE  [glb EXCEPT ![c] = @ + 1] \in [vendor : Nat, module : Nat, oe : Nat, dependency : Nat]
BY DEF PlaceOK

\* Reading a file, and a call of the application, keep the place typed.
LEMMA EnvKeepsPlace ==
    ASSUME PlaceOK, EnvNext, UNCHANGED q
    PROVE  /\ PlaceOK'
           /\ pc \in {"idle"} \cup Reading
           /\ pc' \in {"idle"} \cup Reading
<1> USE DEF PlaceOK, Reading, op_env, place, bounds
<1>1. CASE \E f \in Files : acvp_oe_ingest_metadata(f)
  BY <1>1 DEF acvp_oe_ingest_metadata
<1>2. CASE \E code \in {"JSON_ERR", "MALFORMED_JSON"} : IngestFails(code)
  BY <1>2 DEF IngestFails, Refused
<1>3. CASE acvp_oe_metadata_parse_vendor
  <2>1. pc = "vendors" /\ fips' = fips
    BY <1>3 DEF acvp_oe_metadata_parse_vendor, Refused, GoOn
  <2>2. \/ pc' = "idle"
        \/ pc' = "vendors" /\ file' = file /\ pos' = pos + 1
    BY <1>3 DEF acvp_oe_metadata_parse_vendor, Refused, GoOn
  <2>3. glb' \in [vendor : Nat, module : Nat, oe : Nat, dependency : Nat]
    <3>1. glb' = [glb EXCEPT !["vendor"] = @ + 1]
      BY <1>3 DEF acvp_oe_metadata_parse_vendor
    <3> QED
      BY <3>1, CountersTyped
  <2> QED
    BY <2>1, <2>2, <2>3
<1>4. CASE \E stage \in 0..5 : VendorFails(stage)
  <2>1. /\ pc = "vendors" /\ fips' = fips /\ pc' = "idle"
        /\ glb' = [glb EXCEPT !["vendor"] = @ + 1]
    BY <1>4 DEF VendorFails, Refused
  <2>2. glb' \in [vendor : Nat, module : Nat, oe : Nat, dependency : Nat]
    BY <2>1, CountersTyped
  <2> QED
    BY <2>1, <2>2
<1>5. CASE acvp_oe_metadata_parse_module
  <2>1. pc = "modules" /\ fips' = fips
    BY <1>5 DEF acvp_oe_metadata_parse_module, Refused, GoOn
  <2>2. \/ pc' = "idle"
        \/ pc' = "modules" /\ file' = file /\ pos' = pos + 1
    BY <1>5 DEF acvp_oe_metadata_parse_module, Refused, GoOn
  <2>3. glb' \in [vendor : Nat, module : Nat, oe : Nat, dependency : Nat]
    <3>1. glb' = [glb EXCEPT !["module"] = @ + 1]
      BY <1>5 DEF acvp_oe_metadata_parse_module
    <3> QED
      BY <3>1, CountersTyped
  <2> QED
    BY <2>1, <2>2, <2>3
<1>6. CASE \E stage \in 0..2 : ModuleFails(stage)
  <2>1. /\ pc = "modules" /\ fips' = fips /\ pc' = "idle"
        /\ glb' = [glb EXCEPT !["module"] = @ + 1]
    BY <1>6 DEF ModuleFails, Refused
  <2>2. glb' \in [vendor : Nat, module : Nat, oe : Nat, dependency : Nat]
    BY <2>1, CountersTyped
  <2> QED
    BY <2>1, <2>2
<1>7. CASE acvp_oe_metadata_parse_oe
  <2>1. pc = "oes" /\ fips' = fips
    BY <1>7 DEF acvp_oe_metadata_parse_oe, Refused
  <2>2. \/ pc' = "idle"
        \/ pc' = "deps" /\ file' = file /\ pos' = pos
    BY <1>7 DEF acvp_oe_metadata_parse_oe, Refused
  <2>3. glb' \in [vendor : Nat, module : Nat, oe : Nat, dependency : Nat]
    <3>1. glb' = [glb EXCEPT !["oe"] = @ + 1]
      BY <1>7 DEF acvp_oe_metadata_parse_oe
    <3> QED
      BY <3>1, CountersTyped
  <2> QED
    BY <2>1, <2>2, <2>3
<1>8. CASE \E stage \in 0..2 : OeFails(stage)
  <2>1. /\ pc = "oes" /\ fips' = fips /\ pc' = "idle"
        /\ glb' = [glb EXCEPT !["oe"] = @ + 1]
    BY <1>8 DEF OeFails, Refused
  <2>2. glb' \in [vendor : Nat, module : Nat, oe : Nat, dependency : Nat]
    BY <2>1, CountersTyped
  <2> QED
    BY <2>1, <2>2
<1>9. CASE acvp_oe_metadata_parse_oe_dependencies
  BY <1>9, SMTT(30) DEF acvp_oe_metadata_parse_oe_dependencies, Refused
<1>10. CASE \E stage \in 0..2 : DependencyFails(stage)
  BY <1>10 DEF DependencyFails, Refused
<1>11. CASE NextList
  BY <1>11 DEF NextList
<1>12. CASE IngestEnds
  BY <1>12 DEF IngestEnds
<1>13. CASE acvp_oe_free_operating_env
  BY <1>13 DEF acvp_oe_free_operating_env
<1>14. CASE \/ \E id \in ApiIds : ApiDependency(id)
            \/ \E id \in ApiIds, named \in {"yes", None} : acvp_oe_oe_new(id, named)
            \/ \E o, d \in ApiIds : acvp_oe_oe_set_dependency(o, d)
            \/ \E id \in ApiIds, named \in {"yes", None} : acvp_oe_module_new(id, named)
            \/ \E id \in ApiIds, code \in {"SUCCESS", "INVALID_ARG"} :
                 acvp_oe_module_set_type_version_desc(id, code)
  <2>1. pc = "idle" /\ UNCHANGED <<glb, fips, pc, file, pos, q>>
    BY <1>14 DEF ApiDependency, acvp_oe_oe_new, acvp_oe_oe_set_dependency,
                 acvp_oe_module_new, acvp_oe_module_set_type_version_desc, Api
  <2> QED
    BY <2>1
<1>15. ASSUME NEW m \in ApiIds \cup {0}, NEW o \in ApiIds \cup {0},
              acvp_oe_set_fips_validation_metadata(m, o)
       PROVE  /\ PlaceOK'
              /\ pc \in {"idle"} \cup Reading
              /\ pc' \in {"idle"} \cup Reading
  BY <1>15, LimitsAssumption DEF acvp_oe_set_fips_validation_metadata
<1> QED
  BY <1>1, <1>2, <1>3, <1>4, <1>5, <1>6, <1>7, <1>8, <1>9, <1>10, <1>11, <1>12,
     <1>13, <1>14, <1>15 DEF EnvNext

\* So does the verification, which changes neither the counters nor the choice.
LEMMA VerifyKeepsPlace ==
    ASSUME PlaceOK,
           acvp_verify_fips_validation_metadata \/ VerifyNext \/ Hung \/ UNCHANGED vars
    PROVE  PlaceOK' /\ UNCHANGED <<glb, fips, file, pos>>
<1> USE NoQueryFields DEF PlaceOK, Reading, InVerification, Verifying
<1>1. CASE acvp_verify_fips_validation_metadata
  BY <1>1 DEF acvp_verify_fips_validation_metadata, place
<1>2. CASE Hung \/ UNCHANGED vars
  BY <1>2 DEF Hung, vars, envVars, place
<1>3. CASE query_vendor \/ query_module \/ query_dependency
  BY <1>3 DEF query_vendor, query_module, query_dependency, Fails, Step, Query, place
<1>4. CASE verify_fips_oe_dependencies \/ DependencyQueried \/ verify_fips_oe
  BY <1>4 DEF verify_fips_oe_dependencies, DependencyQueried, verify_fips_oe, Step, place
<1>5. CASE Get \/ GetFails \/ PageMalformed
  BY <1>5 DEF Get, GetFails, PageMalformed, Fails, Step, place
<1>6. CASE match_vendors_page \/ match_vendor_contacts \/ ContactsFail
  BY <1>6 DEF match_vendors_page, match_vendor_contacts, ContactsFail, Fails,
              Step, NextEntry, EndQuery, After, place
<1>7. CASE match_modules_page \/ match_dependencies_page \/ match_oes_page \/ PageEnds
  BY <1>7 DEF match_modules_page, match_dependencies_page, match_oes_page, PageEnds,
              Step, NextEntry, EndQuery, After, place
<1>8. CASE VerifyReturned
  BY <1>8 DEF VerifyReturned, envVars, place
<1> QED
  BY <1>1, <1>2, <1>3, <1>4, <1>5, <1>6, <1>7, <1>8 DEF VerifyNext

----------------------------------------------------------------------------
(* The lists of the context *)

VendorOK(v) ==
    /\ {"id", "url", "address_url", "person_urls", "from", "persons"} \subseteq DOMAIN v
    /\ IsList(v.persons) /\ IsList(v.person_urls)
    /\ Len(v.person_urls) = Len(v.persons)
ModuleOK(m) == {"id", "vendor", "name", "attrs", "url", "from"} \subseteq DOMAIN m
OeOK(o) == {"id", "deps", "url", "status"} \subseteq DOMAIN o /\ IsList(o.deps)
DependencyOK(d) == {"id", "attrs", "url", "over"} \subseteq DOMAIN d

\* Every object is complete, and a vendor has a URL for each of its persons.
ListsOK ==
    /\ IsList(vendors) /\ \A k \in DOMAIN vendors : VendorOK(vendors[k])
    /\ IsList(modules) /\ \A k \in DOMAIN modules : ModuleOK(modules[k])
    /\ IsList(oes)     /\ \A k \in DOMAIN oes : OeOK(oes[k])
    /\ IsList(deps)    /\ \A k \in DOMAIN deps : DependencyOK(deps[k])

\* An OE names only dependencies that exist; so does the choice of a module and
\* an OE.  No pointer of the code dangles.
Linked ==
    \A o \in DOMAIN oes : \A k \in DOMAIN oes[o].deps : oes[o].deps[k] \in Ids(deps) \ {0}
Chosen ==
    /\ fips.module # 0 => fips.module \in Ids(modules)
    /\ fips.oe # 0 => fips.oe \in Ids(oes)

EnvInv == PlaceOK /\ ListsOK /\ Linked /\ Chosen

\* The ways in which the application and the reader of a file change the lists.
Freed ==
    /\ vendors' = <<>> /\ modules' = <<>> /\ oes' = <<>> /\ deps' = <<>>
    /\ fips'.module = 0 /\ fips'.oe = 0
VendorAdded ==
    /\ \E v : VendorOK(v) /\ v.url = None /\ vendors' = Append(vendors, v)
    /\ UNCHANGED <<modules, oes, deps, fips>>
ModuleAdded ==
    /\ \E m : ModuleOK(m) /\ modules' = Append(modules, m)
    /\ UNCHANGED <<vendors, oes, deps, fips>>
ModuleSet ==
    /\ \E k \in DOMAIN modules : \E a : modules' = [modules EXCEPT ![k].attrs = a]
    /\ UNCHANGED <<vendors, oes, deps, fips>>
OeAdded ==
    /\ \E id, named : oes' = Append(oes, Oe(id, named))
    /\ UNCHANGED <<vendors, modules, deps, fips>>
OeLinked ==
    \E k \in DOMAIN oes, d \in Ids(deps') \ {0} :
        oes' = [oes EXCEPT ![k].deps = Append(@, d)]
DependencyAdded ==
    /\ \E id, a : deps' = Append(deps, Dependency(id, a))
    /\ oes' = oes \/ OeLinked
    /\ UNCHANGED <<vendors, modules, fips>>
DependencyRewritten ==
    /\ \E k \in DOMAIN deps : \E a : deps' = [deps EXCEPT ![k] = Overwritten(@, a)]
    /\ oes' = oes \/ OeLinked
    /\ UNCHANGED <<vendors, modules, fips>>
DependencyLinked ==
    OeLinked /\ UNCHANGED <<vendors, modules, deps, fips>>
ChoiceMade ==
    /\ fips'.module = fips.module \/ fips'.module \in Ids(modules)
    /\ fips'.oe = fips.oe \/ fips'.oe \in Ids(oes)
    /\ UNCHANGED <<vendors, modules, oes, deps>>

EnvChange ==
    \/ Freed \/ VendorAdded \/ ModuleAdded \/ ModuleSet \/ OeAdded
    \/ DependencyAdded \/ DependencyRewritten \/ DependencyLinked \/ ChoiceMade

\* A vendor of a file is complete at every stage of reading it.
LEMMA VendorIsOK ==
    ASSUME NEW id, NEW v, IsList(v.persons), NEW stage \in 0..6
    PROVE  VendorOK(Vendor(id, v, stage)) /\ Vendor(id, v, stage).url = None
<1> DEFINE n == Vendor(id, v, stage)
<1>1. /\ {"id", "url", "address_url", "person_urls", "from", "persons"} \subseteq DOMAIN n
      /\ n.url = None
  BY DEF Vendor
<1>2. CASE stage > 5
  <2>1. n.persons = v.persons /\ n.person_urls = [k \in DOMAIN v.persons |-> None]
    BY <1>2 DEF Vendor
  <2>2. Len(v.persons) \in Nat /\ DOMAIN v.persons = 1..Len(v.persons)
    BY ListFacts
  <2>3. n.person_urls \in [1..Len(v.persons) -> {None}]
    BY <2>1, <2>2
  <2>4. IsList(n.person_urls) /\ Len(n.person_urls) = Len(v.persons)
    BY <2>2, <2>3, FunctionIsList
  <2> QED
    BY <1>1, <2>1, <2>4 DEF VendorOK
<1>3. CASE stage = 5
  <2>1. n.persons = <<Nobody>> /\ n.person_urls = <<None>>
    BY <1>3 DEF Vendor
  <2>2. n.persons \in [1..1 -> {Nobody}] /\ n.person_urls \in [1..1 -> {None}]
    BY <2>1
  <2>3. /\ IsList(n.persons) /\ Len(n.persons) = 1
        /\ IsList(n.person_urls) /\ Len(n.person_urls) = 1
    BY <2>2, FunctionIsList
  <2> QED
    BY <1>1, <2>3 DEF VendorOK
<1>4. CASE stage < 5
  <2>1. n.persons = <<>> /\ n.person_urls = <<>>
    BY <1>4 DEF Vendor
  <2> QED
    BY <1>1, <2>1, EmptyList DEF VendorOK
<1> QED
  BY <1>2, <1>3, <1>4

\* A module is complete, also one without a vendor.
LEMMA ModuleIsOK ==
    ASSUME NEW id, NEW named, NEW a, NEW f
    PROVE  ModuleOK(Module(id, named, a, f))
BY DEF Module, ModuleOK

\* Overwriting a dependency changes its attributes only.
LEMMA RewrittenFacts ==
    ASSUME ListsOK, NEW k \in DOMAIN deps, NEW a, NEW t,
           t = [deps EXCEPT ![k] = Overwritten(@, a)]
    PROVE  /\ IsList(t) /\ DOMAIN t = DOMAIN deps
           /\ t[k].over = "yes"
           /\ \A j \in DOMAIN deps :
                /\ DependencyOK(t[j]) /\ t[j].id = deps[j].id /\ t[j].url = deps[j].url
                /\ j # k => t[j] = deps[j]
<1> DEFINE d == Overwritten(deps[k], a)
<1>1. IsList(deps) /\ \A j \in DOMAIN deps : DependencyOK(deps[j])
  BY DEF ListsOK
<1>2. DependencyOK(d) /\ d.id = deps[k].id /\ d.url = deps[k].url /\ d.over = "yes"
  BY <1>1 DEF Overwritten, DependencyOK
<1>3. t = [deps EXCEPT ![k] = d]
  OBVIOUS
<1> HIDE DEF d
<1>4. /\ IsList(t) /\ DOMAIN t = DOMAIN deps /\ t[k] = d
      /\ \A j \in DOMAIN deps : j # k => t[j] = deps[j]
  BY <1>1, <1>3, ExceptList
<1> QED
  BY <1>1, <1>2, <1>4

\* The dependency of a file is appended, or overwrites one, or is dropped.
LEMMA WithAttributesFacts ==
    ASSUME ListsOK, NEW id, NEW a
    PROVE  /\ IsList(WithAttributes(id, a))
           /\ \/ WithAttributes(id, a) = deps
              \/ WithAttributes(id, a) = Append(deps, Dependency(id, a))
              \/ \E k \in DOMAIN deps :
                   WithAttributes(id, a) = [deps EXCEPT ![k] = Overwritten(@, a)]
<1>1. IsList(deps)
  BY DEF ListsOK
<1>2. \/ WithAttributes(id, a) = deps
      \/ WithAttributes(id, a) = Append(deps, Dependency(id, a))
      \/ /\ find(deps, id) # 0
         /\ WithAttributes(id, a) = [deps EXCEPT ![find(deps, id)] = Overwritten(@, a)]
  BY DEF WithAttributes
<1>3. find(deps, id) # 0 => find(deps, id) \in DOMAIN deps
  BY <1>1, FindFacts
<1>4. IsList(Append(deps, Dependency(id, a)))
  BY <1>1, AppendList
<1>5. \A k \in DOMAIN deps : IsList([deps EXCEPT ![k] = Overwritten(@, a)])
  BY RewrittenFacts
<1> QED
  BY <1>1, <1>2, <1>3, <1>4, <1>5

\* Linking a dependency changes at most the dependencies of one OE, and adds
\* only one that exists.
LEMMA WithDependencyFacts ==
    ASSUME IsList(oes), IsList(deps'), NEW o, NEW d, oes' = WithDependency(find(oes, o), d)
    PROVE  oes' = oes \/ OeLinked
<1> DEFINE k == find(oes, o)
<1>1. CASE oes' # oes
  <2>1. k # 0 /\ find(deps', d) # 0 /\ oes' = [oes EXCEPT ![k].deps = Append(@, d)]
    BY <1>1 DEF WithDependency
  <2>2. k \in DOMAIN oes
    BY <2>1, FindFacts
  <2>3. d \in Ids(deps') \ {0}
    BY <2>1, FindFacts
  <2> QED
    BY <2>1, <2>2, <2>3 DEF OeLinked
<1> QED
  BY <1>1

\* Every step of the reader or call of the application is one of these changes.
LEMMA EnvChanges ==
    ASSUME EnvInv, EnvNext
    PROVE  EnvChange
<1> USE DEF op_env, place, bounds
<1>0. PlaceOK /\ ListsOK
  BY DEF EnvInv
<1>1. ASSUME NEW stage \in 0..6, pc = "vendors", pos <= Len(file.vendors),
             vendors' = Append(vendors, Vendor(glb.vendor, file.vendors[pos], stage)),
             UNCHANGED <<modules, oes, deps, fips>>
      PROVE  VendorAdded
  <2>1. /\ file \in Files /\ pos \in Nat \ {0}
    BY <1>0, <1>1 DEF PlaceOK, Reading
  <2>2. IsList(file.vendors)
    BY <2>1, FilesAssumption
  <2>3. pos \in DOMAIN file.vendors
    BY <1>1, <2>1, <2>2, ListFacts
  <2>4. IsList(file.vendors[pos].persons)
    BY <2>1, <2>3, FilesAssumption DEF ToSet
  <2> DEFINE v == Vendor(glb.vendor, file.vendors[pos], stage)
  <2>5. VendorOK(v) /\ v.url = None
    BY <2>4, VendorIsOK
  <2> HIDE DEF v
  <2>6. vendors' = Append(vendors, v)
    BY <1>1 DEF v
  <2> QED
    BY <1>1, <2>5, <2>6 DEF VendorAdded
<1>2. CASE acvp_oe_metadata_parse_vendor
  <2>1. \/ UNCHANGED <<vendors, modules, oes, deps, fips>>
        \/ /\ vendors' = Append(vendors, Vendor(glb.vendor, file.vendors[pos], 6))
           /\ UNCHANGED <<modules, oes, deps, fips>>
    BY <1>2 DEF acvp_oe_metadata_parse_vendor, Refused, GoOn
  <2>2. pc = "vendors" /\ pos <= Len(file.vendors)
    BY <1>2 DEF acvp_oe_metadata_parse_vendor
  <2> QED
    BY <1>1, <2>1, <2>2 DEF EnvChange, ChoiceMade
<1>3. ASSUME NEW stage \in 0..5, VendorFails(stage) PROVE EnvChange
  <2>1. \/ UNCHANGED <<vendors, modules, oes, deps, fips>>
        \/ /\ vendors' = Append(vendors, Vendor(glb.vendor, file.vendors[pos], stage))
           /\ UNCHANGED <<modules, oes, deps, fips>>
    BY <1>3 DEF VendorFails, Refused
  <2>2. pc = "vendors" /\ pos <= Len(file.vendors)
    BY <1>3 DEF VendorFails
  <2> QED
    BY <1>1, <2>1, <2>2 DEF EnvChange, ChoiceMade
<1>4. CASE acvp_oe_metadata_parse_module
  <2> DEFINE m == Module(glb.module, "yes", file.modules[pos], ingests)
             n == [m EXCEPT !.name = None, !.attrs = "none"]
  <2>1. ModuleOK(m) /\ ModuleOK(n)
    BY ModuleIsOK DEF ModuleOK
  <2>2. \/ UNCHANGED <<vendors, modules, oes, deps, fips>>
        \/ modules' = Append(modules, m) /\ UNCHANGED <<vendors, oes, deps, fips>>
        \/ modules' = Append(modules, n) /\ UNCHANGED <<vendors, oes, deps, fips>>
    BY <1>4 DEF acvp_oe_metadata_parse_module, Refused, GoOn
  <2> HIDE DEF m, n
  <2> QED
    BY <2>1, <2>2 DEF EnvChange, ModuleAdded, ChoiceMade
<1>5. ASSUME NEW stage \in 0..2, ModuleFails(stage) PROVE EnvChange
  <2> DEFINE m == Module(glb.module, IF stage > 1 THEN "yes" ELSE None, "none", ingests)
  <2>1. ModuleOK(m)
    BY ModuleIsOK
  <2>2. \/ UNCHANGED <<vendors, modules, oes, deps, fips>>
        \/ modules' = Append(modules, m) /\ UNCHANGED <<vendors, oes, deps, fips>>
    BY <1>5 DEF ModuleFails, Refused
  <2> HIDE DEF m
  <2> QED
    BY <2>1, <2>2 DEF EnvChange, ModuleAdded, ChoiceMade
<1>6. CASE acvp_oe_metadata_parse_oe
  BY <1>6 DEF acvp_oe_metadata_parse_oe, Refused, EnvChange, OeAdded, ChoiceMade
<1>7. ASSUME NEW stage \in 0..2, OeFails(stage) PROVE EnvChange
  BY <1>7 DEF OeFails, Refused, EnvChange, OeAdded, ChoiceMade
<1>8. CASE acvp_oe_metadata_parse_oe_dependencies
  <2> DEFINE a  == file.oes[pos][dpos]
             id == match_dependency([id |-> 0, attrs |-> a])
             d  == IF id # 0 THEN id ELSE glb.dependency
  <2>1. /\ UNCHANGED <<vendors, modules, fips>>
        /\ \/ UNCHANGED <<deps, oes>>
           \/ /\ deps' = deps \/ deps' = WithAttributes(glb.dependency, a)
              /\ oes' = WithDependency(find(oes, glb.oe - 1), d)
    BY <1>8 DEF acvp_oe_metadata_parse_oe_dependencies, Refused
  <2> HIDE DEF a, id, d
  <2>2. IsList(deps) /\ IsList(oes) /\ IsList(WithAttributes(glb.dependency, a))
    BY <1>0, WithAttributesFacts DEF ListsOK
  <2>3. IsList(deps')
    <3>1. deps' = deps \/ deps' = WithAttributes(glb.dependency, a)
      BY <2>1
    <3>2. CASE deps' = deps
      BY <2>2, <3>2
    <3>3. CASE deps' = WithAttributes(glb.dependency, a)
      BY <2>2, <3>3
    <3> QED
      BY <3>1, <3>2, <3>3
  <2>4. oes' = oes \/ OeLinked
    BY <2>1, <2>2, <2>3, WithDependencyFacts
  <2>5. \/ deps' = deps
        \/ deps' = Append(deps, Dependency(glb.dependency, a))
        \/ \E k \in DOMAIN deps : deps' = [deps EXCEPT ![k] = Overwritten(@, a)]
    BY <1>0, <2>1, WithAttributesFacts
  <2> QED
    BY <2>1, <2>4, <2>5 DEF EnvChange, DependencyAdded, DependencyRewritten,
                            DependencyLinked, ChoiceMade
<1>9. ASSUME NEW stage \in 0..2, DependencyFails(stage) PROVE EnvChange
  <2> DEFINE a == IF stage = 1 THEN NoAttrs ELSE [file.oes[pos][dpos] EXCEPT !["series"] = None]
  <2>1. /\ UNCHANGED <<vendors, modules, oes, fips>>
        /\ deps' = deps \/ deps' = WithAttributes(glb.dependency, a)
    BY <1>9 DEF DependencyFails, Refused
  <2> HIDE DEF a
  <2>2. \/ deps' = deps
        \/ deps' = Append(deps, Dependency(glb.dependency, a))
        \/ \E k \in DOMAIN deps : deps' = [deps EXCEPT ![k] = Overwritten(@, a)]
    BY <1>0, <2>1, WithAttributesFacts
  <2> QED
    BY <2>1, <2>2 DEF EnvChange, DependencyAdded, DependencyRewritten, ChoiceMade
<1>10. CASE acvp_oe_free_operating_env
  BY <1>10 DEF acvp_oe_free_operating_env, EnvChange, Freed
<1>11. CASE \/ \E f \in Files : acvp_oe_ingest_metadata(f)
            \/ \E code \in {"JSON_ERR", "MALFORMED_JSON"} : IngestFails(code)
            \/ NextList
  <2>1. UNCHANGED <<vendors, modules, oes, deps, fips>>
    BY <1>11 DEF acvp_oe_ingest_metadata, IngestFails, Refused, NextList
  <2> QED
    BY <2>1 DEF EnvChange, ChoiceMade
<1>12. CASE IngestEnds
  BY <1>0, <1>12 DEF IngestEnds, PlaceOK, EnvChange, ChoiceMade
<1>13. CASE \E id \in ApiIds : ApiDependency(id)
  BY <1>13 DEF ApiDependency, Api, EnvChange, DependencyAdded, ChoiceMade
<1>14. CASE \E id \in ApiIds, named \in {"yes", None} : acvp_oe_oe_new(id, named)
  BY <1>14 DEF acvp_oe_oe_new, Api, EnvChange, OeAdded, ChoiceMade
<1>15. ASSUME NEW o \in ApiIds, NEW d \in ApiIds, acvp_oe_oe_set_dependency(o, d)
       PROVE  EnvChange
  <2>1. /\ oes' = WithDependency(find(oes, o), d)
        /\ UNCHANGED <<vendors, modules, deps, fips>>
    BY <1>15 DEF acvp_oe_oe_set_dependency, Api
  <2>2. IsList(deps') /\ IsList(oes)
    BY <1>0, <2>1 DEF ListsOK
  <2>3. oes' = oes \/ OeLinked
    BY <2>1, <2>2, WithDependencyFacts
  <2> QED
    BY <2>1, <2>3 DEF EnvChange, DependencyLinked, ChoiceMade
<1>16. ASSUME NEW id \in ApiIds, NEW named, acvp_oe_module_new(id, named) PROVE EnvChange
  <2> DEFINE m == Module(id, named, "none", 0)
             n == [m EXCEPT !.name = IF m.vendor = 0 THEN None ELSE @]
  <2>1. ModuleOK(n)
    BY ModuleIsOK DEF ModuleOK
  <2>2. \/ UNCHANGED <<vendors, modules, oes, deps, fips>>
        \/ modules' = Append(modules, n) /\ UNCHANGED <<vendors, oes, deps, fips>>
    BY <1>16 DEF acvp_oe_module_new, Api
  <2> HIDE DEF m, n
  <2> QED
    BY <2>1, <2>2 DEF EnvChange, ModuleAdded, ChoiceMade
<1>17. ASSUME NEW id \in ApiIds, NEW code, acvp_oe_module_set_type_version_desc(id, code)
       PROVE  EnvChange
  <2> DEFINE k == find(modules, id)
  <2>1. k = 0 \/ k \in DOMAIN modules
    BY <1>0, FindFacts DEF ListsOK
  <2> QED
    BY <1>17, <2>1 DEF acvp_oe_module_set_type_version_desc, Api, EnvChange,
                       ModuleSet, ChoiceMade
<1>18. ASSUME NEW m \in ApiIds \cup {0}, NEW o \in ApiIds \cup {0},
              acvp_oe_set_fips_validation_metadata(m, o)
       PROVE  EnvChange
  <2>1. /\ find(modules, m) # 0 => m \in Ids(modules)
        /\ find(oes, o) # 0 => o \in Ids(oes)
    BY <1>0, FindFacts DEF ListsOK
  <2> QED
    BY <1>0, <1>18, <2>1 DEF acvp_oe_set_fips_validation_metadata, PlaceOK,
                             EnvChange, ChoiceMade
<1> QED
  BY <1>2, <1>3, <1>4, <1>5, <1>6, <1>7, <1>8, <1>9, <1>10, <1>11, <1>12, <1>13,
     <1>14, <1>15, <1>16, <1>17, <1>18 DEF EnvNext

\* What such a change does to the four lists, taken together: each is emptied
\* with the others, or keeps its objects, and may get one more.
LEMMA EnvChangeKeepsLists ==
    ASSUME ListsOK, EnvChange
    PROVE  ListsOK'
<1> USE DEF ListsOK
<1>1. CASE Freed
  <2>1. IsList(<<>>) /\ DOMAIN <<>> = {}
    BY EmptyList
  <2> QED
    BY <1>1, <2>1 DEF Freed
<1>2. CASE VendorAdded
  <2>1. PICK v : VendorOK(v) /\ vendors' = Append(vendors, v)
    BY <1>2 DEF VendorAdded
  <2>2. /\ IsList(vendors')
        /\ \A k \in DOMAIN vendors' : k \in DOMAIN vendors \/ vendors'[k] = v
        /\ \A k \in DOMAIN vendors : vendors'[k] = vendors[k]
    BY <2>1, AppendList, ListFacts
  <2> QED
    BY <1>2, <2>1, <2>2 DEF VendorAdded
<1>3. CASE ModuleAdded
  <2>1. PICK m : ModuleOK(m) /\ modules' = Append(modules, m)
    BY <1>3 DEF ModuleAdded
  <2>2. /\ IsList(modules')
        /\ \A k \in DOMAIN modules' : k \in DOMAIN modules \/ modules'[k] = m
        /\ \A k \in DOMAIN modules : modules'[k] = modules[k]
    BY <2>1, AppendList, ListFacts
  <2> QED
    BY <1>3, <2>1, <2>2 DEF ModuleAdded
<1>4. CASE ModuleSet
  <2>k. PICK k \in DOMAIN modules : \E a : modules' = [modules EXCEPT ![k].attrs = a]
    BY <1>4 DEF ModuleSet
  <2>1. PICK a : modules' = [modules EXCEPT ![k].attrs = a]
    BY <2>k
  <2> DEFINE m == [modules[k] EXCEPT !.attrs = a]
  <2>2. modules' = [modules EXCEPT ![k] = m] /\ ModuleOK(m)
    BY <2>1 DEF ModuleOK
  <2> HIDE DEF m
  <2>3. /\ IsList(modules') /\ DOMAIN modules' = DOMAIN modules /\ modules'[k] = m
        /\ \A j \in DOMAIN modules : j # k => modules'[j] = modules[j]
    BY <2>2, ExceptList
  <2> QED
    BY <1>4, <2>2, <2>3 DEF ModuleSet
<1>5. CASE OeAdded
  <2>1. PICK id, named : oes' = Append(oes, Oe(id, named))
    BY <1>5 DEF OeAdded
  <2>2. OeOK(Oe(id, named))
    BY EmptyList DEF OeOK, Oe
  <2>3. /\ IsList(oes')
        /\ \A k \in DOMAIN oes' : k \in DOMAIN oes \/ oes'[k] = Oe(id, named)
        /\ \A k \in DOMAIN oes : oes'[k] = oes[k]
    BY <2>1, AppendList, ListFacts
  <2> QED
    BY <1>5, <2>2, <2>3 DEF OeAdded
<1>6. ASSUME OeLinked PROVE IsList(oes') /\ \A k \in DOMAIN oes' : OeOK(oes'[k])
  <2>1. PICK k \in DOMAIN oes, d \in Ids(deps') \ {0} :
          oes' = [oes EXCEPT ![k].deps = Append(@, d)]
    BY <1>6 DEF OeLinked
  <2> DEFINE o == [oes[k] EXCEPT !.deps = Append(@, d)]
  <2>2. OeOK(oes[k])
    OBVIOUS
  <2>3. oes' = [oes EXCEPT ![k] = o] /\ o.deps = Append(oes[k].deps, d)
    BY <2>1, <2>2 DEF OeOK
  <2>4. IsList(o.deps)
    BY <2>2, <2>3, AppendList DEF OeOK
  <2>5. OeOK(o)
    BY <2>2, <2>4 DEF OeOK
  <2> HIDE DEF o
  <2>6. /\ IsList(oes') /\ DOMAIN oes' = DOMAIN oes /\ oes'[k] = o
        /\ \A j \in DOMAIN oes : j # k => oes'[j] = oes[j]
    BY <2>3, ExceptList
  <2> QED
    BY <2>5, <2>6
<1>7. CASE DependencyAdded
  <2>1. PICK id, a : deps' = Append(deps, Dependency(id, a))
    BY <1>7 DEF DependencyAdded
  <2>2. DependencyOK(Dependency(id, a))
    BY DEF DependencyOK, Dependency
  <2>3. /\ IsList(deps')
        /\ \A k \in DOMAIN deps' : k \in DOMAIN deps \/ deps'[k] = Dependency(id, a)
        /\ \A k \in DOMAIN deps : deps'[k] = deps[k]
    BY <2>1, AppendList, ListFacts
  <2>4. IsList(oes') /\ \A k \in DOMAIN oes' : OeOK(oes'[k])
    <3>1. CASE oes' = oes
      BY <3>1
    <3> QED
      BY <1>6, <1>7, <3>1 DEF DependencyAdded
  <2> QED
    BY <1>7, <2>2, <2>3, <2>4 DEF DependencyAdded
<1>8. CASE DependencyLinked
  BY <1>6, <1>8 DEF DependencyLinked
<1>10. CASE DependencyRewritten
  <2>k. PICK k \in DOMAIN deps : \E a : deps' = [deps EXCEPT ![k] = Overwritten(@, a)]
    BY <1>10 DEF DependencyRewritten
  <2>1. PICK a : deps' = [deps EXCEPT ![k] = Overwritten(@, a)]
    BY <2>k
  <2>2. IsList(deps') /\ \A j \in DOMAIN deps' : DependencyOK(deps'[j])
    BY <2>1, RewrittenFacts
  <2>3. IsList(oes') /\ \A j \in DOMAIN oes' : OeOK(oes'[j])
    <3>1. CASE oes' = oes
      BY <3>1
    <3> QED
      BY <1>6, <1>10, <3>1 DEF DependencyRewritten
  <2> QED
    BY <1>10, <2>2, <2>3 DEF DependencyRewritten
<1>9. CASE ChoiceMade
  BY <1>9 DEF ChoiceMade
<1> QED
  BY <1>1, <1>2, <1>3, <1>4, <1>5, <1>7, <1>8, <1>9, <1>10 DEF EnvChange

\* A list that keeps its objects keeps their ids.
LEMMA IdsKept ==
    ASSUME NEW s, NEW t, DOMAIN s \subseteq DOMAIN t,
           \A k \in DOMAIN s : t[k].id = s[k].id
    PROVE  Ids(s) \subseteq Ids(t)
BY DEF Ids

\* In particular one that is appended to.
LEMMA IdsAppend ==
    ASSUME NEW s, IsList(s), NEW e
    PROVE  Ids(s) \subseteq Ids(Append(s, e))
<1>1. DOMAIN s \subseteq DOMAIN Append(s, e) /\ \A k \in DOMAIN s : Append(s, e)[k] = s[k]
  BY AppendList, ListFacts
<1> QED
  BY <1>1, IdsKept

\* Linking keeps the links: the new one exists.
LEMMA OeLinkedKeepsLinks ==
    ASSUME ListsOK, Linked, OeLinked, Ids(deps) \subseteq Ids(deps')
    PROVE  Linked'
<1>1. PICK k \in DOMAIN oes, d \in Ids(deps') \ {0} :
        oes' = [oes EXCEPT ![k].deps = Append(@, d)]
  BY DEF OeLinked
<1> DEFINE o == [oes[k] EXCEPT !.deps = Append(@, d)]
<1>2. IsList(oes) /\ OeOK(oes[k])
  BY DEF ListsOK
<1>3. oes' = [oes EXCEPT ![k] = o] /\ o.deps = Append(oes[k].deps, d)
  BY <1>1, <1>2 DEF OeOK
<1>4. \A j \in DOMAIN o.deps :
        \/ j \in DOMAIN oes[k].deps /\ o.deps[j] = oes[k].deps[j]
        \/ o.deps[j] = d
  <2>1. IsList(oes[k].deps)
    BY <1>2 DEF OeOK
  <2> HIDE DEF o
  <2> QED
    BY <1>3, <2>1, AppendList, ListFacts
<1> HIDE DEF o
<1>5. /\ DOMAIN oes' = DOMAIN oes /\ oes'[k] = o
      /\ \A j \in DOMAIN oes : j # k => oes'[j] = oes[j]
  BY <1>2, <1>3, ExceptList
<1> QED
  BY <1>4, <1>5 DEF Linked

\* An environment change keeps the links and the choice.
LEMMA EnvChangeKeepsLinks ==
    ASSUME ListsOK, Linked, Chosen, EnvChange
    PROVE  Linked' /\ Chosen'
<1>1. CASE Freed
  BY <1>1, EmptyList DEF Freed, Linked, Chosen
<1>2. CASE VendorAdded \/ ChoiceMade
  BY <1>2 DEF VendorAdded, ChoiceMade, Linked, Chosen
<1>3. CASE ModuleAdded \/ ModuleSet
  <2>1. Ids(modules) \subseteq Ids(modules')
    <3>1. CASE ModuleAdded
      BY <3>1, IdsAppend DEF ModuleAdded, ListsOK
    <3>2. CASE ModuleSet
      <4>k. PICK k \in DOMAIN modules : \E a : modules' = [modules EXCEPT ![k].attrs = a]
        BY <3>2 DEF ModuleSet
      <4>1. PICK a : modules' = [modules EXCEPT ![k].attrs = a]
        BY <4>k
      <4>2. ModuleOK(modules[k])
        BY DEF ListsOK
      <4>3. DOMAIN modules' = DOMAIN modules
            /\ \A j \in DOMAIN modules : modules'[j].id = modules[j].id
        BY <4>1, <4>2 DEF ModuleOK
      <4> QED
        BY <4>3, IdsKept
    <3> QED
      BY <1>3, <3>1, <3>2
  <2>2. UNCHANGED <<oes, deps, fips>>
    BY <1>3 DEF ModuleAdded, ModuleSet
  <2> QED
    BY <2>1, <2>2 DEF Linked, Chosen
<1>4. CASE OeAdded
  <2>1. PICK id, named : oes' = Append(oes, Oe(id, named))
    BY <1>4 DEF OeAdded
  <2>2. Oe(id, named).deps = <<>> /\ DOMAIN <<>> = {} /\ IsList(oes)
    BY EmptyList DEF Oe, ListsOK
  <2>3. /\ \A k \in DOMAIN oes' : k \in DOMAIN oes \/ oes'[k] = Oe(id, named)
        /\ \A k \in DOMAIN oes : oes'[k] = oes[k]
    BY <2>1, <2>2, AppendList, ListFacts
  <2>4. Ids(oes) \subseteq Ids(oes')
    BY <2>1, <2>2, IdsAppend
  <2> QED
    BY <1>4, <2>2, <2>3, <2>4 DEF OeAdded, Linked, Chosen
<1>5. ASSUME OeLinked PROVE Ids(oes) \subseteq Ids(oes')
  <2>1. PICK k \in DOMAIN oes, d \in Ids(deps') \ {0} :
          oes' = [oes EXCEPT ![k].deps = Append(@, d)]
    BY <1>5 DEF OeLinked
  <2>2. OeOK(oes[k])
    BY DEF ListsOK
  <2>3. DOMAIN oes' = DOMAIN oes /\ \A j \in DOMAIN oes : oes'[j].id = oes[j].id
    BY <2>1, <2>2 DEF OeOK
  <2> QED
    BY <2>3, IdsKept
<1>6. CASE DependencyAdded \/ DependencyRewritten \/ DependencyLinked
  <2>1. Ids(deps) \subseteq Ids(deps')
    <3>1. CASE DependencyAdded
      BY <3>1, IdsAppend DEF DependencyAdded, ListsOK
    <3>2. CASE DependencyRewritten
      <4>1. DOMAIN deps' = DOMAIN deps /\ \A j \in DOMAIN deps : deps'[j].id = deps[j].id
        BY <3>2, RewrittenFacts DEF DependencyRewritten
      <4> QED
        BY <4>1, IdsKept
    <3> QED
      BY <1>6, <3>1, <3>2 DEF DependencyLinked
  <2>2. UNCHANGED <<modules, fips>> /\ (oes' = oes \/ OeLinked)
    BY <1>6 DEF DependencyAdded, DependencyRewritten, DependencyLinked
  <2>3. Linked'
    <3>1. CASE oes' = oes
      BY <2>1, <3>1 DEF Linked
    <3>2. CASE OeLinked
      BY <2>1, <3>2, OeLinkedKeepsLinks
    <3> QED
      BY <2>2, <3>1, <3>2
  <2>4. Ids(oes) \subseteq Ids(oes')
    BY <1>5, <2>2
  <2> QED
    BY <2>2, <2>3, <2>4 DEF Chosen
<1> QED
  BY <1>1, <1>2, <1>3, <1>4, <1>6 DEF EnvChange

----------------------------------------------------------------------------
(* The verification writes URLs and states, and nothing else *)

VendorsKept ==
    /\ IsList(vendors') /\ DOMAIN vendors' = DOMAIN vendors
    /\ \A k \in DOMAIN vendors :
         /\ VendorOK(vendors'[k]) /\ vendors'[k].id = vendors[k].id
         /\ vendors'[k].from = vendors[k].from /\ vendors'[k].persons = vendors[k].persons
ModulesKept ==
    /\ IsList(modules') /\ DOMAIN modules' = DOMAIN modules
    /\ \A k \in DOMAIN modules :
         /\ ModuleOK(modules'[k]) /\ modules'[k].id = modules[k].id
         /\ modules'[k].vendor = modules[k].vendor /\ modules'[k].from = modules[k].from
         /\ modules'[k].attrs = modules[k].attrs
OesKept ==
    /\ IsList(oes') /\ DOMAIN oes' = DOMAIN oes
    /\ \A k \in DOMAIN oes :
         OeOK(oes'[k]) /\ oes'[k].id = oes[k].id /\ oes'[k].deps = oes[k].deps
DepsKept ==
    /\ IsList(deps') /\ DOMAIN deps' = DOMAIN deps
    /\ \A k \in DOMAIN deps :
         DependencyOK(deps'[k]) /\ deps'[k].id = deps[k].id /\ deps'[k].attrs = deps[k].attrs

OnlyUrls == VendorsKept /\ ModulesKept /\ OesKept /\ DepsKept /\ fips' = fips

PageOK ==
    /\ q.i \in Nat \ {0}
    /\ IsList(q.page)
    /\ \A j \in DOMAIN q.page : q.page[j] \in Entries /\ Asked(q.page[j])

\* The chosen objects exist throughout, and the page under way holds entries of
\* the server that satisfy the query.
QueryOK ==
    /\ InVerification => fips.module # 0 /\ fips.oe # 0
    /\ InVerification /\ pc # "vendor" => ven # 0
    /\ pc = "dep" => q.k \in Nat \ {0}
    /\ pc \in {"get", "page"} => q.of \in {"vendor", "module", "dependency", "oe"}
    /\ pc = "contacts" => q.of = "vendor" /\ q.i <= Len(q.page)
    /\ pc = "dep_queried" \/ (pc \in {"get", "page"} /\ q.of = "dependency") =>
         q.k \in DOMAIN oes[oe].deps
    /\ pc \in {"page", "contacts"} => PageOK

\* The places of the chosen objects are places of the lists.
LEMMA ChosenPlaces ==
    ASSUME EnvInv, QueryOK, InVerification
    PROVE  /\ mod \in DOMAIN modules /\ oe \in DOMAIN oes
           /\ pc # "vendor" => ven \in DOMAIN vendors
           /\ \A k \in DOMAIN oes[oe].deps : dep(k) \in DOMAIN deps
<1>1. fips.module # 0 /\ fips.oe # 0 /\ (pc # "vendor" => ven # 0)
  BY DEF QueryOK
<1>2. IsList(vendors) /\ IsList(modules) /\ IsList(oes) /\ IsList(deps)
  BY DEF EnvInv, ListsOK
<1>3. mod \in DOMAIN modules /\ oe \in DOMAIN oes
  BY <1>1, <1>2, FindFacts DEF EnvInv, Chosen, mod, oe
<1>4. pc # "vendor" => ven \in DOMAIN vendors
  BY <1>1, <1>2, FindFacts DEF ven
<1>5. ASSUME NEW k \in DOMAIN oes[oe].deps PROVE dep(k) \in DOMAIN deps
  <2>1. oes[oe].deps[k] \in Ids(deps) \ {0}
    BY <1>3, <1>5 DEF EnvInv, Linked
  <2> QED
    BY <1>2, <2>1, FindFacts DEF dep
<1> QED
  BY <1>3, <1>4, <1>5

\* They stay where they are.
LEMMA PlacesKept ==
    ASSUME EnvInv, OnlyUrls
    PROVE  /\ mod # 0 => mod' = mod
           /\ oe # 0 => oe' = oe
           /\ mod # 0 /\ mod \in DOMAIN modules /\ ven # 0 => ven' = ven
           /\ oe # 0 /\ oe \in DOMAIN oes =>
                \A k \in DOMAIN oes[oe].deps : dep(k) # 0 => dep(k)' = dep(k)
<1> USE DEF OnlyUrls, VendorsKept, ModulesKept, OesKept, DepsKept
<1>1. IsList(vendors) /\ IsList(modules) /\ IsList(oes) /\ IsList(deps)
  BY DEF EnvInv, ListsOK
<1>2. ASSUME mod # 0 PROVE mod' = mod
  <2>1. find(modules', fips.module) = find(modules, fips.module)
    BY <1>1, <1>2, FindKept DEF mod
  <2> QED
    BY <2>1 DEF mod
<1>3. ASSUME oe # 0 PROVE oe' = oe
  <2>1. find(oes', fips.oe) = find(oes, fips.oe)
    BY <1>1, <1>3, FindKept DEF oe
  <2> QED
    BY <2>1 DEF oe
<1>4. ASSUME mod # 0, mod \in DOMAIN modules, ven # 0 PROVE ven' = ven
  <2>1. modules'[mod'].vendor = modules[mod].vendor
    BY <1>2, <1>4
  <2>2. find(vendors', modules[mod].vendor) = find(vendors, modules[mod].vendor)
    BY <1>1, <1>4, FindKept DEF ven
  <2> QED
    BY <2>1, <2>2 DEF ven
<1>5. ASSUME oe # 0, oe \in DOMAIN oes, NEW k \in DOMAIN oes[oe].deps, dep(k) # 0
      PROVE  dep(k)' = dep(k)
  <2>1. oes'[oe'].deps[k] = oes[oe].deps[k]
    BY <1>3, <1>5
  <2>2. find(deps', oes[oe].deps[k]) = find(deps, oes[oe].deps[k])
    BY <1>1, <1>5, FindKept DEF dep
  <2> QED
    BY <2>1, <2>2 DEF dep
<1> QED
  BY <1>2, <1>3, <1>4, <1>5

\* Writing to one vendor: the others stay as they are.
LEMMA SetVendor ==
    ASSUME ListsOK, NEW k \in DOMAIN vendors, NEW v, VendorOK(v),
           v.id = vendors[k].id, v.from = vendors[k].from, v.persons = vendors[k].persons,
           vendors' = [vendors EXCEPT ![k] = v]
    PROVE  VendorsKept /\ vendors'[k] = v /\ \A j \in DOMAIN vendors : j # k => vendors'[j] = vendors[j]
<1>1. /\ IsList(vendors') /\ DOMAIN vendors' = DOMAIN vendors /\ vendors'[k] = v
      /\ \A j \in DOMAIN vendors : j # k => vendors'[j] = vendors[j]
  BY ExceptList DEF ListsOK
<1> QED
  BY <1>1 DEF VendorsKept, ListsOK

\* Writing one field of one object of a list.
LEMMA SetField ==
    ASSUME NEW s, IsList(s), NEW k \in DOMAIN s, NEW f \in DOMAIN s[k], NEW u
    PROVE  LET t == [s EXCEPT ![k] = [s[k] EXCEPT ![f] = u]]
           IN  /\ IsList(t) /\ DOMAIN t = DOMAIN s
               /\ DOMAIN t[k] = DOMAIN s[k] /\ t[k][f] = u
               /\ \A g \in DOMAIN s[k] : g # f => t[k][g] = s[k][g]
               /\ \A j \in DOMAIN s : j # k => t[j] = s[j]
<1> DEFINE e == [s[k] EXCEPT ![f] = u]
           t == [s EXCEPT ![k] = e]
<1>1. /\ DOMAIN e = DOMAIN s[k] /\ e[f] = u
      /\ \A g \in DOMAIN s[k] : g # f => e[g] = s[k][g]
  OBVIOUS
<1>2. t = [s EXCEPT ![k] = e]
  OBVIOUS
<1> HIDE DEF e, t
<1>3. /\ IsList(t) /\ DOMAIN t = DOMAIN s /\ t[k] = e
      /\ \A j \in DOMAIN s : j # k => t[j] = s[j]
  BY <1>2, ExceptList
<1>4. t = [s EXCEPT ![k] = [s[k] EXCEPT ![f] = u]]
  BY DEF e, t
<1> QED
  BY <1>1, <1>3, <1>4

\* Writing the URL of a module.
LEMMA SetModuleUrl ==
    ASSUME ListsOK, NEW k \in DOMAIN modules, NEW u, modules' = [modules EXCEPT ![k].url = u]
    PROVE  ModulesKept
<1>1. ModuleOK(modules[k]) /\ IsList(modules)
  BY DEF ListsOK
<1>2. "url" \in DOMAIN modules[k]
  BY <1>1 DEF ModuleOK
<1>3. /\ IsList(modules') /\ DOMAIN modules' = DOMAIN modules
      /\ DOMAIN modules'[k] = DOMAIN modules[k]
      /\ \A g \in DOMAIN modules[k] : g # "url" => modules'[k][g] = modules[k][g]
      /\ \A j \in DOMAIN modules : j # k => modules'[j] = modules[j]
  BY <1>1, <1>2, SetField
<1> QED
  BY <1>1, <1>3 DEF ModulesKept, ModuleOK, ListsOK

\* Writing the URL of a dependency.
LEMMA SetDependencyUrl ==
    ASSUME ListsOK, NEW k \in DOMAIN deps, NEW u, deps' = [deps EXCEPT ![k].url = u]
    PROVE  DepsKept /\ deps'[k].url = u /\ \A j \in DOMAIN deps : j # k => deps'[j] = deps[j]
<1>1. DependencyOK(deps[k]) /\ IsList(deps)
  BY DEF ListsOK
<1>2. "url" \in DOMAIN deps[k]
  BY <1>1 DEF DependencyOK
<1>3. /\ IsList(deps') /\ DOMAIN deps' = DOMAIN deps
      /\ DOMAIN deps'[k] = DOMAIN deps[k] /\ deps'[k]["url"] = u
      /\ \A g \in DOMAIN deps[k] : g # "url" => deps'[k][g] = deps[k][g]
      /\ \A j \in DOMAIN deps : j # k => deps'[j] = deps[j]
  BY <1>1, <1>2, SetField
<1> QED
  BY <1>1, <1>3 DEF DepsKept, DependencyOK, ListsOK

\* Writing the URL or the state of an OE.
LEMMA SetOe ==
    ASSUME ListsOK, NEW k \in DOMAIN oes, NEW f \in {"url", "status"}, NEW u,
           oes' = [oes EXCEPT ![k] = [oes[k] EXCEPT ![f] = u]]
    PROVE  /\ OesKept /\ oes'[k][f] = u
           /\ \A g \in {"url", "status"} : g # f => oes'[k][g] = oes[k][g]
           /\ \A j \in DOMAIN oes : j # k => oes'[j] = oes[j]
<1>1. OeOK(oes[k]) /\ IsList(oes)
  BY DEF ListsOK
<1>2. f \in DOMAIN oes[k]
  BY <1>1 DEF OeOK
<1>3. /\ IsList(oes') /\ DOMAIN oes' = DOMAIN oes
      /\ DOMAIN oes'[k] = DOMAIN oes[k] /\ oes'[k][f] = u
      /\ \A g \in DOMAIN oes[k] : g # f => oes'[k][g] = oes[k][g]
      /\ \A j \in DOMAIN oes : j # k => oes'[j] = oes[j]
  BY <1>1, <1>2, SetField
<1> QED
  BY <1>1, <1>3 DEF OesKept, OeOK, ListsOK

----------------------------------------------------------------------------
(* What the comparisons return *)

\* An address URL that is found is the URL of an address of the candidate.
LEMMA AddressFacts ==
    ASSUME NEW own, NEW addresses, IsList(addresses),
           compare_vendor_address(own, addresses) # None
    PROVE  compare_vendor_address(own, addresses) \in {a.url : a \in ToSet(addresses)}
<1> DEFINE S == {k \in DOMAIN addresses : addresses[k].at = own /\ addresses[k].url # None}
           P(k) == /\ addresses[k].at = own /\ addresses[k].url # None
                   /\ \A j \in 1..(k - 1) : addresses[j].at # own \/ addresses[j].url = None
           first == CHOOSE k \in DOMAIN addresses : P(k)
<1>1. /\ S # {} /\ S \subseteq DOMAIN addresses
      /\ compare_vendor_address(own, addresses) = addresses[first].url
  BY DEF compare_vendor_address
<1>2. PICK k \in DOMAIN addresses : k \in S /\ \A j \in 1..(k - 1) : j \notin S
  <2> HIDE DEF S
  <2> QED
    BY <1>1, FirstExists
<1>3. P(k)
  BY <1>2, ListFacts
<1>4. first \in DOMAIN addresses
  <2> HIDE DEF P
  <2> QED
    BY <1>3
<1> QED
  BY <1>1, <1>4 DEF ToSet

\* A contact that matches a person is one of the candidate's.
LEMMA ContactFacts ==
    ASSUME NEW person, NEW contacts, IsList(contacts),
           Contact(person, contacts).is = "match"
    PROVE  Contact(person, contacts).url \in {c.url : c \in ToSet(contacts)}
<1> DEFINE is(k) == compare_contact(person, contacts[k])
           S == {k \in DOMAIN contacts : is(k) # "differ"}
           P(k) == is(k) # "differ" /\ \A j \in 1..(k - 1) : is(j) = "differ"
           first == CHOOSE k \in DOMAIN contacts : P(k)
<1>1. /\ S # {} /\ S \subseteq DOMAIN contacts
      /\ Contact(person, contacts).url = contacts[first].url
  BY DEF Contact
<1>2. PICK k \in DOMAIN contacts : k \in S /\ \A j \in 1..(k - 1) : j \notin S
  <2> HIDE DEF S
  <2> QED
    BY <1>1, FirstExists
<1>3. P(k)
  <2> HIDE DEF is
  <2> QED
    BY <1>2, ListFacts
<1>4. first \in DOMAIN contacts
  <2> HIDE DEF P
  <2> QED
    BY <1>3
<1> QED
  BY <1>1, <1>4 DEF ToSet

\* The lookup of all persons returns a URL for each; if it is a match, they are
\* URLs of contacts of the candidate.
LEMMA ContactsFacts ==
    ASSUME NEW persons, IsList(persons), NEW contacts, IsList(contacts)
    PROVE  LET r == query_vendor_contacts(persons, contacts)
           IN  /\ IsList(r.urls) /\ Len(r.urls) = Len(persons)
               /\ r.is = "match" =>
                    ToSet(r.urls) \subseteq {c.url : c \in ToSet(contacts)}
<1> DEFINE found == [k \in DOMAIN persons |-> Contact(persons[k], contacts)]
           bad == {k \in DOMAIN persons : found[k].is # "match"}
           first == CHOOSE k \in bad : \A j \in bad : k <= j
           urls == [k \in DOMAIN persons |->
                      IF \A j \in bad : k < j THEN found[k].url
                      ELSE vendors[ven].person_urls[k]]
           r == query_vendor_contacts(persons, contacts)
<1>1. r.urls = urls /\ r.is = IF bad = {} THEN "match" ELSE found[first].is
  BY DEF query_vendor_contacts
<1>2. Len(persons) \in Nat /\ DOMAIN persons = 1..Len(persons)
  BY ListFacts
<1>3. IsList(r.urls) /\ Len(r.urls) = Len(persons)
  <2>1. urls \in [1..Len(persons) -> {urls[k] : k \in 1..Len(persons)}]
    BY <1>2
  <2> HIDE DEF urls, r
  <2> QED
    BY <1>1, <1>2, <2>1, FunctionIsList
<1>4. ASSUME r.is = "match" PROVE bad = {}
  <2> SUFFICES ASSUME bad # {} PROVE FALSE
    OBVIOUS
  <2>1. bad \subseteq Nat
    BY <1>2
  <2>2. \E k \in bad : \A j \in bad : k <= j
    <3> HIDE DEF bad
    <3> QED
      BY <2>1, LeastExists
  <2>3. first \in bad
    <3> HIDE DEF bad
    <3> QED
      BY <2>2
  <2>4. found[first].is # "match"
    BY <2>3
  <2> HIDE DEF bad, first, found, r
  <2> QED
    BY <1>1, <1>4, <2>4
<1>5. ASSUME r.is = "match", NEW k \in DOMAIN r.urls
      PROVE  r.urls[k] \in {c.url : c \in ToSet(contacts)}
  <2>1. bad = {}
    BY <1>4, <1>5
  <2>2. k \in DOMAIN persons /\ r.urls[k] = found[k].url /\ found[k].is = "match"
    BY <1>1, <1>5, <2>1
  <2>3. found[k] = Contact(persons[k], contacts)
    BY <2>2
  <2> HIDE DEF bad, found, r
  <2> QED
    BY <2>2, <2>3, ContactFacts
<1>6. r.is = "match" => ToSet(r.urls) \subseteq {c.url : c \in ToSet(contacts)}
  <2> HIDE DEF r
  <2> QED
    BY <1>5 DEF ToSet
<1> QED
  BY <1>3, <1>6

----------------------------------------------------------------------------
(* The steps of the verification *)

\* The vendor under way becomes v, of which only URLs are new.
VendorWritten(v) ==
    /\ VendorOK(v) /\ v.id = vendors[ven].id
    /\ v.from = vendors[ven].from /\ v.persons = vendors[ven].persons
    /\ vendors' = [vendors EXCEPT ![ven] = v]

\* The entry under way is one of the server's and satisfies the query.
LEMMA EntryFacts ==
    ASSUME QueryOK, pc \in {"page", "contacts"}, q.i <= Len(q.page)
    PROVE  /\ q.i \in DOMAIN q.page
           /\ Entry \in Entries /\ Asked(Entry)
           /\ q.of = "vendor" => Entry \in VendorEntries
           /\ q.of = "dependency" => Entry \in DependencyEntries
           /\ q.of = "oe" => Entry \in OeEntries
<1>1. PageOK
  BY DEF QueryOK
<1>2. q.i \in DOMAIN q.page
  BY <1>1, ListFacts DEF PageOK
<1>3. Entry \in Entries /\ Asked(Entry)
  BY <1>1, <1>2 DEF PageOK, Entry
<1> QED
  BY <1>2, <1>3 DEF Entries

\* What the three steps on a candidate for the vendor write.
LEMMA VendorSteps ==
    ASSUME EnvInv, QueryOK, match_vendors_page \/ match_vendor_contacts \/ ContactsFail
    PROVE  /\ UNCHANGED <<modules, oes, deps>>
           /\ \/ vendors' = vendors /\ pc' # "contacts"
              \/ \E v :
                   /\ VendorWritten(v)
                   /\ \/ /\ pc' = "contacts" /\ q' = q /\ pc = "page"
                         /\ v.url = vendors[ven].url
                         /\ v.address_url \in {a.url : a \in ToSet(Entry.addresses)} \ {None}
                      \/ /\ pc' = "page" /\ pc = "contacts"
                         /\ v.url = vendors[ven].url
                      \/ /\ pc' = "module" /\ pc = "contacts"
                         /\ v.url = Entry.url /\ v.address_url = vendors[ven].address_url
                         /\ ToSet(v.person_urls) \subseteq {c.url : c \in ToSet(Entry.contacts)}
<1> USE DEF op_env
<1>1. /\ pc \in {"page", "contacts"} /\ q.of = "vendor" /\ q.i <= Len(q.page)
      /\ InVerification
  BY DEF match_vendors_page, match_vendor_contacts, ContactsFail, AtEntry, QueryOK,
         InVerification, Verifying
<1>2. Entry \in VendorEntries
  BY <1>1, EntryFacts
<1>3. ven \in DOMAIN vendors
  BY <1>1, ChosenPlaces
<1>4. VendorOK(vendors[ven])
  BY <1>3 DEF EnvInv, ListsOK
<1>5. IsList(Entry.addresses) /\ IsList(Entry.contacts)
  BY <1>2, EntriesAssumption
<1> DEFINE own == vendors[ven]
           r == query_vendor_contacts(own.persons, Entry.contacts)
<1>6. /\ IsList(r.urls) /\ Len(r.urls) = Len(own.persons)
      /\ r.is = "match" => ToSet(r.urls) \subseteq {c.url : c \in ToSet(Entry.contacts)}
  BY <1>4, <1>5, ContactsFacts DEF VendorOK
<1>7. CASE match_vendors_page
  <2> DEFINE address == compare_vendor_address(own.address, Entry.addresses)
             v == [own EXCEPT !.address_url = address]
  <2>1. /\ UNCHANGED <<modules, oes, deps>>
        /\ pc = "page"
        /\ \/ vendors' = vendors /\ pc' # "contacts"
           \/ /\ address # None /\ vendors' = [vendors EXCEPT ![ven].address_url = address]
              /\ pc' = "contacts" /\ q' = q
    BY <1>7 DEF match_vendors_page, AtEntry, Step, Fails, NextEntry
  <2>2. address # None => address \in {a.url : a \in ToSet(Entry.addresses)} \ {None}
    BY <1>5, AddressFacts
  <2> HIDE DEF address
  <2>3. /\ VendorOK(v) /\ v.id = own.id /\ v.from = own.from /\ v.persons = own.persons
        /\ v.url = own.url /\ v.address_url = address
    BY <1>4 DEF VendorOK
  <2>4. vendors' = [vendors EXCEPT ![ven].address_url = address] =>
            vendors' = [vendors EXCEPT ![ven] = v]
    OBVIOUS
  <2> HIDE DEF v
  <2> QED
    BY <2>1, <2>2, <2>3, <2>4 DEF VendorWritten
<1>8. CASE match_vendor_contacts
  <2> DEFINE v == [own EXCEPT !.person_urls = r.urls]
             w == [own EXCEPT !.url = Entry.url, !.person_urls = r.urls]
  <2>1. /\ UNCHANGED <<modules, oes, deps>>
        /\ pc = "contacts"
        /\ \/ vendors' = vendors /\ pc' # "contacts"
           \/ /\ vendors' = [vendors EXCEPT ![ven] = w] /\ pc' = After(q.of) /\ r.is = "match"
           \/ /\ vendors' = [vendors EXCEPT ![ven] = v] /\ pc' = "page"
    <3>1. [vendors EXCEPT ![ven].url = Entry.url, ![ven].person_urls = r.urls]
            = [vendors EXCEPT ![ven] = w]
      BY <1>3
    <3>2. [vendors EXCEPT ![ven].person_urls = r.urls] = [vendors EXCEPT ![ven] = v]
      OBVIOUS
    <3> QED
      BY <1>8, <3>1, <3>2 DEF match_vendor_contacts, Step, NextEntry, EndQuery
  <2> HIDE DEF r
  <2>2. /\ VendorOK(v) /\ v.id = own.id /\ v.from = own.from /\ v.persons = own.persons
        /\ v.url = own.url
    BY <1>4, <1>6 DEF VendorOK
  <2>3. /\ VendorOK(w) /\ w.id = own.id /\ w.from = own.from /\ w.persons = own.persons
        /\ w.url = Entry.url /\ w.address_url = own.address_url /\ w.person_urls = r.urls
    BY <1>4, <1>6 DEF VendorOK
  <2>4. After(q.of) = "module"
    BY <1>1 DEF After
  <2> HIDE DEF v, w
  <2> QED
    BY <1>6, <2>1, <2>2, <2>3, <2>4 DEF VendorWritten
<1>9. CASE ContactsFail
  <2>1. PICK n \in 0..Len(own.persons) :
          vendors' = [vendors EXCEPT ![ven].person_urls =
                        [k \in DOMAIN @ |-> IF k <= n THEN r.urls[k] ELSE @[k]]]
    BY <1>9 DEF ContactsFail
  <2>2. /\ UNCHANGED <<modules, oes, deps>> /\ pc = "contacts" /\ pc' = "page"
    BY <1>9 DEF ContactsFail, NextEntry, Step
  <2> HIDE DEF r
  <2> DEFINE u == [k \in DOMAIN own.person_urls |->
                     IF k <= n THEN r.urls[k] ELSE own.person_urls[k]]
             v == [own EXCEPT !.person_urls = u]
  <2>3. vendors' = [vendors EXCEPT ![ven] = v]
    BY <2>1
  <2>4. Len(own.person_urls) \in Nat /\ DOMAIN own.person_urls = 1..Len(own.person_urls)
    BY <1>4, ListFacts DEF VendorOK
  <2>5. u \in [1..Len(own.person_urls) -> {u[k] : k \in 1..Len(own.person_urls)}]
    BY <2>4
  <2>6. IsList(u) /\ Len(u) = Len(own.persons)
    <3> HIDE DEF u
    <3> QED
      BY <1>4, <2>4, <2>5, FunctionIsList DEF VendorOK
  <2> HIDE DEF u
  <2>7. /\ VendorOK(v) /\ v.id = own.id /\ v.from = own.from /\ v.persons = own.persons
        /\ v.url = own.url
    BY <1>4, <2>6 DEF VendorOK
  <2> HIDE DEF v
  <2> QED
    BY <2>2, <2>3, <2>7 DEF VendorWritten
<1> QED
  BY <1>7, <1>8, <1>9

VerifyStep ==
    acvp_verify_fips_validation_metadata \/ VerifyNext \/ Hung \/ UNCHANGED vars

\* A list that is not written keeps everything.
LEMMA UnchangedKept ==
    ASSUME ListsOK
    PROVE  /\ vendors' = vendors => VendorsKept
           /\ modules' = modules => ModulesKept
           /\ oes' = oes => OesKept
           /\ deps' = deps => DepsKept
BY DEF ListsOK, VendorsKept, ModulesKept, OesKept, DepsKept

\* The states that are written to the OE.
LEMMA StatusSteps ==
    ASSUME EnvInv, QueryOK,
           verify_fips_oe_dependencies \/ DependencyQueried \/ verify_fips_oe
    PROVE  /\ OesKept /\ UNCHANGED <<vendors, modules, deps>>
           /\ oes'[oe].url = oes[oe].url
           /\ \A j \in DOMAIN oes : j # oe => oes'[j] = oes[j]
           /\ verify_fips_oe_dependencies => oes'[oe].status = "COMPLETE"
           /\ DependencyQueried =>
                oes'[oe].status = IF deps[dep(q.k)].url = None THEN "PARTIAL" ELSE oes[oe].status
           /\ verify_fips_oe =>
                oes'[oe].status = IF Found = {} THEN "INCOMPLETE" ELSE oes[oe].status
<1>1. InVerification
  BY DEF verify_fips_oe_dependencies, DependencyQueried, verify_fips_oe,
         InVerification, Verifying
<1>2. oe \in DOMAIN oes /\ ListsOK
  BY <1>1, ChosenPlaces DEF EnvInv
<1>3. UNCHANGED <<vendors, modules, deps>>
  BY DEF verify_fips_oe_dependencies, DependencyQueried, verify_fips_oe
<1>4. ASSUME NEW s, oes' = [oes EXCEPT ![oe].status = s]
      PROVE  /\ OesKept /\ oes'[oe].url = oes[oe].url /\ oes'[oe].status = s
             /\ \A j \in DOMAIN oes : j # oe => oes'[j] = oes[j]
  <2>1. oes' = [oes EXCEPT ![oe] = [oes[oe] EXCEPT !["status"] = s]]
    BY <1>4
  <2>2. /\ OesKept /\ oes'[oe]["status"] = s
        /\ \A g \in {"url", "status"} : g # "status" => oes'[oe][g] = oes[oe][g]
        /\ \A j \in DOMAIN oes : j # oe => oes'[j] = oes[j]
    BY <1>2, <2>1, SetOe
  <2> QED
    BY <2>2
<1>5. /\ verify_fips_oe_dependencies => oes' = [oes EXCEPT ![oe].status = "COMPLETE"]
      /\ DependencyQueried =>
           oes' = [oes EXCEPT ![oe].status =
                     IF deps[dep(q.k)].url = None THEN "PARTIAL" ELSE oes[oe].status]
      /\ verify_fips_oe =>
           oes' = [oes EXCEPT ![oe].status = IF Found = {} THEN "INCOMPLETE" ELSE oes[oe].status]
  BY DEF verify_fips_oe_dependencies, DependencyQueried, verify_fips_oe
<1>6. CASE verify_fips_oe_dependencies
  BY <1>3, <1>4, <1>5, <1>6 DEF verify_fips_oe_dependencies, DependencyQueried, verify_fips_oe
<1>7. CASE DependencyQueried
  BY <1>3, <1>4, <1>5, <1>7 DEF verify_fips_oe_dependencies, DependencyQueried, verify_fips_oe
<1>8. CASE verify_fips_oe
  BY <1>3, <1>4, <1>5, <1>8 DEF verify_fips_oe_dependencies, DependencyQueried, verify_fips_oe
<1> QED
  BY <1>6, <1>7, <1>8

\* Every step of the verification changes only URLs and states.
LEMMA VerifyOnlyUrls ==
    ASSUME EnvInv, QueryOK, VerifyStep
    PROVE  OnlyUrls
<1>0. PlaceOK /\ ListsOK /\ fips' = fips
  BY VerifyKeepsPlace DEF EnvInv, VerifyStep
<1>1. CASE UNCHANGED <<vendors, modules, oes, deps>>
  BY <1>0, <1>1, UnchangedKept DEF OnlyUrls
<1>2. CASE verify_fips_oe_dependencies \/ DependencyQueried \/ verify_fips_oe
  BY <1>0, <1>2, StatusSteps, UnchangedKept DEF OnlyUrls
<1>3. CASE match_vendors_page \/ match_vendor_contacts \/ ContactsFail
  <2>1. UNCHANGED <<modules, oes, deps>> /\ (vendors' = vendors \/ \E v : VendorWritten(v))
    BY <1>3, VendorSteps
  <2>2. CASE \E v : VendorWritten(v)
    <3>1. PICK v : VendorWritten(v)
      BY <2>2
    <3>2. InVerification /\ pc # "vendor"
      BY <1>3 DEF match_vendors_page, match_vendor_contacts, ContactsFail, AtEntry,
                  InVerification, Verifying
    <3>3. ven \in DOMAIN vendors
      BY <3>2, ChosenPlaces
    <3>4. VendorsKept
      BY <1>0, <3>1, <3>3, SetVendor DEF VendorWritten
    <3> QED
      BY <1>0, <2>1, <3>4, UnchangedKept DEF OnlyUrls
  <2> QED
    BY <1>1, <2>1, <2>2
<1>4. CASE match_modules_page
  <2>1. \/ UNCHANGED <<vendors, modules, oes, deps>>
        \/ /\ UNCHANGED <<vendors, oes, deps>>
           /\ modules' = [modules EXCEPT ![mod].url = Entry.url]
    BY <1>4 DEF match_modules_page
  <2>2. InVerification
    BY <1>4 DEF match_modules_page, AtEntry, InVerification, Verifying
  <2>3. mod \in DOMAIN modules
    BY <2>2, ChosenPlaces
  <2>4. modules' = [modules EXCEPT ![mod].url = Entry.url] => ModulesKept
    BY <1>0, <2>3, SetModuleUrl
  <2> QED
    BY <1>0, <1>1, <2>1, <2>4, UnchangedKept DEF OnlyUrls
<1>5. CASE match_dependencies_page
  <2>1. \/ UNCHANGED <<vendors, modules, oes, deps>>
        \/ /\ UNCHANGED <<vendors, modules, oes>>
           /\ deps' = [deps EXCEPT ![dep(q.k)].url = Entry.url]
    BY <1>5 DEF match_dependencies_page
  <2>2. InVerification /\ pc = "page" /\ q.of = "dependency"
    BY <1>5 DEF match_dependencies_page, AtEntry, InVerification, Verifying
  <2>3. q.k \in DOMAIN oes[oe].deps
    BY <2>2 DEF QueryOK
  <2>4. dep(q.k) \in DOMAIN deps
    BY <2>2, <2>3, ChosenPlaces
  <2>5. deps' = [deps EXCEPT ![dep(q.k)].url = Entry.url] => DepsKept
    BY <1>0, <2>4, SetDependencyUrl
  <2> QED
    BY <1>0, <1>1, <2>1, <2>5, UnchangedKept DEF OnlyUrls
<1>6. CASE match_oes_page
  <2>1. \/ UNCHANGED <<vendors, modules, oes, deps>>
        \/ /\ UNCHANGED <<vendors, modules, deps>>
           /\ oes' = [oes EXCEPT ![oe] = [oes[oe] EXCEPT !["url"] = Entry.url]]
    BY <1>6 DEF match_oes_page
  <2>2. InVerification
    BY <1>6 DEF match_oes_page, AtEntry, InVerification, Verifying
  <2>3. oe \in DOMAIN oes
    BY <2>2, ChosenPlaces
  <2>4. oes' = [oes EXCEPT ![oe] = [oes[oe] EXCEPT !["url"] = Entry.url]] => OesKept
    BY <1>0, <2>3, SetOe
  <2> QED
    BY <1>0, <1>1, <2>1, <2>4, UnchangedKept DEF OnlyUrls
<1>7. CASE \/ acvp_verify_fips_validation_metadata \/ Hung \/ UNCHANGED vars
           \/ query_vendor \/ query_module \/ query_dependency
           \/ Get \/ GetFails \/ PageMalformed \/ PageEnds \/ VerifyReturned
  <2>1. UNCHANGED <<vendors, modules, oes, deps>>
    BY <1>7 DEF acvp_verify_fips_validation_metadata, Hung, vars, envVars, op_env,
                query_vendor, query_module, query_dependency, Fails, Query,
                Get, GetFails, PageMalformed, PageEnds, VerifyReturned
  <2> QED
    BY <1>1, <2>1
<1> QED
  BY <1>2, <1>3, <1>4, <1>5, <1>6, <1>7 DEF VerifyStep, VerifyNext

\* Then the lists, the links and the choice are as good as before.
LEMMA OnlyUrlsKeepsEnv ==
    ASSUME EnvInv, OnlyUrls, PlaceOK'
    PROVE  EnvInv'
<1> USE DEF OnlyUrls, VendorsKept, ModulesKept, OesKept, DepsKept
<1>1. ListsOK'
  BY DEF ListsOK
<1>2. /\ Ids(modules) \subseteq Ids(modules') /\ Ids(oes) \subseteq Ids(oes')
      /\ Ids(deps) \subseteq Ids(deps')
  BY IdsKept
<1>3. Linked' /\ Chosen'
  BY <1>2 DEF EnvInv, Linked, Chosen
<1> QED
  BY <1>1, <1>3 DEF EnvInv

\* The page under way stays one of the query under way.
LEMMA PageKept ==
    ASSUME PageOK, q'.of = q.of, q'.k = q.k, q'.page = q.page, q'.i \in Nat \ {0},
           q.of = "vendor" \/ UNCHANGED <<vendors, modules, oes, deps, fips>>
    PROVE  PageOK'
<1>1. Entries' = Entries
  BY DEF Entries
<1>2. \A e : Asked(e) => Asked(e)'
  <2>1. CASE q.of = "vendor"
    BY <2>1 DEF Asked
  <2>2. CASE UNCHANGED <<vendors, modules, oes, deps, fips>>
    BY <2>2 DEF Asked, dep, ven, mod, oe
  <2> QED
    BY <2>1, <2>2
<1> QED
  BY <1>1, <1>2 DEF PageOK

\* A page that is received satisfies the query.
LEMMA GetPage ==
    ASSUME PlaceOK, Get
    PROVE  /\ PageOK' /\ q'.of = q.of /\ q'.k = q.k /\ q'.i = 1 /\ q'.tmp = NoAttrs
           /\ pc' = "page" /\ pc = "get"
           /\ UNCHANGED <<vendors, modules, oes, deps, fips>>
<1>1. PICK page \in Pages, link \in {None, LinkName} :
        q' = [q EXCEPT !.page = page, !.link = link, !.i = 1, !.read = @ + 1, !.tmp = NoAttrs]
  BY DEF Get
<1>2. /\ q'.page = page /\ q'.of = q.of /\ q'.k = q.k /\ q'.i = 1 /\ q'.tmp = NoAttrs
  BY <1>1 DEF PlaceOK, Fields
<1>3. /\ pc = "get" /\ pc' = "page" /\ UNCHANGED <<vendors, modules, oes, deps, fips>>
  BY DEF Get, Step, op_env
<1>4. PICK n \in 0..PageMax : page \in [1..n -> {e \in Entries : Asked(e)}]
  BY DEF Pages
<1>5. n \in Nat
  BY <1>4, ServerAssumption
<1>6. IsList(page)
  BY <1>4, <1>5, FunctionIsList
<1>7. \A j \in DOMAIN page : page[j] \in Entries /\ Asked(page[j])
  BY <1>4
<1>8. Entries' = Entries /\ \A e : Asked(e)' <=> Asked(e)
  BY <1>2, <1>3 DEF Entries, Asked, dep, ven, mod, oe
<1> QED
  BY <1>2, <1>3, <1>6, <1>7, <1>8 DEF PageOK

\* The verification keeps QueryOK.
LEMMA VerifyKeepsQuery ==
    ASSUME EnvInv, QueryOK, VerifyStep
    PROVE  QueryOK'
<1>0. PlaceOK /\ OnlyUrls
  BY VerifyOnlyUrls DEF EnvInv
<1>1. CASE acvp_verify_fips_validation_metadata
  BY <1>0, <1>1 DEF acvp_verify_fips_validation_metadata, QueryOK, InVerification,
                    Verifying, OnlyUrls
<1>2. CASE Hung \/ UNCHANGED vars
  BY <1>2 DEF Hung, vars, envVars, op_env, QueryOK, PageOK, InVerification, Verifying,
              Entries, Asked, dep, ven, mod, oe
<1>3. CASE query_vendor
  <2>1. \/ pc' = "crashed"
        \/ /\ ven # 0 /\ pc' = "module"
        \/ /\ ven # 0 /\ pc' = "get" /\ q'.of = "vendor"
    BY <1>3 DEF query_vendor, Step, Query, NoQuery
  <2>2. ven' = ven
    BY <1>3 DEF query_vendor, Step, Query, op_env, ven, mod
  <2>3. pc = "vendor" /\ fips' = fips
    BY <1>0, <1>3 DEF query_vendor, OnlyUrls
  <2> QED
    BY <2>1, <2>2, <2>3 DEF QueryOK, InVerification, Verifying
<1>4. CASE VerifyNext /\ pc # "vendor"
  <2>1. InVerification
    BY <1>4 DEF VerifyNext, query_vendor, query_module, verify_fips_oe_dependencies,
                query_dependency, DependencyQueried, verify_fips_oe, Get, GetFails,
                PageMalformed, match_vendors_page, match_vendor_contacts, ContactsFail,
                match_modules_page, match_dependencies_page, match_oes_page, PageEnds,
                VerifyReturned, AtEntry, InVerification, Verifying
  <2>2. /\ mod \in DOMAIN modules /\ oe \in DOMAIN oes /\ ven \in DOMAIN vendors
        /\ fips.module # 0 /\ fips.oe # 0
    BY <1>4, <2>1, ChosenPlaces DEF QueryOK
  <2>3. 0 \notin DOMAIN modules /\ 0 \notin DOMAIN oes /\ 0 \notin DOMAIN vendors
    BY ListFacts DEF EnvInv, ListsOK
  <2>4. mod' = mod /\ oe' = oe /\ ven' = ven /\ ven' # 0
    BY <1>0, <2>2, <2>3, PlacesKept
  <2>5. oes'[oe'].deps = oes[oe].deps /\ fips' = fips
    BY <1>0, <2>2, <2>4 DEF OnlyUrls, OesKept
  <2>6. IsList(oes[oe].deps)
    BY <2>2 DEF EnvInv, ListsOK, OeOK
  <2>7. Len(oes[oe].deps) \in Nat /\ DOMAIN oes[oe].deps = 1..Len(oes[oe].deps)
    BY <2>6, ListFacts
  <2> USE <1>4, <2>2, <2>4, <2>5
  <2>8. CASE query_module
    BY <2>8 DEF query_module, Fails, Step, Query, NoQuery, QueryOK, InVerification, Verifying
  <2>9. CASE verify_fips_oe_dependencies
    BY <2>9 DEF verify_fips_oe_dependencies, Step, NoQuery, QueryOK, InVerification, Verifying
  <2>10. CASE query_dependency
    <3>1. q.k \in DOMAIN oes[oe].deps
      BY <2>7, <2>10 DEF query_dependency, QueryOK
    <3>2. /\ q'.k = q.k
          /\ \/ pc' = "dep_queried"
             \/ pc' = "get" /\ q'.of = "dependency"
      BY <2>10 DEF query_dependency, Step, Query, NoQuery
    <3> QED
      BY <3>1, <3>2 DEF QueryOK, InVerification, Verifying
  <2>11. CASE DependencyQueried
    <3>1. q.k \in Nat
      BY <2>7, <2>11 DEF DependencyQueried, QueryOK
    <3>2. pc' = "dep" /\ q'.k = q.k + 1
      BY <2>11 DEF DependencyQueried, Step, NoQuery
    <3> QED
      BY <3>1, <3>2 DEF QueryOK, InVerification, Verifying
  <2>12. CASE verify_fips_oe
    BY <2>12 DEF verify_fips_oe, Step, NoQuery, QueryOK, InVerification, Verifying
  <2>13. CASE Get
    BY <1>0, <2>13, GetPage DEF QueryOK, InVerification, Verifying
  <2>14. CASE GetFails \/ PageMalformed \/ VerifyReturned
    BY <2>14 DEF GetFails, PageMalformed, VerifyReturned, Fails, QueryOK, InVerification,
                 Verifying
  <2>15. ASSUME EndQuery, pc \in {"page", "contacts"} PROVE QueryOK'
    <3>1. q'.k = q.k /\ pc' = After(q.of)
      BY <2>15 DEF EndQuery, Step, NoQuery
    <3>2. pc' = "dep_queried" => q.k \in DOMAIN oes[oe].deps
      BY <2>15, <3>1 DEF QueryOK, After
    <3>3. pc' \in {"module", "oe_deps", "dep_queried", "verified"}
      BY <3>1 DEF After
    <3> QED
      BY <3>1, <3>2, <3>3 DEF QueryOK, InVerification, Verifying
  <2>16. ASSUME NEW tmp, NextEntry(tmp), pc \in {"page", "contacts"},
                q.of = "vendor" \/ UNCHANGED <<vendors, modules, oes, deps>>
         PROVE  QueryOK'
    <3>1. PageOK
      BY <2>16 DEF QueryOK
    <3>2. /\ q'.of = q.of /\ q'.k = q.k /\ q'.page = q.page /\ q'.i = q.i + 1 /\ pc' = "page"
      BY <1>0, <2>16 DEF NextEntry, Step, PlaceOK, Fields
    <3>3. q'.i \in Nat \ {0}
      BY <3>1, <3>2 DEF PageOK
    <3>4. PageOK'
      BY <2>16, <3>1, <3>2, <3>3, PageKept
    <3> QED
      BY <2>16, <3>2, <3>4 DEF QueryOK, InVerification, Verifying
  <2>17. CASE match_vendors_page
    <3>1. pc = "page" /\ q.of = "vendor" /\ q.i <= Len(q.page)
      BY <2>17 DEF match_vendors_page, AtEntry
    <3>2. \/ pc' \in {"hung", "idle"}
          \/ NextEntry(q.tmp)
          \/ pc' = "contacts" /\ q' = q
      BY <2>17 DEF match_vendors_page, Step, Fails
    <3>3. CASE pc' \in {"hung", "idle"}
      BY <3>3 DEF QueryOK, InVerification, Verifying
    <3>4. CASE NextEntry(q.tmp)
      BY <2>16, <3>1, <3>4
    <3>5. CASE pc' = "contacts" /\ q' = q
      <4>1. PageOK
        BY <3>1 DEF QueryOK
      <4>2. PageOK'
        BY <3>1, <3>5, <4>1, PageKept DEF PageOK
      <4> QED
        BY <3>1, <3>5, <4>2 DEF QueryOK, InVerification, Verifying
    <3> QED
      BY <3>2, <3>3, <3>4, <3>5
  <2>18. CASE match_vendor_contacts \/ ContactsFail
    <3>1. pc = "contacts" /\ q.of = "vendor"
      BY <2>18 DEF match_vendor_contacts, ContactsFail, QueryOK
    <3>2. pc' = "hung" \/ EndQuery \/ NextEntry(q.tmp)
      BY <2>18 DEF match_vendor_contacts, ContactsFail, Step
    <3>3. CASE pc' = "hung"
      BY <3>3 DEF QueryOK, InVerification, Verifying
    <3> QED
      BY <2>15, <2>16, <3>1, <3>2, <3>3
  <2>19. CASE match_modules_page \/ match_dependencies_page \/ match_oes_page
    <3>1. /\ pc = "page"
          /\ \/ EndQuery
             \/ UNCHANGED <<vendors, modules, oes, deps>> /\ \E tmp : NextEntry(tmp)
      BY <2>19 DEF match_modules_page, match_dependencies_page, match_oes_page, AtEntry
    <3> QED
      BY <2>15, <2>16, <3>1
  <2>20. CASE PageEnds
    <3>1. pc = "page" /\ (EndQuery \/ (pc' = "get" /\ q' = q))
      BY <2>20 DEF PageEnds, Step
    <3>2. CASE pc' = "get" /\ q' = q
      BY <3>1, <3>2 DEF QueryOK, InVerification, Verifying
    <3> QED
      BY <2>15, <3>1, <3>2
  <2> QED
    BY <2>8, <2>9, <2>10, <2>11, <2>12, <2>13, <2>14, <2>17, <2>18, <2>19, <2>20
       DEF VerifyNext, query_vendor
<1>5. pc = "vendor" /\ VerifyNext => query_vendor
  BY DEF VerifyNext, query_module, verify_fips_oe_dependencies,
         query_dependency, DependencyQueried, verify_fips_oe, Get, GetFails,
         PageMalformed, match_vendors_page, match_vendor_contacts, ContactsFail,
         match_modules_page, match_dependencies_page, match_oes_page, PageEnds,
         VerifyReturned, AtEntry
<1> QED
  BY <1>1, <1>2, <1>3, <1>4, <1>5 DEF VerifyStep

\* The initial states satisfy both invariants.
LEMMA FipsInit == FVInit => EnvInv /\ QueryOK
<1> SUFFICES ASSUME FVInit PROVE EnvInv /\ QueryOK
  OBVIOUS
<1>1. /\ vendors = <<>> /\ modules = <<>> /\ oes = <<>> /\ deps = <<>> /\ pc = "idle"
      /\ fips = [module |-> 0, oe |-> 0, metadata_loaded |-> 0]
  BY DEF FVInit, Init
<1>2. IsList(<<>>) /\ DOMAIN <<>> = {}
  BY EmptyList
<1>3. ListsOK /\ Linked /\ Chosen
  BY <1>1, <1>2 DEF ListsOK, Linked, Chosen
<1>4. QueryOK
  BY <1>1 DEF QueryOK, InVerification, Verifying
<1> QED
  BY <1>3, <1>4, PlaceOKInit DEF EnvInv

\* A step of the environment leaves no verification under way.
LEMMA EnvKeepsInv ==
    ASSUME EnvInv, EnvNext, UNCHANGED q
    PROVE  EnvInv' /\ QueryOK' /\ ~InVerification /\ ~InVerification'
<1>1. PlaceOK' /\ pc \in {"idle"} \cup Reading /\ pc' \in {"idle"} \cup Reading
  BY EnvKeepsPlace DEF EnvInv
<1>2. EnvChange
  BY EnvChanges
<1>3. ListsOK' /\ Linked' /\ Chosen'
  BY <1>2, EnvChangeKeepsLists, EnvChangeKeepsLinks DEF EnvInv
<1>4. ~InVerification /\ ~InVerification'
  BY <1>1 DEF InVerification, Verifying, Reading
<1>5. QueryOK'
  BY <1>1, <1>4 DEF QueryOK, Reading
<1> QED
  BY <1>1, <1>3, <1>4, <1>5 DEF EnvInv

\* A step of the verification keeps both invariants.
LEMMA VerifyKeepsInv ==
    ASSUME EnvInv, QueryOK, VerifyStep
    PROVE  EnvInv' /\ QueryOK'
<1>1. PlaceOK'
  BY VerifyKeepsPlace DEF EnvInv, VerifyStep
<1> QED
  BY <1>1, VerifyOnlyUrls, OnlyUrlsKeepsEnv, VerifyKeepsQuery

\* No list is ever malformed, no link or choice dangles, and every query is
\* about objects that exist: what the code's unchecked pointers rely on.
THEOREM FipsInvariant == Spec => [](EnvInv /\ QueryOK)
<1>1. ASSUME EnvInv /\ QueryOK, [Next]_vars
      PROVE  (EnvInv /\ QueryOK)'
  <2>1. (EnvNext /\ UNCHANGED q) \/ VerifyStep
    BY <1>1 DEF Next, VerifyStep
  <2> QED
    BY <1>1, <2>1, EnvKeepsInv, VerifyKeepsInv
<1> QED
  BY <1>1, FipsInit, PTL DEF Spec

----------------------------------------------------------------------------
(* The URL of a dependency *)

\* Of the attributes compared, those that are reset are none before an entry is
\* overlaid: so they are the entry's own.
TmpReset ==
    pc = "page" /\ q.of = "dependency" => \A a \in Reset : q.tmp[a] = None

\* Initially there are no dependencies, and no query.
LEMMA DependencyUrlInit == FVInit => TmpReset /\ DependencyUrlIsItsOwn
<1>1. DOMAIN <<>> = {}
  BY EmptyList
<1> QED
  BY <1>1 DEF FVInit, Init, TmpReset, DependencyUrlIsItsOwn

\* The environment adds dependencies without a URL, and marks those it overwrites.
LEMMA EnvKeepsDependencyUrls ==
    ASSUME EnvInv, EnvNext, UNCHANGED q, DependencyUrlIsItsOwn
    PROVE  TmpReset' /\ DependencyUrlIsItsOwn'
<1>1. ~InVerification' /\ EnvChange /\ IsList(deps)
  BY EnvKeepsInv, EnvChanges DEF EnvInv, ListsOK
<1>2. TmpReset'
  BY <1>1 DEF TmpReset, InVerification, Verifying
<1>3. CASE deps' = deps
  BY <1>2, <1>3 DEF DependencyUrlIsItsOwn
<1>4. CASE Freed
  BY <1>2, <1>4, EmptyList DEF Freed, DependencyUrlIsItsOwn
<1>5. CASE DependencyAdded
  <2>1. PICK id, a : deps' = Append(deps, Dependency(id, a))
    BY <1>5 DEF DependencyAdded
  <2>2. /\ \A k \in DOMAIN deps' : k \in DOMAIN deps \/ deps'[k] = Dependency(id, a)
        /\ \A k \in DOMAIN deps : deps'[k] = deps[k]
    BY <1>1, <2>1, AppendList, ListFacts
  <2>3. Dependency(id, a).url = None
    BY DEF Dependency
  <2> QED
    BY <1>2, <2>2, <2>3 DEF DependencyUrlIsItsOwn
<1>6. CASE DependencyRewritten
  <2>k. PICK k \in DOMAIN deps : \E a : deps' = [deps EXCEPT ![k] = Overwritten(@, a)]
    BY <1>6 DEF DependencyRewritten
  <2>1. PICK a : deps' = [deps EXCEPT ![k] = Overwritten(@, a)]
    BY <2>k
  <2>2. /\ DOMAIN deps' = DOMAIN deps /\ deps'[k].over = "yes"
        /\ \A j \in DOMAIN deps : j # k => deps'[j] = deps[j]
    BY <2>1, RewrittenFacts DEF EnvInv
  <2> QED
    BY <1>2, <2>2 DEF DependencyUrlIsItsOwn
<1> QED
  BY <1>1, <1>3, <1>4, <1>5, <1>6 DEF EnvChange, VendorAdded, ModuleAdded, ModuleSet, OeAdded,
                               DependencyLinked, ChoiceMade

\* A dependency that gets the URL of an entry agrees with it.
LEMMA MatchIsItsOwn ==
    ASSUME EnvInv, QueryOK, TmpReset, DependencyUrlIsItsOwn, match_dependencies_page
    PROVE  TmpReset' /\ DependencyUrlIsItsOwn'
<1>1. pc = "page" /\ q.of = "dependency" /\ q.i <= Len(q.page) /\ InVerification
  BY DEF match_dependencies_page, AtEntry, InVerification, Verifying
<1>2. Entry \in DependencyEntries /\ Asked(Entry)
  BY <1>1, EntryFacts
<1>3. q.k \in DOMAIN oes[oe].deps
  BY <1>1 DEF QueryOK
<1>4. dep(q.k) \in DOMAIN deps
  BY <1>1, <1>3, ChosenPlaces
<1>5. CASE ~compare_dependencies(deps[dep(q.k)].attrs, Overlay(Entry))
  <2>1. deps' = deps /\ q' = [q EXCEPT !.i = @ + 1, !.tmp = Kept(Overlay(Entry))]
    BY <1>5 DEF match_dependencies_page, NextEntry
  <2>2. q'.tmp = Kept(Overlay(Entry))
    BY <2>1 DEF EnvInv, PlaceOK, Fields
  <2>3. \A a \in Reset : Kept(Overlay(Entry))[a] = None
    BY DEF Kept, Reset, Attrs
  <2> QED
    BY <2>1, <2>2, <2>3 DEF TmpReset, DependencyUrlIsItsOwn
<1>6. CASE compare_dependencies(deps[dep(q.k)].attrs, Overlay(Entry))
  <2> DEFINE d == dep(q.k)
             own == deps[d].attrs
  <2>1. deps' = [deps EXCEPT ![d].url = Entry.url] /\ pc' = After(q.of)
    BY <1>6 DEF match_dependencies_page, EndQuery, Step
  <2>2. /\ DepsKept /\ deps'[d].url = Entry.url
        /\ \A j \in DOMAIN deps : j # d => deps'[j] = deps[j]
    <3> HIDE DEF d
    <3> QED
      BY <1>4, <2>1, SetDependencyUrl DEF EnvInv, ListsOK, d
  <2>3. own["name"] # None /\ \A a \in Attrs \ {"name"} : own[a] = Overlay(Entry)[a]
    BY <1>6 DEF compare_dependencies
  <2>4. \A a \in {"type", "name", "description"} : own[a] \in {None, Entry.attrs[a]}
    BY <1>1, <1>2 DEF Asked
  <2>5. \A a \in Attrs :
          Overlay(Entry)[a] = IF Entry.attrs[a] # None THEN Entry.attrs[a] ELSE q.tmp[a]
    BY DEF Overlay
  <2>6. \A a \in Reset : q.tmp[a] = None
    BY <1>1 DEF TmpReset
  <2> HIDE DEF own
  <2>7. Entry.attrs["name"] = own["name"]
    BY <2>3, <2>4
  <2>8. \A a \in Reset : Entry.attrs[a] = own[a]
    BY <2>3, <2>5, <2>6, <2>7 DEF Reset, Attrs
  <2>9. \A a \in Attrs \ Reset : Entry.attrs[a] \in {own[a], None}
    BY <2>3, <2>5 DEF Reset
  <2>10. deps'[d].attrs = own
    BY <1>4, <2>2 DEF DepsKept, own
  <2> HIDE DEF d
  <2>11. DependencyUrlIsItsOwn'
    <3> SUFFICES ASSUME NEW k \in DOMAIN deps', deps'[k].url # None, deps'[k].over = "no"
                 PROVE  \E e \in DependencyEntries :
                            /\ e.url = deps'[k].url
                            /\ \A a \in Reset : e.attrs[a] = deps'[k].attrs[a]
                            /\ \A a \in Attrs \ Reset : e.attrs[a] \in {deps'[k].attrs[a], None}
      BY DEF DependencyUrlIsItsOwn
    <3>1. CASE k = d
      BY <1>2, <2>2, <2>8, <2>9, <2>10, <3>1
    <3>2. CASE k # d
      BY <2>2, <3>2 DEF DepsKept, DependencyUrlIsItsOwn
    <3> QED
      BY <3>1, <3>2
  <2>12. pc' = "dep_queried"
    BY <1>1, <2>1 DEF After
  <2> QED
    BY <2>11, <2>12 DEF TmpReset
<1> QED
  BY <1>5, <1>6

\* The other steps of the verification write no URL of a dependency, and start
\* each page with nothing in tmp_dep.
LEMMA OthersKeepDependencyUrls ==
    ASSUME EnvInv, QueryOK, TmpReset, DependencyUrlIsItsOwn,
           VerifyStep, ~match_dependencies_page
    PROVE  TmpReset' /\ DependencyUrlIsItsOwn'
<1>1. deps' = deps
  BY DEF VerifyStep, VerifyNext, acvp_verify_fips_validation_metadata, Hung, vars, envVars,
         query_vendor, query_module, verify_fips_oe_dependencies, query_dependency,
         DependencyQueried, verify_fips_oe, Get, GetFails, PageMalformed,
         match_vendors_page, match_vendor_contacts, ContactsFail, match_modules_page,
         match_oes_page, PageEnds, VerifyReturned, op_env, Fails, Query
<1>2. TmpReset'
  <2>1. CASE Get
    <3>1. q'.tmp = NoAttrs
      BY <2>1, GetPage DEF EnvInv
    <3> QED
      BY <3>1 DEF TmpReset, NoAttrs, Reset, Attrs
  <2>2. CASE Hung \/ UNCHANGED vars
    BY <2>2 DEF Hung, vars, TmpReset
  <2>3. CASE match_vendors_page \/ match_vendor_contacts \/ ContactsFail
             \/ match_modules_page \/ match_oes_page
    <3>1. pc \in {"page", "contacts"} /\ q.of # "dependency"
      BY <2>3 DEF match_vendors_page, match_vendor_contacts, ContactsFail,
                  match_modules_page, match_oes_page, AtEntry, QueryOK
    <3>2. pc' # "page" \/ \E tmp : NextEntry(tmp)
      BY <2>3 DEF match_vendors_page, match_vendor_contacts, ContactsFail,
                  match_modules_page, match_oes_page, EndQuery, Step, Fails, After
    <3>3. pc' = "page" => q'.of = q.of
      BY <3>2 DEF NextEntry, EnvInv, PlaceOK, Fields
    <3> QED
      BY <3>1, <3>3 DEF TmpReset
  <2>4. CASE \/ acvp_verify_fips_validation_metadata \/ query_vendor \/ query_module
             \/ verify_fips_oe_dependencies \/ query_dependency \/ DependencyQueried
             \/ verify_fips_oe \/ GetFails \/ PageMalformed \/ PageEnds \/ VerifyReturned
    BY <2>4 DEF TmpReset, acvp_verify_fips_validation_metadata, query_vendor, query_module,
                verify_fips_oe_dependencies, query_dependency, DependencyQueried,
                verify_fips_oe, GetFails, PageMalformed, PageEnds, VerifyReturned,
                Fails, Query, Step, EndQuery, After
  <2> QED
    BY <2>1, <2>2, <2>3, <2>4 DEF VerifyStep, VerifyNext
<1> QED
  BY <1>1, <1>2 DEF DependencyUrlIsItsOwn

\* The invariant of the dependencies.
THEOREM FipsDependencyInvariant == Spec => [](TmpReset /\ DependencyUrlIsItsOwn)
<1>1. ASSUME EnvInv /\ QueryOK, TmpReset /\ DependencyUrlIsItsOwn, [Next]_vars
      PROVE  (TmpReset /\ DependencyUrlIsItsOwn)'
  <2>1. (EnvNext /\ UNCHANGED q) \/ VerifyStep
    BY <1>1 DEF Next, VerifyStep
  <2> QED
    BY <1>1, <2>1, EnvKeepsDependencyUrls, MatchIsItsOwn, OthersKeepDependencyUrls
<1> QED
  BY <1>1, DependencyUrlInit, FipsInvariant, PTL DEF Spec

\* A dependency only ever gets the URL of one of the server that agrees with it
\* in everything the server's names.
THEOREM FipsDependencyUrls == Spec => []DependencyUrlIsItsOwn
BY FipsDependencyInvariant, PTL

----------------------------------------------------------------------------
(* The URLs of a vendor *)

\* A vendor is queried only while it has no URL, so the URLs of its address and
\* contacts may be overwritten until its own is set; and its address URL is the
\* current candidate's while the contacts are looked up.
VendorUnknown ==
    pc = "contacts" \/ (pc \in {"get", "page"} /\ q.of = "vendor") => vendors[ven].url = None
AddressFound ==
    pc = "contacts" =>
        vendors[ven].address_url \in {a.url : a \in ToSet(Entry.addresses)} \ {None}

VendorInv == VendorUnknown /\ AddressFound /\ VendorUrlsAgree

\* Initially there are no vendors, and no query.
LEMMA VendorInvInit == FVInit => VendorInv
<1>1. DOMAIN <<>> = {}
  BY EmptyList
<1> QED
  BY <1>1 DEF FVInit, Init, VendorInv, VendorUnknown, AddressFound, VendorUrlsAgree

\* The environment only adds vendors, without a URL.
LEMMA EnvKeepsVendorInv ==
    ASSUME EnvInv, EnvNext, UNCHANGED q, VendorInv
    PROVE  VendorInv'
<1>1. ~InVerification' /\ EnvChange /\ IsList(vendors)
  BY EnvKeepsInv, EnvChanges DEF EnvInv, ListsOK
<1>2. VendorUnknown' /\ AddressFound'
  BY <1>1 DEF VendorUnknown, AddressFound, InVerification, Verifying
<1>3. VendorUrlsAgree
  BY DEF VendorInv
<1>4. CASE vendors' = vendors
  BY <1>2, <1>3, <1>4 DEF VendorInv, VendorUrlsAgree
<1>5. CASE Freed
  BY <1>2, <1>5, EmptyList DEF Freed, VendorInv, VendorUrlsAgree
<1>6. CASE VendorAdded
  <2>1. PICK v : v.url = None /\ vendors' = Append(vendors, v)
    BY <1>6 DEF VendorAdded
  <2>2. /\ \A k \in DOMAIN vendors' : k \in DOMAIN vendors \/ vendors'[k] = v
        /\ \A k \in DOMAIN vendors : vendors'[k] = vendors[k]
    BY <1>1, <2>1, AppendList, ListFacts
  <2>3. \A k \in DOMAIN vendors' :
          vendors'[k].url # None => k \in DOMAIN vendors /\ vendors'[k] = vendors[k]
    BY <2>1, <2>2
  <2>4. VendorUrlsAgree'
    BY <1>3, <2>3 DEF VendorUrlsAgree
  <2> QED
    BY <1>2, <2>4 DEF VendorInv
<1> QED
  BY <1>1, <1>4, <1>5, <1>6 DEF EnvChange, ModuleAdded, ModuleSet, OeAdded,
                               DependencyAdded, DependencyRewritten, DependencyLinked, ChoiceMade

\* The three steps on a candidate: URLs are overwritten while the vendor has
\* none of its own, which is set together with the contacts of one candidate.
LEMMA CandidateKeepsVendorInv ==
    ASSUME EnvInv, QueryOK, VendorInv,
           match_vendors_page \/ match_vendor_contacts \/ ContactsFail
    PROVE  VendorInv'
<1>1. /\ pc \in {"page", "contacts"} /\ q.of = "vendor" /\ q.i <= Len(q.page)
      /\ InVerification
  BY DEF match_vendors_page, match_vendor_contacts, ContactsFail, AtEntry, QueryOK,
         InVerification, Verifying
<1>2. Entry \in VendorEntries
  BY <1>1, EntryFacts
<1>3. ven \in DOMAIN vendors /\ mod \in DOMAIN modules
  BY <1>1, ChosenPlaces
<1>4. vendors[ven].url = None
  BY <1>1 DEF VendorInv, VendorUnknown
<1>5. 0 \notin DOMAIN modules /\ 0 \notin DOMAIN vendors
  BY ListFacts DEF EnvInv, ListsOK
<1>6. ven' = ven
  <2>1. OnlyUrls
    BY VerifyOnlyUrls DEF VerifyStep, VerifyNext
  <2> QED
    BY <1>3, <1>5, <2>1, PlacesKept
<1>7. CASE vendors' = vendors /\ pc' # "contacts"
  BY <1>4, <1>6, <1>7 DEF VendorInv, VendorUnknown, AddressFound, VendorUrlsAgree
<1>8. ASSUME NEW v, VendorWritten(v), v.url = None,
             pc' = "contacts" =>
               q' = q /\ v.address_url \in {a.url : a \in ToSet(Entry.addresses)} \ {None}
      PROVE  VendorInv'
  <2>1. /\ DOMAIN vendors' = DOMAIN vendors /\ vendors'[ven] = v
        /\ \A j \in DOMAIN vendors : j # ven => vendors'[j] = vendors[j]
    BY <1>3, <1>8, SetVendor DEF EnvInv, VendorWritten, VendorsKept
  <2>2. VendorUnknown'
    BY <1>6, <1>8, <2>1 DEF VendorUnknown
  <2>3. AddressFound'
    BY <1>6, <1>8, <2>1 DEF AddressFound, Entry
  <2>4. VendorUrlsAgree'
    BY <1>8, <2>1 DEF VendorInv, VendorUrlsAgree
  <2> QED
    BY <2>2, <2>3, <2>4 DEF VendorInv
<1>9. ASSUME NEW v, VendorWritten(v), pc = "contacts", pc' = "module",
             v.url = Entry.url, v.address_url = vendors[ven].address_url,
             ToSet(v.person_urls) \subseteq {c.url : c \in ToSet(Entry.contacts)}
      PROVE  VendorInv'
  <2>1. /\ DOMAIN vendors' = DOMAIN vendors /\ vendors'[ven] = v
        /\ \A j \in DOMAIN vendors : j # ven => vendors'[j] = vendors[j]
    BY <1>3, <1>9, SetVendor DEF EnvInv, VendorWritten, VendorsKept
  <2>2. v.address_url \in {a.url : a \in ToSet(Entry.addresses)} \ {None}
    BY <1>9 DEF VendorInv, AddressFound
  <2>3. ToSet(v.person_urls) \subseteq {c.url : c \in ToSet(Entry.contacts)} \ {None}
    BY <1>2, <1>9, EntriesAssumption
  <2>4. VendorUrlsAgree'
    <3> SUFFICES ASSUME NEW k \in DOMAIN vendors', vendors'[k].url # None
                 PROVE  \E e \in VendorEntries :
                   /\ e.url = vendors'[k].url
                   /\ vendors'[k].address_url \in {a.url : a \in ToSet(e.addresses)} \ {None}
                   /\ ToSet(vendors'[k].person_urls)
                        \subseteq {c.url : c \in ToSet(e.contacts)} \ {None}
      BY DEF VendorUrlsAgree
    <3>1. CASE k = ven
      BY <1>2, <1>9, <2>1, <2>2, <2>3, <3>1
    <3>2. CASE k # ven
      BY <2>1, <3>2 DEF VendorInv, VendorUrlsAgree
    <3> QED
      BY <3>1, <3>2
  <2> QED
    BY <1>9, <2>4 DEF VendorInv, VendorUnknown, AddressFound
<1> QED
  BY <1>4, <1>7, <1>8, <1>9, VendorSteps

\* The other steps of the verification write nothing to a vendor.
LEMMA OthersKeepVendorInv ==
    ASSUME EnvInv, QueryOK, VendorInv, VerifyStep,
           ~(match_vendors_page \/ match_vendor_contacts \/ ContactsFail)
    PROVE  VendorInv' /\ vendors' = vendors
<1>1. vendors' = vendors
  BY DEF VerifyStep, VerifyNext, acvp_verify_fips_validation_metadata, Hung, vars, envVars,
         query_vendor, query_module, verify_fips_oe_dependencies, query_dependency,
         DependencyQueried, verify_fips_oe, Get, GetFails, PageMalformed,
         match_dependencies_page, match_modules_page,
         match_oes_page, PageEnds, VerifyReturned, op_env, Fails, Query
<1>2. VendorUrlsAgree'
  BY <1>1 DEF VendorInv, VendorUrlsAgree
<1>3. CASE Hung \/ UNCHANGED vars
  BY <1>3 DEF Hung, vars, envVars, op_env, VendorInv, VendorUnknown, AddressFound,
              VendorUrlsAgree, ven, mod, Entry
<1>4. CASE Get
  <2>1. q'.of = q.of /\ pc = "get" /\ pc' = "page" /\ UNCHANGED <<modules, fips>>
    BY <1>4, GetPage DEF EnvInv
  <2> QED
    BY <1>1, <1>2, <2>1 DEF VendorInv, VendorUnknown, AddressFound, ven, mod
<1>5. CASE query_vendor
  BY <1>1, <1>2, <1>5 DEF query_vendor, Fails, Step, Query, op_env, VendorInv,
                          VendorUnknown, AddressFound, ven, mod
<1>6. CASE match_modules_page \/ match_oes_page \/ match_dependencies_page
  <2>1. pc = "page" /\ q.of # "vendor"
    BY <1>6 DEF match_modules_page, match_oes_page, match_dependencies_page, AtEntry
  <2>2. \/ EndQuery
        \/ \E tmp : NextEntry(tmp)
    BY <1>6 DEF match_modules_page, match_oes_page, match_dependencies_page
  <2>3. pc' # "contacts" /\ (pc' \in {"get", "page"} => q'.of = q.of)
    BY <2>2 DEF EndQuery, NextEntry, Step, After, EnvInv, PlaceOK, Fields
  <2> QED
    BY <1>1, <1>2, <2>1, <2>3 DEF VendorInv, VendorUnknown, AddressFound
<1>7. CASE PageEnds
  <2>1. pc = "page" /\ UNCHANGED <<modules, fips>> /\ pc' # "contacts"
        /\ (pc' \in {"get", "page"} => q' = q)
    BY <1>7 DEF PageEnds, EndQuery, Step, After, op_env
  <2> QED
    BY <1>1, <1>2, <2>1 DEF VendorInv, VendorUnknown, AddressFound, ven, mod
<1>8. CASE \/ acvp_verify_fips_validation_metadata \/ query_module
           \/ verify_fips_oe_dependencies \/ query_dependency \/ DependencyQueried
           \/ verify_fips_oe \/ GetFails \/ PageMalformed \/ VerifyReturned
  <2>1. pc' # "contacts" /\ (pc' \in {"get", "page"} => q'.of # "vendor")
    BY <1>8 DEF acvp_verify_fips_validation_metadata, query_module,
                verify_fips_oe_dependencies, query_dependency, DependencyQueried,
                verify_fips_oe, GetFails, PageMalformed, VerifyReturned,
                Fails, Query, Step, NoQuery
  <2> QED
    BY <1>1, <1>2, <2>1 DEF VendorInv, VendorUnknown, AddressFound
<1> QED
  BY <1>1, <1>3, <1>4, <1>5, <1>6, <1>7, <1>8 DEF VerifyStep, VerifyNext

\* The invariant of the vendors.
THEOREM FipsVendorInvariant == Spec => []VendorInv
<1>1. ASSUME EnvInv /\ QueryOK, VendorInv, [Next]_vars
      PROVE  VendorInv'
  <2>1. (EnvNext /\ UNCHANGED q) \/ VerifyStep
    BY <1>1 DEF Next, VerifyStep
  <2> QED
    BY <1>1, <2>1, EnvKeepsVendorInv, CandidateKeepsVendorInv, OthersKeepVendorInv
<1> QED
  BY <1>1, VendorInvInit, FipsInvariant, PTL DEF Spec

\* A vendor with a URL has the address and the contact URLs of the same vendor
\* of the server, whatever candidates were tried and dropped before.
THEOREM FipsVendorUrls == Spec => []VendorUrlsAgree
<1>1. VendorInv => VendorUrlsAgree
  BY DEF VendorInv
<1> QED
  BY <1>1, FipsVendorInvariant, PTL
----------------------------------------------------------------------------
(* The vendor of a module *)

\* The static counters of vendors and modules agree between files, and while a
\* file is read they differ by what is read of it: a vendor whose id a module of
\* the file can still meet was read from the same file.
CountersAgree ==
    skewed = "no" =>
        /\ \A v \in DOMAIN vendors : vendors[v].id \in Nat /\ vendors[v].id < glb.vendor
        /\ pc \in {"vendors", "modules"} =>
             \A v \in DOMAIN vendors : vendors[v].id >= glb.module => vendors[v].from = ingests
        /\ pc = "vendors" => glb.vendor = glb.module + pos - 1 /\ pos <= Len(file.vendors) + 1
        /\ pc = "modules" =>
             /\ glb.module + Len(file.vendors) = glb.vendor + pos - 1
             /\ pos <= Len(file.modules) + 1
        /\ pc \in {"oes", "deps"} =>
             glb.module + Len(file.vendors) = glb.vendor + Len(file.modules)
        /\ pc \notin Reading => glb.vendor = glb.module

\* The lengths of the lists of a file.
LEMMA FileLengths ==
    ASSUME PlaceOK, pc \in Reading
    PROVE  /\ Len(file.vendors) \in Nat /\ Len(file.modules) \in Nat /\ pos \in Nat \ {0}
           /\ glb.vendor \in Nat /\ glb.module \in Nat
BY FilesAssumption, ListFacts DEF PlaceOK

\* Reading a file keeps the counters in step, or the file is refused.
LEMMA EnvKeepsCounters ==
    ASSUME EnvInv, EnvNext, CountersAgree
    PROVE  CountersAgree'
<1> USE DEF op_env, place, bounds
<1>0. PlaceOK /\ IsList(vendors)
  BY DEF EnvInv, ListsOK
<1>1. CASE skewed' # "no"
  BY <1>1 DEF CountersAgree
<1>2. CASE skewed' = "no" /\ \E f \in Files : acvp_oe_ingest_metadata(f)
  <2>1. PICK f \in Files : acvp_oe_ingest_metadata(f)
    BY <1>2
  <2>2. /\ pc = "idle" /\ pc' = "vendors" /\ pos' = 1 /\ file' = f
        /\ UNCHANGED <<glb, vendors, skewed>>
    BY <2>1 DEF acvp_oe_ingest_metadata
  <2>3. /\ glb.vendor = glb.module
        /\ \A v \in DOMAIN vendors : vendors[v].id \in Nat /\ vendors[v].id < glb.vendor
    BY <1>2, <2>2 DEF CountersAgree, Reading
  <2>4. glb.vendor \in Nat /\ Len(f.vendors) \in Nat
    BY <1>0, FilesAssumption, ListFacts DEF PlaceOK
  <2>5. \A v \in DOMAIN vendors : ~(vendors[v].id >= glb.module)
    BY <2>3, <2>4
  <2>6. glb.vendor = glb.module + 1 - 1 /\ 1 <= Len(f.vendors) + 1
    BY <2>3, <2>4
  <2> QED
    BY <2>2, <2>3, <2>5, <2>6 DEF CountersAgree, Reading
<1>3. CASE skewed' = "no" /\ acvp_oe_metadata_parse_vendor
  <2> DEFINE w == Vendor(glb.vendor, file.vendors[pos], 6)
  <2>1. /\ pc = "vendors" /\ pos <= Len(file.vendors)
        /\ glb' = [glb EXCEPT !.vendor = @ + 1]
        /\ vendors' = Append(vendors, w)
        /\ pc' = "vendors" /\ pos' = pos + 1 /\ UNCHANGED <<file, ingests, skewed>>
    BY <1>3 DEF acvp_oe_metadata_parse_vendor, Refused, GoOn
  <2>2. w.id = glb.vendor /\ w.from = ingests
    BY DEF Vendor
  <2> HIDE DEF w
  <2>3. /\ \A k \in DOMAIN vendors' : k \in DOMAIN vendors \/ vendors'[k] = w
        /\ \A k \in DOMAIN vendors : vendors'[k] = vendors[k]
    BY <1>0, <2>1, AppendList, ListFacts
  <2>4. glb'.vendor = glb.vendor + 1 /\ glb'.module = glb.module
    BY <1>0, <2>1 DEF PlaceOK
  <2>5. /\ Len(file.vendors) \in Nat /\ pos \in Nat \ {0}
        /\ glb.vendor \in Nat /\ glb.module \in Nat
    BY <1>0, <2>1, FileLengths DEF Reading
  <2>6. /\ \A v \in DOMAIN vendors : vendors[v].id \in Nat /\ vendors[v].id < glb.vendor
        /\ \A v \in DOMAIN vendors : vendors[v].id >= glb.module => vendors[v].from = ingests
        /\ glb.vendor = glb.module + pos - 1
    BY <1>3, <2>1 DEF CountersAgree
  <2>7. \A v \in DOMAIN vendors' : vendors'[v].id \in Nat /\ vendors'[v].id < glb'.vendor
    BY <2>2, <2>3, <2>4, <2>5, <2>6
  <2>8. \A v \in DOMAIN vendors' : vendors'[v].id >= glb'.module => vendors'[v].from = ingests'
    BY <2>1, <2>2, <2>3, <2>4, <2>6
  <2>9. glb'.vendor = glb'.module + pos' - 1 /\ pos' <= Len(file'.vendors) + 1
    BY <2>1, <2>4, <2>5, <2>6
  <2> QED
    BY <2>1, <2>7, <2>8, <2>9 DEF CountersAgree, Reading
<1>4. CASE skewed' = "no" /\ acvp_oe_metadata_parse_module
  <2>1. /\ pc = "modules" /\ pos <= Len(file.modules)
        /\ glb' = [glb EXCEPT !.module = @ + 1]
        /\ pc' = "modules" /\ pos' = pos + 1 /\ UNCHANGED <<vendors, file, ingests, skewed>>
    BY <1>4 DEF acvp_oe_metadata_parse_module, Refused, GoOn
  <2>2. glb'.vendor = glb.vendor /\ glb'.module = glb.module + 1
    BY <1>0, <2>1 DEF PlaceOK
  <2>3. /\ Len(file.vendors) \in Nat /\ Len(file.modules) \in Nat /\ pos \in Nat \ {0}
        /\ glb.vendor \in Nat /\ glb.module \in Nat
    BY <1>0, <2>1, FileLengths DEF Reading
  <2>4. /\ \A v \in DOMAIN vendors : vendors[v].id \in Nat /\ vendors[v].id < glb.vendor
        /\ \A v \in DOMAIN vendors : vendors[v].id >= glb.module => vendors[v].from = ingests
        /\ glb.module + Len(file.vendors) = glb.vendor + pos - 1
    BY <1>4, <2>1 DEF CountersAgree
  <2>5. \A v \in DOMAIN vendors : vendors[v].id >= glb'.module => vendors[v].from = ingests
    BY <2>2, <2>3, <2>4
  <2>6. glb'.module + Len(file.vendors) = glb'.vendor + pos' - 1 /\ pos' <= Len(file.modules) + 1
    <3>1. pos' = pos + 1 /\ pos' <= Len(file.modules) + 1
      BY <2>1, <2>3
    <3> DEFINE a == glb.module
               b == Len(file.vendors)
               c == glb.vendor
    <3>2. a \in Nat /\ b \in Nat /\ c \in Nat /\ a + b = c + pos - 1
      BY <2>3, <2>4
    <3>3. (a + 1) + b = c + (pos + 1) - 1
      <4> HIDE DEF a, b, c
      <4> QED
        BY <2>3, <3>2
    <3> QED
      BY <2>2, <3>1, <3>3
  <2> QED
    BY <2>1, <2>2, <2>4, <2>5, <2>6 DEF CountersAgree, Reading
<1>5. CASE skewed' = "no" /\ (acvp_oe_metadata_parse_oe \/ acvp_oe_metadata_parse_oe_dependencies)
  <2>1. /\ pc \in {"oes", "deps"} /\ pc' \in {"oes", "deps"}
        /\ UNCHANGED <<vendors, file, skewed>>
    BY <1>5 DEF acvp_oe_metadata_parse_oe, acvp_oe_metadata_parse_oe_dependencies, Refused
  <2>2. glb'.vendor = glb.vendor /\ glb'.module = glb.module
    BY <1>0, <1>5 DEF acvp_oe_metadata_parse_oe, acvp_oe_metadata_parse_oe_dependencies,
                      Refused, PlaceOK
  <2> QED
    BY <1>5, <2>1, <2>2 DEF CountersAgree, Reading
<1>6. CASE skewed' = "no" /\ NextList
  <2>1. UNCHANGED <<glb, vendors, file, ingests, skewed>> /\ pc \in Reading
    BY <1>6 DEF NextList, Reading
  <2>2. /\ Len(file.vendors) \in Nat /\ Len(file.modules) \in Nat /\ pos \in Nat \ {0}
        /\ glb.vendor \in Nat /\ glb.module \in Nat
    BY <1>0, <2>1, FileLengths
  <2>3. CASE pc = "vendors"
    <3>1. pos > Len(file.vendors) /\ pc' = "modules" /\ pos' = 1
      BY <1>6, <2>3 DEF NextList
    <3>2. /\ \A v \in DOMAIN vendors : vendors[v].id \in Nat /\ vendors[v].id < glb.vendor
          /\ \A v \in DOMAIN vendors : vendors[v].id >= glb.module => vendors[v].from = ingests
          /\ glb.vendor = glb.module + pos - 1 /\ pos <= Len(file.vendors) + 1
      BY <1>6, <2>1, <2>3 DEF CountersAgree
    <3>3. glb.module + Len(file.vendors) = glb.vendor + 1 - 1 /\ 1 <= Len(file.modules) + 1
      <4>1. pos = Len(file.vendors) + 1
        BY <2>2, <3>1, <3>2
      <4>2. glb.vendor = glb.module + Len(file.vendors)
        BY <2>2, <3>2, <4>1
      <4>3. 1 <= Len(file.modules) + 1
        BY <2>2
      <4> QED
        BY <2>2, <4>2, <4>3
    <3> QED
      BY <2>1, <3>1, <3>2, <3>3 DEF CountersAgree, Reading
  <2>4. CASE pc = "modules"
    <3>1. pos > Len(file.modules) /\ pc' = "oes"
      BY <1>6, <2>4 DEF NextList
    <3>2. /\ \A v \in DOMAIN vendors : vendors[v].id \in Nat /\ vendors[v].id < glb.vendor
          /\ glb.module + Len(file.vendors) = glb.vendor + pos - 1 /\ pos <= Len(file.modules) + 1
      BY <1>6, <2>1, <2>4 DEF CountersAgree
    <3>3. glb.module + Len(file.vendors) = glb.vendor + Len(file.modules)
      BY <2>2, <3>1, <3>2
    <3> QED
      BY <2>1, <3>1, <3>2, <3>3 DEF CountersAgree, Reading
  <2>5. CASE pc = "deps"
    <3>1. pc' = "oes"
      BY <1>6, <2>5 DEF NextList
    <3> QED
      BY <1>6, <2>1, <2>5, <3>1 DEF CountersAgree, Reading
  <2> QED
    BY <1>6, <2>3, <2>4, <2>5 DEF NextList
<1>7. CASE skewed' = "no" /\ IngestEnds
  <2>1. /\ pc = "oes" /\ pc' = "idle" /\ Len(file.vendors) = Len(file.modules)
        /\ UNCHANGED <<glb, vendors>> /\ skewed = "no"
    BY <1>7 DEF IngestEnds
  <2>2. Len(file.vendors) \in Nat /\ glb.vendor \in Nat /\ glb.module \in Nat
    BY <1>0, <2>1, FileLengths DEF Reading
  <2>3. /\ \A v \in DOMAIN vendors : vendors[v].id \in Nat /\ vendors[v].id < glb.vendor
        /\ glb.module + Len(file.vendors) = glb.vendor + Len(file.modules)
    BY <2>1 DEF CountersAgree
  <2>4. glb.vendor = glb.module
    BY <2>1, <2>2, <2>3
  <2> QED
    BY <2>1, <2>3, <2>4 DEF CountersAgree, Reading
<1>8. CASE skewed' = "no" /\ acvp_oe_free_operating_env
  <2>1. pc = "idle" /\ pc' = pc /\ vendors' = <<>> /\ UNCHANGED <<glb, skewed>>
    BY <1>8 DEF acvp_oe_free_operating_env
  <2> QED
    BY <1>8, <2>1, EmptyList DEF CountersAgree, Reading
<1>9. CASE \/ \E id \in ApiIds : ApiDependency(id)
           \/ \E id \in ApiIds, named \in {"yes", None} : acvp_oe_oe_new(id, named)
           \/ \E o, d \in ApiIds : acvp_oe_oe_set_dependency(o, d)
           \/ \E id \in ApiIds, named \in {"yes", None} : acvp_oe_module_new(id, named)
           \/ \E id \in ApiIds, code \in {"SUCCESS", "INVALID_ARG"} :
                acvp_oe_module_set_type_version_desc(id, code)
           \/ \E m, o \in ApiIds \cup {0} : acvp_oe_set_fips_validation_metadata(m, o)
  <2>1. pc = "idle" /\ pc' = pc /\ UNCHANGED <<glb, vendors, skewed>>
    BY <1>9 DEF ApiDependency, acvp_oe_oe_new, acvp_oe_oe_set_dependency, Api,
                acvp_oe_module_new, acvp_oe_module_set_type_version_desc,
                acvp_oe_set_fips_validation_metadata
  <2> QED
    BY <2>1 DEF CountersAgree, Reading
<1>10. CASE \/ \E code \in {"JSON_ERR", "MALFORMED_JSON"} : IngestFails(code)
            \/ \E stage \in 0..5 : VendorFails(stage)
            \/ \E stage \in 0..2 : ModuleFails(stage)
            \/ \E stage \in 0..2 : OeFails(stage)
            \/ \E stage \in 0..2 : DependencyFails(stage)
  <2>1. skewed' = "yes"
    BY <1>10 DEF IngestFails, VendorFails, ModuleFails, OeFails, DependencyFails, Refused
  <2> QED
    BY <1>1, <2>1
<1> QED
  BY <1>1, <1>2, <1>3, <1>4, <1>5, <1>6, <1>7, <1>8, <1>9, <1>10 DEF EnvNext

\* So does the verification, which reads no file.
LEMMA VerifyKeepsCounters ==
    ASSUME EnvInv, QueryOK, VerifyStep, CountersAgree
    PROVE  CountersAgree' /\ skewed' = skewed
<1>1. UNCHANGED <<glb, fips, file, pos>> /\ OnlyUrls
  BY VerifyKeepsPlace, VerifyOnlyUrls DEF EnvInv, VerifyStep
<1>2. UNCHANGED <<skewed, ingests>>
  BY DEF VerifyStep, VerifyNext, acvp_verify_fips_validation_metadata, Hung, vars, envVars,
         query_vendor, query_module, verify_fips_oe_dependencies, query_dependency,
         DependencyQueried, verify_fips_oe, Get, GetFails, PageMalformed,
         match_vendors_page, match_vendor_contacts, ContactsFail, match_modules_page,
         match_dependencies_page, match_oes_page, PageEnds, VerifyReturned, Fails, Query,
         Step, NextEntry, EndQuery, bounds
<1>3. pc' = pc \/ (pc \notin Reading /\ pc' \notin Reading)
  BY DEF VerifyStep, VerifyNext, acvp_verify_fips_validation_metadata, Hung, vars, envVars,
         query_vendor, query_module, verify_fips_oe_dependencies, query_dependency,
         DependencyQueried, verify_fips_oe, Get, GetFails, PageMalformed, AtEntry,
         match_vendors_page, match_vendor_contacts, ContactsFail, match_modules_page,
         match_dependencies_page, match_oes_page, PageEnds, VerifyReturned, Fails, Query,
         Step, NextEntry, EndQuery, After, Reading
<1>4. /\ DOMAIN vendors' = DOMAIN vendors
      /\ \A v \in DOMAIN vendors :
           vendors'[v].id = vendors[v].id /\ vendors'[v].from = vendors[v].from
  BY <1>1 DEF OnlyUrls, VendorsKept
<1> QED
  BY <1>1, <1>2, <1>3, <1>4 DEF CountersAgree, Reading

\* The vendors and modules there were keep their ids and where they are from.
LEMMA OwnVendorKept ==
    ASSUME OwnVendor, skewed = "no",
           DOMAIN vendors \subseteq DOMAIN vendors',
           \A v \in DOMAIN vendors :
             vendors'[v].id = vendors[v].id /\ vendors'[v].from = vendors[v].from,
           \A k \in DOMAIN modules' :
             \/ /\ k \in DOMAIN modules
                /\ modules'[k].vendor = modules[k].vendor /\ modules'[k].from = modules[k].from
             \/ modules'[k].from = 0
             \/ \E v \in DOMAIN vendors :
                  vendors[v].id = modules'[k].vendor /\ vendors[v].from = modules'[k].from
    PROVE  OwnVendor'
BY DEF OwnVendor

\* A module that is read from a file finds a vendor of that file.
LEMMA EnvKeepsOwnVendor ==
    ASSUME EnvInv, EnvNext, CountersAgree, OwnVendor
    PROVE  OwnVendor'
<1> USE DEF op_env, place, bounds
<1>0. EnvChange /\ PlaceOK /\ ListsOK
  BY EnvChanges DEF EnvInv
<1>1. CASE skewed' # "no"
  BY <1>1 DEF OwnVendor
<1>2. CASE skewed # "no"
  <2>1. skewed' # "no"
    BY <1>2 DEF EnvNext, acvp_oe_ingest_metadata, IngestFails, Refused, GoOn,
                acvp_oe_metadata_parse_vendor, VendorFails, acvp_oe_metadata_parse_module,
                ModuleFails, acvp_oe_metadata_parse_oe, OeFails,
                acvp_oe_metadata_parse_oe_dependencies, DependencyFails, NextList, IngestEnds,
                acvp_oe_free_operating_env, ApiDependency, acvp_oe_oe_new,
                acvp_oe_oe_set_dependency, acvp_oe_module_new,
                acvp_oe_module_set_type_version_desc, acvp_oe_set_fips_validation_metadata
  <2> QED
    BY <1>1, <2>1
<1>3. CASE skewed = "no" /\ UNCHANGED <<vendors, modules>>
  BY <1>3, OwnVendorKept
<1>4. CASE Freed
  BY <1>4, EmptyList DEF Freed, OwnVendor
<1>5. CASE skewed = "no" /\ VendorAdded
  <2>1. PICK v : vendors' = Append(vendors, v)
    BY <1>5 DEF VendorAdded
  <2>2. DOMAIN vendors \subseteq DOMAIN vendors' /\ \A k \in DOMAIN vendors : vendors'[k] = vendors[k]
    BY <1>0, <2>1, AppendList, ListFacts DEF ListsOK
  <2>3. modules' = modules
    BY <1>5 DEF VendorAdded
  <2> QED
    BY <1>5, <2>2, <2>3, OwnVendorKept
<1>6. CASE skewed = "no" /\ ModuleSet
  <2>k. PICK k \in DOMAIN modules : \E a : modules' = [modules EXCEPT ![k].attrs = a]
    BY <1>6 DEF ModuleSet
  <2>1. PICK a : modules' = [modules EXCEPT ![k].attrs = a]
    BY <2>k
  <2>2. ModuleOK(modules[k])
    BY <1>0 DEF ListsOK
  <2>3. DOMAIN modules' = DOMAIN modules /\
        \A j \in DOMAIN modules :
          modules'[j].vendor = modules[j].vendor /\ modules'[j].from = modules[j].from
    BY <2>1, <2>2 DEF ModuleOK
  <2>4. vendors' = vendors
    BY <1>6 DEF ModuleSet
  <2> QED
    BY <1>6, <2>3, <2>4, OwnVendorKept
<1>7. ASSUME skewed = "no", vendors' = vendors, NEW m, modules' = Append(modules, m),
             \/ m.from = 0
             \/ \E v \in DOMAIN vendors : vendors[v].id = m.vendor /\ vendors[v].from = m.from
      PROVE  OwnVendor'
  <2>1. /\ \A k \in DOMAIN modules' : k \in DOMAIN modules \/ modules'[k] = m
        /\ \A k \in DOMAIN modules : modules'[k] = modules[k]
    BY <1>0, <1>7, AppendList, ListFacts DEF ListsOK
  <2> QED
    BY <1>7, <2>1, OwnVendorKept
<1>8. ASSUME skewed = "no", skewed' = "no", acvp_oe_metadata_parse_module PROVE OwnVendor'
  <2> DEFINE m == Module(glb.module, "yes", file.modules[pos], ingests)
  <2>1. /\ pc = "modules" /\ m.vendor # 0 /\ modules' = Append(modules, m) /\ vendors' = vendors
    BY <1>8 DEF acvp_oe_metadata_parse_module, Refused
  <2>2. m.from = ingests /\ m.vendor = glb.module /\ glb.module \in Ids(vendors)
    BY <2>1 DEF Module
  <2>3. PICK v \in DOMAIN vendors : vendors[v].id = glb.module
    BY <2>2 DEF Ids
  <2>4. glb.module \in Nat
    BY <1>0 DEF PlaceOK
  <2>5. vendors[v].from = ingests
    BY <1>8, <2>1, <2>3, <2>4 DEF CountersAgree
  <2> HIDE DEF m
  <2> QED
    BY <1>7, <1>8, <2>1, <2>2, <2>3, <2>5
<1>9. ASSUME NEW id \in ApiIds, NEW named, skewed = "no", acvp_oe_module_new(id, named)
      PROVE  OwnVendor'
  <2> DEFINE m == [Module(id, named, "none", 0) EXCEPT
                     !.name = IF Module(id, named, "none", 0).vendor = 0 THEN None ELSE @]
  <2>1. vendors' = vendors /\ (modules' = modules \/ modules' = Append(modules, m))
    BY <1>9 DEF acvp_oe_module_new, Api
  <2>2. m.from = 0
    BY DEF Module
  <2> HIDE DEF m
  <2>3. CASE modules' = modules
    BY <1>3, <1>9, <2>1, <2>3
  <2>4. CASE modules' = Append(modules, m)
    BY <1>7, <1>9, <2>1, <2>2, <2>4
  <2> QED
    BY <2>1, <2>3, <2>4
<1>10. ASSUME ~acvp_oe_metadata_parse_module,
              ~(\E id \in ApiIds, named \in {"yes", None} : acvp_oe_module_new(id, named)),
              skewed' = "no"
       PROVE  modules' = modules \/ Freed \/ ModuleSet
  <2>1. CASE \E id \in ApiIds, code \in {"SUCCESS", "INVALID_ARG"} :
               acvp_oe_module_set_type_version_desc(id, code)
    <3>1. PICK id \in ApiIds, code \in {"SUCCESS", "INVALID_ARG"} :
            acvp_oe_module_set_type_version_desc(id, code)
      BY <2>1
    <3>2. find(modules, id) = 0 \/ find(modules, id) \in DOMAIN modules
      BY <1>0, FindFacts DEF ListsOK
    <3> QED
      BY <3>1, <3>2 DEF acvp_oe_module_set_type_version_desc, Api, ModuleSet
  <2>2. CASE \E stage \in 0..2 : ModuleFails(stage)
    BY <1>10, <2>2 DEF ModuleFails, Refused
  <2>3. CASE acvp_oe_free_operating_env
    BY <2>3 DEF acvp_oe_free_operating_env, Freed
  <2>4. CASE \/ \E f \in Files : acvp_oe_ingest_metadata(f)
             \/ \E code \in {"JSON_ERR", "MALFORMED_JSON"} : IngestFails(code)
             \/ acvp_oe_metadata_parse_vendor
             \/ \E stage \in 0..5 : VendorFails(stage)
             \/ NextList \/ IngestEnds
    BY <2>4 DEF acvp_oe_ingest_metadata, IngestFails, acvp_oe_metadata_parse_vendor,
                VendorFails, NextList, IngestEnds
  <2>5. CASE \/ acvp_oe_metadata_parse_oe
             \/ \E stage \in 0..2 : OeFails(stage)
             \/ acvp_oe_metadata_parse_oe_dependencies
             \/ \E stage \in 0..2 : DependencyFails(stage)
    BY <2>5 DEF acvp_oe_metadata_parse_oe, OeFails, acvp_oe_metadata_parse_oe_dependencies,
                DependencyFails
  <2>6. CASE \/ \E id \in ApiIds : ApiDependency(id)
             \/ \E id \in ApiIds, named \in {"yes", None} : acvp_oe_oe_new(id, named)
             \/ \E o, d \in ApiIds : acvp_oe_oe_set_dependency(o, d)
             \/ \E m, o \in ApiIds \cup {0} : acvp_oe_set_fips_validation_metadata(m, o)
    BY <2>6 DEF ApiDependency, acvp_oe_oe_new, acvp_oe_oe_set_dependency,
                acvp_oe_set_fips_validation_metadata
  <2> QED
    BY <1>10, <2>1, <2>2, <2>3, <2>4, <2>5, <2>6 DEF EnvNext
<1> QED
  BY <1>0, <1>1, <1>2, <1>3, <1>4, <1>5, <1>6, <1>8, <1>9, <1>10
     DEF EnvChange, ModuleAdded, OeAdded, DependencyAdded, DependencyRewritten,
         DependencyLinked, ChoiceMade

\* A module of a file belongs to a vendor of the same file, as long as every
\* file so far was read to its end and had a vendor for each module.
THEOREM FipsOwnVendor == Spec => []OwnVendor
<1>1. FVInit => CountersAgree /\ OwnVendor
  BY EmptyList DEF FVInit, Init, CountersAgree, OwnVendor, Reading
<1>2. ASSUME EnvInv /\ QueryOK, CountersAgree /\ OwnVendor, [Next]_vars
      PROVE  (CountersAgree /\ OwnVendor)'
  <2>1. (EnvNext /\ UNCHANGED q) \/ VerifyStep
    BY <1>2 DEF Next, VerifyStep
  <2>2. CASE EnvNext
    BY <1>2, <2>2, EnvKeepsCounters, EnvKeepsOwnVendor
  <2>3. CASE VerifyStep
    <3>1. CountersAgree' /\ skewed' = skewed /\ OnlyUrls
      BY <1>2, <2>3, VerifyKeepsCounters, VerifyOnlyUrls
    <3>2. OwnVendor'
      BY <1>2, <3>1 DEF OwnVendor, OnlyUrls, VendorsKept, ModulesKept
    <3> QED
      BY <3>1, <3>2
  <2> QED
    BY <2>1, <2>2, <2>3
<1> QED
  BY <1>1, <1>2, FipsInvariant, PTL DEF Spec

----------------------------------------------------------------------------
(* The dependencies of the OE, and its own URL *)

\* The dependencies of the OE are being looked up; the lookup is done.
Walking ==
    pc \in {"dep", "dep_queried"} \/ (pc \in {"get", "page"} /\ q.of = "dependency")
WalkDone ==
    pc = "verified" \/ (pc \in {"get", "page"} /\ q.of = "oe")

\* A dependency is asked for only while it has no URL: none is overwritten.
DependencyUnknown ==
    pc \in {"get", "page"} /\ q.of = "dependency" => deps[dep(q.k)].url = None

\* The state of the OE says what was found of its dependencies so far.
StatusSoFar ==
    Walking =>
        /\ oes[oe].status \in {"COMPLETE", "PARTIAL"}
        /\ \A j \in DOMAIN oes[oe].deps :
             j < q.k /\ deps[dep(j)].url = None => oes[oe].status = "PARTIAL"
StatusIsRight ==
    WalkDone =>
        \/ oes[oe].status = "PARTIAL"
        \/ oes[oe].status = "COMPLETE" /\ Missing = {}
        \/ oes[oe].status = "INCOMPLETE" /\ Found = {}

\* The OE is asked for only if all its dependencies were found.
AllFound == pc \in {"get", "page"} /\ q.of = "oe" => Missing = {}

WalkInv == DependencyUnknown /\ StatusSoFar /\ StatusIsRight /\ AllFound

\* What a step may do to the dependencies: their URLs are never taken back.
DepUrlsKept ==
    /\ IsList(deps') /\ DOMAIN deps \subseteq DOMAIN deps'
    /\ \A k \in DOMAIN deps :
         /\ deps'[k].id = deps[k].id
         /\ deps[k].url # None => deps'[k].url = deps[k].url

\* Only match_dependencies_page writes to a dependency.
LEMMA OthersKeepDeps ==
    ASSUME VerifyStep, ~match_dependencies_page
    PROVE  deps' = deps
BY DEF VerifyStep, VerifyNext, acvp_verify_fips_validation_metadata, Hung, vars, envVars,
       query_vendor, query_module, verify_fips_oe_dependencies, query_dependency,
       DependencyQueried, verify_fips_oe, Get, GetFails, PageMalformed,
       match_vendors_page, match_vendor_contacts, ContactsFail, match_modules_page,
       match_oes_page, PageEnds, VerifyReturned, op_env, Fails, Query

\* Where the verification is in the lookup, and which dependency is under way.
LEMMA WalkSteps ==
    ASSUME EnvInv, QueryOK, VerifyStep,
           ~(verify_fips_oe_dependencies \/ DependencyQueried \/ verify_fips_oe)
    PROVE  /\ Walking' => Walking /\ q'.k = q.k
           /\ WalkDone' => WalkDone
           /\ pc' \in {"get", "page"} /\ q'.of = "dependency" =>
                query_dependency \/ (pc \in {"get", "page"} /\ q.of = "dependency")
           /\ pc' \in {"get", "page"} /\ q'.of = "oe" => pc \in {"get", "page"} /\ q.of = "oe"
<1> USE DEF Walking, WalkDone
<1>0. DOMAIN q = Fields
  BY DEF EnvInv, PlaceOK
<1>1. CASE acvp_verify_fips_validation_metadata
  BY <1>1 DEF acvp_verify_fips_validation_metadata
<1>2. CASE Hung \/ UNCHANGED vars
  BY <1>2 DEF Hung, vars
<1>3. CASE query_vendor \/ query_module \/ query_dependency
  BY <1>3 DEF query_vendor, query_module, query_dependency, Fails, Step, Query, NoQuery
<1>4. CASE Get
  <2>1. q'.of = q.of /\ q'.k = q.k /\ pc' = "page" /\ pc = "get"
    BY <1>4, GetPage DEF EnvInv
  <2> QED
    BY <2>1
<1>5. CASE GetFails \/ PageMalformed \/ VerifyReturned
  BY <1>5 DEF GetFails, PageMalformed, VerifyReturned, Fails
<1>6. ASSUME EndQuery, pc \in {"page", "contacts"}, pc = "contacts" => q.of = "vendor"
      PROVE  /\ Walking' => Walking /\ q'.k = q.k
             /\ WalkDone' => WalkDone
             /\ pc' \notin {"get", "page"}
  <2>1. q'.k = q.k /\ pc' = After(q.of)
    BY <1>6 DEF EndQuery, Step, NoQuery
  <2>2. pc = "page" => q.of \in {"vendor", "module", "dependency", "oe"}
    BY DEF QueryOK
  <2> QED
    BY <1>6, <2>1, <2>2 DEF After
<1>7. ASSUME NEW tmp, NextEntry(tmp)
      PROVE  q'.of = q.of /\ q'.k = q.k /\ pc' = "page"
  BY <1>0, <1>7 DEF NextEntry, Step, Fields
<1>8. CASE match_vendors_page
  <2>1. /\ pc = "page" /\ q.of = "vendor"
        /\ pc' \in {"hung", "idle", "contacts"} \/ NextEntry(q.tmp)
    BY <1>8 DEF match_vendors_page, AtEntry, Step, Fails
  <2> QED
    BY <1>7, <2>1
<1>9. CASE match_vendor_contacts \/ ContactsFail
  <2>1. /\ pc = "contacts" /\ q.of = "vendor"
        /\ pc' = "hung" \/ NextEntry(q.tmp) \/ EndQuery
    BY <1>9 DEF match_vendor_contacts, ContactsFail, Step, QueryOK
  <2> QED
    BY <1>6, <1>7, <2>1
<1>10. CASE match_modules_page \/ match_dependencies_page \/ match_oes_page
  <2>1. pc = "page" /\ (EndQuery \/ \E tmp : NextEntry(tmp))
    BY <1>10 DEF match_modules_page, match_dependencies_page, match_oes_page, AtEntry
  <2> QED
    BY <1>6, <1>7, <2>1
<1>11. CASE PageEnds
  <2>1. pc = "page" /\ (EndQuery \/ (pc' = "get" /\ q' = q))
    BY <1>11 DEF PageEnds, Step
  <2> QED
    BY <1>6, <2>1
<1> QED
  BY <1>1, <1>2, <1>3, <1>4, <1>5, <1>8, <1>9, <1>10, <1>11 DEF VerifyStep, VerifyNext

\* The verification takes back no URL of a dependency.
LEMMA VerifyDepUrls ==
    ASSUME EnvInv, QueryOK, DependencyUnknown, VerifyStep
    PROVE  DepUrlsKept
<1>1. ListsOK /\ IsList(deps)
  BY DEF EnvInv, ListsOK
<1>2. CASE deps' = deps
  BY <1>1, <1>2 DEF DepUrlsKept
<1>3. CASE deps' # deps
  <2>1. match_dependencies_page
    BY <1>3, OthersKeepDeps
  <2>2. /\ pc = "page" /\ q.of = "dependency" /\ InVerification
        /\ deps' = [deps EXCEPT ![dep(q.k)].url = Entry.url]
    BY <1>3, <2>1 DEF match_dependencies_page, AtEntry, InVerification, Verifying
  <2>3. q.k \in DOMAIN oes[oe].deps /\ deps[dep(q.k)].url = None
    BY <2>2 DEF QueryOK, DependencyUnknown
  <2>4. dep(q.k) \in DOMAIN deps
    BY <2>2, <2>3, ChosenPlaces
  <2>5. DepsKept /\ \A j \in DOMAIN deps : j # dep(q.k) => deps'[j] = deps[j]
    BY <1>1, <2>2, <2>4, SetDependencyUrl
  <2> QED
    BY <2>3, <2>5 DEF DepsKept, DepUrlsKept
<1> QED
  BY <1>2, <1>3

\* During the verification, the OE and its dependencies stay where they are.
LEMMA OePlacesKept ==
    ASSUME EnvInv, QueryOK, VerifyStep, InVerification
    PROVE  /\ oe' = oe /\ oe \in DOMAIN oes
           /\ oes'[oe].deps = oes[oe].deps /\ DOMAIN oes' = DOMAIN oes
           /\ IsList(oes[oe].deps)
           /\ \A k \in DOMAIN oes[oe].deps :
                dep(k)' = dep(k) /\ dep(k) \in DOMAIN deps
<1>1. OnlyUrls
  BY VerifyOnlyUrls
<1>2. oe \in DOMAIN oes /\ \A k \in DOMAIN oes[oe].deps : dep(k) \in DOMAIN deps
  BY ChosenPlaces
<1>3. 0 \notin DOMAIN oes /\ 0 \notin DOMAIN deps
  BY ListFacts DEF EnvInv, ListsOK
<1>4. oe # 0 /\ \A k \in DOMAIN oes[oe].deps : dep(k) # 0
  BY <1>2, <1>3
<1>5. oe' = oe /\ \A k \in DOMAIN oes[oe].deps : dep(k)' = dep(k)
  BY <1>1, <1>2, <1>4, PlacesKept
<1> QED
  BY <1>1, <1>2, <1>5 DEF OnlyUrls, OesKept, EnvInv, ListsOK, OeOK

\* A step that writes no state of the OE keeps what its state says.
LEMMA StatusKept ==
    ASSUME EnvInv, QueryOK, WalkInv, VerifyStep, InVerification,
           ~(verify_fips_oe_dependencies \/ DependencyQueried \/ verify_fips_oe)
    PROVE  WalkInv'
<1> USE DEF WalkInv
<1>1. /\ Walking' => Walking /\ q'.k = q.k
      /\ WalkDone' => WalkDone
      /\ pc' \in {"get", "page"} /\ q'.of = "dependency" =>
           query_dependency \/ (pc \in {"get", "page"} /\ q.of = "dependency")
      /\ pc' \in {"get", "page"} /\ q'.of = "oe" => pc \in {"get", "page"} /\ q.of = "oe"
  BY WalkSteps
<1>2. /\ oe' = oe /\ oe \in DOMAIN oes
      /\ oes'[oe].deps = oes[oe].deps
      /\ \A k \in DOMAIN oes[oe].deps : dep(k)' = dep(k) /\ dep(k) \in DOMAIN deps
  BY OePlacesKept
<1>3. oes'[oe].status = oes[oe].status
  <2>1. CASE match_oes_page
    <3>1. CASE oes' = oes
      BY <3>1
    <3>2. CASE oes' # oes
      <4>1. oes' = [oes EXCEPT ![oe] = [oes[oe] EXCEPT !["url"] = Entry.url]]
        BY <2>1, <3>2 DEF match_oes_page
      <4>2. \A g \in {"url", "status"} : g # "url" => oes'[oe][g] = oes[oe][g]
        BY <1>2, <4>1, SetOe DEF EnvInv
      <4> QED
        BY <4>2
    <3> QED
      BY <3>1, <3>2
  <2>2. CASE ~match_oes_page
    <3>1. oes' = oes
      BY <2>2 DEF VerifyStep, VerifyNext, acvp_verify_fips_validation_metadata, Hung, vars,
                  envVars, query_vendor, query_module, query_dependency, Get, GetFails,
                  PageMalformed, match_vendors_page, match_vendor_contacts, ContactsFail,
                  match_modules_page, match_dependencies_page, PageEnds, VerifyReturned,
                  op_env, Fails, Query
    <3> QED
      BY <3>1
  <2> QED
    BY <2>1, <2>2
<1>4. DepUrlsKept
  BY VerifyDepUrls
<1>5. StatusSoFar'
  <2> SUFFICES ASSUME Walking'
               PROVE  /\ oes'[oe'].status \in {"COMPLETE", "PARTIAL"}
                      /\ \A j \in DOMAIN oes'[oe'].deps :
                           j < q'.k /\ deps'[dep(j)'].url = None => oes'[oe'].status = "PARTIAL"
    BY DEF StatusSoFar
  <2>1. Walking /\ q'.k = q.k
    BY <1>1
  <2>2. /\ oes[oe].status \in {"COMPLETE", "PARTIAL"}
        /\ \A j \in DOMAIN oes[oe].deps :
             j < q.k /\ deps[dep(j)].url = None => oes[oe].status = "PARTIAL"
    BY <2>1 DEF StatusSoFar
  <2>3. ASSUME NEW j \in DOMAIN oes[oe].deps, deps'[dep(j)].url = None
        PROVE  deps[dep(j)].url = None
    BY <1>2, <1>4, <2>3 DEF DepUrlsKept
  <2> QED
    BY <1>2, <1>3, <2>1, <2>2, <2>3
<1>6. ASSUME deps' = deps PROVE Found' = Found /\ Missing' = Missing
  BY <1>2, <1>6 DEF Found, Missing
<1>7. WalkDone => deps' = deps
  BY OthersKeepDeps DEF WalkDone, match_dependencies_page, AtEntry
<1>8. StatusIsRight'
  BY <1>1, <1>2, <1>3, <1>6, <1>7 DEF StatusIsRight
<1>9. AllFound'
  BY <1>1, <1>6, <1>7 DEF AllFound, WalkDone
<1>10. DependencyUnknown'
  <2> SUFFICES ASSUME pc' \in {"get", "page"}, q'.of = "dependency"
               PROVE  deps'[dep(q.k)'].url = None
    BY DEF DependencyUnknown
  <2>1. Walking /\ q'.k = q.k
    BY <1>1 DEF Walking
  <2>2. deps' = deps
    <3>1. CASE match_dependencies_page
      <4>1. deps' = deps \/ (EndQuery /\ q.of = "dependency")
        BY <3>1 DEF match_dependencies_page, AtEntry
      <4> QED
        BY <4>1 DEF EndQuery, Step, After
    <3> QED
      BY <3>1, OthersKeepDeps
  <2>3. q.k \in DOMAIN oes[oe].deps /\ deps[dep(q.k)].url = None
    <3>1. CASE query_dependency
      <4>1. pc = "dep" /\ q.k <= Len(oes[oe].deps) /\ deps[dep(q.k)].url = None
        BY <3>1 DEF query_dependency, Step
      <4>2. q.k \in Nat \ {0}
        BY <4>1 DEF QueryOK
      <4>3. IsList(oes[oe].deps)
        BY OePlacesKept
      <4> QED
        BY <4>1, <4>2, <4>3, ListFacts
    <3>2. CASE pc \in {"get", "page"} /\ q.of = "dependency"
      BY <3>2 DEF QueryOK, DependencyUnknown
    <3> QED
      BY <1>1, <3>1, <3>2
  <2>4. PICK j \in DOMAIN oes[oe].deps : j = q.k
    BY <2>3
  <2>5. dep(j)' = dep(j)
    BY <1>2
  <2>6. dep(q.k)' = dep(j)'
    BY <2>1, <2>4 DEF dep
  <2> QED
    BY <2>2, <2>3, <2>4, <2>5, <2>6
<1> QED
  BY <1>5, <1>8, <1>9, <1>10

\* The three steps that write the state of the OE make it right.
LEMMA StatusWritten ==
    ASSUME EnvInv, QueryOK, WalkInv,
           verify_fips_oe_dependencies \/ DependencyQueried \/ verify_fips_oe
    PROVE  WalkInv'
<1>1. InVerification /\ VerifyStep
  BY DEF verify_fips_oe_dependencies, DependencyQueried, verify_fips_oe, InVerification,
         Verifying, VerifyStep, VerifyNext
<1>2. /\ oe' = oe /\ oe \in DOMAIN oes
      /\ oes'[oe].deps = oes[oe].deps /\ IsList(oes[oe].deps)
      /\ \A k \in DOMAIN oes[oe].deps : dep(k)' = dep(k) /\ dep(k) \in DOMAIN deps
  BY <1>1, OePlacesKept
<1>3. deps' = deps
  BY StatusSteps
<1>4. Found' = Found /\ Missing' = Missing
  BY <1>2, <1>3 DEF Found, Missing
<1>5. Len(oes[oe].deps) \in Nat /\ DOMAIN oes[oe].deps = 1..Len(oes[oe].deps)
  BY <1>2, ListFacts
<1>6. CASE verify_fips_oe_dependencies
  <2>1. pc' = "dep" /\ q'.k = 1 /\ oes'[oe].status = "COMPLETE"
    BY <1>6, StatusSteps DEF verify_fips_oe_dependencies, Step, NoQuery
  <2>2. \A j \in DOMAIN oes[oe].deps : ~(j < 1)
    BY <1>5
  <2> QED
    BY <1>2, <2>1, <2>2 DEF WalkInv, DependencyUnknown, StatusSoFar, StatusIsRight, AllFound,
                            Walking, WalkDone
<1>7. CASE DependencyQueried
  <2>1. /\ pc = "dep_queried" /\ pc' = "dep" /\ q'.k = q.k + 1
        /\ oes'[oe].status = IF deps[dep(q.k)].url = None THEN "PARTIAL" ELSE oes[oe].status
    BY <1>7, StatusSteps DEF DependencyQueried, Step, NoQuery
  <2>2. q.k \in DOMAIN oes[oe].deps
    BY <2>1 DEF QueryOK
  <2>3. /\ oes[oe].status \in {"COMPLETE", "PARTIAL"}
        /\ \A j \in DOMAIN oes[oe].deps :
             j < q.k /\ deps[dep(j)].url = None => oes[oe].status = "PARTIAL"
    BY <2>1 DEF WalkInv, StatusSoFar, Walking
  <2>4. ASSUME NEW j \in DOMAIN oes[oe].deps, j < q.k + 1, deps[dep(j)].url = None
        PROVE  oes'[oe].status = "PARTIAL"
    <3>1. j < q.k \/ j = q.k
      BY <1>5, <2>2, <2>4
    <3> QED
      BY <2>1, <2>3, <2>4, <3>1
  <2>5. oes'[oe].status \in {"COMPLETE", "PARTIAL"}
    BY <2>1, <2>3
  <2>6. StatusSoFar'
    BY <1>2, <1>3, <2>1, <2>4, <2>5 DEF StatusSoFar
  <2> QED
    BY <2>1, <2>6 DEF WalkInv, DependencyUnknown, StatusIsRight, AllFound, WalkDone
<1>8. CASE verify_fips_oe
  <2>1. /\ pc = "dep" /\ q.k > Len(oes[oe].deps)
        /\ oes'[oe].status = IF Found = {} THEN "INCOMPLETE" ELSE oes[oe].status
        /\ \/ pc' = "verified"
           \/ pc' = "get" /\ q'.of = "oe" /\ Missing = {}
    BY <1>8, StatusSteps DEF verify_fips_oe, Step, NoQuery
  <2>2. q.k \in Nat
    BY <2>1 DEF QueryOK
  <2>3. /\ oes[oe].status \in {"COMPLETE", "PARTIAL"}
        /\ \A j \in DOMAIN oes[oe].deps :
             j < q.k /\ deps[dep(j)].url = None => oes[oe].status = "PARTIAL"
    BY <2>1 DEF WalkInv, StatusSoFar, Walking
  <2>4. \A j \in DOMAIN oes[oe].deps : j < q.k
    BY <1>5, <2>1, <2>2
  <2>5. oes[oe].status = "COMPLETE" => Missing = {}
    BY <2>3, <2>4 DEF Missing, Found
  <2>6. StatusIsRight'
    BY <1>2, <1>4, <2>1, <2>3, <2>5 DEF StatusIsRight
  <2> QED
    BY <1>4, <2>1, <2>6 DEF WalkInv, DependencyUnknown, StatusSoFar, AllFound, Walking
<1> QED
  BY <1>6, <1>7, <1>8

\* Outside a verification there is nothing to say.
LEMMA WalkIdle ==
    ASSUME ~InVerification
    PROVE  WalkInv
BY DEF WalkInv, DependencyUnknown, StatusSoFar, StatusIsRight, AllFound, Walking, WalkDone,
       InVerification, Verifying

\* The invariant of the lookup of the dependencies.
THEOREM FipsWalkInvariant == Spec => []WalkInv
<1>1. FVInit => WalkInv
  BY WalkIdle DEF FVInit, Init, InVerification, Verifying
<1>2. ASSUME EnvInv /\ QueryOK, WalkInv, [Next]_vars PROVE WalkInv'
  <2>1. (EnvNext /\ UNCHANGED q) \/ VerifyStep
    BY <1>2 DEF Next, VerifyStep
  <2>2. CASE EnvNext /\ UNCHANGED q
    <3>1. ~InVerification'
      BY <1>2, <2>2, EnvKeepsInv
    <3> QED
      BY <3>1 DEF WalkInv, DependencyUnknown, StatusSoFar, StatusIsRight, AllFound, Walking,
                  WalkDone, InVerification, Verifying
  <2>3. CASE VerifyStep /\ InVerification
    BY <1>2, <2>3, StatusKept, StatusWritten
  <2>4. CASE VerifyStep /\ ~InVerification
    <3>1. pc' = pc \/ pc' \in {"idle", "vendor"}
      BY <2>4 DEF VerifyStep, VerifyNext, acvp_verify_fips_validation_metadata, Hung, vars,
           query_vendor, query_module, verify_fips_oe_dependencies, query_dependency,
           DependencyQueried, verify_fips_oe, Get, GetFails, PageMalformed, AtEntry,
           match_vendors_page, match_vendor_contacts, ContactsFail, match_modules_page,
           match_dependencies_page, match_oes_page, PageEnds, VerifyReturned,
           InVerification, Verifying
    <3> QED
      BY <2>4, <3>1 DEF WalkInv, DependencyUnknown, StatusSoFar, StatusIsRight, AllFound,
                        Walking, WalkDone, InVerification, Verifying
  <2> QED
    BY <2>1, <2>2, <2>3, <2>4
<1> QED
  BY <1>1, <1>2, FipsInvariant, PTL DEF Spec

\* A request that makes the server create the OE tells it each dependency of the
\* OE exactly once.
THEOREM FipsEveryDependencySent == Spec => []EveryDependencySent
<1>1. WalkInv => EveryDependencySent
  <2> SUFFICES ASSUME WalkInv, pc = "verified", oes[oe].url = None
               PROVE  /\ Request.dependencyUrls \cup Request.dependencies = DOMAIN oes[oe].deps
                      /\ Request.dependencyUrls \cap Request.dependencies = {}
    BY DEF EveryDependencySent
  <2>1. \/ oes[oe].status = "PARTIAL"
        \/ oes[oe].status = "COMPLETE" /\ Missing = {}
        \/ oes[oe].status = "INCOMPLETE" /\ Found = {}
    BY DEF WalkInv, StatusIsRight, WalkDone
  <2>2. /\ Request.dependencyUrls =
             IF oes[oe].status \in {"COMPLETE", "PARTIAL"} THEN Found ELSE {}
        /\ Request.dependencies =
             IF oes[oe].status \in {"INCOMPLETE", "PARTIAL"} THEN Missing ELSE {}
    BY DEF Request
  <2>3. Found \cup Missing = DOMAIN oes[oe].deps /\ Found \cap Missing = {}
    BY DEF Found, Missing
  <2> QED
    BY <2>1, <2>2, <2>3
<1> QED
  BY <1>1, FipsWalkInvariant, PTL

\* The URL of the k-th dependency of the OE at o; and what the URL of that OE
\* says, whether the OE is the chosen one or not.
DependencyUrl(o, k) == deps[find(deps, oes[o].deps[k])].url

OeAgrees(o) ==
    oes[o].url # None =>
        \E e \in OeEntries :
            /\ e.url = oes[o].url /\ Len(e.deps) <= Len(oes[o].deps)
            /\ \A k \in DOMAIN e.deps :
                 DependencyUrl(o, k) # None /\ e.deps[k] \in {DependencyUrl(o, k), None}

OesAgree == \A o \in DOMAIN oes : OeAgrees(o)

\* It stays true while dependencies get URLs, new ones are created and more are
\* linked to the OE.
LEMMA OeAgreesKept ==
    ASSUME EnvInv, NEW o \in DOMAIN oes, OeAgrees(o), DepUrlsKept,
           oes'[o].url = oes[o].url, IsList(oes'[o].deps),
           DOMAIN oes[o].deps \subseteq DOMAIN oes'[o].deps,
           \A k \in DOMAIN oes[o].deps : oes'[o].deps[k] = oes[o].deps[k]
    PROVE  OeAgrees(o)'
<1>1. IsList(oes[o].deps) /\ IsList(deps)
  BY DEF EnvInv, ListsOK, OeOK
<1>2. /\ Len(oes[o].deps) \in Nat /\ DOMAIN oes[o].deps = 1..Len(oes[o].deps)
      /\ Len(oes'[o].deps) \in Nat /\ DOMAIN oes'[o].deps = 1..Len(oes'[o].deps)
  BY <1>1, ListFacts
<1>3. Len(oes[o].deps) <= Len(oes'[o].deps)
  <2> SUFFICES ASSUME Len(oes[o].deps) # 0 PROVE Len(oes[o].deps) <= Len(oes'[o].deps)
    BY <1>2
  <2>1. Len(oes[o].deps) \in DOMAIN oes[o].deps
    BY <1>2
  <2> QED
    BY <1>2, <2>1
<1>4. ASSUME NEW k \in DOMAIN oes[o].deps, DependencyUrl(o, k) # None
      PROVE  DependencyUrl(o, k)' = DependencyUrl(o, k)
  <2> DEFINE id == oes[o].deps[k]
  <2>1. id \in Ids(deps) \ {0}
    BY DEF EnvInv, Linked
  <2>2. find(deps, id) \in DOMAIN deps /\ find(deps, id) # 0
    BY <1>1, <2>1, FindFacts
  <2>3. find(deps', id) = find(deps, id)
    <3> HIDE DEF id
    <3> QED
      BY <1>1, <2>2, FindKept DEF DepUrlsKept
  <2>4. DependencyUrl(o, k)' = deps'[find(deps, id)].url
    BY <2>3 DEF DependencyUrl
  <2>5. DependencyUrl(o, k) = deps[find(deps, id)].url
    BY DEF DependencyUrl
  <2> HIDE DEF id
  <2> QED
    BY <1>4, <2>2, <2>4, <2>5 DEF DepUrlsKept
<1>5. SUFFICES ASSUME oes'[o].url # None
               PROVE  \E e \in OeEntries :
                        /\ e.url = oes'[o].url /\ Len(e.deps) <= Len(oes'[o].deps)
                        /\ \A k \in DOMAIN e.deps :
                             /\ DependencyUrl(o, k)' # None
                             /\ e.deps[k] \in {DependencyUrl(o, k)', None}
  BY DEF OeAgrees
<1>6. PICK e \in OeEntries :
        /\ e.url = oes[o].url /\ Len(e.deps) <= Len(oes[o].deps)
        /\ \A k \in DOMAIN e.deps :
             DependencyUrl(o, k) # None /\ e.deps[k] \in {DependencyUrl(o, k), None}
  BY <1>5 DEF OeAgrees
<1>7. Len(e.deps) \in Nat /\ DOMAIN e.deps = 1..Len(e.deps)
  BY EntriesAssumption, ListFacts
<1>8. Len(e.deps) <= Len(oes'[o].deps) /\ DOMAIN e.deps \subseteq DOMAIN oes[o].deps
  BY <1>2, <1>3, <1>6, <1>7
<1> QED
  BY <1>4, <1>6, <1>8

\* The environment creates OEs without a URL, and links dependencies to them.
LEMMA EnvKeepsOes ==
    ASSUME EnvInv, EnvNext, OesAgree
    PROVE  OesAgree'
<1>1. EnvChange /\ ListsOK /\ IsList(deps) /\ IsList(oes) /\ \A o \in DOMAIN oes : OeOK(oes[o])
  BY EnvChanges DEF EnvInv, ListsOK
<1>2. CASE Freed
  BY <1>2, EmptyList DEF Freed, OesAgree
<1>3. ASSUME DepUrlsKept, NEW o \in DOMAIN oes, oes'[o] = oes[o] PROVE OeAgrees(o)'
  BY <1>1, <1>3, OeAgreesKept DEF OesAgree, OeOK
<1>4. deps' = deps => DepUrlsKept
  BY <1>1 DEF DepUrlsKept
<1>5. DependencyAdded => DepUrlsKept
  <2> SUFFICES ASSUME DependencyAdded PROVE DepUrlsKept
    OBVIOUS
  <2>1. PICK id, a : deps' = Append(deps, Dependency(id, a))
    BY DEF DependencyAdded
  <2>2. /\ IsList(deps') /\ DOMAIN deps \subseteq DOMAIN deps'
        /\ \A k \in DOMAIN deps : deps'[k] = deps[k]
    BY <1>1, <2>1, AppendList, ListFacts
  <2> QED
    BY <2>2 DEF DepUrlsKept
<1>9. DependencyRewritten => DepUrlsKept
  <2> SUFFICES ASSUME DependencyRewritten PROVE DepUrlsKept
    OBVIOUS
  <2>1. ListsOK
    BY <1>1
  <2>k. PICK k \in DOMAIN deps : \E a : deps' = [deps EXCEPT ![k] = Overwritten(@, a)]
    BY DEF DependencyRewritten
  <2>2. PICK a : deps' = [deps EXCEPT ![k] = Overwritten(@, a)]
    BY <2>k
  <2>3. /\ IsList(deps') /\ DOMAIN deps' = DOMAIN deps
        /\ deps'[k].over = "yes"
        /\ \A j \in DOMAIN deps :
             /\ DependencyOK(deps'[j]) /\ deps'[j].id = deps[j].id /\ deps'[j].url = deps[j].url
             /\ j # k => deps'[j] = deps[j]
    <3> DEFINE t == [deps EXCEPT ![k] = Overwritten(@, a)]
    <3>1. /\ IsList(t) /\ DOMAIN t = DOMAIN deps
          /\ t[k].over = "yes"
          /\ \A j \in DOMAIN deps :
               /\ DependencyOK(t[j]) /\ t[j].id = deps[j].id /\ t[j].url = deps[j].url
               /\ j # k => t[j] = deps[j]
      BY <2>1, RewrittenFacts
    <3> HIDE DEF t
    <3>2. deps' = t
      BY <2>2 DEF t
    <3> QED
      BY <3>1, <3>2
  <2> QED
    BY <2>3 DEF DepUrlsKept
<1>6. CASE UNCHANGED oes /\ DepUrlsKept
  BY <1>3, <1>6 DEF OesAgree
<1>7. CASE OeAdded
  <2>1. PICK id, named : oes' = Append(oes, Oe(id, named))
    BY <1>7 DEF OeAdded
  <2>2. /\ \A k \in DOMAIN oes' : k \in DOMAIN oes \/ oes'[k] = Oe(id, named)
        /\ \A k \in DOMAIN oes : oes'[k] = oes[k]
    BY <1>1, <2>1, AppendList, ListFacts
  <2>3. Oe(id, named).url = None
    BY DEF Oe
  <2>4. deps' = deps
    BY <1>7 DEF OeAdded
  <2>5. ASSUME NEW k \in DOMAIN oes' PROVE OeAgrees(k)'
    <3>1. CASE k \in DOMAIN oes
      BY <1>3, <1>4, <2>2, <2>4, <3>1
    <3>2. CASE oes'[k] = Oe(id, named)
      BY <2>3, <3>2 DEF OeAgrees
    <3> QED
      BY <2>2, <3>1, <3>2
  <2> QED
    BY <2>5 DEF OesAgree
<1>8. CASE OeLinked /\ DepUrlsKept
  <2>1. PICK k \in DOMAIN oes, d \in Ids(deps') \ {0} :
          oes' = [oes EXCEPT ![k].deps = Append(@, d)]
    BY <1>8 DEF OeLinked
  <2>2. OeOK(oes[k])
    BY <1>1
  <2>3. /\ DOMAIN oes' = DOMAIN oes /\ oes'[k].deps = Append(oes[k].deps, d)
        /\ oes'[k].url = oes[k].url
        /\ \A j \in DOMAIN oes : j # k => oes'[j] = oes[j]
    BY <2>1, <2>2 DEF OeOK
  <2>4. /\ IsList(oes'[k].deps) /\ DOMAIN oes[k].deps \subseteq DOMAIN oes'[k].deps
        /\ \A j \in DOMAIN oes[k].deps : oes'[k].deps[j] = oes[k].deps[j]
    <3>1. IsList(oes[k].deps)
      BY <2>2 DEF OeOK
    <3> QED
      BY <2>3, <3>1, AppendList, ListFacts
  <2>5. OeAgrees(k)'
    BY <1>8, <2>3, <2>4, OeAgreesKept DEF OesAgree
  <2>6. ASSUME NEW j \in DOMAIN oes' PROVE OeAgrees(j)'
    BY <1>3, <1>8, <2>3, <2>5, <2>6
  <2> QED
    BY <2>6 DEF OesAgree
<1> QED
  BY <1>1, <1>2, <1>4, <1>5, <1>6, <1>7, <1>8, <1>9
     DEF EnvChange, VendorAdded, ModuleAdded, ModuleSet, DependencyAdded, DependencyRewritten,
         DependencyLinked, ChoiceMade

\* An OE that gets the URL of an entry has its dependencies.
LEMMA VerifyKeepsOes ==
    ASSUME EnvInv, QueryOK, WalkInv, VerifyStep, OesAgree
    PROVE  OesAgree'
<1>1. DepUrlsKept /\ OnlyUrls
  BY VerifyDepUrls, VerifyOnlyUrls DEF WalkInv
<1>2. /\ DOMAIN oes' = DOMAIN oes
      /\ \A o \in DOMAIN oes : oes'[o].deps = oes[o].deps /\ IsList(oes[o].deps)
  BY <1>1 DEF OnlyUrls, OesKept, EnvInv, ListsOK, OeOK
<1>3. ASSUME NEW o \in DOMAIN oes, oes'[o].url = oes[o].url PROVE OeAgrees(o)'
  BY <1>1, <1>2, <1>3, OeAgreesKept DEF OesAgree
<1>4. CASE match_oes_page /\ compare_oe(Entry)
  <2>1. /\ pc = "page" /\ q.of = "oe" /\ q.i <= Len(q.page) /\ InVerification
        /\ oes' = [oes EXCEPT ![oe] = [oes[oe] EXCEPT !["url"] = Entry.url]]
        /\ deps' = deps
    BY <1>4 DEF match_oes_page, AtEntry, InVerification, Verifying
  <2>2. Entry \in OeEntries
    BY <2>1, EntryFacts
  <2>3. oe \in DOMAIN oes
    BY <2>1, ChosenPlaces
  <2>4. oes'[oe]["url"] = Entry.url /\ \A j \in DOMAIN oes : j # oe => oes'[j] = oes[j]
    BY <2>1, <2>3, SetOe DEF EnvInv
  <2>5. Missing = {}
    BY <2>1 DEF WalkInv, AllFound
  <2>6. /\ Len(Entry.deps) = Len(oes[oe].deps)
        /\ \A k \in DOMAIN Entry.deps : Entry.deps[k] \in {deps[dep(k)].url, None}
    BY <1>4 DEF compare_oe
  <2>7. DOMAIN Entry.deps = DOMAIN oes[oe].deps /\ Len(oes[oe].deps) \in Nat
    BY <1>2, <2>2, <2>3, <2>6, EntriesAssumption, ListFacts
  <2>8. PICK o \in DOMAIN oes : o = oe
    BY <2>3
  <2>9. \A k \in DOMAIN oes[o].deps : DependencyUrl(o, k)' = deps[dep(k)].url
    BY <1>2, <2>1, <2>8 DEF DependencyUrl, dep
  <2>10. \A k \in DOMAIN oes[o].deps : deps[dep(k)].url # None
    BY <2>5, <2>8 DEF Missing, Found
  <2>11. OeAgrees(o)'
    <3>1. PICK e \in OeEntries : e = Entry
      BY <2>2
    <3>2. /\ e.url = oes'[o].url /\ Len(e.deps) <= Len(oes'[o].deps)
          /\ \A k \in DOMAIN e.deps :
               /\ DependencyUrl(o, k)' # None
               /\ e.deps[k] \in {DependencyUrl(o, k)', None}
      BY <1>2, <2>4, <2>6, <2>7, <2>8, <2>9, <2>10, <3>1
    <3> QED
      BY <3>2 DEF OeAgrees
  <2>12. ASSUME NEW j \in DOMAIN oes' PROVE OeAgrees(j)'
    BY <1>2, <1>3, <2>4, <2>8, <2>11, <2>12
  <2> QED
    BY <2>12 DEF OesAgree
<1>5. CASE verify_fips_oe_dependencies \/ DependencyQueried \/ verify_fips_oe
  <2>1. oes'[oe].url = oes[oe].url /\ \A j \in DOMAIN oes : j # oe => oes'[j] = oes[j]
    BY <1>5, StatusSteps
  <2>2. ASSUME NEW j \in DOMAIN oes' PROVE OeAgrees(j)'
    <3>1. oes'[j].url = oes[j].url
      BY <1>2, <2>1, <2>2
    <3> QED
      BY <1>2, <1>3, <2>2, <3>1
  <2> QED
    BY <2>2 DEF OesAgree
<1>6. CASE oes' = oes
  BY <1>2, <1>3, <1>6 DEF OesAgree
<1>7. oes' = oes \/ (match_oes_page /\ compare_oe(Entry))
        \/ verify_fips_oe_dependencies \/ DependencyQueried \/ verify_fips_oe
  BY DEF VerifyStep, VerifyNext, acvp_verify_fips_validation_metadata, Hung, vars,
         envVars, query_vendor, query_module, query_dependency, Get, GetFails,
         PageMalformed, match_vendors_page, match_vendor_contacts, ContactsFail,
         match_modules_page, match_dependencies_page, match_oes_page, PageEnds,
         VerifyReturned, op_env, Fails, Query
<1> QED
  BY <1>4, <1>5, <1>6, <1>7

\* The URL of any OE is always that of an OE of the server with its dependencies.
THEOREM FipsOesAgree == Spec => []OesAgree
<1>1. FVInit => OesAgree
  BY EmptyList DEF FVInit, Init, OesAgree
<1>2. ASSUME EnvInv /\ QueryOK, WalkInv, OesAgree, [Next]_vars PROVE OesAgree'
  <2>1. (EnvNext /\ UNCHANGED q) \/ VerifyStep
    BY <1>2 DEF Next, VerifyStep
  <2> QED
    BY <1>2, <2>1, EnvKeepsOes, VerifyKeepsOes
<1> QED
  BY <1>1, <1>2, FipsInvariant, FipsWalkInvariant, PTL DEF Spec

\* The OE that a request names has our dependencies, all found, in the order in
\* which they were linked, but for those linked after it was found.
THEOREM FipsOeUrl == Spec => []OeUrlIsItsOwn
<1>1. EnvInv /\ QueryOK /\ OesAgree => OeUrlIsItsOwn
  <2> SUFFICES ASSUME EnvInv, QueryOK, OesAgree, pc = "verified", oes[oe].url # None
               PROVE  \E e \in OeEntries :
                        /\ e.url = oes[oe].url /\ Len(e.deps) <= Len(oes[oe].deps)
                        /\ \A k \in DOMAIN e.deps :
                             k \in Found /\ e.deps[k] \in {deps[dep(k)].url, None}
    BY DEF OeUrlIsItsOwn
  <2>1. oe \in DOMAIN oes
    BY ChosenPlaces DEF InVerification
  <2>2. PICK e \in OeEntries :
          /\ e.url = oes[oe].url /\ Len(e.deps) <= Len(oes[oe].deps)
          /\ \A k \in DOMAIN e.deps :
               DependencyUrl(oe, k) # None /\ e.deps[k] \in {DependencyUrl(oe, k), None}
    BY <2>1 DEF OesAgree, OeAgrees
  <2>3. \A k : DependencyUrl(oe, k) = deps[dep(k)].url
    BY DEF DependencyUrl, dep
  <2>4. DOMAIN e.deps \subseteq DOMAIN oes[oe].deps
    <3>1. IsList(e.deps) /\ IsList(oes[oe].deps)
      BY <2>1, EntriesAssumption DEF EnvInv, ListsOK, OeOK
    <3>2. /\ Len(e.deps) \in Nat /\ DOMAIN e.deps = 1..Len(e.deps)
          /\ Len(oes[oe].deps) \in Nat /\ DOMAIN oes[oe].deps = 1..Len(oes[oe].deps)
      BY <3>1, ListFacts
    <3> QED
      BY <2>2, <3>2
  <2> QED
    BY <2>2, <2>3, <2>4 DEF Found
<1> QED
  BY <1>1, FipsInvariant, FipsOesAgree, PTL

----------------------------------------------------------------------------
(* The entries that are passed over *)

\* What FoundIfListed says of the entry at place j of the page, in three parts.
PassedDependency(j) ==
    q.of = "dependency" /\ q.page[j].attrs = deps[dep(q.k)].attrs
    /\ q.page[j].attrs["name"] # None =>
        \E i \in 1..(j - 1) : \E a \in Attrs \ Reset :
            q.page[j].attrs[a] = None /\ q.page[i].attrs[a] # None
PassedModule(j) ==
    q.of = "module" /\ q.page[j].attrs = "all" /\ q.page[j].same = "yes"
    /\ modules[mod].attrs = "all" /\ modules[mod].name # None
    /\ q.page[j].vendor = vendors[ven].url /\ q.page[j].address = vendors[ven].address_url
    /\ q.page[j].contacts = vendors[ven].person_urls =>
        \E k \in DOMAIN q.page[j].contacts :
            j > Len(q.page[j].contacts) \/ q.page[j].contacts[k] # q.page[j].contacts[j]
PassedOe(j) ==
    q.of = "oe" => q.page[j].deps # [k \in DOMAIN oes[oe].deps |-> deps[dep(k)].url]

Passed(j) == PassedDependency(j) /\ PassedModule(j) /\ PassedOe(j)

\* What is left in tmp_dep comes from an earlier entry of the same page.
TmpIsEarlier ==
    pc = "page" /\ q.of = "dependency" =>
        \A a \in Attrs : q.tmp[a] # None => \E i \in 1..(q.i - 1) : q.page[i].attrs[a] # None

\* A module is queried only once its vendor has a URL.
VendorKnown ==
    pc \in {"get", "page"} /\ q.of = "module" => vendors[ven].url # None

PassInv == FoundIfListed /\ TmpIsEarlier /\ VendorKnown

\* FoundIfListed is Passed for every place before the current one.
LEMMA FoundIsPassed ==
    FoundIfListed <=> (pc = "page" => \A j \in 1..(q.i - 1) : Passed(j))
BY DEF FoundIfListed, Passed, PassedDependency, PassedModule, PassedOe

\* A page that is not changed says the same of its places.
LEMMA PassedKept ==
    ASSUME NEW j, Passed(j), q'.of = q.of, q'.k = q.k, q'.page = q.page,
           q.of = "vendor" \/ UNCHANGED <<vendors, modules, oes, deps, fips>>
    PROVE  Passed(j)'
<1>1. CASE q.of = "vendor"
  BY <1>1 DEF Passed, PassedDependency, PassedModule, PassedOe
<1>2. CASE UNCHANGED <<vendors, modules, oes, deps, fips>>
  <2>1. /\ mod' = mod /\ ven' = ven /\ oe' = oe /\ dep(q.k)' = dep(q.k)
        /\ \A k : dep(k)' = dep(k)
    BY <1>2 DEF mod, ven, oe, dep
  <2>2. PassedDependency(j)'
    BY <1>2, <2>1 DEF Passed, PassedDependency
  <2>3. PassedModule(j)'
    BY <1>2, <2>1 DEF Passed, PassedModule
  <2>4. PassedOe(j)'
    BY <1>2, <2>1 DEF Passed, PassedOe
  <2> QED
    BY <2>2, <2>3, <2>4 DEF Passed
<1> QED
  BY <1>1, <1>2

\* A dependency of the server that equals ours differs only by what was left in
\* tmp_dep by an earlier entry.
LEMMA DependencyPassed ==
    ASSUME EnvInv, QueryOK, TmpReset, PassInv, AtEntry("dependency"),
           ~compare_dependencies(deps[dep(q.k)].attrs, Overlay(Entry))
    PROVE  PassedDependency(q.i)
<1> DEFINE own == deps[dep(q.k)].attrs
<1> SUFFICES ASSUME Entry.attrs = own, Entry.attrs["name"] # None
             PROVE  \E i \in 1..(q.i - 1) : \E a \in Attrs \ Reset :
                        Entry.attrs[a] = None /\ q.page[i].attrs[a] # None
  BY DEF PassedDependency, Entry
<1>1. pc = "page" /\ q.of = "dependency"
  BY DEF AtEntry
<1>2. \A a \in Attrs :
        Overlay(Entry)[a] = IF Entry.attrs[a] # None THEN Entry.attrs[a] ELSE q.tmp[a]
  BY DEF Overlay
<1>3. own["name"] # None /\ Overlay(Entry)["name"] # None
  BY <1>2 DEF Attrs
<1>4. PICK a \in Attrs \ {"name"} : own[a] # Overlay(Entry)[a]
  BY <1>3 DEF compare_dependencies
<1> HIDE DEF own
<1>5. Entry.attrs[a] = None /\ q.tmp[a] # None
  BY <1>2, <1>4
<1>6. a \notin Reset
  BY <1>1, <1>5 DEF TmpReset
<1>7. \E i \in 1..(q.i - 1) : q.page[i].attrs[a] # None
  BY <1>1, <1>4, <1>5 DEF PassInv, TmpIsEarlier
<1> QED
  BY <1>4, <1>5, <1>6, <1>7

\* A module of the server that equals ours differs only by which contact was
\* compared.
LEMMA ModulePassed ==
    ASSUME EnvInv, QueryOK, VendorUrlsAgree, PassInv, AtEntry("module"), ~compare_modules(Entry)
    PROVE  PassedModule(q.i)
<1> SUFFICES ASSUME Entry.attrs = "all", Entry.same = "yes",
                    modules[mod].attrs = "all", modules[mod].name # None,
                    Entry.vendor = vendors[ven].url, Entry.address = vendors[ven].address_url,
                    Entry.contacts = vendors[ven].person_urls
             PROVE  \E k \in DOMAIN Entry.contacts :
                      q.i > Len(Entry.contacts) \/ Entry.contacts[k] # Entry.contacts[q.i]
  BY DEF PassedModule, Entry
<1>1. pc = "page" /\ q.of = "module" /\ InVerification
  BY DEF AtEntry, InVerification, Verifying
<1>2. ven \in DOMAIN vendors /\ vendors[ven].url # None
  BY <1>1, ChosenPlaces DEF PassInv, VendorKnown
<1>3. vendors[ven].address_url # None
  BY <1>2 DEF VendorUrlsAgree
<1>4. VendorOK(vendors[ven])
  BY <1>2 DEF EnvInv, ListsOK
<1>5. IsList(Entry.contacts) /\ Len(Entry.contacts) = Len(vendors[ven].persons)
  BY <1>4 DEF VendorOK
<1>6. Len(Entry.contacts) \in Nat /\ DOMAIN Entry.contacts = 1..Len(Entry.contacts)
  BY <1>5, ListFacts
<1>7. PICK k \in DOMAIN Entry.contacts :
        ~(q.i \in DOMAIN Entry.contacts /\ Entry.contacts[q.i] = Entry.contacts[k])
  BY <1>3, <1>5 DEF compare_modules
<1>8. q.i \in Nat \ {0}
  BY <1>1 DEF QueryOK, PageOK
<1> QED
  BY <1>6, <1>7, <1>8

\* An OE of the server with our dependencies, all of them by URL, is not passed.
LEMMA OePassed ==
    ASSUME EnvInv, QueryOK, AtEntry("oe"), ~compare_oe(Entry)
    PROVE  PassedOe(q.i)
<1> SUFFICES ASSUME Entry.deps = [k \in DOMAIN oes[oe].deps |-> deps[dep(k)].url]
             PROVE  FALSE
  BY DEF PassedOe, Entry
<1>1. pc = "page" /\ q.of = "oe" /\ q.i <= Len(q.page) /\ InVerification
  BY DEF AtEntry, InVerification, Verifying
<1>2. oe \in DOMAIN oes /\ Entry \in OeEntries
  BY <1>1, ChosenPlaces, EntryFacts
<1>3. IsList(oes[oe].deps) /\ IsList(Entry.deps)
  BY <1>2, EntriesAssumption DEF EnvInv, ListsOK, OeOK
<1>4. /\ Len(oes[oe].deps) \in Nat /\ DOMAIN oes[oe].deps = 1..Len(oes[oe].deps)
      /\ Len(Entry.deps) \in Nat /\ DOMAIN Entry.deps = 1..Len(Entry.deps)
  BY <1>3, ListFacts
<1>5. DOMAIN Entry.deps = DOMAIN oes[oe].deps
  OBVIOUS
<1>6. Len(Entry.deps) = Len(oes[oe].deps)
  <2> DEFINE m == Len(Entry.deps)
             n == Len(oes[oe].deps)
  <2>1. m \in Nat /\ n \in Nat /\ 1..m = 1..n
    BY <1>4, <1>5
  <2> HIDE DEF m, n
  <2>2. ~(m < n) /\ ~(n < m)
    BY <2>1
  <2> QED
    BY <2>1, <2>2 DEF m, n
<1>7. \A k \in DOMAIN Entry.deps : Entry.deps[k] \in {deps[dep(k)].url, None}
  BY <1>5
<1> QED
  BY <1>6, <1>7 DEF compare_oe

\* On to the next entry: the one that is left has been passed over for a reason.
LEMMA NextPassed ==
    ASSUME EnvInv, QueryOK, PassInv, NEW tmp, NextEntry(tmp), pc = "page",
           UNCHANGED <<vendors, modules, oes, deps>>, Passed(q.i)
    PROVE  FoundIfListed' /\ VendorKnown'
<1>1. /\ q'.of = q.of /\ q'.k = q.k /\ q'.page = q.page /\ q'.i = q.i + 1 /\ pc' = "page"
      /\ fips' = fips
  BY DEF NextEntry, Step, EnvInv, PlaceOK, Fields
<1>2. q.i \in Nat \ {0}
  BY DEF QueryOK, PageOK
<1>3. \A j \in 1..(q.i - 1) : Passed(j)
  BY FoundIsPassed DEF PassInv
<1>4. ASSUME NEW j \in 1..(q'.i - 1) PROVE Passed(j)'
  <2>1. j \in 1..(q.i - 1) \/ j = q.i
    BY <1>1, <1>2, <1>4
  <2>2. Passed(j)
    BY <1>3, <2>1
  <2> QED
    BY <1>1, <2>2, PassedKept
<1>5. FoundIfListed'
  BY <1>4 DEF FoundIfListed, Passed, PassedDependency, PassedModule, PassedOe
<1>6. VendorKnown'
  BY <1>1 DEF PassInv, VendorKnown, ven, mod
<1> QED
  BY <1>5, <1>6

\* What is kept in tmp_dep is the entry's, or was there before.
LEMMA TmpKept ==
    ASSUME EnvInv, QueryOK, PassInv, AtEntry("dependency"), NextEntry(Kept(Overlay(Entry)))
    PROVE  TmpIsEarlier'
<1>1. /\ q'.of = q.of /\ q'.page = q.page /\ q'.i = q.i + 1
      /\ q'.tmp = Kept(Overlay(Entry))
  BY DEF NextEntry, Step, EnvInv, PlaceOK, Fields
<1>2. pc = "page" /\ q.of = "dependency" /\ q.i \in Nat \ {0}
  BY DEF AtEntry, QueryOK, PageOK
<1> SUFFICES ASSUME NEW a \in Attrs, q'.tmp[a] # None
             PROVE  \E i \in 1..(q'.i - 1) : q'.page[i].attrs[a] # None
  BY DEF TmpIsEarlier
<1>3. Overlay(Entry)[a] # None
  BY <1>1 DEF Kept
<1>4. Entry.attrs[a] # None \/ q.tmp[a] # None
  BY <1>3 DEF Overlay
<1>5. CASE Entry.attrs[a] # None
  BY <1>1, <1>2, <1>5 DEF Entry
<1>6. CASE q.tmp[a] # None
  <2>1. PICK i \in 1..(q.i - 1) : q.page[i].attrs[a] # None
    BY <1>2, <1>6 DEF PassInv, TmpIsEarlier
  <2> QED
    BY <1>1, <1>2, <2>1
<1> QED
  BY <1>4, <1>5, <1>6

\* A step that ends on no page has nothing to say of one.
LEMMA NoPage ==
    ASSUME pc' # "page", pc' = "get" => q'.of # "module"
    PROVE  PassInv'
BY DEF PassInv, FoundIfListed, TmpIsEarlier, VendorKnown

\* A candidate for the vendor, on any page of it.
LEMMA VendorPage ==
    ASSUME pc' = "page" => q'.of = "vendor", pc' # "get"
    PROVE  PassInv'
BY DEF PassInv, FoundIfListed, TmpIsEarlier, VendorKnown

\* The three kinds of page whose entries are passed over for a reason.
LEMMA MatchKeepsPass ==
    ASSUME EnvInv, QueryOK, TmpReset, VendorUrlsAgree, PassInv,
           match_modules_page \/ match_dependencies_page \/ match_oes_page
    PROVE  PassInv'
<1>1. ASSUME EndQuery PROVE PassInv'
  <2>1. pc' \notin {"page", "get"}
    BY <1>1 DEF EndQuery, Step, After
  <2> QED
    BY <2>1, NoPage
<1>2. ASSUME NEW tmp, NextEntry(tmp), q.of # "dependency" PROVE TmpIsEarlier'
  BY <1>2 DEF NextEntry, TmpIsEarlier, EnvInv, PlaceOK, Fields
<1>3. CASE match_dependencies_page
  <2>1. AtEntry("dependency") /\ pc = "page" /\ q.of = "dependency"
    BY <1>3 DEF match_dependencies_page, AtEntry
  <2>2. CASE ~EndQuery
    <3>1. /\ ~compare_dependencies(deps[dep(q.k)].attrs, Overlay(Entry))
          /\ NextEntry(Kept(Overlay(Entry))) /\ UNCHANGED <<vendors, modules, oes, deps>>
      BY <1>3, <2>2 DEF match_dependencies_page
    <3>2. PassedDependency(q.i)
      BY <2>1, <3>1, DependencyPassed
    <3>3. Passed(q.i)
      BY <2>1, <3>2 DEF Passed, PassedModule, PassedOe
    <3> QED
      BY <2>1, <3>1, <3>3, NextPassed, TmpKept DEF PassInv
  <2> QED
    BY <1>1, <2>2
<1>4. CASE match_modules_page
  <2>1. AtEntry("module") /\ pc = "page" /\ q.of = "module"
    BY <1>4 DEF match_modules_page, AtEntry
  <2>2. CASE ~EndQuery
    <3>1. /\ ~compare_modules(Entry)
          /\ NextEntry(q.tmp) /\ UNCHANGED <<vendors, modules, oes, deps>>
      BY <1>4, <2>2 DEF match_modules_page
    <3>2. PassedModule(q.i)
      BY <2>1, <3>1, ModulePassed
    <3>3. Passed(q.i)
      BY <2>1, <3>2 DEF Passed, PassedDependency, PassedOe
    <3> QED
      BY <1>2, <2>1, <3>1, <3>3, NextPassed DEF PassInv
  <2> QED
    BY <1>1, <2>2
<1>5. CASE match_oes_page
  <2>1. AtEntry("oe") /\ pc = "page" /\ q.of = "oe"
    BY <1>5 DEF match_oes_page, AtEntry
  <2>2. CASE ~EndQuery
    <3>1. /\ ~compare_oe(Entry)
          /\ NextEntry(q.tmp) /\ UNCHANGED <<vendors, modules, oes, deps>>
      BY <1>5, <2>2 DEF match_oes_page
    <3>2. PassedOe(q.i)
      BY <2>1, <3>1, OePassed
    <3>3. Passed(q.i)
      BY <2>1, <3>2 DEF Passed, PassedDependency, PassedModule
    <3> QED
      BY <1>2, <2>1, <3>1, <3>3, NextPassed DEF PassInv
  <2> QED
    BY <1>1, <2>2
<1> QED
  BY <1>3, <1>4, <1>5

\* The other steps of the verification.
LEMMA VerifyKeepsPass ==
    ASSUME EnvInv, QueryOK, TmpReset, VendorUrlsAgree, PassInv, VerifyStep
    PROVE  PassInv'
<1>1. CASE match_modules_page \/ match_dependencies_page \/ match_oes_page
  BY <1>1, MatchKeepsPass
<1>2. CASE match_vendors_page \/ match_vendor_contacts \/ ContactsFail
  <2>1. q.of = "vendor"
    BY <1>2 DEF match_vendors_page, match_vendor_contacts, ContactsFail, AtEntry, QueryOK
  <2>2. pc' \notin {"page", "get"} \/ \E tmp : NextEntry(tmp)
    BY <1>2, <2>1 DEF match_vendors_page, match_vendor_contacts, ContactsFail, EndQuery, Step,
                      Fails, After
  <2>3. pc' # "get" /\ (pc' = "page" => q'.of = "vendor")
    BY <2>1, <2>2 DEF NextEntry, Step, EnvInv, PlaceOK, Fields
  <2> QED
    BY <2>3, VendorPage
<1>3. CASE Get
  <2>1. /\ q'.of = q.of /\ q'.i = 1 /\ q'.tmp = NoAttrs /\ pc = "get"
        /\ UNCHANGED <<vendors, modules, fips>>
    BY <1>3, GetPage DEF EnvInv
  <2>2. FoundIfListed'
    BY <2>1 DEF FoundIfListed
  <2>3. TmpIsEarlier'
    BY <2>1 DEF TmpIsEarlier, NoAttrs
  <2>4. VendorKnown'
    BY <2>1 DEF PassInv, VendorKnown, ven, mod
  <2> QED
    BY <2>2, <2>3, <2>4 DEF PassInv
<1>4. CASE query_module
  <2>1. \/ pc' \notin {"page", "get"}
        \/ /\ vendors[ven].url # None /\ pc' = "get"
           /\ UNCHANGED <<vendors, modules, fips>>
    BY <1>4 DEF query_module, Fails, Step, Query, op_env
  <2>2. ven' = ven \/ pc' \notin {"page", "get"}
    BY <2>1 DEF ven, mod
  <2> QED
    BY <2>1, <2>2 DEF PassInv, FoundIfListed, TmpIsEarlier, VendorKnown
<1>5. CASE PageEnds
  <2>1. /\ pc = "page" /\ UNCHANGED <<vendors, modules, fips>>
        /\ pc' \notin {"page", "get"} \/ (pc' = "get" /\ q' = q)
    BY <1>5 DEF PageEnds, EndQuery, Step, After, op_env
  <2>2. VendorKnown'
    BY <2>1 DEF PassInv, VendorKnown, ven, mod
  <2> QED
    BY <2>1, <2>2 DEF PassInv, FoundIfListed, TmpIsEarlier
<1>6. CASE Hung \/ UNCHANGED vars
  BY <1>6, SMTT(30) DEF Hung, vars, envVars, op_env, PassInv, FoundIfListed, TmpIsEarlier, VendorKnown,
              ven, mod, oe, dep
<1>7. CASE \/ acvp_verify_fips_validation_metadata \/ query_vendor
           \/ verify_fips_oe_dependencies \/ query_dependency \/ DependencyQueried
           \/ verify_fips_oe \/ GetFails \/ PageMalformed \/ VerifyReturned
  <2>1. pc' # "page" /\ (pc' = "get" => q'.of # "module")
    BY <1>7 DEF acvp_verify_fips_validation_metadata, query_vendor,
                verify_fips_oe_dependencies, query_dependency, DependencyQueried,
                verify_fips_oe, GetFails, PageMalformed, VerifyReturned,
                Fails, Query, Step, NoQuery
  <2> QED
    BY <2>1, NoPage
<1> QED
  BY <1>1, <1>2, <1>3, <1>4, <1>5, <1>6, <1>7 DEF VerifyStep, VerifyNext

\* An entry of a page that equals the object is passed over only for one of the
\* two reasons that FoundIfListed names.
THEOREM FipsFoundIfListed == Spec => []FoundIfListed
<1>1. FVInit => PassInv
  BY DEF FVInit, Init, PassInv, FoundIfListed, TmpIsEarlier, VendorKnown
<1>2. ASSUME EnvInv /\ QueryOK, TmpReset /\ DependencyUrlIsItsOwn, VendorUrlsAgree, PassInv,
             [Next]_vars
      PROVE  PassInv'
  <2>1. (EnvNext /\ UNCHANGED q) \/ VerifyStep
    BY <1>2 DEF Next, VerifyStep
  <2>2. CASE EnvNext /\ UNCHANGED q
    <3>1. ~InVerification'
      BY <1>2, <2>2, EnvKeepsInv
    <3>2. pc' \notin {"page", "get"}
      BY <3>1 DEF InVerification, Verifying
    <3> QED
      BY <3>2, NoPage
  <2>3. CASE VerifyStep
    BY <1>2, <2>3, VerifyKeepsPass
  <2> QED
    BY <2>1, <2>2, <2>3
<1>3. PassInv => FoundIfListed
  BY DEF PassInv
<1> QED
  BY <1>1, <1>2, <1>3, FipsInvariant, FipsDependencyInvariant, FipsVendorUrls, PTL DEF Spec

=============================================================================
