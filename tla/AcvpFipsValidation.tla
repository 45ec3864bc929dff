-------------------------- MODULE AcvpFipsValidation --------------------------
(***************************************************************************)
(* The verification of the metadata of a FIPS validation against the       *)
(* server, acvp_verify_fips_validation_metadata, and the validation        *)
(* request that is built from it, acvp_build_validation.                   *)
(*                                                                         *)
(* The chosen module's vendor, the module, the dependencies of the chosen  *)
(* OE and the OE are queried in this order.  The server answers a query    *)
(* with pages of candidates; each is compared with the object, and the     *)
(* first that matches gives the object its URL.  A vendor and its contacts *)
(* must be at the server; what else is not found is sent along with the    *)
(* validation request, for the server to create.                           *)
(*                                                                         *)
(* The server is external: it sends any pages of candidates that satisfy   *)
(* the parameters of the query, and links the pages under LinkName.        *)
(***************************************************************************)
EXTENDS AcvpOperatingEnv

CONSTANTS
  VendorEntries, ModuleEntries, DependencyEntries, OeEntries,   \* at the server
  PageMax,       \* entries of a page
  MaxPages,      \* pages of a query
  LinkName       \* the name of the link to the next page

ASSUME ServerAssumption ==
  /\ {PageMax, MaxPages} \subseteq Nat
  /\ LinkName \in {"next", "nextPage"}

\* What the server sends is in order; a contact without a URL is malformed (see
\* ContactsFail).
ASSUME EntriesAssumption ==
  /\ \A e \in OeEntries : IsList(e.deps)
  /\ \A e \in VendorEntries : IsList(e.addresses) /\ IsList(e.contacts)
  /\ \A e \in VendorEntries : \A c \in ToSet(e.contacts) : c.url # None

VARIABLE q       \* the query under way

vars == <<envVars, pc, rv, q>>

\* of: what is queried; k: which dependency of the OE; read: pages read; page,
\* i: the page and the place in it; link: its link to the next one; tmp: the
\* attributes in tmp_dep.
NoQuery == [of |-> None, k |-> 0, read |-> 0, page |-> <<>>, i |-> 0, link |-> None,
            tmp |-> NoAttrs]

FVInit == Init /\ q = NoQuery
----------------------------------------------------------------------------
(* The chosen objects, by their places.                                    *)

mod == find(modules, fips.module)
ven == find(vendors, modules[mod].vendor)
oe == find(oes, fips.oe)
dep(k) == find(deps, oes[oe].deps[k])
----------------------------------------------------------------------------
(* Comparisons.  What they make of an object and a candidate: a match, a   *)
(* difference, an error, or no end.                                        *)

\* Mutant: the counting loop does not advance at all.
compare_emails_stuck(own, candidate) ==
  CASE own = <<>>                          -> "error"
    [] OTHER                               -> "hangs"

\* The length of the list is counted by a loop that only ever looks at the
\* second element.
compare_emails(own, candidate) ==
  CASE own = <<>>                          -> "error"
    [] Len(own) > 1                        -> "hangs"
    [] Len(candidate) # 1                  -> "differ"
    [] candidate[1] \in {own[1], None}     -> "match"
    [] OTHER                               -> "differ"

\* <<None>> stands for a candidate without phoneNumbers, which is not compared.
compare_phone_numbers(own, candidate) ==
  CASE candidate = <<None>>                -> "match"
    [] own = <<>> /\ candidate = <<>>      -> "match"
    [] own = <<>>                          -> "error"
    [] Len(own) # Len(candidate)           -> "differ"
    [] \A k \in DOMAIN own : candidate[k] \in {own[k], None} -> "match"
    [] OTHER                               -> "differ"

\* The URL of the first address that is equal and has a URL.
compare_vendor_address(own, addresses) ==
  IF \A k \in DOMAIN addresses : addresses[k].at # own \/ addresses[k].url = None THEN None
  ELSE addresses[CHOOSE k \in DOMAIN addresses :
                   /\ addresses[k].at = own /\ addresses[k].url # None
                   /\ \A j \in 1..(k - 1) : addresses[j].at # own \/ addresses[j].url = None].url

compare_contact(person, c) ==
  LET emails == compare_emails(person.emails, c.emails)
  IN  IF person.name \notin {c.name, None} THEN "differ"
      ELSE IF emails # "match" THEN emails
      ELSE compare_phone_numbers(person.phones, c.phones)

\* The first contact of the list that is not different from the person.
Contact(person, contacts) ==
  LET is(k) == compare_contact(person, contacts[k])
      first == CHOOSE k \in DOMAIN contacts :
                 is(k) # "differ" /\ \A j \in 1..(k - 1) : is(j) = "differ"
  IN  IF \A k \in DOMAIN contacts : is(k) = "differ" THEN [url |-> None, is |-> "differ"]
      ELSE [url |-> contacts[first].url, is |-> is(first)]

\* The persons are looked up in order until one is not found.
query_vendor_contacts(persons, contacts) ==
  LET found  == [k \in DOMAIN persons |-> Contact(persons[k], contacts)]
      bad    == {k \in DOMAIN persons : found[k].is # "match"}
      first  == CHOOSE k \in bad : \A j \in bad : k <= j
  IN  [is   |-> IF bad = {} THEN "match" ELSE found[first].is,
       urls |-> [k \in DOMAIN persons |->
                   IF \A j \in bad : k < j THEN found[k].url
                   ELSE vendors[ven].person_urls[k]]]

\* tmp_dep while entry e is compared: a field that e lacks keeps its value.
Overlay(e) == [a \in Attrs |-> IF e.attrs[a] # None THEN e.attrs[a] ELSE q.tmp[a]]

\* The fields that are freed and reset before the next entry.
Reset == {"type", "name", "description"}

\* Mutant: the description is not reset either.
Kept_description(tmp) == [a \in Attrs |-> IF a \in {"type", "name"} THEN None ELSE tmp[a]]

Kept(tmp) == [a \in Attrs |-> IF a \in Reset THEN None ELSE tmp[a]]

\* The contact of every person is read at the index of the module in the page.
compare_modules(e) ==
  /\ modules[mod].name # None /\ modules[mod].attrs = "all"
  /\ e.attrs = "all" /\ e.same = "yes"
  /\ Len(e.contacts) = Len(vendors[ven].persons)
  /\ e.vendor = vendors[ven].url /\ e.address = vendors[ven].address_url
  /\ vendors[ven].address_url # None
  /\ \A k \in DOMAIN e.contacts :
       q.i \in DOMAIN e.contacts /\ e.contacts[q.i] = vendors[ven].person_urls[k]

\* Mutant: OEs with as many dependencies are equal.
compare_oe_count(e) == Len(e.deps) = Len(oes[oe].deps)

compare_oe(e) ==
  /\ Len(e.deps) = Len(oes[oe].deps)
  /\ \A k \in DOMAIN e.deps : e.deps[k] \in {deps[dep(k)].url, None}
----------------------------------------------------------------------------
(* The pages of the server: any candidates that satisfy the parameters.    *)

Asked(e) ==
  CASE q.of = "dependency" ->
         \A a \in {"type", "name", "description"} :
           deps[dep(q.k)].attrs[a] \in {None, e.attrs[a]}
    [] q.of = "module" -> e.vendor = vendors[ven].url
    [] OTHER -> TRUE

Entries ==
  CASE q.of = "vendor"     -> VendorEntries
    [] q.of = "module"     -> ModuleEntries
    [] q.of = "dependency" -> DependencyEntries
    [] OTHER               -> OeEntries

Pages == UNION {[1..n -> {e \in Entries : Asked(e)}] : n \in 0..PageMax}
----------------------------------------------------------------------------
(* The control.                                                            *)

Step(p) == pc' = p /\ UNCHANGED <<glb, fips, rv, place, bounds>>

Fails(code) ==
  /\ pc' = "idle" /\ rv' = code /\ q' = NoQuery
  /\ UNCHANGED <<glb, op_env, fips, place, bounds>>

Query(of) ==
  /\ q' = [NoQuery EXCEPT !.of = of, !.k = q.k]
  /\ Step("get") /\ UNCHANGED op_env

acvp_verify_fips_validation_metadata ==
  /\ pc = "idle" /\ calls < MaxCalls
  /\ calls' = calls + 1
  /\ IF fips.module = 0 \/ fips.oe = 0 THEN pc' = "idle" /\ rv' = "UNSUPPORTED_OP"
     ELSE pc' = "vendor" /\ rv' = "none"
  /\ UNCHANGED <<glb, op_env, fips, place, ingests, faults, skewed, q>>

\* A URL that an earlier verification found is not asked for again.  When the
\* module has no vendor the query is refused, but then its caller reads the id
\* of the vendor that is not there.
query_vendor ==
  /\ pc = "vendor"
  /\ IF ven = 0 THEN Step("crashed") /\ UNCHANGED <<op_env, q>>
     ELSE IF vendors[ven].url # None THEN Step("module") /\ UNCHANGED <<op_env, q>>
     ELSE Query("vendor")

query_module ==
  /\ pc = "module"
  /\ IF vendors[ven].url = None THEN Fails("INVALID_ARG")
     ELSE IF modules[mod].url # None THEN Step("oe_deps") /\ UNCHANGED <<op_env, q>>
     ELSE Query("module")

verify_fips_oe_dependencies ==
  /\ pc = "oe_deps"
  /\ oes' = [oes EXCEPT ![oe].status = "COMPLETE"]
  /\ q' = [NoQuery EXCEPT !.k = 1]
  /\ Step("dep") /\ UNCHANGED <<vendors, modules, deps>>

query_dependency ==
  /\ pc = "dep" /\ q.k <= Len(oes[oe].deps)
  /\ IF deps[dep(q.k)].url # None THEN Step("dep_queried") /\ UNCHANGED <<op_env, q>>
     ELSE Query("dependency")

\* Mutant: a missing dependency leaves the status alone.
DependencyQueried_complete ==
  /\ pc = "dep_queried"
  /\ q' = [NoQuery EXCEPT !.k = q.k + 1]
  /\ Step("dep") /\ UNCHANGED op_env

DependencyQueried ==
  /\ pc = "dep_queried"
  /\ oes' = [oes EXCEPT ![oe].status = IF deps[dep(q.k)].url = None THEN "PARTIAL" ELSE @]
  /\ q' = [NoQuery EXCEPT !.k = q.k + 1]
  /\ Step("dep") /\ UNCHANGED <<vendors, modules, deps>>

\* The places of the dependencies of the OE with a URL, and without.
Found   == {k \in DOMAIN oes[oe].deps : deps[dep(k)].url # None}
Missing == DOMAIN oes[oe].deps \ Found

\* The OE is queried only if all its dependencies were found.
verify_fips_oe ==
  /\ pc = "dep" /\ q.k > Len(oes[oe].deps)
  /\ oes' = [oes EXCEPT ![oe].status = IF Found = {} THEN "INCOMPLETE" ELSE @]
  /\ UNCHANGED <<vendors, modules, deps>>
  /\ IF Missing # {} \/ oes[oe].url # None
     THEN q' = NoQuery /\ Step("verified")
     ELSE q' = [NoQuery EXCEPT !.of = "oe"] /\ Step("get")

\* Where a query goes on when it has ended, with or without a match.
After(of) ==
  CASE of = "vendor" -> "module"
    [] of = "module" -> "oe_deps"
    [] of = "dependency" -> "dep_queried"
    [] OTHER -> "verified"

EndQuery == q' = [NoQuery EXCEPT !.k = q.k] /\ Step(After(q.of))

Get ==
  /\ pc = "get"
  /\ \E page \in Pages, link \in IF q.read + 1 < MaxPages THEN {None, LinkName} ELSE {None} :
       q' = [q EXCEPT !.page = page, !.link = link, !.i = 1, !.read = @ + 1, !.tmp = NoAttrs]
  /\ Step("page") /\ UNCHANGED op_env

GetFails == pc = "get" /\ Fails("TRANSPORT_FAIL")

\* The page does not parse, or an entry that is reached lacks what is needed.
PageMalformed == pc = "page" /\ Fails("JSON_ERR")

Entry == q.page[q.i]
AtEntry(of) == pc = "page" /\ q.of = of /\ q.i <= Len(q.page)
NextEntry(tmp) == q' = [q EXCEPT !.i = @ + 1, !.tmp = tmp] /\ Step("page")

match_dependencies_page ==
  /\ AtEntry("dependency")
  /\ IF compare_dependencies(deps[dep(q.k)].attrs, Overlay(Entry))
     THEN deps' = [deps EXCEPT ![dep(q.k)].url = Entry.url] /\ EndQuery
     ELSE NextEntry(Kept(Overlay(Entry))) /\ UNCHANGED deps
  /\ UNCHANGED <<vendors, modules, oes>>

match_oes_page ==
  /\ AtEntry("oe")
  /\ IF compare_oe(Entry)
     THEN oes' = [oes EXCEPT ![oe].url = Entry.url] /\ EndQuery
     ELSE NextEntry(q.tmp) /\ UNCHANGED oes
  /\ UNCHANGED <<vendors, modules, deps>>

match_modules_page ==
  /\ AtEntry("module")
  /\ IF compare_modules(Entry)
     THEN modules' = [modules EXCEPT ![mod].url = Entry.url] /\ EndQuery
     ELSE NextEntry(q.tmp) /\ UNCHANGED modules
  /\ UNCHANGED <<vendors, oes, deps>>

\* Emails, phone numbers and address; the contacts are a request of their own.
match_vendors_page ==
  /\ AtEntry("vendor")
  /\ LET own     == vendors[ven]
         emails  == compare_emails(own.emails, Entry.emails)
         phones  == compare_phone_numbers(own.phones, Entry.phones)
         address == compare_vendor_address(own.address, Entry.addresses)
     IN  CASE emails = "hangs" -> Step("hung") /\ UNCHANGED <<op_env, q>>
           [] emails = "error" \/ (emails = "match" /\ phones = "error") -> Fails("INVALID_ARG")
           [] "differ" \in {emails, phones} \/ address = None ->
                NextEntry(q.tmp) /\ UNCHANGED op_env
           [] OTHER -> /\ vendors' = [vendors EXCEPT ![ven].address_url = address]
                       /\ Step("contacts") /\ UNCHANGED <<modules, oes, deps, q>>

\* Mutant: the contacts found last are kept.
match_vendor_contacts_kept ==
  /\ pc = "contacts"
  /\ LET r == query_vendor_contacts(vendors[ven].persons, Entry.contacts)
     IN  CASE r.is = "hangs" -> Step("hung") /\ UNCHANGED <<vendors, q>>
           [] r.is = "match" ->
                /\ vendors' = [vendors EXCEPT ![ven].url = Entry.url,
                                 ![ven].person_urls = [k \in DOMAIN @ |-> IF @[k] = None THEN r.urls[k] ELSE @[k]]]
                /\ EndQuery
           [] OTHER -> vendors' = [vendors EXCEPT ![ven].person_urls = r.urls] /\ NextEntry(q.tmp)
  /\ UNCHANGED <<modules, oes, deps>>

\* A vendor matches if all its contacts do.
match_vendor_contacts ==
  /\ pc = "contacts"
  /\ LET r == query_vendor_contacts(vendors[ven].persons, Entry.contacts)
     IN  CASE r.is = "hangs" -> Step("hung") /\ UNCHANGED <<vendors, q>>
           [] r.is = "match" ->
                /\ vendors' = [vendors EXCEPT ![ven].url = Entry.url, ![ven].person_urls = r.urls]
                /\ EndQuery
           [] OTHER -> vendors' = [vendors EXCEPT ![ven].person_urls = r.urls] /\ NextEntry(q.tmp)
  /\ UNCHANGED <<modules, oes, deps>>

\* The request fails, or a contact is malformed that is reached once n persons
\* are found: the result is dropped, and the vendor does not match.
ContactsFail ==
  /\ pc = "contacts"
  /\ LET r == query_vendor_contacts(vendors[ven].persons, Entry.contacts)
     IN  \E n \in 0..Len(vendors[ven].persons) :
           /\ n = 0 \/ n < Len(vendors[ven].persons)
           /\ vendors' = [vendors EXCEPT ![ven].person_urls =
                            [k \in DOMAIN @ |-> IF k <= n THEN r.urls[k] ELSE @[k]]]
  /\ NextEntry(q.tmp) /\ UNCHANGED <<modules, oes, deps>>

\* Under which name each kind of page looks for its successor.
LinkRead(of) == IF of \in {"vendor", "module"} THEN "nextPage" ELSE "next"

\* On to the next page, if there is one; the query ends without a match otherwise.
PageEnds ==
  /\ pc = "page" /\ q.i > Len(q.page)
  /\ IF q.link = LinkRead(q.of) THEN Step("get") /\ UNCHANGED q ELSE EndQuery
  /\ UNCHANGED op_env

\* acvp_build_validation, when the session has passed: what is sent of the OE,
\* its dependencies (their places) and the module.
Request ==
  LET s == oes[oe].status
      new_oe == oes[oe].url = None
      new_module == modules[mod].url = None
  IN  [oe |-> oes[oe].url,
       dependencyUrls |-> IF new_oe /\ s \in {"COMPLETE", "PARTIAL"} THEN Found ELSE {},
       dependencies   |-> IF new_oe /\ s \in {"INCOMPLETE", "PARTIAL"} THEN Missing ELSE {},
       module |-> modules[mod].url,
       urls |-> IF new_module THEN {vendors[ven].url, vendors[ven].address_url}
                                     \cup ToSet(vendors[ven].person_urls) ELSE {}]

\* The call returns, whether it went as far as the request or not.
VerifyReturned ==
  /\ pc = "verified"
  /\ pc' = "idle" /\ rv' = "SUCCESS" /\ q' = NoQuery
  /\ UNCHANGED envVars

\* There is nothing after a loop without an end, or a NULL pointer.
Hung == pc \in {"hung", "crashed"} /\ UNCHANGED vars

VerifyNext ==
  \/ query_vendor \/ query_module
  \/ verify_fips_oe_dependencies \/ query_dependency \/ DependencyQueried \/ verify_fips_oe
  \/ Get \/ GetFails \/ PageMalformed
  \/ match_vendors_page \/ match_vendor_contacts \/ ContactsFail
  \/ match_modules_page \/ match_dependencies_page \/ match_oes_page
  \/ PageEnds \/ VerifyReturned

Next ==
  \/ EnvNext /\ UNCHANGED q
  \/ acvp_verify_fips_validation_metadata
  \/ VerifyNext
  \/ Hung

\* A call runs to its end: weak fairness of the steps of the verification.
Spec == FVInit /\ [][Next]_vars /\ WF_vars(VerifyNext)
----------------------------------------------------------------------------
(* Properties.                                                             *)

\* The URL that a dependency gets is that of a dependency of the server with the
\* same attributes; of series, family, version and manufacturer, which are left
\* in tmp_dep from entry to entry, the server's may have none where ours does.
\* A dependency whose attributes a later file has overwritten keeps its URL.
DependencyUrlIsItsOwn ==
  \A k \in DOMAIN deps :
    deps[k].url # None /\ deps[k].over = "no" =>
      \E e \in DependencyEntries :
        /\ e.url = deps[k].url
        /\ \A a \in Reset : e.attrs[a] = deps[k].attrs[a]
        /\ \A a \in Attrs \ Reset : e.attrs[a] \in {deps[k].attrs[a], None}

\* An entry of a page that equals the object is passed over only if it is a
\* dependency that lacks an attribute of an earlier entry of the page, or a
\* module whose contacts are not all the one at the module's place in the page.
FoundIfListed ==
  pc = "page" =>
    \A j \in 1..(q.i - 1) :
      LET e == q.page[j]
      IN  /\ q.of = "dependency" /\ e.attrs = deps[dep(q.k)].attrs /\ e.attrs["name"] # None =>
               \E i \in 1..(j - 1) : \E a \in Attrs \ Reset :
                 e.attrs[a] = None /\ q.page[i].attrs[a] # None
          /\ q.of = "module" /\ e.attrs = "all" /\ e.same = "yes"
             /\ modules[mod].attrs = "all" /\ modules[mod].name # None
             /\ e.vendor = vendors[ven].url /\ e.address = vendors[ven].address_url
             /\ e.contacts = vendors[ven].person_urls =>
               \E k \in DOMAIN e.contacts : j > Len(e.contacts) \/ e.contacts[k] # e.contacts[j]
          /\ q.of = "oe" => e.deps # [k \in DOMAIN oes[oe].deps |-> deps[dep(k)].url]

\* A vendor with a URL has the address and contact URLs of the same vendor of
\* the server, though they were written while others were compared: no request
\* names the contact of one vendor with the address of another, or a NULL.
VendorUrlsAgree ==
  \A k \in DOMAIN vendors :
    vendors[k].url # None =>
      \E e \in VendorEntries :
        /\ e.url = vendors[k].url
        /\ vendors[k].address_url \in {a.url : a \in ToSet(e.addresses)} \ {None}
        /\ ToSet(vendors[k].person_urls) \subseteq {c.url : c \in ToSet(e.contacts)} \ {None}

\* A request that makes the server create the OE tells it each dependency of the
\* OE exactly once: by its URL, or by its attributes when it was not found.
EveryDependencySent ==
  pc = "verified" /\ oes[oe].url = None =>
    /\ Request.dependencyUrls \cup Request.dependencies = DOMAIN oes[oe].deps
    /\ Request.dependencyUrls \cap Request.dependencies = {}

\* The OE named in a request has our dependencies, all found, in the order of
\* the file; but for those the application has linked to it since it was found,
\* for which a URL that is kept is not asked for again (see OeCreatedIfMissing).
OeUrlIsItsOwn ==
  pc = "verified" /\ oes[oe].url # None =>
    \E e \in OeEntries :
      /\ e.url = oes[oe].url /\ Len(e.deps) <= Len(oes[oe].deps)
      /\ \A k \in DOMAIN e.deps : k \in Found /\ e.deps[k] \in {deps[dep(k)].url, None}

\* The comment of verify_fips_oe: "The OE will be created during the PUT
\* operation if: [...] Any of the attached dependencies are not found".
OeCreatedIfMissing == pc = "verified" /\ Missing # {} => Request.oe = None

\* The counting loop of compare_emails does not end for two or more emails.
TwoEmails ==
  \/ Len(vendors[ven].emails) > 1
  \/ \E k \in DOMAIN vendors[ven].persons : Len(vendors[ven].persons[k].emails) > 1

Verifying == pc \in {"vendor", "module", "oe_deps", "dep", "dep_queried", "get", "page", "contacts"}

\* The verification ends after a finite number of pages, whatever fails, unless
\* the vendor or a contact has two emails, or the module was made before there
\* was a vendor for it.
VerifyReturns ==
  Verifying ~> \/ pc \in {"verified", "idle"}
               \/ pc = "hung" /\ TwoEmails
               \/ pc = "crashed" /\ modules[mod].vendor = 0

\* The comment of match_vendors_page and its likes: "If a match is not found,
\* then the function will allocate and copy the "next" page URL": a query ends
\* without a match only on the last page.
AllPagesRead == [][pc = "page" /\ q.i > Len(q.page) /\ q.link # None => pc' # After(q.of)]_vars
=============================================================================
