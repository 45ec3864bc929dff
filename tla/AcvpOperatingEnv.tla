--------------------------- MODULE AcvpOperatingEnv ---------------------------
(***************************************************************************)
(* The metadata of a FIPS validation as the library keeps it: vendors,     *)
(* modules, dependencies and operating environments (OEs), read from a     *)
(* file by acvp_oe_ingest_metadata or built by the application through the *)
(* acvp_oe_* calls, and the choice of a module and an OE.                  *)
(*                                                                         *)
(* Objects are found by their ids.  Those of a file are numbered by static *)
(* counters, which outlive a context; those of the application by itself.  *)
(* An object is appended to its list before its fields are read, so a file *)
(* that is refused leaves what was read of it behind.                      *)
(*                                                                         *)
(* Names and attributes are abstract.  A field may be missing or too long  *)
(* wherever the code checks it; that costs one of MaxFaults.  Allocation   *)
(* failures, which copy_oe_string's callers take for success, are left out.*)
(***************************************************************************)
EXTENDS Integers, Sequences, SequencesExt

CONSTANTS
  Files,            \* metadata files: [vendors, modules, oes], see MC module
  VendorsMax,       \* LIBACVP_VENDORS_MAX
  ModulesMax,       \* LIBACVP_MODULES_MAX
  OesMax,           \* LIBACVP_OES_MAX
  DependenciesMax,  \* LIBACVP_DEPENDENCIES_MAX
  ApiIds,           \* ids the application passes
  MaxIngests, MaxCalls, MaxFaults

None == "None"      \* a NULL pointer

ASSUME LimitsAssumption ==
  /\ {VendorsMax, ModulesMax, OesMax, DependenciesMax} \subseteq Nat \ {0}
  /\ {MaxIngests, MaxCalls, MaxFaults} \subseteq Nat
  /\ ApiIds \subseteq Nat

IsList(s) == s \in Seq(ToSet(s))

\* What a file lists is in order, and so are the contacts of its vendors.
ASSUME FilesAssumption ==
  \A f \in Files :
    /\ IsList(f.vendors) /\ IsList(f.modules)
    /\ \A v \in ToSet(f.vendors) : IsList(v.persons)

VARIABLES
  glb,                            \* glb_vendor_id, glb_module_id, ...
  vendors, modules, oes, deps,    \* ctx->op_env
  fips,                           \* ctx->fips: module, oe (ids, 0: none), metadata_loaded
  pc, rv,                         \* the call under way, and its result
  file, pos, dpos,                \* the file, and the place in it
  ingests, calls, faults,         \* bounds
  skewed                          \* history: a file was refused or had modules
                                  \* without a vendor of their own, or the reverse

op_env  == <<vendors, modules, oes, deps>>
place   == <<file, pos, dpos>>
bounds  == <<ingests, calls, faults, skewed>>
envVars == <<glb, op_env, fips, place, bounds>>
----------------------------------------------------------------------------
(* Finding and creating objects.                                           *)

Ids(list) == {list[k].id : k \in DOMAIN list}

\* The place of the first object with this id, 0 when there is none.
find(list, id) ==
  IF id = 0 \/ id \notin Ids(list) THEN 0
  ELSE CHOOSE k \in DOMAIN list : list[k].id = id /\ \A j \in 1..(k - 1) : list[j].id # id

\* The checks that acvp_oe_vendor_new, _module_new and _oe_new make.
new(list, max, id) ==
  CASE Len(list) = max             -> "UNSUPPORTED_OP"
    [] id = 0 \/ id \in Ids(list)  -> "INVALID_ARG"
    [] OTHER                       -> "SUCCESS"

\* The list is full: a dependency is not created and the result is 0, which is
\* ACVP_SUCCESS.
acvp_oe_dependency_new(id) ==
  IF Len(deps) = DependenciesMax THEN "SUCCESS" ELSE new(deps, DependenciesMax, id)

Attrs == {"name", "type", "description", "series", "family", "version", "manufacturer"}

NoAttrs == [a \in Attrs |-> None]

\* over: history, whether the attributes were overwritten later (see Overwritten).
Dependency(id, a) == [id |-> id, attrs |-> a, url |-> None, over |-> "no"]
Oe(id, named)     == [id |-> id, name |-> named, deps |-> <<>>, url |-> None, status |-> None]

\* The attributes a that are there, written over those of the dependency d.
Overwritten(d, a) ==
  [d EXCEPT !.attrs = [f \in Attrs |-> IF a[f] # None THEN a[f] ELSE @[f]], !.over = "yes"]

\* Mutant: every module belongs to the first vendor.
Module_first(id, named, a, f) ==
  [id |-> id, vendor |-> IF vendors = <<>> THEN 0 ELSE vendors[1].id, name |-> named,
   attrs |-> a, url |-> None, from |-> f]

\* The vendor of a module is the one with the same id; NULL if there is none.
Module(id, named, a, f) ==
  [id |-> id, vendor |-> IF id \in Ids(vendors) THEN id ELSE 0, name |-> named,
   attrs |-> a, url |-> None, from |-> f]

\* A contact that was counted before it was read.
Nobody == [name |-> None, emails |-> <<>>, phones |-> <<>>]

\* The vendor v of the file, its fields read up to a stage.
Vendor(id, v, stage) ==
  [id      |-> id,
   emails  |-> IF stage > 1 THEN v.emails ELSE <<>>,
   phones  |-> IF stage > 2 THEN v.phones ELSE <<>>,
   address |-> IF stage > 3 THEN v.address ELSE None,
   persons |-> CASE stage > 5 -> v.persons [] stage = 5 -> <<Nobody>> [] OTHER -> <<>>,
   url |-> None, address_url |-> None,
   person_urls |-> CASE stage > 5 -> [k \in DOMAIN v.persons |-> None]
                     [] stage = 5 -> <<None>> [] OTHER -> <<>>,
   from |-> ingests]

\* Mutant: the description is not compared.
compare_dependencies_loose(a, b) ==
  /\ a["name"] # None /\ b["name"] # None
  /\ \A f \in Attrs \ {"name", "description"} : a[f] = b[f]

\* Equal as far as they are compared: the names need only be there.
compare_dependencies(a, b) ==
  /\ a["name"] # None /\ b["name"] # None
  /\ \A f \in Attrs \ {"name"} : a[f] = b[f]

\* The id of the known dependency that matches: but what is returned is the id
\* of the candidate, which the caller has zeroed.
match_dependency(candidate) ==
  IF \E k \in DOMAIN deps : compare_dependencies(candidate.attrs, deps[k].attrs)
  THEN candidate.id ELSE 0
----------------------------------------------------------------------------
Init ==
  /\ glb = [vendor |-> 1, module |-> 1, oe |-> 1, dependency |-> 1]
  /\ vendors = <<>> /\ modules = <<>> /\ oes = <<>> /\ deps = <<>>
  /\ fips = [module |-> 0, oe |-> 0, metadata_loaded |-> 0]
  /\ pc = "idle" /\ rv = "none"
  /\ file = None /\ pos = 0 /\ dpos = 0
  /\ ingests = 0 /\ calls = 0 /\ faults = 0 /\ skewed = "no"

\* The context is freed and a new one created; the counters stay.
acvp_oe_free_operating_env ==
  /\ pc = "idle" /\ calls < MaxCalls
  /\ vendors' = <<>> /\ modules' = <<>> /\ oes' = <<>> /\ deps' = <<>>
  /\ fips' = [module |-> 0, oe |-> 0, metadata_loaded |-> 0]
  /\ calls' = calls + 1
  /\ UNCHANGED <<glb, pc, rv, place, ingests, faults, skewed>>
----------------------------------------------------------------------------
(* Reading a file.                                                         *)

acvp_oe_ingest_metadata(f) ==
  /\ pc = "idle" /\ ingests < MaxIngests
  /\ ingests' = ingests + 1
  /\ file' = f /\ pos' = 1 /\ dpos' = 1
  /\ pc' = "vendors" /\ rv' = "none"
  /\ UNCHANGED <<glb, op_env, fips, calls, faults, skewed>>

\* The file is refused; what was read of it stays in the context.
Refused(code) ==
  /\ pc' = "idle" /\ rv' = code
  /\ skewed' = "yes"
  /\ file' = None /\ pos' = 0 /\ dpos' = 0
  /\ UNCHANGED <<fips, ingests, calls>>

Fault == faults < MaxFaults /\ faults' = faults + 1

\* A list, or an object of a list, is missing.
IngestFails(code) ==
  /\ pc \in {"vendors", "modules", "oes"}
  /\ Fault /\ Refused(code)
  /\ UNCHANGED <<glb, op_env>>

GoOn(p) == pc' = p /\ pos' = pos + 1 /\ UNCHANGED <<rv, file, dpos, fips, bounds>>

acvp_oe_metadata_parse_vendor ==
  /\ pc = "vendors" /\ pos <= Len(file.vendors)
  /\ glb' = [glb EXCEPT !.vendor = @ + 1]
  /\ LET code == new(vendors, VendorsMax, glb.vendor)
     IN  IF code = "SUCCESS"
         THEN /\ vendors' = Append(vendors, Vendor(glb.vendor, file.vendors[pos], 6))
              /\ GoOn("vendors")
         ELSE Refused(code) /\ UNCHANGED <<vendors, faults>>
  /\ UNCHANGED <<modules, oes, deps>>

\* No name (stage 0), or a field of a later stage is missing or too long.
VendorFails(stage) ==
  /\ pc = "vendors" /\ pos <= Len(file.vendors)
  /\ glb' = [glb EXCEPT !.vendor = @ + 1]
  /\ vendors' = IF stage > 0 /\ new(vendors, VendorsMax, glb.vendor) = "SUCCESS"
                THEN Append(vendors, Vendor(glb.vendor, file.vendors[pos], stage))
                ELSE vendors
  /\ Fault /\ Refused("INVALID_ARG")
  /\ UNCHANGED <<modules, oes, deps>>

\* The module is appended before its vendor is looked up.
acvp_oe_metadata_parse_module ==
  /\ pc = "modules" /\ pos <= Len(file.modules)
  /\ glb' = [glb EXCEPT !.module = @ + 1]
  /\ LET code == new(modules, ModulesMax, glb.module)
         m    == Module(glb.module, "yes", file.modules[pos], ingests)
     IN  CASE code # "SUCCESS" -> Refused(code) /\ UNCHANGED <<modules, faults>>
           [] m.vendor = 0     -> /\ modules' = Append(modules, [m EXCEPT !.name = None,
                                                                 !.attrs = "none"])
                                  /\ Refused("INVALID_ARG")
                                  /\ UNCHANGED faults
           [] OTHER            -> modules' = Append(modules, m) /\ GoOn("modules")
  /\ UNCHANGED <<vendors, oes, deps>>

\* No name (stage 0); a name too long (1); type, version and description all
\* missing, or one of them too long (2).
ModuleFails(stage) ==
  /\ pc = "modules" /\ pos <= Len(file.modules)
  /\ glb' = [glb EXCEPT !.module = @ + 1]
  /\ modules' = IF stage > 0 /\ new(modules, ModulesMax, glb.module) = "SUCCESS"
                THEN Append(modules, Module(glb.module, IF stage > 1 THEN "yes" ELSE None,
                                            "none", ingests))
                ELSE modules
  /\ Fault /\ Refused("INVALID_ARG")
  /\ UNCHANGED <<vendors, oes, deps>>

acvp_oe_metadata_parse_oe ==
  /\ pc = "oes" /\ pos <= Len(file.oes)
  /\ glb' = [glb EXCEPT !.oe = @ + 1]
  /\ LET code == new(oes, OesMax, glb.oe)
     IN  IF code = "SUCCESS"
         THEN /\ oes' = Append(oes, Oe(glb.oe, "yes"))
              /\ pc' = "deps" /\ dpos' = 1
              /\ UNCHANGED <<rv, file, pos, fips, bounds>>
         ELSE Refused(code) /\ UNCHANGED <<oes, faults>>
  /\ UNCHANGED <<vendors, modules, deps>>

\* No name (stage 0), a name too long (1), no dependencies (2).
OeFails(stage) ==
  /\ pc = "oes" /\ pos <= Len(file.oes)
  /\ glb' = [glb EXCEPT !.oe = @ + 1]
  /\ oes' = IF stage > 0 /\ new(oes, OesMax, glb.oe) = "SUCCESS"
            THEN Append(oes, Oe(glb.oe, IF stage > 1 THEN "yes" ELSE None)) ELSE oes
  /\ Fault /\ Refused("JSON_ERR")
  /\ UNCHANGED <<vendors, modules, deps>>

\* oes with the dependency d added to the OE at k, if both are there and the OE
\* has room.
WithDependency(k, d) ==
  IF k = 0 \/ find(deps', d) = 0 THEN oes
  ELSE IF Len(oes[k].deps) = DependenciesMax THEN oes
  ELSE [oes EXCEPT ![k].deps = Append(@, d)]

\* deps with the attributes a of a dependency given an id: those of a new one,
\* or, when the list is full and one has that id, written over that one's.
WithAttributes(id, a) ==
  IF new(deps, DependenciesMax, id) = "SUCCESS" THEN Append(deps, Dependency(id, a))
  ELSE IF Len(deps) = DependenciesMax /\ find(deps, id) # 0
  THEN [deps EXCEPT ![find(deps, id)] = Overwritten(@, a)]
  ELSE deps

\* A dependency of the OE that was read last: created unless one matches, and
\* linked.  The counter moves on only after a success.
acvp_oe_metadata_parse_oe_dependencies ==
  /\ pc = "deps" /\ dpos <= Len(file.oes[pos])
  /\ LET a    == file.oes[pos][dpos]
         id   == match_dependency([id |-> 0, attrs |-> a])
         code == acvp_oe_dependency_new(glb.dependency)
     IN  IF id # 0 \/ (code = "SUCCESS" /\ find(WithAttributes(glb.dependency, a), glb.dependency) # 0)
         THEN /\ deps' = IF id # 0 THEN deps ELSE WithAttributes(glb.dependency, a)
              /\ oes' = WithDependency(find(oes, glb.oe - 1),
                                       IF id # 0 THEN id ELSE glb.dependency)
              /\ glb' = IF id # 0 THEN glb ELSE [glb EXCEPT !.dependency = @ + 1]
              /\ dpos' = dpos + 1
              /\ UNCHANGED <<pc, rv, file, pos, fips, bounds>>
         ELSE /\ Refused(IF code = "SUCCESS" THEN "INVALID_ARG" ELSE code)
              /\ UNCHANGED <<deps, oes, glb, faults>>
  /\ UNCHANGED <<vendors, modules>>

\* It has neither type nor name nor description (stage 0), or the first (1) or
\* the last (2) of its fields is too long: it stays, incomplete and unlinked,
\* and the counter still has its id.
DependencyFails(stage) ==
  /\ pc = "deps" /\ dpos <= Len(file.oes[pos])
  /\ deps' = IF stage = 0 THEN deps
             ELSE WithAttributes(glb.dependency,
                    IF stage = 1 THEN NoAttrs
                    ELSE [file.oes[pos][dpos] EXCEPT !["series"] = None])
  /\ Fault /\ Refused(IF stage = 0 THEN "JSON_ERR" ELSE "INVALID_ARG")
  /\ UNCHANGED <<glb, vendors, modules, oes>>

\* The end of a list.
NextList ==
  /\ \/ pc = "vendors" /\ pos > Len(file.vendors) /\ pc' = "modules" /\ pos' = 1
     \/ pc = "modules" /\ pos > Len(file.modules) /\ pc' = "oes" /\ pos' = 1
     \/ pc = "deps" /\ dpos > Len(file.oes[pos]) /\ pc' = "oes" /\ pos' = pos + 1
  /\ UNCHANGED <<glb, op_env, fips, rv, file, dpos, bounds>>

IngestEnds ==
  /\ pc = "oes" /\ pos > Len(file.oes)
  /\ fips' = [fips EXCEPT !.metadata_loaded = 1]
  /\ pc' = "idle" /\ rv' = "SUCCESS"
  /\ skewed' = IF Len(file.vendors) # Len(file.modules) THEN "yes" ELSE skewed
  /\ file' = None /\ pos' = 0 /\ dpos' = 0
  /\ UNCHANGED <<glb, op_env, ingests, calls, faults>>
----------------------------------------------------------------------------
(* The calls of the application.                                           *)

Api(code) ==
  /\ pc = "idle" /\ calls < MaxCalls
  /\ calls' = calls + 1
  /\ rv' = code
  /\ UNCHANGED <<glb, vendors, pc, place, ingests, faults>>

\* Without attributes: the calls that set them are not public.
ApiDependency(id) ==
  /\ Api(acvp_oe_dependency_new(id))
  /\ deps' = IF new(deps, DependenciesMax, id) = "SUCCESS"
             THEN Append(deps, Dependency(id, NoAttrs)) ELSE deps
  /\ UNCHANGED <<modules, oes, fips, skewed>>

\* With a good name, or one that is too long.
acvp_oe_oe_new(id, named) ==
  LET code == new(oes, OesMax, id)
  IN  /\ Api(IF named = None /\ code = "SUCCESS" THEN "INVALID_ARG" ELSE code)
      /\ oes' = IF code = "SUCCESS" THEN Append(oes, Oe(id, named)) ELSE oes
      /\ UNCHANGED <<modules, deps, fips, skewed>>

acvp_oe_oe_set_dependency(oe_id, dep_id) ==
  LET k == find(oes, oe_id)
      d == find(deps, dep_id)
  IN  /\ Api(CASE k = 0 \/ d = 0 -> "INVALID_ARG"
               [] Len(oes[k].deps) = DependenciesMax -> "UNSUPPORTED_OP"
               [] OTHER -> "SUCCESS")
      /\ UNCHANGED deps
      /\ oes' = WithDependency(k, dep_id)
      /\ UNCHANGED <<modules, fips, skewed>>

\* The modules of the application have vendors of the files.  The name is a good
\* one, or too long.
acvp_oe_module_new(id, named) ==
  LET code == new(modules, ModulesMax, id)
      m    == Module(id, named, "none", 0)
  IN  /\ Api(IF code = "SUCCESS" /\ (m.vendor = 0 \/ named = None) THEN "INVALID_ARG" ELSE code)
      /\ modules' = IF code # "SUCCESS" THEN modules
                    ELSE Append(modules, [m EXCEPT !.name = IF m.vendor = 0 THEN None ELSE @])
      /\ UNCHANGED <<oes, deps, fips, skewed>>

\* Which of type, version and description a module that had some may have, after
\* a call that sets some of them, or is refused at one that is too long.
Attributed(had, code) ==
  CASE had = "all"                         -> {"all"}
    [] had = "some" \/ code = "SUCCESS"    -> {"some", "all"}
    [] OTHER                               -> {"none", "some"}

acvp_oe_module_set_type_version_desc(id, code) ==
  LET k == find(modules, id)
  IN  /\ Api(IF k = 0 THEN "INVALID_ARG" ELSE code)
      /\ IF k = 0 THEN UNCHANGED modules
         ELSE \E a \in Attributed(modules[k].attrs, code) :
                modules' = [modules EXCEPT ![k].attrs = a]
      /\ UNCHANGED <<oes, deps, fips, skewed>>

\* Either id may be 0: the earlier choice is kept.  The module is chosen even
\* when the OE is then refused.
acvp_oe_set_fips_validation_metadata(module_id, oe_id) ==
  LET m == find(modules, module_id)
      o == find(oes, oe_id)
      refusedModule == module_id # 0 /\ m = 0
      refusedOe     == oe_id # 0 /\ o = 0
      refused == fips.metadata_loaded = 0 \/ (module_id = 0 /\ oe_id = 0)
  IN  /\ pc = "idle"
      /\ rv' = IF refused \/ refusedModule \/ refusedOe THEN "INVALID_ARG" ELSE "SUCCESS"
      /\ fips' = IF refused \/ refusedModule THEN fips
                 ELSE [fips EXCEPT !.module = IF module_id = 0 THEN @ ELSE module_id,
                                   !.oe = IF oe_id = 0 \/ refusedOe THEN @ ELSE oe_id]
      /\ UNCHANGED <<glb, op_env, pc, place, bounds>>

EnvNext ==
  \/ \E f \in Files : acvp_oe_ingest_metadata(f)
  \/ \E code \in {"JSON_ERR", "MALFORMED_JSON"} : IngestFails(code)
  \/ acvp_oe_metadata_parse_vendor
  \/ \E stage \in 0..5 : VendorFails(stage)
  \/ acvp_oe_metadata_parse_module
  \/ \E stage \in 0..2 : ModuleFails(stage)
  \/ acvp_oe_metadata_parse_oe
  \/ \E stage \in 0..2 : OeFails(stage)
  \/ acvp_oe_metadata_parse_oe_dependencies
  \/ \E stage \in 0..2 : DependencyFails(stage)
  \/ NextList
  \/ IngestEnds
  \/ acvp_oe_free_operating_env
  \/ \E id \in ApiIds : ApiDependency(id)
  \/ \E id \in ApiIds, named \in {"yes", None} : acvp_oe_oe_new(id, named)
  \/ \E o, d \in ApiIds : acvp_oe_oe_set_dependency(o, d)
  \/ \E id \in ApiIds, named \in {"yes", None} : acvp_oe_module_new(id, named)
  \/ \E id \in ApiIds, code \in {"SUCCESS", "INVALID_ARG"} :
       acvp_oe_module_set_type_version_desc(id, code)
  \/ \E m, o \in ApiIds \cup {0} : acvp_oe_set_fips_validation_metadata(m, o)
----------------------------------------------------------------------------
(* Properties.                                                             *)

\* A module of a file belongs to a vendor of the same file, though it is found
\* by the value of another counter; unless some file was refused half-way or
\* had not as many modules as vendors, after which the counters differ.
OwnVendor ==
  skewed = "no" =>
    \A k \in DOMAIN modules :
      modules[k].from # 0 =>
        \E v \in DOMAIN vendors :
          vendors[v].id = modules[k].vendor /\ vendors[v].from = modules[k].from
=============================================================================
