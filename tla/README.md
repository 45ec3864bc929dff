# A TLA+ verification project for libacvp

libacvp is the client side of the Automated Cryptographic Validation Protocol
(ACVP). It registers the capabilities of a crypto module with a server, downloads
vector sets, has the module compute the answers through callbacks, uploads the
responses, polls for the verdict and finally asks for a certificate. The library
is one sequential process, but it is a client of a slow, remote, stateful server:
what is hard about it are tokens that expire at any moment, replies that are lost
after the server has acted on the request, vectors that are not ready for hours,
processes that die in the middle of a session, and a session info file from which
the session is to be picked up again. Around this core lie three large bodies of
regular code in which the difficulty is their number of paths: the setters and
builders with which capabilities are registered, the handlers that answer vector
sets, and the metadata of a FIPS validation.

This directory holds TLA+ modules for the parts of the library that carry this
logic, TLC configurations that check them on small instances, and TLAPS proofs of
what matters most for every instance. Source references are to the repository;
`PROJECT.json` maps every definition to the lines it translates.

## 1. Inventory

| Component | State | Operations | What makes it correct |
|---|---|---|---|
| Retry handler and polling loops (`acvp.c`) | retry period, accumulated wait | `acvp_retry_handler`, the loops of `acvp_process_vsid` and `acvp_get_result_test_session` | the loop ends, not early and not late; the server is not flooded |
| Transport and JWT (`acvp_transport.c`, login code of `acvp.c`) | `jwt_token`, `curl_buf`, HTTP code | GET, POST, PUT, DELETE, submission of responses, login, refresh | a request takes effect at most once per call; a refresh never starts another; the outcome of the last try is reported |
| Test session (`acvp.c`) | `vsid_url_list`, `session_passed`, `session_file_path`, the session info file; at the server: vector sets, their status, the validation | `acvp_run`, `acvp_resume_test_session`, `acvp_get_results_from_server`, `acvp_cancel_test_session`, `acvp_validate_test_session`, `acvp_put_data_from_ctx` | each vector set is answered once, only a passed session is validated, once; success means the work is done; a session can be resumed after a crash |
| Result reporting (`acvp.c`, `acvp_util.c`) | lists of failing algorithms, modes and vector set URLs | failed-list part of `acvp_get_result_test_session` | every failing algorithm is named |
| Offline files (`acvp.c`) | request file, response file | `vector_req` mode, `acvp_run_vectors_from_file`, `acvp_upload_vectors_from_file` | a response is uploaded for the vector set it belongs to |
| Expected results, PUT/POST/GET/DELETE modes (`acvp.c`) | files | `acvp_get_expected_results`, `acvp_put_data_from_file`, `acvp_post_data`, modes of `acvp_run` | the result code tells what happened |
| Capabilities (`acvp_capabilities.c`) | list of enabled algorithms and their parameters, `vs_count` | `acvp_cap_*_enable`, `acvp_cap_*_set_*` | an accepted parameter stays, a refused one leaves no trace |
| Registration builder (`acvp_build_register.c`) | the JSON under construction; fields of a capability it overwrites for a while | `acvp_build_registration_json` | what was accepted is registered, each time, in as many objects as are expected |
| Operating environment (`acvp_operating_env.c`) | vendors, persons, modules, dependencies, OEs; static counters | `acvp_oe_*`, `acvp_oe_ingest_metadata`, `acvp_verify_fips_validation_metadata`, `acvp_build_validation` | an object belongs to its own vendor and gets its own URL; a request names or describes all that it needs |
| KAT handlers (`acvp_aes.c` ... `acvp_safe_primes.c`) | test case, response JSON | one handler per algorithm family | a test is answered from its own inputs; nothing half done is submitted; nothing is freed twice or forgotten |
| Example application (`app/`) | configuration | option parsing, crypto callbacks | chooses the right API call |
| Third-party code (`parson.c`, `murl/`, `safe_c_stub/`) | | | not ours |

**How they interact.** The application creates an `ACVP_CTX`, enables
capabilities and makes one API call, which runs to its end in the calling thread.
The session code calls the transport for every message; the transport calls back
into the login code when a token has expired (`execute_network_action` ->
`acvp_refresh` -> `acvp_login` -> `acvp_network_action`). All pass data through
the context: `curl_buf` is the one buffer every reply lands in, `jwt_token` is
replaced by any login. The only state that outlives a process is on disk: the
session info file, and the request and response files of offline testing.

**What is hard.** There are no threads. The hard behaviours are (the full list,
each at its line, is under `hazards` in `PROJECT.json`): the client's and the
server's steps interleave; a reply is lost after the effect; a token expires
between two exchanges of one call; a call is retried when it was already done; the
process dies between registration, file, submission and validation; the file
itself is written in two steps; a wait of hours must end; error codes are reused
along long functions and may be stale. In the regular code it is locals that
survive from one group, page or candidate to the next, functions that change
something before their last check, and exits that do not undo it.

## 2. Modules

| Module | Models | Kind |
|---|---|---|
| `AcvpRetry` | `acvp_retry_handler`, assignment by assignment, and both polling loops | component |
| `AcvpTransport` | `acvp_network_action`, `execute_network_action`, `inspect_http_code`, login and refresh | component |
| `AcvpCall` | what a network call promises its caller | abstract specification, implemented by `AcvpTransport` |
| `AcvpSession` | runs, resumed runs, result queries and cancellation of one session, with crashes | component, composes with the two above through their promises |
| `AcvpCertification` | what the server is to see of a session | abstract specification, implemented by `AcvpSession` |
| `AcvpOffline` | download to a request file, processing without a network, upload of the response file, with crashes | component |
| `AcvpResults` | the rounds of the results loop and the lists of failing algorithms | component; opens up the step `Check` of `AcvpSession` |
| `AcvpKat` | one call of a KAT handler: the pattern all handlers share | component, over the tables below |
| `AcvpKatTables` | what a table of a handler holds | vocabulary |
| `AcvpKatCipher`, `AcvpKatMac`, `AcvpKatSig`, `AcvpKatKeys`, `AcvpKatKas`, `AcvpKatKdf` | `init_tc`, `output_tc`, `release_tc` and the loops of every handler | tables |
| `AcvpKatHandlers` | which handler answers which algorithm | tables |
| `AcvpKatKnown` | which handlers are known for what, the conditions on their tables, the properties | properties of `AcvpKat` over the tables |
| `AcvpOperatingEnv` | metadata files, the `acvp_oe_*` calls | component |
| `AcvpFipsValidation` | verification of the metadata against the server, the validation request | component, extends `AcvpOperatingEnv` |
| `AcvpCapTables` | what a capability and a setter are | vocabulary |
| `AcvpCapCipher`, `AcvpCapSig`, `AcvpCapKdf`, `AcvpCapKas` | every setter and every builder of `acvp_capabilities.c` and `acvp_build_register.c` | tables |
| `AcvpRegister` | enabling, setting and building a registration | component, over these tables |
| `AcvpRetryProofs`, `AcvpTransportProofs`, `AcvpSessionProofs`, `AcvpOfflineProofs`, `AcvpResultsProofs`, `AcvpFipsValidationProofs`, `AcvpKatProofs`, `AcvpRegisterProofs` | one per component | proofs |
| `MCAcvp...` | one per component | instances for TLC |

Operators whose name ends in `Mutant`, or that add a few words to the name of the
definition that follows them and are commented as mutants, are deliberately wrong
variants of it. They are not part of any specification; each is the bug a property
is meant to catch, and substituting it for its original makes TLC report that
property.

### AcvpRetry

`retry_period` and `waited` are the two variables behind the handler's pointers.
The handler's four assignments are the operators `CutToRemaining`, `InRange`,
`Backoff` and `RetryHandler`; the unsigned addition of line 2784 is modulo
`UIntMod`. Both callers pass the modifier 1, so `Backoff` caps nothing in the
loops, but it is kept. `PollNotReady` reads the server's `retry` (any non-zero
integer) in the loop of `acvp_process_vsid` and keeps the interval in the results
loop. `slept` and `polls` are history.

### AcvpTransport

One step per HTTP exchange. The server is external: `Replies` gives what it may
answer to the token the request carries, with the effect of the request as part of
the reply; `LostReplies` are a missing reply and an error code, each with and
without effect. `Expire` may take any token between any two steps. The login is
part of the same call: `BuildLoginFails`, `SendLogin` (which clears the token
first, as `acvp_network_action` does) and `Login`. `RetriedCode` is the statement
of line 1153, which stores the code of every retried action except DELETE.
A client that holds no token gets a 401 without the "expired" text. `parse_login`
tells apart a reply that is not JSON (`JSON_ERR`), one without a token
(`JWT_MISSING`) and one whose token is too long (`JWT_INVALID`); all leave the
client without a token.
The `ACVP_DEPRECATED` large-submission code, the `ACVP_OFFLINE` build and
allocation failures are left out. `effects`, `answer`, `exchanges` and `sent` are
history.

### AcvpSession

The client variables are those of the context that the control flow depends on;
`pc` is the next step. Every network call is one step that keeps the promise of
`AcvpCall`: it succeeds, fails without effect (`CallFails`), or has its effect and
fails (the second disjunct of `Answered`). A polling loop makes at most `MaxPolls`
further requests, which is what `AcvpRetry` establishes. `Crash` ends the process
at any step and leaves the disk and the server. The session info file is "absent",
"broken" (between the two writes), "ok", or "final" (with the validation URL).
The result code TRANSPORT_FAIL stands for the errors of all failing calls; the
status "fail" stands for "fail" and "error".

The server is deliberately permissive: it accepts a second response to a vector
set (and grades it again) and a validation of any session. That it sees neither is
shown, not assumed. The file of `acvp_mark_as_put_after_test` is counted in
`puts`, not in `requests`: it is whatever the operator wrote, and the code sends it
whether the session passed or not.

One session and one process at a time are modelled. The vector set list is a set,
so vector sets may be processed in any order. Malformed 200 replies (a results
array without statuses) are not modelled beyond "does not parse".

### AcvpOffline

Three kinds of processes that share nothing but two files: `acvp_run` or
`acvp_resume_test_session` with `vector_req`, `acvp_run_vectors_from_file`, and
`acvp_upload_vectors_from_file`. A file is a record of its URL list, its entries
(named after the vector set they belong to) and whether the closing bracket is
there; an absent file and one that does not parse are the same to every reader.
`Started`, `WithEntry` and `Closed` are the three ways in which
`acvp_json_serialize_to_file_pretty_w` and `_a` are used. The order in which the
server lists vector sets is a constant set of sequences, chosen anew when a
download is resumed. `skipped` are vector sets whose entry is the server's error
object, which is saved like any other and stops the processing.
A reply that parses but has no second array element (`SaveNothing`) makes the code
append NULL, which is its way of writing the closing bracket: the download succeeds,
and what is appended later is behind the end of the file. `short` is the history of
such replies; the two properties that would be false after one say so.
`acvp_upload_vectors_from_file` goes on after a failed submission
(`SubmitSkipped`) and lets the validation overwrite the result of the check
(`AfterCheck`): its `ACVP_SUCCESS` does not mean that the server has every
response, and no property claims so. Several sessions in one file, and a request
and a response file of the same name, are not modelled.

### AcvpResults

Here the results loop that `AcvpSession` takes as a few atomic steps is opened:
`Retrieve` takes a snapshot of the results, `StepOver`, `LookUp` and `LookUpFails`
walk over it, `Report` or `Wait` end the round. Strings are abstract values with a
relation `Prefixes`, because `acvp_lookup_str_list` compares only as many
characters as the shorter string has. `stale` says that the local `mode` points
into a reply that has been freed; what is read through it is any mode or none.
`lookups` and `unread` are history.

### AcvpKat

Some seventy handlers of two dozen files are written after one pattern: a
preamble; a loop over test groups; in it a loop over tests; for each test
`init_tc`, the callback, `output_tc`, `release_tc`; and a label `err`. `AcvpKat` is
that pattern as a state machine, with one action per call that can fail, and the
tables say in what the handlers differ: which locals a group or a test assigns and
`init_tc` uses, which buffers it allocates and in which order, which codes each
function returns, what each failure releases at once or at the label, and where the
algorithm is written into the test case. A group has features (direction, test
type, key format ...) that the handler branches on; every group of a vector set
may have others. The state follows ownership: who holds the three JSON values and
the buffers of the test case, `lost` for what nobody holds any more, `faults` for
releases of what is not there; and provenance: which inputs in the test case are
left from an earlier group (`stale`) and whether the callback saw complete inputs.
Contents of inputs and the arithmetic of the Monte Carlo tests are left out: their
inner loops only call the callback. The loop of `acvp_rsa_prim.c:679` that repeats
until the module passes a test is one turn here; a module that never passes one
keeps it for ever.

The properties that `AcvpKat` states do not hold for all handlers. `AcvpKatKnown`
states them with the handlers that break them named, so each is an exact list
that grows if a handler gets worse. It also says what the tables of all other
handlers have in common (`TablesAssumption`), from which the properties are proved;
TLC evaluates it on the tables, so a table that gets worse is reported there, and
a state machine that gets worse as a violation. What the handlers do:

* inputs of an earlier group are used where a local is assigned for some kinds of
  groups only: `readIv` of AES-GCM, GMAC and XPN, `seq_num` of XTS, `keyingOption`
  of TDES, the prime parameters of RSA key generation, the CRT strings of the RSA
  primitives, KAS-IFC, the `d` of KTS, the IV of KDF108 and KDA two-step, the `psk`
  of IKEv1;
* KDA reads `hybrid_secret` for a group from `paramobj`, which the last test of the
  group before has left pointing to its `kdfParameter` (`acvp_kda.c:898,1149,1186`;
  `kda_leaves`): the value of an earlier group decides whether `t` is read (1312) and
  is copied into the test case (333, 492). For the first group it is read from
  nothing, so it is never that group's own;
* the DSA, KAS, KTS, IKE, SRTP, X9.42 and X9.63 handlers do not name the algorithm in
  the test case, or not after the first test. This is read off one line of each
  handler and no property is stated about it;
* RSA handlers call the callback and answer although `init_tc` failed; the
  authenticated AES modes answer a failed encryption; ECDSA, KAS-IFC and X9.63
  answers may lack a field whose conversion failed; KDA answers may come from
  incomplete inputs;
* `release_tc` of CMAC, ECDSA and EdDSA may meet a test case that was never zeroed
  or holds freed pointers; DSA PQGVER and SIGVER may free what the response holds;
  some failures forget an answer (AES, TDES, DSA, RSA) or the whole test case
  (EdDSA signatures, which also return success then).

### AcvpOperatingEnv and AcvpFipsValidation

The lists of the context, the static counters that number the objects of files and
outlive a context, and the two ways to fill them. `acvp_oe_ingest_metadata` is one
step per object; a refusal in the middle leaves what has been appended, as in the
code. The application may make objects with its own ids, link dependencies and
choose a module and an OE. The verification is one step per exchange and per
candidate of a page. The server is external: any pages of the entries it holds.
Attributes are abstract values; what matters is which are equal, missing, or left
in `tmp_dep` by the candidate before. A dependency of a file that finds the list full
and its id taken is written over the one that is there (`Overwritten`,
`acvp_operating_env.c:94-98`), whose URL stays. The application's calls may have a
name or an attribute that is too long, and set only some attributes. A module may be
made before its vendor, and is then in the list without one: its verification ends in
the state "crashed", because the error message reads the vendor's id. `compare_emails` counts a list by a loop that
does not advance: two emails end in the state "hung". `Request` is what
`acvp_build_validation` makes of the objects, URL or description.

### AcvpRegister

A capability is a set of settings: a place in the nested structure, a field, a
value. A value is a class ("v1" and "v2" make sense, "odd" is out of range, "rev" a
range upside down, "zero" one with increment 0) or a name the code tests for. A
setter is a set of rows (`AcvpCapTables`): the field, how it is changed, what
passes the checks, and what distinguishes it from a plain assignment: an entry
made before the checks, another field that must not be set, a value that is
accepted and ignored, traces a refusal leaves. `SetParameter` applies a row, and
`acvp_build_registration_json` is followed by a step for each object. A builder is
the set of settings it sends, and a predicate for when it fails. Refusals are all
`INVALID_ARG`. Numbers and JSON names are left out, and so is the order of lists, with
two exceptions. The first key format of an RSA primitive, the only one that the old
revision sends, is called v1. And the list of curves of an ECDSA signature keeps its
order (`place`) and repeated entries (`again`), because its builder groups curves with
equal hashes and marks those it has dealt with: `Overlooked` are the hashes of a first
entry that is skipped because the second one was grouped with an earlier curve.
`validate_domain_range` divides by the increment before it checks it
(`acvp_capabilities.c:25`); its two callers are not tried with 0. A prerequisite's
value is kept as the application's pointer (`acvp_capabilities.c:2253`); values of
prerequisites are not told apart.

What the tables record of this code, and the properties name as exceptions or
leave out:

* accepted and never sent: symmetric parameters of another mode (`kw_mode`, counter
  flags, `aadlen`, `ivlen`), XPN's `iv_len`, DRBG lengths set by `set_parm`, EdDSA
  prerequisites, DSA key generation hashes, KAS parameters of another mode, KDF108
  lengths of the other kind, LMS mode pairs;
* accepted, and every later build fails: an unknown DRBG mode, a deprecated curve,
  the KAS function one past the last; refused, and every later build fails: an RSA
  signature type;
* ranges upside down pass for hashes, HMAC, CMAC, DRBG, IKE, X9.42 and KDA;
* a refused prerequisite leaves an empty `prereqVals`; a refused KDA literal has
  already freed the old one (`acvp_capabilities.c:8306`);
* a new KAS scheme takes the place of those before; of several KTS schemes the last
  one is sent; KAS without a component (NOCOMP) never registers anything;
* KDA two-step asks through a member of another algorithm's capability whether a
  mode is enabled (`acvp_build_register.c:4212`) and sends nothing if it seems not;
* a curve of an ECDSA signature that is set once more may lose the hashes that were
  set for it alone: `acvp_cap_ecdsa_set_parm` appends a second entry without hashes
  (`acvp_capabilities.c:5428`); if a curve before it has none of its own either, the
  builder puts the second entry beside that one, marks the curve in `track`, and skips
  the first entry (`acvp_build_register.c:1620,1658-1677`). With P-224, P-256, a hash
  for P-256 and P-256 once more, every call succeeds and the hash is never sent.
  `SettingsAreRegistered` and `AcceptedKeepsOthers` exempt the hashes of a curve that
  was set once more and is not the first of its list (`OfRepeated`), and nothing else;
* KMAC beside another KDF108 mode makes a second object that `vs_count` misses.

## 3. Runs

| Run | Shows | Bounds |
|---|---|---|
| `retry` | both loops end, after at least the maximum wait when they give up, less than one period late, with requests more than the minimum apart | the library's own limits; server periods -1, 5, 120, 299, 301 cover a wrapped sum, the minimum, ordinary values and both sides of the maximum |
| `transport` | token, retry and re-upload properties, and the refinement of `AcvpCall` | 3 tokens: first login, a refresh, a refresh in a later call; any number of calls |
| `transport_delete` (violation) | a DELETE repeated after a refresh does not report its own result | as above, DELETE only |
| `session` | safety, the refinement of `AcvpCertification`; every API call returns, with no fairness of the server; a session with a file is completed if server and operator are diligent | 3 vector sets, so that answered, pending and missing ones coexist; 3 faults, enough to lose a reply, crash in the resumed run and fail once more; any number of processes |
| `session_resume_validates` (violation) | a resumed validation may succeed without requesting anything | as above, 2 vector sets |
| `offline` | responses reach their own vector sets, downloads are complete, only a passed session is validated, and repeating the stages completes the session | 2 vector sets in either order, 2 faults: a download cut short and one more failure; any number of processes. The safety part also passes with 3 vector sets, and is proved for all |
| `results` | a final verdict, and when an algorithm may go unnamed | 3 vector sets, all assignments of 2 names and a mode, one pair of URLs with a common beginning, 2 rounds: vector sets that fail before and after a wait |
| `kat` | which inputs, answers, buffers and results of which handlers go wrong, and that nothing else does | every way through every handler, one algorithm for each; 2 groups of any features, so that one follows another of any kind; 2 tests, so that one follows a release; 2 Monte Carlo results; a failure at any call |
| `fips_metadata` | objects keep their own vendors and URLs, requests are complete, the verification ends | 2 files (a vendor with two contacts; two vendors for one module) ingested twice, room for 2 dependencies, so that a third meets a full list, 3 calls of the application, 1 missing field or failed request, 2 pages of 2 entries out of 3 vendors, 2 modules, 3 dependencies and 2 OEs that agree in part |
| `fips_pages` (violation) | two of the queries do not follow the server's link to the next page | 2 pages of at most 2 entries, linked as "next" |
| `fips_oe` (violation) | an OE keeps the URL of an earlier verification although a dependency linked since is missing | one file, two verifications |
| `register` | nothing accepted is overlooked or taken back (but hashes of a curve that is set twice, behind another one), nothing refused leaves a trace, building restores | an application that has begun with nothing, with the least a cipher needs (one cipher of every kind), or with more, or with two ciphers of which the second cannot be built; then 2 calls of any setter with any class of value: one that prepares and one that conflicts; any number of builds in between |

Deadlock is not checked where the system may stop: a loop that has returned, a
session that is complete, lost or cancelled, an application out of calls. It is
checked in `transport`, `kat` (a handler that gets stuck would show) and
`register`.

**Properties.** `GivesUpOnTime` and `NoPollFlood` relate the accumulator to the
time really slept and the requests really sent; `Terminates` is their liveness
side. `CallIsAtomic` is the refinement of `AcvpCall`: with up to five exchanges in
one call the request takes effect once, nothing is sent after the effect, and a
successful refresh is not mistaken for a successful request.
`RetryCarriesFreshToken`, `NoRefreshLoop` and `AcceptedIsReported` are about the
token and result handling.
`ImplementsCertification` says that across crashes, lost replies and resumed runs
each vector set is answered once and a validation is requested at most once and
only when all have passed. `SuccessMeansAnswered` and `PutComesLast` are about
what `ACVP_SUCCESS` may be taken to mean; `NeededFileIsKept` about the window in
which the file is broken; `OperationReturns` and `SessionRecovers` about progress.
`ResponsesMatch` is what the match by position in `acvp_upload_vectors_from_file`
relies on: three processes and two files lie between a URL and its response.
`VerdictIsFinal` says that the loop does not conclude while a vector set is open,
and `UnshadowedIsNamed` states exactly what the lists of failing algorithms give.
`OnlyKnownCarryOver`, `OnlyKnownBadAnswers`, `OnlyKnownMemoryFaults` and `ResultMatchesResponse` are those of section 2 for the
handlers. `OwnVendor` is about the id counters after a refused file;
`DependencyUrlIsItsOwn`, `VendorUrlsAgree` and `OeUrlIsItsOwn` say that the URL an
object gets is that of its equal at the server, in spite of what is left from other
candidates and other verifications (a dependency that was overwritten, and an OE to
which something was linked since, keep a URL that may not be theirs; the second is the
finding of `fips_oe`); `FoundIfListed` the reverse; `EveryDependencySent`
that the request tells the server each dependency once; `VerifyReturns` that pages
come to an end, and names the two ways in which a verification does not return.
`SettingsAreRegistered` relates the setters of a family to its builder; `AcceptedKeepsOthers` and `RefusedChangesNothing` are action properties of
a call, measured by what would be registered before and after it; `BuildRestores`
is about the fields the builder overwrites for a while, on success and on failure;
`VsCountCovers` about the number of vector sets the client waits for.

**Fairness.** The client is sequential code whose blocking calls (`sleep`, curl
with its timeout) return: weak fairness of its steps. The server generates and
grades eventually: weak fairness of `Generate` and `Grade`, but nothing bounds how
late, so polling loops do time out. `SessionRecovers` also needs an operator who
keeps resuming (strong fairness of `Resume`, as other operations may come in
between) and faults that are finite in number; these assumptions (`Diligence`) are
its hypothesis. `OperationReturns` rests on the client's fairness only
(`ClientSpec`). `OfflineCompletes` needs the client's fairness and an operator who
repeats each stage (strong fairness of starting it); nothing is assumed of the
server. `VerifyReturns` needs the steps of the verification (weak fairness of
`VerifyNext`), which are sequential code, and a server with a finite number of
pages. The other components have no liveness properties and state no fairness.

**Findings.** Four runs show the code contradicting its own documentation: the
result of a retried DELETE (`acvp_transport.c:1117,1153`), the validation that a
resumed session skips (`acvp.c:1667`, `acvp.h:4621`, `app_cli.c:129`), the
link to the next page, which two of the four metadata queries look for under
another name than the other two (`acvp_operating_env.c:1881`), and the OE that is not
created although a dependency is missing (`acvp_operating_env.c:1227,1257`). Details and
quotations are in `PROJECT.json`. Three more faults have no run of their own; the
properties of the passing runs name them as exceptions:

* the hashes that a curve of an ECDSA signature loses when it is set once more
  (`acvp_build_register.c:1620`, section 2), contrary to the comment at line 1606,
  "If they have different hash algs, a new object is created";
* the verification of a module that was made before its vendor: `acvp_oe_module_new`
  fails but has appended the module (`acvp_operating_env.c:500-516`), and
  `verify_fips_module` reads `ctx->fips.module->vendor->id` through NULL (2429-2431),
  where its comment says "If the attached Vendor is not successfully verified, then
  this function will fail" (2411); `VerifyReturns` has this as the state "crashed";
* a reply without a vector set, which ends the request file of a download that goes on
  and succeeds (`acvp.c:2938`); `ResponsesMatch` and `DownloadIsComplete` say what still
  holds then.

Smaller observations:
the periods of a polling loop may sum to a little more than `ACVP_MAX_WAIT_TIME`
(`acvp.c:2775`; `GivesUpOnTime` bounds it); `acvp_run_vectors_from_file` returns
success for a request file that does not parse (`acvp.c:1046`); a failing
algorithm may go unnamed (`acvp_util.c:1504`, `acvp.c:3209`; `UnshadowedIsNamed`
says when).

## 4. Proofs

All proofs are for every value of the constants, from named assumptions of the
component modules, which TLC also evaluates on the runs. Those on bounds and limits
(`RetryAssumption`, `TransportAssumption`, `SessionAssumption`, `NoVSAssumption`,
`OfflineAssumption`, `ResultsAssumption`, `BoundsAssumption`, `LimitsAssumption`,
`ServerAssumption`) say that they are numbers, or that a value that stands for
nothing is not one of the others. The rest are about data:

* `FilesAssumption` and `EntriesAssumption`: JSON arrays are sequences, and a contact
  the server sends has a URL (the code would fail on one without, `ContactsFail`);
* `TablesAssumption`: what the tables of the handlers have in common (section 2);
* `ContextsAssumption`: an application begins with capabilities that calls could have
  made. Each is of another cipher the library knows (`acvp_cap_list_append` refuses a
  second one); one object of each is made, as `Init` counts one for each; the two
  fields that the builder turns are outside of any nested entry, where the structures
  of the code have them; and each is `WellFormed`: it has only fields that its setters
  set, a field that is assigned has one value in a place (it is one member of a
  structure), and a mode of KDF108 in which something is set is enabled. That calls
  and builds keep it so is not assumed but proved (`RegisterCiphers`,
  `RegisterWellFormed`), and a capability that is enabled in the run begins so;
* `EnabledAssumption`: an application enables ciphers the library knows.

The theorems, and the invariants they need:

* `AcvpRetryProofs`: `RetryTypeCorrect`, `RetryGivesUpOnTime`, `RetryNoPollFlood`.
  The inductive invariant adds that the accumulator equals the time slept (the
  modifier is 1) and, while the loop waits, that one more request is out than
  intervals have passed. The arithmetic is in lemmas on what the handler returns.
* `AcvpTransportProofs`: `TransportTypeCorrect`, `TransportNoRefreshLoop`,
  `TransportRetryFresh`, `TransportAcceptedReported`, and the refinement
  `TransportRefinesCall`. The invariant bounds the exchanges by the step the call
  is at, says that no effect has happened before the last step, and that in the
  second half of a call the token was issued after the one first sent.
  `AcceptedIsReported` needs one thing more: while a call is under way the last
  answer was not an acceptance (`Unaccepted`), so none is left behind.
* `AcvpSessionProofs`: `SessionTypeCorrect`, `SessionSuccessMeansAnswered`,
  `SessionPutComesLast`, `SessionNeededFileIsKept`, and the refinement
  `SessionImplementsCertification`. The properties are not inductive by
  themselves: the next response is a first response only because the list holds
  nothing but unanswered vector sets (`Working`), the next validation is the first
  only because work was left when the operation began, and what a check may
  conclude depends on how the client got there (`Checking`, `Closing`). `IInv` is
  the conjunction of these; there is one lemma per action. `IInv` was checked with
  TLC on the `session` instance before it was proved.
* `AcvpOfflineProofs`: `OfflineTypeCorrect`, `OfflineResponsesMatch`,
  `OfflineDownloadIsComplete`, `OfflineValidatesOnlyPassed`. The heart of the
  invariant is `Aligned`: in both files, at every moment, the entries are a prefix
  of the URLs; `Whole`: all of them once the file is closed, until a reply had no
  vector set; and `Cut`: what a file is after one. Around it the invariant
  says how far the file being written is (`Written`) and that `session_passed` is
  only set at the end of an upload. The lemmas on files come first, then one per
  action.

* `AcvpResultsProofs`: `ResultsVerdictFinal` and `ResultsUnshadowedNamed`, for any
  number of vector sets and rounds. The count of the loop only proves that all are
  graded because it stays behind the index as soon as one is not, and because a
  grade, once given, stays. For the names, the history of a
  failing vector set is followed (`Accounted`): its lookup failed, its algorithm is
  on the list, or one that is taken for it was there first; this holds of all that
  this round has walked over and of those whose URL is on the list from before.
* `AcvpFipsValidationProofs`: `FipsInvariant`, `FipsDependencyUrls`, `FipsVendorUrls`,
  `FipsOwnVendor`, `FipsEveryDependencySent`, `FipsOeUrl` and `FipsFoundIfListed`, for
  any files, any server and all limits. `EnvInv` and `QueryOK` come first: ids are
  those of objects, links and choices never dangle, a query is about an object that
  exists. On them rest four independent invariants. `TmpReset`: which attributes in
  `tmp_dep` are those of the candidate. `VendorInv`: a vendor that is compared has
  no URL yet, so what is written while others are compared is overwritten with the
  URL. `WalkInv`: the status that `acvp_build_validation` reads counts the
  dependencies found so far, and the OE is asked for only when it counts all.
  `PassInv`: what `tmp_dep` still holds is of an earlier entry of the same page.
  What CHOOSE picks (the first object with an id, the first entry that matches) is
  settled by `LeastExists`, a least element of a set of numbers.
* `AcvpKatProofs`: `KatInvariant`, and from it `KatCarryOver`, `KatBadAnswers`,
  `KatMemoryFaults` and `KatResult`, for vector sets of any size and
  every handler whose tables meet `TablesAssumption`. `KatInv` has a conjunct for
  each: what a test case holds of other groups, what
  is known of it on its way to an answer, who owns each JSON value at each step,
  where pointers may be wild, and what is allocated and released at the latest
  where. TLC's part is the tables (finite, and evaluated), the proof's the control.
* `AcvpRegisterProofs`: for any capabilities and any number of calls and builds,
  `RegisterLists`, `RegisterRestores`, `RegisterCounts`, `RegisterCiphers`,
  `RegisterWellFormed`, `RegisterSettings`, `RegisterRefusals` and `RegisterAccepts`.
  * `BuildRestores` is not inductive: between the two objects of a capability a field
    is turned, and hashes may have been merged into curves. `RestoreInv` says that such
    a capability, turned back, is registered as the one the builder began with; the
    lemmas show that turning and merging commute and that merging twice, or before
    turning, changes no object.
  * `VsCountCovers` needs that a call which makes a capability one of two objects is
    counted (`TurningCounts`, over the rows of the setters of these ciphers), that
    `vs_count` covers the list with which the builder began (`CountInv`), and how many
    objects there may be before each capability (`RegInv`).
  * The other three compare the rows of every setter with the builder of its family.
    First, which setters and which builder a cipher has: a lemma for each of the
    families (`SymKind` to `LmsKind`), as the alternatives must be shown to exclude each
    other. Then, what their rows do, by predicates that the tables and their variants
    preserve: a row is `Tame` (it only sets its field), `Gentle` (it may also make
    entries or leave something), `Inert` (it takes nothing), `Naming` (RSA's first
    entry) or `Replacing` (a scheme of KAS). So every cipher is `Orderly`
    (`AllOrdered`): each of its fields is either assigned or collected, never both.
    From that, and `Single` (an assigned field has one value in a place, part of
    `WellInv`), an accepted call only `Swaps`: what it takes away is the former value of
    the field it sets, or in a scheme of KAS that is replaced.
  * `RefusedChangesNothing`: outside of `EntryFirst` a refused call leaves at most the
    empty list of prerequisites (`RefusedAlike`), and no builder and no check for
    completeness reads that (`Builds`).
  * `SettingsAreRegistered` needs that a capability holds only fields that its setters
    name (`FieldsFit`, part of `WellInv`), and then that each builder of `Plain` sends
    all of these; in ECDSA a hash for all curves is sent with each, merged, and all
    that the builder may overlook are hashes of a curve that was set once more
    that is not the first (`OverlookedHashes`).
  * `AcceptedKeepsOthers`: builders that look at no other field keep what they send
    (`SteadyKeeps`). For those that do, the field that decides either has not changed,
    or it has, and rules the one that is gone (RSA, X9.42, HKDF, KDF108), or the setter
    bars the change: a length is not listed beside its range (`SymGuarded`). Where two
    objects are made, the field that is turned decides of nothing else (`EcdsaRest`,
    `SymRest`).

All inductive invariants were checked with TLC on the instances of the runs before
they were proved.

Only model-checked: the liveness properties `Terminates`, `OperationReturns`,
`SessionRecovers`, `OfflineCompletes` and `VerifyReturns` (fairness and ENABLED are
beyond the prover). Every invariant, every action property and both refinements of
the passing runs are also proved.

## 5. Plan

Done: all components of section 2, and the proofs of section 4. What would come next:
the metadata files and expected results of section 6, once more than one call is
between reading and writing them; and the numbers behind the classes of values, such
as the increment of a range.

## 6. Not modelled

Allocation failures, except in the KAT handlers; string lengths and formatting;
HTTP headers, user agent and logging; `parson.c`, `murl`, `safe_c_stub`
(third-party or wrappers); the contents of test vectors and the crypto
callbacks of the example application, which call OpenSSL; the `ACVP_DEPRECATED`
and `ACVP_OFFLINE` builds. Two processes on one session at the same time.
`acvp_get_expected_results`, `acvp_put_data_from_file`, `acvp_post_data` and the
GET, POST and DELETE modes of `acvp_run` make one network call, or one per vector
set, between reading and writing a file; `AcvpTransport` models the call, and
nothing is kept from one to the next. Which algorithms the example application enables is one of the uses of
`AcvpRegister`. The utilities are modelled with the components that use them.
