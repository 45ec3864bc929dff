----------------------------- MODULE AcvpRetry -----------------------------
(***************************************************************************)
(* The polling loops of libacvp and the retry handler they share           *)
(* (src/src/acvp.c, acvp_retry_handler).                                   *)
(*                                                                         *)
(* Two loops call the handler.  acvp_process_vsid polls for a vector set   *)
(* that the server is still generating and re-reads the server's "retry"   *)
(* value every time; acvp_get_result_test_session polls for the results    *)
(* and keeps its own interval from one round to the next.  Both start a    *)
(* fresh accumulator, both pass the modifier 1.                            *)
(*                                                                         *)
(* Time is in seconds.  `slept' and `polls' are history variables: the     *)
(* seconds really handed to acvp_sleep and the requests really sent.       *)
(***************************************************************************)
EXTENDS Integers

CONSTANTS
    MaxWait,        \* ACVP_MAX_WAIT_TIME
    RetryMin,       \* ACVP_RETRY_TIME_MIN
    RetryMax,       \* ACVP_RETRY_TIME_MAX
    RetryTime,      \* ACVP_RETRY_TIME, the first interval of the results loop
    ModifierMax,    \* ACVP_RETRY_MODIFIER_MAX
    UIntMod,        \* 2^32: *waited_so_far + *retry_period is unsigned
    ServerRetry     \* the "retry" values a server may send, any non-zero int

ASSUME RetryAssumption ==
    /\ MaxWait \in Nat /\ RetryMin \in Nat /\ RetryMax \in Nat
    /\ RetryTime \in Nat /\ ModifierMax \in Nat /\ UIntMod \in Nat
    /\ RetryMin < RetryMax /\ ModifierMax >= 1 /\ UIntMod > 0
    /\ ServerRetry \subseteq Int \ {0}

VARIABLES
    pc,             \* "poll", "wait" (the handler runs next) or "done"
    caller,         \* "tests": acvp_process_vsid, "results": the results loop
    retry_period,   \* the caller's retry_period / retry_interval
    waited,         \* the caller's time_waited_so_far
    slept,          \* history: seconds slept
    polls,          \* history: requests sent
    rv              \* what the loop returns

vars == <<pc, caller, retry_period, waited, slept, polls, rv>>

----------------------------------------------------------------------------
(* The handler, assignment by assignment. *)

\* A period that would pass the limit is cut to what is left of it.
CutToRemaining(p, w) ==
    IF (w + p) % UIntMod > MaxWait THEN MaxWait - w ELSE p

\* A period outside (MIN, MAX] is replaced by MAX.
ShortRangeMutant(p) == IF p <= 0 \/ p > RetryMax THEN RetryMax ELSE p

InRange(p) == IF p <= RetryMin \/ p > RetryMax THEN RetryMax ELSE p

\* The caller's backoff, capped at MAX; an invalid modifier counts as 1.
Backoff(p, modifier) ==
    LET q == p * (IF modifier \in 1..ModifierMax THEN modifier ELSE 1)
    IN  IF q > RetryMax THEN RetryMax ELSE q

\* What one call does: the new period and accumulator, the seconds slept
\* (before the backoff is applied) and whether the caller may retry.
GiveUp(p, w) ==
    [retry |-> FALSE, period |-> p, waited |-> w, sleep |-> 0]

RequestedPeriodMutant(p, w, modifier) ==
    LET s == InRange(CutToRemaining(p, w))
    IN  IF w >= MaxWait
        THEN GiveUp(p, w)
        ELSE [retry |-> TRUE, period |-> s, waited |-> w + p, sleep |-> s]

EarlyHandlerMutant(p, w, modifier) ==
    LET s == InRange(p)
    IN  IF w + s >= MaxWait
        THEN GiveUp(p, w)
        ELSE [retry |-> TRUE, period |-> s, waited |-> w + s, sleep |-> s]

RetryHandler(p, w, modifier) ==
    IF w >= MaxWait
    THEN GiveUp(p, w)
    ELSE LET s == InRange(CutToRemaining(p, w))
             b == Backoff(s, modifier)
         IN  [retry |-> TRUE, period |-> b, waited |-> w + b, sleep |-> s]

----------------------------------------------------------------------------
(* The loops around it. *)

Init ==
    /\ pc = "poll"
    /\ caller \in {"tests", "results"}
    /\ retry_period = IF caller = "results" THEN RetryTime ELSE 0
    /\ waited = 0
    /\ slept = 0
    /\ polls = 0
    /\ rv = "none"

Finish(result) ==
    /\ pc' = "done"
    /\ rv' = result

\* The request fails in the transport, or its reply does not parse.
PollFails ==
    /\ pc = "poll"
    /\ polls' = polls + 1
    /\ Finish("ERROR")
    /\ UNCHANGED <<caller, retry_period, waited, slept>>

\* The vector set, or the complete results, have arrived.
PollReady ==
    /\ pc = "poll"
    /\ polls' = polls + 1
    /\ retry_period' = IF caller = "tests" THEN 0 ELSE retry_period
    /\ Finish("SUCCESS")
    /\ UNCHANGED <<caller, waited, slept>>

\* Not yet: a vector set reply carries the server's own retry period.
PollNotReady ==
    /\ pc = "poll"
    /\ polls' = polls + 1
    /\ pc' = "wait"
    /\ IF caller = "tests"
       THEN retry_period' \in ServerRetry
       ELSE retry_period' = retry_period
    /\ UNCHANGED <<caller, waited, slept, rv>>

\* acvp_retry_handler returned ACVP_KAT_DOWNLOAD_RETRY.
Wait ==
    LET h == RetryHandler(retry_period, waited, 1)
    IN  /\ pc = "wait"
        /\ h.retry
        /\ pc' = "poll"
        /\ retry_period' = h.period
        /\ waited' = h.waited
        /\ slept' = slept + h.sleep
        /\ UNCHANGED <<caller, polls, rv>>

\* acvp_retry_handler returned ACVP_TRANSPORT_FAIL.
ExactLimitMutant ==
    /\ pc = "wait"
    /\ waited = MaxWait
    /\ Finish("TRANSPORT_FAIL")
    /\ UNCHANGED <<caller, retry_period, waited, slept, polls>>

MaxWaitReached ==
    /\ pc = "wait"
    /\ ~RetryHandler(retry_period, waited, 1).retry
    /\ Finish("TRANSPORT_FAIL")
    /\ UNCHANGED <<caller, retry_period, waited, slept, polls>>

Next == PollFails \/ PollReady \/ PollNotReady \/ Wait \/ MaxWaitReached

\* The loop is sequential code that blocks only in sleep() and in curl, both
\* of which return: it never just stops.
Spec == Init /\ [][Next]_vars /\ WF_vars(Next)

----------------------------------------------------------------------------
(* Properties *)

\* Every variable keeps its C type; in particular the accumulator never goes
\* below zero although the server's period is a signed number.
TypeOK ==
    /\ pc \in {"poll", "wait", "done"}
    /\ caller \in {"tests", "results"}
    /\ retry_period \in Int
    /\ waited \in Nat
    /\ slept \in Nat
    /\ polls \in Nat
    /\ rv \in {"none", "SUCCESS", "ERROR", "TRANSPORT_FAIL"}

\* The loop never sleeps MaxWait + RetryMax seconds or more, whatever the
\* server sends, and it never gives up before it has slept MaxWait.
GivesUpOnTime ==
    /\ slept < MaxWait + RetryMax
    /\ rv = "TRANSPORT_FAIL" => slept >= MaxWait

\* Two requests are always more than RetryMin seconds apart, so a server that
\* asks for a period of 1, 0 or -1 second cannot turn the loop into a flood.
NoPollFlood ==
    polls * (RetryMin + 1) <= slept + RetryMin + 1

\* Whatever the server answers, the loop ends.
Terminates == <>(pc = "done")
=============================================================================
