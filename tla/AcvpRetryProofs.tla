-------------------------- MODULE AcvpRetryProofs --------------------------
(***************************************************************************)
(* Proofs about the polling loops for every limit and every server.        *)
(*                                                                         *)
(* The key fact is that a period the handler sleeps is always in           *)
(* (RetryMin, RetryMax], whatever the server sent and however the unsigned *)
(* sum wrapped.  With it the accumulator and the seconds really slept stay *)
(* equal, at most one period is started below MaxWait, and the requests    *)
(* are paid for with sleep.                                                *)
(***************************************************************************)
EXTENDS AcvpRetry, TLAPS

\* A period that leaves the range check is inside the range.
LEMMA InRangeBounds ==
    ASSUME NEW p \in Int
    PROVE  /\ InRange(p) \in Int
           /\ RetryMin < InRange(p)
           /\ InRange(p) <= RetryMax
BY RetryAssumption DEF InRange

\* With the modifier 1 both callers pass, an in-range period stays as it is.
LEMMA BackoffByOne ==
    ASSUME NEW p \in Int, p <= RetryMax
    PROVE  Backoff(p, 1) = p
<1>1. 1 \in 1..ModifierMax
  BY RetryAssumption
<1>2. p * 1 = p
  OBVIOUS
<1> QED
  BY <1>1, <1>2, RetryAssumption DEF Backoff

\* One call of the handler below the limit sleeps a period in the range and
\* adds exactly that period to the accumulator.
LEMMA HandlerRetries ==
    ASSUME NEW p \in Int, NEW w \in Nat, w < MaxWait
    PROVE  /\ RetryHandler(p, w, 1).retry
           /\ RetryHandler(p, w, 1).sleep \in Int
           /\ RetryMin < RetryHandler(p, w, 1).sleep
           /\ RetryHandler(p, w, 1).sleep <= RetryMax
           /\ RetryHandler(p, w, 1).period = RetryHandler(p, w, 1).sleep
           /\ RetryHandler(p, w, 1).waited = w + RetryHandler(p, w, 1).sleep
<1> DEFINE c == CutToRemaining(p, w)
           s == InRange(c)
<1>1. c \in Int
  BY RetryAssumption DEF CutToRemaining
<1>2. s \in Int /\ RetryMin < s /\ s <= RetryMax
  BY <1>1, InRangeBounds
<1>3. Backoff(s, 1) = s
  BY <1>2, BackoffByOne
<1>4. ~(w >= MaxWait)
  BY RetryAssumption
<1>5. RetryHandler(p, w, 1) =
        [retry |-> TRUE, period |-> s, waited |-> w + s, sleep |-> s]
  BY <1>3, <1>4 DEF RetryHandler
<1> HIDE DEF c, s
<1> QED
  BY <1>2, <1>5

\* At the limit the handler refuses.
LEMMA HandlerRefuses ==
    ASSUME NEW p \in Int, NEW w \in Nat, w >= MaxWait
    PROVE  ~RetryHandler(p, w, 1).retry
BY DEF RetryHandler, GiveUp

----------------------------------------------------------------------------
\* The inductive invariant: the two properties, the equality of the time
\* accounted for and the time slept, and, before a request is sent, the
\* sleep that pays for it.
RetryInv ==
    /\ TypeOK
    /\ waited = slept
    /\ GivesUpOnTime
    /\ (polls - 1) * (RetryMin + 1) <= slept
    /\ pc = "poll" => polls * (RetryMin + 1) <= slept

\* The initial states satisfy the invariant.
LEMMA RetryInvInit == Init => RetryInv
<1> SUFFICES ASSUME Init PROVE RetryInv
  OBVIOUS
<1>1. TypeOK
  BY RetryAssumption DEF Init, TypeOK
<1>2. 0 * (RetryMin + 1) = 0 /\ (0 - 1) * (RetryMin + 1) <= 0
  BY RetryAssumption
<1> QED
  BY <1>1, <1>2, RetryAssumption DEF Init, RetryInv, GivesUpOnTime

\* A request is only sent when the invariant says it has been paid for.
LEMMA PollKeepsInv ==
    ASSUME RetryInv, PollFails \/ PollReady \/ PollNotReady
    PROVE  RetryInv'
<1> USE RetryAssumption
<1>1. pc = "poll" /\ polls' = polls + 1 /\ waited' = waited /\ slept' = slept
      /\ caller' = caller
  BY DEF PollFails, PollReady, PollNotReady
<1>2. pc' # "poll" /\ (rv' = "TRANSPORT_FAIL" => rv = "TRANSPORT_FAIL")
  BY DEF PollFails, PollReady, PollNotReady, Finish
<1>3. TypeOK'
  <2>1. polls' \in Nat
    BY <1>1 DEF RetryInv, TypeOK
  <2>2. CASE PollFails
    BY <1>1, <2>1, <2>2 DEF PollFails, Finish, RetryInv, TypeOK
  <2>3. CASE PollReady
    BY <1>1, <2>1, <2>3 DEF PollReady, Finish, RetryInv, TypeOK
  <2>4. CASE PollNotReady
    BY <1>1, <2>1, <2>4 DEF PollNotReady, RetryInv, TypeOK
  <2> QED
    BY <2>2, <2>3, <2>4
<1>4. polls' - 1 = polls
  BY <1>1 DEF RetryInv, TypeOK
<1>5. (polls' - 1) * (RetryMin + 1) <= slept'
  BY <1>1, <1>4 DEF RetryInv
<1>6. GivesUpOnTime' /\ waited' = slept'
  BY <1>1, <1>2 DEF RetryInv, GivesUpOnTime
<1> QED
  BY <1>2, <1>3, <1>5, <1>6 DEF RetryInv

\* A wait adds one in-range period to both totals.
LEMMA WaitKeepsInv ==
    ASSUME RetryInv, Wait
    PROVE  RetryInv'
<1> USE RetryAssumption
<1> DEFINE h == RetryHandler(retry_period, waited, 1)
<1>1. retry_period \in Int /\ waited \in Nat /\ slept \in Nat /\ polls \in Nat
  BY DEF RetryInv, TypeOK
<1>2. pc = "wait" /\ h.retry
  BY DEF Wait
<1>3. waited < MaxWait
  <2> SUFFICES ASSUME waited >= MaxWait PROVE FALSE
    BY <1>1
  <2> QED
    BY <1>1, <1>2, HandlerRefuses
<1>4. /\ h.sleep \in Int /\ RetryMin < h.sleep /\ h.sleep <= RetryMax
      /\ h.period = h.sleep /\ h.waited = waited + h.sleep
  BY <1>1, <1>3, HandlerRetries
<1>5. /\ pc' = "poll" /\ retry_period' = h.period /\ waited' = h.waited
      /\ slept' = slept + h.sleep /\ polls' = polls /\ rv' = rv
      /\ caller' = caller
  BY DEF Wait
<1> HIDE DEF h
<1>6. TypeOK'
  BY <1>1, <1>4, <1>5 DEF RetryInv, TypeOK
<1>7. (waited = slept)'
  BY <1>1, <1>4, <1>5 DEF RetryInv
<1>8. GivesUpOnTime'
  BY <1>1, <1>3, <1>4, <1>5 DEF RetryInv, GivesUpOnTime
<1>9. polls * (RetryMin + 1) = (polls - 1) * (RetryMin + 1) + (RetryMin + 1)
  BY <1>1
<1>10. polls * (RetryMin + 1) \in Int /\ (polls - 1) * (RetryMin + 1) \in Int
  BY <1>1
<1>11. polls' * (RetryMin + 1) <= slept'
  BY <1>1, <1>4, <1>5, <1>9, <1>10 DEF RetryInv
<1>12. (polls' - 1) * (RetryMin + 1) <= slept'
  BY <1>1, <1>4, <1>5, <1>9, <1>10, <1>11 DEF RetryInv
<1> QED
  BY <1>6, <1>7, <1>8, <1>11, <1>12 DEF RetryInv

\* The loop gives up only when the handler refused, at the limit.
LEMMA GiveUpKeepsInv ==
    ASSUME RetryInv, MaxWaitReached
    PROVE  RetryInv'
<1> USE RetryAssumption
<1>1. retry_period \in Int /\ waited \in Nat
  BY DEF RetryInv, TypeOK
<1>2. waited >= MaxWait
  <2> SUFFICES ASSUME waited < MaxWait PROVE FALSE
    BY <1>1
  <2>1. ~RetryHandler(retry_period, waited, 1).retry
    BY DEF MaxWaitReached
  <2> QED
    BY <1>1, <2>1, HandlerRetries
<1>3. /\ pc' = "done" /\ rv' = "TRANSPORT_FAIL"
      /\ UNCHANGED <<caller, retry_period, waited, slept, polls>>
  BY DEF MaxWaitReached, Finish
<1> QED
  BY <1>2, <1>3 DEF RetryInv, TypeOK, GivesUpOnTime

\* The invariant holds in every reachable state.
THEOREM RetryInvariant == Spec => []RetryInv
<1>1. RetryInv /\ [Next]_vars => RetryInv'
  <2> SUFFICES ASSUME RetryInv, [Next]_vars PROVE RetryInv'
    OBVIOUS
  <2>1. CASE PollFails \/ PollReady \/ PollNotReady
    BY <2>1, PollKeepsInv
  <2>2. CASE Wait
    BY <2>2, WaitKeepsInv
  <2>3. CASE MaxWaitReached
    BY <2>3, GiveUpKeepsInv
  <2>4. CASE UNCHANGED vars
    BY <2>4 DEF vars, RetryInv, TypeOK, GivesUpOnTime
  <2> QED
    BY <2>1, <2>2, <2>3, <2>4 DEF Next
<1> QED
  BY <1>1, RetryInvInit, PTL DEF Spec

\* Type correctness of the polling loops, for every server and every limit.
THEOREM RetryTypeCorrect == Spec => []TypeOK
<1>1. RetryInv => TypeOK
  BY DEF RetryInv
<1> QED
  BY <1>1, RetryInvariant, PTL

\* For every limit and every sequence of server answers the time slept stays
\* below MaxWait + RetryMax, and the loop gives up no earlier than MaxWait.
THEOREM RetryGivesUpOnTime == Spec => []GivesUpOnTime
<1>1. RetryInv => GivesUpOnTime
  BY DEF RetryInv
<1> QED
  BY <1>1, RetryInvariant, PTL

\* Every request after the first is preceded by more than RetryMin seconds of
\* sleep, however small or negative the periods the server asks for.
THEOREM RetryNoPollFlood == Spec => []NoPollFlood
<1>1. RetryInv => NoPollFlood
  <2> SUFFICES ASSUME RetryInv PROVE NoPollFlood
    OBVIOUS
  <2>1. slept \in Nat /\ polls \in Nat /\ RetryMin \in Nat
    BY RetryAssumption DEF RetryInv, TypeOK
  <2>2. polls * (RetryMin + 1) = (polls - 1) * (RetryMin + 1) + (RetryMin + 1)
    BY <2>1
  <2>3. polls * (RetryMin + 1) \in Int /\ (polls - 1) * (RetryMin + 1) \in Int
    BY <2>1
  <2> QED
    BY <2>1, <2>2, <2>3 DEF RetryInv, NoPollFlood
<1> QED
  BY <1>1, RetryInvariant, PTL
=============================================================================
