------------------------------ MODULE AcvpCall ------------------------------
(***************************************************************************)
(* What a network call of libacvp promises to the code that makes it: the  *)
(* request takes effect at the server at most once, a call that reports    *)
(* success did take effect, and a call never goes on to do anything after  *)
(* its effect: the step that applies the request also ends the call.  A    *)
(* call that reports a failure may or may not have taken effect (a reply   *)
(* can be lost).  AcvpTransport implements this specification, and         *)
(* AcvpSession makes its calls according to it.                            *)
(***************************************************************************)
EXTENDS Naturals

VARIABLES
    call,       \* "idle", "pending", "ok" or "failed"
    effects     \* times the server has applied the current call's request

callVars == <<call, effects>>

Init ==
    /\ call = "idle"
    /\ effects = 0

\* The client starts a call.
Start ==
    /\ call = "idle"
    /\ call' = "pending"
    /\ effects' = 0

\* The server applies the request; the client learns of it, or does not.
Apply ==
    /\ call = "pending"
    /\ effects = 0
    /\ effects' = 1
    /\ call' \in {"ok", "failed"}

\* The call ends without any effect.
Refuse ==
    /\ call = "pending"
    /\ call' = "failed"
    /\ UNCHANGED effects

\* The caller takes the result and goes on.
Return ==
    /\ call \in {"ok", "failed"}
    /\ call' = "idle"
    /\ UNCHANGED effects

Next == Start \/ Apply \/ Refuse \/ Return

Spec == Init /\ [][Next]_callVars
=============================================================================
