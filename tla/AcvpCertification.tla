------------------------- MODULE AcvpCertification -------------------------
(***************************************************************************)
(* What a test session is for, seen from the server: every vector set gets *)
(* one response, which is graded once, and a certificate is requested for  *)
(* the session at most once and only when every vector set has passed.     *)
(* AcvpSession, with its crashes, lost replies and resumed runs, is shown  *)
(* to implement this.                                                      *)
(***************************************************************************)
EXTENDS Naturals

CONSTANT VectorSets

VARIABLES
    status,     \* the status of each vector set, as /results reports it
    requests    \* validation requests the server has accepted

certVars == <<status, requests>>

Init ==
    /\ status = [v \in VectorSets |-> "unreceived"]
    /\ requests = 0

\* The first and only response to v arrives.
Receive(v) ==
    /\ status[v] = "unreceived"
    /\ status' = [status EXCEPT ![v] = "incomplete"]
    /\ UNCHANGED requests

\* The server grades it.
Grade(v) ==
    /\ status[v] = "incomplete"
    /\ \E s \in {"passed", "fail"} : status' = [status EXCEPT ![v] = s]
    /\ UNCHANGED requests

\* No response arrived in time.
Lapse(v) ==
    /\ status[v] = "unreceived"
    /\ status' = [status EXCEPT ![v] = "expired"]
    /\ UNCHANGED requests

\* The certificate is requested.
Certify ==
    /\ \A v \in VectorSets : status[v] = "passed"
    /\ requests = 0
    /\ requests' = 1
    /\ UNCHANGED status

Next ==
    \/ \E v \in VectorSets : Receive(v) \/ Grade(v) \/ Lapse(v)
    \/ Certify

Spec == Init /\ [][Next]_certVars
=============================================================================
