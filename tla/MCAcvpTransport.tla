-------------------------- MODULE MCAcvpTransport --------------------------
(* All actions, and a server that issues up to three tokens: one for the   *)
(* login, one for a refresh in the next call and one for a refresh after.  *)
EXTENDS AcvpTransport

MCDelete == {"LOGIN", "DELETE"}
=============================================================================
