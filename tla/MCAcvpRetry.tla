---------------------------- MODULE MCAcvpRetry ----------------------------
(* AcvpRetry with the library's own limits (acvp_lcl.h, lines 895-901).    *)
(* UIntMod is 2^16 instead of 2^32, which TLC's integers cannot hold: no   *)
(* sum of the model comes near either.                                     *)
EXTENDS AcvpRetry

MCServerRetry == {-1, 5, 120, 299, 301}
MCServerRetryNearEnd == {295, 300}
=============================================================================
