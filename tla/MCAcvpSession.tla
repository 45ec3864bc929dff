--------------------------- MODULE MCAcvpSession ---------------------------
(* Vector sets are model values: three, so that some can be answered, some *)
(* pending and some missing at once.                                       *)
EXTENDS AcvpSession
=============================================================================
