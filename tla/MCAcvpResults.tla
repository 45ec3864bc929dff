---------------------------- MODULE MCAcvpResults ----------------------------
(* All assignments of two algorithm names and of modes to three vector     *)
(* sets, and URLs of which one begins another, as those of vector sets 12  *)
(* and 123 do.                                                             *)
EXTENDS AcvpResults

UrlPrefixes == {<<"vs12", "vs123">>}
SomeUrls == {"vs12", "vs123", "vs4"}
=============================================================================
