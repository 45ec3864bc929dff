---------------------------- MODULE MCAcvpOffline ----------------------------
(* The server may list the vector sets in any order, and in another one    *)
(* when the download is resumed.  Two vector sets are enough for a file to *)
(* be cut short between them and for their order to be exchanged.          *)
EXTENDS AcvpOffline, FiniteSets

AnyOrder == {s \in [1..Cardinality(VectorSets) -> VectorSets] :
                \A i, j \in 1..Cardinality(VectorSets) : s[i] = s[j] => i = j}
=============================================================================
