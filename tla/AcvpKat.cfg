SPECIFICATION Spec
CONSTANTS
  Algs <- KatAlgs
  Kinds <- alg_kinds
  Table <- alg_tbl
  Leaves <- alg_leaves
  Groups = 2
  Tests = 2
  Outer = 2
INVARIANTS
  OnlyKnownCarryOver
  OnlyKnownBadAnswers
  ResultMatchesResponse
  OnlyKnownMemoryFaults
