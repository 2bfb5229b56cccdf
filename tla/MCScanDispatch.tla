--------------------------- MODULE MCScanDispatch ---------------------------
(* Model-checking instances of ScanDispatch. *)
EXTENDS ScanDispatch, TLC

Symmetry == Permutations(Workers) \cup Permutations(Apis) \cup Permutations(Operators)
=============================================================================
