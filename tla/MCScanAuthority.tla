-------------------------- MODULE MCScanAuthority --------------------------
(* A model-checking instance of ScanAuthority. *)
EXTENDS ScanAuthority, TLC

CONSTANTS o1, o2, p1, p2, g1, g2

MCBodies == {{o1}, {o1, o2}}
(* A new generation of the worker with the same policy, and one with a     *)
(* policy revision that no longer represents o2.                           *)
MCFirstImage == [gen |-> g1, policy |-> p1]
MCImages == {MCFirstImage, [gen |-> g2, policy |-> p1], [gen |-> g2, policy |-> p2]}
MCRepresented == [p \in {p1, p2} |-> IF p = p1 THEN {o1, o2} ELSE {o1}]

Symmetry == Permutations(Calls) \cup Permutations(ApprovalKeys) \cup Permutations(Sessions)
              \cup Permutations(Threads) \cup Permutations(Assets)
=============================================================================
