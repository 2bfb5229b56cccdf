------------------------ MODULE MCExecutionLifecycle ------------------------
(* Model-checking instances of ExecutionLifecycle and TerminalReplay. *)
EXTENDS TerminalReplay, TLC

Symmetry == Permutations(Workers) \cup Permutations(Reapers) \cup Permutations(Cancellers)
=============================================================================
