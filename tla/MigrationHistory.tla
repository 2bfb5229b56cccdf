-------------------------- MODULE MigrationHistory --------------------------
(***************************************************************************)
(* What the migration ledger promises: the schema version rises one step   *)
(* at a time, only inside an attempt announced for exactly that step, and  *)
(* an attempt that ends without an outcome freezes the version until an    *)
(* operator has resolved it.                                               *)
(***************************************************************************)
EXTENDS Naturals

VARIABLES
    level,    \* the versions 1 .. level are applied
    open,     \* the version that an attempt is applying, 0 if none
    blocked   \* an attempt without an outcome is on record

history == <<level, open, blocked>>

Init == level \in Nat /\ open = 0 /\ blocked = FALSE

Start   == open = 0 /\ ~blocked /\ open' = level + 1 /\ UNCHANGED <<level, blocked>>
Advance == open = level + 1 /\ level' = open /\ UNCHANGED <<open, blocked>>
Succeed == open # 0 /\ open = level /\ open' = 0 /\ UNCHANGED <<level, blocked>>
Abandon == open # 0 /\ open' = 0 /\ blocked' = TRUE /\ UNCHANGED level
Resolve == blocked /\ open = 0 /\ blocked' = FALSE /\ UNCHANGED <<level, open>>

Next == Start \/ Advance \/ Succeed \/ Abandon \/ Resolve

Spec == Init /\ [][Next]_history
=============================================================================
