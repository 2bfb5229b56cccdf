----------------------------- MODULE MCIdentity -----------------------------
(***************************************************************************)
(* The finite instance of Identity that TLC checks.                        *)
(***************************************************************************)
EXTENDS Identity, TLC

\* Processes, users, tokens and keys are interchangeable; the two tenants are
\* not, since one of them is the bootstrap's.
Interchangeable ==
    Permutations(Procs) \cup Permutations(Users)
        \cup Permutations(Tokens) \cup Permutations(Keys)

=============================================================================
