------------------------ MODULE ExecutionStoreProofs ------------------------
(***************************************************************************)
(* Every transaction of the execution store keeps the rows well typed and  *)
(* in agreement (StoreOK), never touches a closed run, and never replaces  *)
(* an identity (StoreStable).  The preconditions of a lemma that are not   *)
(* guards of the transaction are obligations of its callers; the module    *)
(* ExecutionLifecycleProofs discharges them.                               *)
(***************************************************************************)
EXTENDS ExecutionStore, TLAPS

StoreOK == StoreTypeOK /\ StoreInv

(* What no transaction may undo. *)
StoreStable ==
    /\ run \in TerminalStates => UNCHANGED <<runVars, dispatchVars, ownershipVars>>
    /\ ~AuthorityValid /\ run' # run =>
          run' \notin {"STARTING", "RUNNING", "SUCCEEDED", "PARTIAL_RESULTS_WITH_WARNING"}
    /\ root # NoOne => UNCHANGED <<root, identity>>
    /\ request = "REVOKED" => request' = "REVOKED"
    /\ recovery.attempt <= recovery'.attempt

(* A valid terminal outcome carries a known reason. *)
LEMMA OutcomeReason ==
    ASSUME NEW state, NEW why, ValidOutcome(state, why)
    PROVE  state \in TerminalStates /\ why \in Reasons
BY DEF ValidOutcome, Reasons

(* The reasons that a transaction writes on its own account are known. *)
LEMMA LiteralReasons ==
    {"EXECUTION_CANCELLED_BEFORE_DISPATCH", "PROCESS_LAUNCH_UNCERTAIN"} \subseteq Reasons
<1>1. "EXECUTION_CANCELLED_BEFORE_DISPATCH" \in ReasonCodes["CANCELLED"]
  BY DEF ReasonCodes
<1>2. "PROCESS_LAUNCH_UNCERTAIN" \in ReasonCodes["FAILED"]
  BY DEF ReasonCodes
<1>3. "CANCELLED" \in TerminalStates /\ "FAILED" \in TerminalStates
  BY DEF TerminalStates
<1> QED BY <1>1, <1>2, <1>3 DEF Reasons

(* The attempt counter stays within max_recovery_attempts and never falls. *)
LEMMA AttemptCounter ==
    ASSUME NEW n \in 0 .. MaxAttempts
    PROVE  /\ NextAttempt(n) \in 0 .. MaxAttempts
           /\ n <= NextAttempt(n)
           /\ \A m \in 0 .. n : m + 1 >= MaxAttempts => NextAttempt(n) = MaxAttempts
BY StoreAssumption DEF NextAttempt

(* A terminal state closes the dispatch, so that no claim can follow.      *)
LEMMA DispatchCloses ==
    ASSUME NEW state \in TerminalStates
    PROVE  TerminalDispatch(state) \in {"COMPLETED", "FAILED", "BLOCKED"}
BY DEF TerminalStates, TerminalDispatch

(* The initial recovery row and the one approval inserts. *)
LEMMA NewRecoveryRow ==
    /\ NoRecovery \in RecoveryRows
    /\ NoRecovery.status = "NONE" /\ NoRecovery.attempt = 0
    /\ [NoRecovery EXCEPT !.status = "REQUESTED", !.due = TRUE] \in RecoveryRows
<1>1. 0 \in 0 .. MaxAttempts
  BY StoreAssumption
<1> QED BY <1>1 DEF NoRecovery, RecoveryRows

-----------------------------------------------------------------------------
(* create_execution_request leaves consistent rows. *)
LEMMA InitStore == StoreInit => StoreOK
<1> SUFFICES ASSUME StoreInit PROVE StoreTypeOK /\ StoreInv
  BY DEF StoreOK
<1>1. StoreTypeOK
  BY NewRecoveryRow DEF StoreInit, StoreTypeOK, OwnershipStates
<1>2. StoreInv
  BY NewRecoveryRow DEF StoreInit, StoreInv, Attached, Uncertain, TerminalStates
<1> QED BY <1>1, <1>2

(* approve_execution_request *)
LEMMA ApproveStore ==
    ASSUME StoreOK, ApproveExecutionRequest PROVE StoreOK' /\ StoreStable
<1> DEFINE row == [NoRecovery EXCEPT !.status = "REQUESTED", !.due = TRUE]
<1>1. row.status = "REQUESTED" /\ row.attempt = 0 /\ row.due = TRUE
  BY DEF NoRecovery
<1>2. run = "NONE" /\ dispatch = "NONE" /\ ownership = "NONE" /\ root = NoOne
  BY DEF StoreOK, StoreInv, ApproveExecutionRequest
<1>3. StoreTypeOK'
  BY NewRecoveryRow DEF ApproveExecutionRequest, StoreOK, StoreTypeOK, OwnershipStates, Active
<1>4. StoreInv'
  BY <1>1, <1>2 DEF ApproveExecutionRequest, StoreOK, StoreInv, Attached, Uncertain,
     TerminalStates
<1>5. StoreStable
  BY <1>1, <1>2 DEF ApproveExecutionRequest, StoreOK, StoreInv, StoreStable,
     TerminalStates
<1> QED BY <1>3, <1>4, <1>5 DEF StoreOK

(* A refused call, or a database error. *)
LEMMA UnchangedStore ==
    ASSUME StoreOK, UNCHANGED storeVars PROVE StoreOK' /\ StoreStable
<1>1. recovery.attempt <= recovery.attempt
  BY DEF StoreOK, StoreTypeOK, RecoveryRows
<1>2. StoreTypeOK'
  BY DEF StoreOK, StoreTypeOK, storeVars, authorityVars, runVars, dispatchVars, ownershipVars
<1>3. StoreInv'
  BY DEF StoreOK, StoreInv, storeVars, authorityVars, runVars, dispatchVars, ownershipVars
<1> QED
  BY <1>1, <1>2, <1>3 DEF StoreOK, StoreStable, storeVars, authorityVars, runVars,
     dispatchVars, ownershipVars

(* revoke_execution_request *)
LEMMA RevokeStore ==
    ASSUME StoreOK, RevokeExecutionRequest PROVE StoreOK' /\ StoreStable
<1>1. recovery.attempt <= recovery.attempt
  BY DEF StoreOK, StoreTypeOK, RecoveryRows
<1>2. CASE dispatch = "PENDING"
  <2>1. dispatch' = TerminalDispatch(run') /\ run' \in TerminalStates
    BY <1>2 DEF RevokeExecutionRequest, TerminalDispatch, TerminalStates
  <2>2. StoreTypeOK'
    BY <1>2, <2>1, LiteralReasons DEF RevokeExecutionRequest, StoreOK, StoreTypeOK,
       ownershipVars
  <2>3. StoreInv'
    BY <1>2, <2>1 DEF RevokeExecutionRequest, StoreOK, StoreInv, ownershipVars, Attached,
       Uncertain
  <2>4. StoreStable
    BY <1>1, <1>2 DEF RevokeExecutionRequest, StoreOK, StoreInv, StoreStable,
       TerminalStates, ownershipVars
  <2> QED BY <2>2, <2>3, <2>4 DEF StoreOK
<1>3. CASE dispatch # "PENDING"
  <2>1. StoreTypeOK'
    BY <1>3 DEF RevokeExecutionRequest, StoreOK, StoreTypeOK, runVars, ownershipVars
  <2>2. StoreInv'
    BY <1>3 DEF RevokeExecutionRequest, StoreOK, StoreInv, runVars, ownershipVars
  <2>3. StoreStable
    BY <1>1, <1>3 DEF RevokeExecutionRequest, StoreStable, runVars, dispatchVars,
       ownershipVars
  <2> QED BY <2>1, <2>2, <2>3 DEF StoreOK
<1> QED BY <1>2, <1>3

(* Loss of authority and of the dispatch lease with the passing of time. *)
LEMMA AuthorityLossStore ==
    ASSUME StoreOK, Expire \/ RevokeSession \/ LeaseExpires PROVE StoreOK' /\ StoreStable
<1> USE DEF authorityVars, runVars, dispatchVars, ownershipVars
<1>1. recovery.attempt <= recovery.attempt
  BY DEF StoreOK, StoreTypeOK, RecoveryRows
<1>2. CASE Expire
  BY <1>1, <1>2 DEF Expire, StoreOK, StoreTypeOK, StoreInv, StoreStable
<1>3. CASE RevokeSession
  BY <1>1, <1>3 DEF RevokeSession, StoreOK, StoreTypeOK, StoreInv, StoreStable
<1>4. CASE LeaseExpires
  <2>1. run \notin TerminalStates
    BY <1>4 DEF LeaseExpires, StoreOK, StoreInv, TerminalStates
  <2>a. /\ leaseLive' \in BOOLEAN
        /\ UNCHANGED <<authorityVars, consumed, runVars, dispatch, claimedBy,
                       ownershipVars, recovery>>
    BY <1>4 DEF LeaseExpires
  <2>2. StoreTypeOK'
    BY <2>a DEF StoreOK, StoreTypeOK
  <2>3. StoreInv'
    BY <1>4 DEF LeaseExpires, StoreOK, StoreInv
  <2>4. StoreStable
    BY <1>1, <1>4, <2>1 DEF LeaseExpires, StoreStable
  <2> QED BY <2>2, <2>3, <2>4 DEF StoreOK
<1> QED BY <1>2, <1>3, <1>4

(* The recovery lease and the retry back-off run out. *)
LEMMA RecoveryClockStore ==
    ASSUME StoreOK, RecoveryLeaseExpires \/ RetryDue PROVE StoreOK' /\ StoreStable
<1> USE DEF authorityVars, runVars, dispatchVars, ownershipVars
<1>a. recovery \in RecoveryRows
  BY DEF StoreOK, StoreTypeOK
<1>b. recovery' = [recovery EXCEPT !.live = FALSE] \/ recovery' = [recovery EXCEPT !.due = TRUE]
  BY DEF RecoveryLeaseExpires, RetryDue
<1>c. recovery' \in RecoveryRows
  BY <1>a, <1>b DEF RecoveryRows
<1>d. recovery'.status = recovery.status /\ recovery'.attempt = recovery.attempt
  BY <1>a, <1>b DEF RecoveryRows
<1>e. recovery.due => recovery'.due
  BY <1>a, <1>b DEF RecoveryRows
<1>f. recovery.attempt <= recovery'.attempt
  BY <1>a, <1>d DEF RecoveryRows
<1>2. UNCHANGED <<authorityVars, consumed, runVars, dispatchVars, ownershipVars>>
  BY DEF RecoveryLeaseExpires, RetryDue
<1>3. StoreTypeOK'
  BY <1>2, <1>c DEF StoreOK, StoreTypeOK
<1>4. StoreInv'
  BY <1>2, <1>d, <1>e DEF StoreOK, StoreInv
<1> QED BY <1>2, <1>3, <1>4, <1>f DEF StoreOK, StoreStable

-----------------------------------------------------------------------------
(* claim_execution_authority *)
LEMMA ClaimStore ==
    ASSUME StoreOK, NEW w \in Workers, ClaimExecutionAuthority(w)
    PROVE  StoreOK' /\ StoreStable
<1> USE DEF authorityVars, runVars, dispatchVars, ownershipVars
<1>1. recovery.attempt <= recovery.attempt /\ w # NoOne
  BY StoreAssumption DEF StoreOK, StoreTypeOK, RecoveryRows
<1>2. StoreTypeOK'
  BY DEF ClaimExecutionAuthority, StoreOK, StoreTypeOK, Active
<1>3. StoreInv'
  BY <1>1 DEF ClaimExecutionAuthority, ClaimOk, AuthorityValid, StoreOK, StoreInv,
     TerminalStates, Attached
<1>4. StoreStable
  BY <1>1 DEF ClaimExecutionAuthority, ClaimOk, StoreStable, TerminalStates
<1> QED BY <1>2, <1>3, <1>4 DEF StoreOK

(* mark_execution_decision_started, which callers reach only with the      *)
(* process already recorded.                                               *)
LEMMA MarkStartedStore ==
    ASSUME StoreOK, NEW w \in Workers, MarkExecutionDecisionStarted(w),
           ownership \in Attached, identity
    PROVE  StoreOK' /\ StoreStable
<1> USE DEF authorityVars, runVars, dispatchVars, ownershipVars
<1>1. recovery.attempt <= recovery.attempt
  BY DEF StoreOK, StoreTypeOK, RecoveryRows
<1>2. StoreTypeOK'
  BY DEF MarkExecutionDecisionStarted, StoreOK, StoreTypeOK, Active
<1>3. StoreInv'
  BY DEF MarkExecutionDecisionStarted, MarkStartedOk, StoreOK, StoreInv, AuthorityValid,
     TerminalStates
<1>4. StoreStable
  BY <1>1 DEF MarkExecutionDecisionStarted, MarkStartedOk, StoreStable, TerminalStates
<1> QED BY <1>2, <1>3, <1>4 DEF StoreOK

(* abort_execution_start with an outcome that reports no completion. *)
LEMMA AbortStore ==
    ASSUME StoreOK, NEW w \in Workers, NEW state, NEW why,
           AbortExecutionStart(w, state, why),
           state \notin {"SUCCEEDED", "PARTIAL_RESULTS_WITH_WARNING"}
    PROVE  StoreOK' /\ StoreStable
<1> USE DEF authorityVars, runVars, dispatchVars, ownershipVars, CloseRun
<1>1. recovery.attempt <= recovery.attempt
  BY DEF StoreOK, StoreTypeOK, RecoveryRows
<1>2. /\ run' \in TerminalStates /\ reason' \in Reasons
      /\ dispatch' \in {"COMPLETED", "FAILED", "BLOCKED"}
  BY OutcomeReason, DispatchCloses DEF AbortExecutionStart, AbortStartOk
<1>3. StoreTypeOK'
  BY <1>2 DEF AbortExecutionStart, StoreOK, StoreTypeOK, OwnershipStates
<1>4. StoreInv'
  BY <1>2 DEF AbortExecutionStart, AbortStartOk, RecoveryUntouched, StoreOK, StoreInv,
     TerminalStates, Attached, Uncertain
<1>5. StoreStable
  BY <1>1, <1>2 DEF AbortExecutionStart, AbortStartOk, StoreStable, StoreOK, StoreInv,
     TerminalStates
<1> QED BY <1>3, <1>4, <1>5 DEF StoreOK

(* finish_execution *)
LEMMA FinishStore ==
    ASSUME StoreOK, NEW w \in Workers, NEW state, NEW why, FinishExecution(w, state, why)
    PROVE  StoreOK' /\ StoreStable
<1> USE DEF authorityVars, runVars, dispatchVars, ownershipVars, CloseRun
<1>1. recovery.attempt <= recovery.attempt
  BY DEF StoreOK, StoreTypeOK, RecoveryRows
<1>2. /\ run' \in TerminalStates /\ reason' \in Reasons
      /\ dispatch' \in {"COMPLETED", "FAILED", "BLOCKED"}
  BY OutcomeReason, DispatchCloses DEF FinishExecution, FinishOk
<1>3. StoreTypeOK'
  BY <1>2 DEF FinishExecution, StoreOK, StoreTypeOK, OwnershipStates
<1>4. StoreInv'
  BY <1>2 DEF FinishExecution, FinishOk, RecoveryUntouched, StoreOK, StoreInv,
     TerminalStates, Attached, Uncertain
<1>5. StoreStable
  BY <1>1, <1>2 DEF FinishExecution, FinishOk, StoreStable, TerminalStates
<1> QED BY <1>3, <1>4, <1>5 DEF StoreOK

-----------------------------------------------------------------------------
(* transition_process_ownership from UNKNOWN, under a held claim. *)
LEMMA RecordOwnershipStore ==
    ASSUME StoreOK, NEW w \in Workers, NEW state \in Attached, NEW complete \in BOOLEAN,
           RecordOwnership(w, state, complete), dispatch = "CLAIMED"
    PROVE  StoreOK' /\ StoreStable
<1> USE DEF authorityVars, runVars, dispatchVars, ownershipVars
<1>1. recovery.attempt <= recovery.attempt /\ w # NoOne
  BY StoreAssumption DEF StoreOK, StoreTypeOK, RecoveryRows
<1>2. /\ run = "STARTING" /\ root = NoOne
      /\ recovery.status \notin {"IN_PROGRESS", "CONFIRMED_TERMINATED"}
  BY DEF RecordOwnership, StoreOK, StoreInv, Attached, Uncertain
<1>3. StoreTypeOK'
  BY DEF RecordOwnership, StoreOK, StoreTypeOK, Attached, Uncertain, OwnershipStates
<1>4. StoreInv'
  BY <1>1, <1>2 DEF RecordOwnership, StoreOK, StoreInv, Attached, Uncertain, TerminalStates
<1>5. StoreStable
  BY <1>1, <1>2 DEF RecordOwnership, StoreStable, TerminalStates
<1> QED BY <1>3, <1>4, <1>5 DEF StoreOK

(* transition_committed_process_to_recovery_blocked *)
LEMMA DowngradeStore ==
    ASSUME StoreOK, NEW w \in Workers, DowngradeOwnership(w)
    PROVE  StoreOK' /\ StoreStable
<1> USE DEF authorityVars, runVars, dispatchVars, ownershipVars
<1>1. recovery.attempt <= recovery.attempt /\ run \notin TerminalStates
  BY DEF StoreOK, StoreTypeOK, RecoveryRows, DowngradeOwnership, DowngradeOk, Active,
     TerminalStates
<1>2. StoreTypeOK'
  BY DEF DowngradeOwnership, StoreOK, StoreTypeOK, Uncertain, OwnershipStates
<1>3. StoreInv'
  BY DEF DowngradeOwnership, DowngradeOk, StoreOK, StoreInv, Attached, Uncertain, Active
<1>4. StoreStable
  BY <1>1 DEF DowngradeOwnership, StoreStable
<1> QED BY <1>2, <1>3, <1>4 DEF StoreOK

(* settle_execution_after_confirmed_termination *)
LEMMA SettleConfirmedStore ==
    ASSUME StoreOK, NEW status, NEW state, NEW why, SettleConfirmed(status, state, why)
    PROVE  StoreOK' /\ StoreStable
<1> USE DEF authorityVars, runVars, dispatchVars, ownershipVars, CloseRun
<1>1. recovery \in RecoveryRows /\ recovery.attempt \in 0 .. MaxAttempts
  BY DEF StoreOK, StoreTypeOK, RecoveryRows
<1>2. /\ run' \in TerminalStates /\ reason' \in Reasons
      /\ dispatch' \in {"COMPLETED", "FAILED", "BLOCKED"}
  BY OutcomeReason, DispatchCloses DEF SettleConfirmed, SettleConfirmedOk
<1>3. recovery' \in RecoveryRows
  BY <1>1, NewRecoveryRow, AttemptCounter DEF SettleConfirmed, RecoveryRows
<1>4. /\ recovery'.status = "CONFIRMED_TERMINATED"
      /\ recovery'.attempt = NextAttempt(recovery.attempt)
  BY DEF SettleConfirmed, NoRecovery
<1>5. recovery.attempt <= recovery'.attempt
  BY <1>1, <1>4, AttemptCounter
<1>6. StoreTypeOK'
  BY <1>2, <1>3 DEF SettleConfirmed, SettleConfirmedOk, StoreOK, StoreTypeOK, OwnershipStates
<1>7. StoreInv'
  BY <1>2, <1>4 DEF SettleConfirmed, SettleConfirmedOk, StoreOK, StoreInv, TerminalStates,
     Attached, Uncertain, Active
<1>8. StoreStable
  BY <1>2, <1>5 DEF SettleConfirmed, SettleConfirmedOk, StoreStable, Active, TerminalStates
<1> QED BY <1>6, <1>7, <1>8 DEF StoreOK

-----------------------------------------------------------------------------
(* claim_recovery *)
LEMMA ClaimRecoveryStore ==
    ASSUME StoreOK, NEW r \in Reapers, ClaimRecovery(r)
    PROVE  StoreOK' /\ StoreStable
<1> USE DEF authorityVars, runVars, dispatchVars, ownershipVars
<1>1. recovery \in RecoveryRows /\ recovery.attempt \in 0 .. MaxAttempts
  BY DEF StoreOK, StoreTypeOK, RecoveryRows
<1>2. recovery' \in RecoveryRows
  BY <1>1, AttemptCounter DEF ClaimRecovery, RecoveryRows
<1>3. /\ recovery'.status = "IN_PROGRESS"
      /\ recovery'.attempt = NextAttempt(recovery.attempt)
  BY <1>1 DEF ClaimRecovery, RecoveryRows
<1>4. recovery.attempt <= recovery'.attempt
  BY <1>1, <1>3, AttemptCounter
<1>5. StoreTypeOK'
  BY <1>2 DEF ClaimRecovery, StoreOK, StoreTypeOK
<1>6. StoreInv'
  BY <1>3 DEF ClaimRecovery, ClaimRecoveryOk, StoreOK, StoreInv, Attached, Uncertain, Active
<1>7. StoreStable
  BY <1>4 DEF ClaimRecovery, StoreStable
<1> QED BY <1>5, <1>6, <1>7 DEF StoreOK

(* complete_recovery *)
LEMMA CompleteRecoveryStore ==
    ASSUME StoreOK, NEW r \in Reapers, CompleteRecovery(r)
    PROVE  StoreOK' /\ StoreStable
<1> USE DEF authorityVars, runVars, dispatchVars, ownershipVars
<1>1. recovery \in RecoveryRows /\ recovery.attempt \in 0 .. MaxAttempts
  BY DEF StoreOK, StoreTypeOK, RecoveryRows
<1>2. recovery' \in RecoveryRows
  BY <1>1 DEF CompleteRecovery, RecoveryRows
<1>3. /\ recovery'.status \in {"EXHAUSTED", "DEFERRED"}
      /\ recovery'.attempt = recovery.attempt
  BY <1>1 DEF CompleteRecovery, RecoveryRows
<1>4. recovery'.status = "EXHAUSTED" => recovery'.attempt = MaxAttempts
  BY <1>1, StoreAssumption DEF CompleteRecovery, RecoveryRows
<1>5. recovery.attempt <= recovery'.attempt
  BY <1>1, <1>3
<1>6. StoreTypeOK'
  BY <1>2 DEF CompleteRecovery, StoreOK, StoreTypeOK, OwnershipStates, Uncertain
<1>7. StoreInv'
  BY <1>3, <1>4 DEF CompleteRecovery, CompleteRecoveryOk, StoreOK, StoreInv, Attached,
     Uncertain, Active
<1>8. StoreStable
  BY <1>5 DEF CompleteRecovery, CompleteRecoveryOk, StoreStable, Active, TerminalStates
<1> QED BY <1>6, <1>7, <1>8 DEF StoreOK

(* settle_recovery_execution *)
LEMMA SettleRecoveryStore ==
    ASSUME StoreOK, NEW r \in Reapers, NEW status \in {"KILLED", "ALREADY_EXITED"},
           SettleRecoveryExecution(r, status)
    PROVE  StoreOK' /\ StoreStable
<1> USE DEF authorityVars, runVars, dispatchVars, ownershipVars, CloseRun
<1>1. recovery \in RecoveryRows /\ recovery.attempt \in 0 .. MaxAttempts
  BY DEF StoreOK, StoreTypeOK, RecoveryRows
<1>2. /\ run' = "FAILED" /\ run' \in TerminalStates /\ reason' \in Reasons
      /\ dispatch' = TerminalDispatch(run') /\ dispatch' \in {"COMPLETED", "FAILED", "BLOCKED"}
  BY LiteralReasons, DispatchCloses DEF SettleRecoveryExecution, TerminalStates
<1>3. recovery' \in RecoveryRows
  BY <1>1, NewRecoveryRow DEF SettleRecoveryExecution, RecoveryRows
<1>4. /\ recovery'.status = "CONFIRMED_TERMINATED"
      /\ recovery'.attempt = recovery.attempt
  BY DEF SettleRecoveryExecution, NoRecovery
<1>5. recovery.attempt <= recovery'.attempt
  BY <1>1, <1>4
<1>6. StoreTypeOK'
  BY <1>2, <1>3 DEF SettleRecoveryExecution, StoreOK, StoreTypeOK, OwnershipStates
<1>7. StoreInv'
  BY <1>2, <1>4 DEF SettleRecoveryExecution, SettleRecoveryOk, StoreOK, StoreInv,
     TerminalStates, Attached, Uncertain, Active
<1>8. StoreStable
  BY <1>2, <1>5 DEF SettleRecoveryExecution, SettleRecoveryOk, StoreStable, Active,
     TerminalStates
<1> QED BY <1>6, <1>7, <1>8 DEF StoreOK

(* record_unavailable_governed_recovery and                                *)
(* record_unconfirmed_governed_recovery: EXHAUSTED is decided from an      *)
(* attempt number that may be stale but is never ahead of the row.         *)
LEMMA RecordRecoveryStore ==
    ASSUME StoreOK, NEW owned, NEW n \in 0 .. recovery.attempt, RecordRecovery(owned, n)
    PROVE  StoreOK' /\ StoreStable
<1> USE DEF authorityVars, runVars, dispatchVars, ownershipVars
<1>1. recovery \in RecoveryRows /\ recovery.attempt \in 0 .. MaxAttempts
  BY DEF StoreOK, StoreTypeOK, RecoveryRows
<1>2. recovery' \in RecoveryRows
  BY <1>1, AttemptCounter DEF RecordRecovery, RecoveryRows
<1>3. /\ recovery'.status \in {"EXHAUSTED", "DEFERRED"}
      /\ recovery'.attempt = NextAttempt(recovery.attempt)
  BY <1>1 DEF RecordRecovery, RecoveryRows
<1>4. recovery'.status = "EXHAUSTED" => n + 1 >= MaxAttempts
  BY <1>1 DEF RecordRecovery, RecoveryRows
<1>5. recovery'.status = "EXHAUSTED" => recovery'.attempt = MaxAttempts
  BY <1>1, <1>3, <1>4, AttemptCounter
<1>6. recovery.attempt <= recovery'.attempt
  BY <1>1, <1>3, AttemptCounter
<1>7. StoreTypeOK'
  BY <1>2 DEF RecordRecovery, StoreOK, StoreTypeOK
<1>8. StoreInv'
  BY <1>3, <1>5 DEF RecordRecovery, RecordRecoveryOk, StoreOK, StoreInv, Active
<1>9. StoreStable
  BY <1>6 DEF RecordRecovery, StoreStable
<1> QED BY <1>7, <1>8, <1>9 DEF StoreOK
=============================================================================
