------------------------ MODULE TerminalReplayProofs ------------------------
(***************************************************************************)
(* Every closed run of every reachable state is accepted by the replay     *)
(* fence, up to the exceptions that ClosedRunIsReplayable names.           *)
(*                                                                         *)
(* The fence reads the store only, so the proof is about transactions: a   *)
(* step of the composed system is one transaction or leaves the store      *)
(* alone (StepIsTransaction), and each transaction keeps ReplayInv.  That  *)
(* the rows agree before and after it is LifecycleInv.                     *)
(***************************************************************************)
EXTENDS TerminalReplay, ExecutionLifecycleProofs

(* The transactions of the store, by what they do to a run. *)
Opens == ApproveExecutionRequest \/ RevokeExecutionRequest

Claims ==
    \E w \in Workers : ClaimExecutionAuthority(w) \/ MarkExecutionDecisionStarted(w)

Owns ==
    \E w \in Workers : DowngradeOwnership(w) \/ \E state \in Attached, c \in BOOLEAN : RecordOwnership(w, state, c)

Recovers ==
    \/ RecoveryLeaseExpires \/ RetryDue
    \/ \E r \in Reapers : ClaimRecovery(r) \/ CompleteRecovery(r)
    \/ \E owned, attempt : RecordRecovery(owned, attempt)

Closes ==
    \/ \E w \in Workers : \E state, why : AbortExecutionStart(w, state, why) \/ FinishExecution(w, state, why)
    \/ \E status, state, why : SettleConfirmed(status, state, why)
    \/ \E r \in Reapers : \E status : SettleRecoveryExecution(r, status)

Transaction ==
    UNCHANGED storeVars \/ RevokeSession \/ Expire \/ LeaseExpires \/ Opens \/ Claims \/ Owns
        \/ Recovers \/ Closes

(* A step of anyone is one transaction, or none. *)
LEMMA StepIsTransaction == [Next]_vars => Transaction
<1> SUFFICES ASSUME [Next]_vars PROVE Transaction
  OBVIOUS
<1>1. CASE UNCHANGED vars
  BY <1>1 DEF vars, Transaction
<1>2. CASE Environment
  BY <1>2 DEF Environment, Transaction, Opens, Recovers
<1>3. CASE \E w \in Workers : ProcessExit(w)
  BY <1>3 DEF ProcessExit, Transaction
<1>4. ASSUME NEW w \in Workers, SupervisorStep(w) PROVE Transaction
  <2>1. ASSUME NEW state, NEW why, SettleNoProcess(w, state, why) PROVE Transaction
    BY <2>1 DEF SettleNoProcess, Refused, Transaction, Closes
  <2>2. CASE RevalidateAndClaim(w) \/ MarkStarted(w)
    BY <2>2 DEF RevalidateAndClaim, MarkStarted, KillAndGiveUp, Refused, Transaction, Claims
  <2>3. CASE RejectLaunch(w) \/ CancelBeforeCreation(w) \/ LaunchFails(w)
    BY <2>1, <2>3 DEF RejectLaunch, CancelBeforeCreation, LaunchFails
  <2>4. CASE RecordLaunch(w) \/ RecordLaunchUncertain(w)
    BY <2>4 DEF RecordLaunch, RecordLaunchUncertain, KillAndGiveUp, Refused, Transaction, Owns,
       Attached, Uncertain
  <2>5. CASE Settle(w)
    BY <2>5 DEF Settle, Transaction, Closes
  <2>6. CASE CancelTask(w) \/ ClearLaunch(w) \/ CreateProcess(w) \/ IdentityLost(w)
             \/ StopProcess(w) \/ ObserveExit(w) \/ RenewalRaises(w) \/ WorkerCrash(w)
    BY <2>6 DEF CancelTask, ClearLaunch, CreateProcess, IdentityLost, StopProcess, ObserveExit,
       RenewalRaises, KillAndGiveUp, WorkerCrash, Transaction
  <2> QED BY <1>4, <2>2, <2>3, <2>4, <2>5, <2>6 DEF SupervisorStep
<1>5. ASSUME NEW r \in Reapers, ReaperStep(r) PROVE Transaction
  <2>1. CASE LeaseRecovery(r) \/ DeferRecovery(r)
    BY <2>1 DEF LeaseRecovery, DeferRecovery, Refused, Transaction, Recovers
  <2>2. CASE RecordUnavailable(r) \/ RecordUnconfirmed(r)
    BY <2>2 DEF RecordUnavailable, RecordUnconfirmed, Refused, Transaction, Recovers
  <2>3. CASE CloseRecovered(r) \/ CloseGoverned(r)
    BY <2>3 DEF CloseRecovered, CloseGoverned, Refused, Transaction, Closes
  <2>4. CASE ListCandidate(r) \/ SkipInFlight(r) \/ LoadLeasedIdentity(r) \/ Terminate(r)
             \/ ReapPreDispatch(r) \/ LoadIdentity(r) \/ LateCancellation(r) \/ ReaperCrash(r)
    BY <2>4 DEF ListCandidate, SkipInFlight, LoadLeasedIdentity, Terminate, ReapPreDispatch,
       LoadIdentity, LateCancellation, ReaperCrash, Transaction
  <2> QED BY <1>5, <2>1, <2>2, <2>3, <2>4 DEF ReaperStep, ReaperPass
<1>6. ASSUME NEW c \in Cancellers, CoordinatorStep(c) PROVE Transaction
  BY <1>6 DEF CoordinatorStep, ReadRun, Revoke, Inspect, CancelExecution, SettleCancelled,
     Refused, Transaction, Opens, Closes
<1> QED BY <1>1, <1>2, <1>3, <1>4, <1>5, <1>6 DEF Next

-----------------------------------------------------------------------------
(* The transactions.                                                       *)

(* What a step means for a run that stays as it is. *)
LEMMA SameRun ==
    ASSUME ReplayInv, UNCHANGED <<consumed, runVars, dispatch, claimedBy>>,
           leaseLive' => leaseLive,
           UNCHANGED ownershipVars \/ run \in Active,
           root # NoOne => UNCHANGED <<root, identity>>,
           request' \in {request, "REVOKED"} \/ run \in Active,
           recovery'.owner # NoOne \/ recovery'.live => recovery'.status = "IN_PROGRESS",
           \/ run \in Active
           \/ recovery' = recovery
           \/ recovery.status \notin {"REQUESTED", "CONFIRMED_TERMINATED"}
    PROVE  ReplayInv'
<1>1. UNCHANGED <<run, reason>>
  BY DEF runVars
<1>2. /\ consumed' => run' \in {"RUNNING"} \cup TerminalStates /\ root' # NoOne /\ identity'
      /\ run' = "RUNNING" => consumed'
  BY <1>1 DEF ReplayInv
<1>3. ClosedRunIsReplayable'
  <2>1. CASE run \in Active
    BY <1>1, <2>1 DEF ClosedRunIsReplayable, Active, TerminalStates
  <2>2. CASE run \notin Active
    <3>1. UNCHANGED <<ownership, root, identity, proof>>
      BY <2>2 DEF ownershipVars
    <3>2. request' \in {request, "REVOKED"}
      BY <2>2
    <3>3. ASSUME ReplayAccepted PROVE ReplayAccepted'
      <4>1. recovery' = recovery
        BY <2>2, <3>3 DEF ReplayAccepted, RecoveryEvidence, RecoveryUntouched
      <4> QED BY <1>1, <3>1, <3>2, <3>3, <4>1 DEF ReplayAccepted, ReplayBinding, DispatchEvidence,
                 RecoveryEvidence, RecoveryUntouched, ConfirmedByRunWorker, NoProcessProof,
                 TerminationProof, ClaimDigests, AttestedProcess, BoundToRun, DecodedProof
    <3> QED BY <1>1, <3>1, <3>3 DEF ReplayInv, ClosedRunIsReplayable
  <2> QED BY <2>1, <2>2
<1> QED BY <1>2, <1>3 DEF ReplayInv

LEMMA OpensReplay ==
    ASSUME StoreOK, StoreOK', ReplayInv, Opens PROVE ReplayInv'
<1>1. CASE ApproveExecutionRequest
  <2>1. run' = "REQUESTED" /\ consumed' = consumed /\ root' = root /\ identity' = identity
        /\ run = "NONE"
    BY <1>1 DEF ApproveExecutionRequest, StoreOK, StoreInv
  <2>2. recovery'.owner = NoOne /\ ~recovery'.live
    BY <1>1 DEF ApproveExecutionRequest, NoRecovery
  <2> QED BY <2>1, <2>2 DEF ReplayInv, ClosedRunIsReplayable, TerminalStates
<1>2. CASE RevokeExecutionRequest
  <2>0. UNCHANGED <<consumed, claimedBy, leaseLive, ownershipVars, ownership, root, identity, proof, recovery>>
    BY <1>2 DEF RevokeExecutionRequest, ownershipVars
  <2>1. CASE dispatch = "PENDING"
    <3>1. run = "REQUESTED" /\ run' = "CANCELLED"
          /\ reason' = "EXECUTION_CANCELLED_BEFORE_DISPATCH"
      BY <1>2, <2>1 DEF RevokeExecutionRequest, StoreOK, StoreInv
    <3> QED BY <2>0, <3>1 DEF ReplayInv, ClosedRunIsReplayable, TerminalStates
  <2>2. CASE dispatch # "PENDING"
    <3>1. UNCHANGED <<dispatch, runVars>> /\ request' = "REVOKED"
      BY <1>2, <2>2 DEF RevokeExecutionRequest
    <3> QED BY <2>0, <3>1, SameRun DEF ReplayInv
  <2> QED BY <2>1, <2>2
<1> QED BY <1>1, <1>2 DEF Opens

LEMMA ClaimsReplay ==
    ASSUME StoreOK, StoreOK', ReplayInv, Claims PROVE ReplayInv'
<1>1. PICK w \in Workers : ClaimExecutionAuthority(w) \/ MarkExecutionDecisionStarted(w)
  BY DEF Claims
<1>2. CASE ClaimExecutionAuthority(w)
  <2>1. run = "REQUESTED" /\ run' = "STARTING" /\ UNCHANGED <<consumed, root, identity, recovery>>
    BY <1>2 DEF ClaimExecutionAuthority, ClaimOk, ownershipVars
  <2> QED BY <2>1 DEF ReplayInv, ClosedRunIsReplayable, TerminalStates
<1>3. CASE MarkExecutionDecisionStarted(w)
  <2>1. run' = "RUNNING" /\ consumed' /\ recovery' = recovery
    BY <1>3 DEF MarkExecutionDecisionStarted
  <2>2. root' # NoOne /\ identity'
    BY <2>1 DEF StoreOK, StoreInv
  <2> QED BY <2>1, <2>2 DEF ReplayInv, ClosedRunIsReplayable, TerminalStates
<1> QED BY <1>1, <1>2, <1>3

LEMMA OwnsReplay ==
    ASSUME StoreOK, StoreOK', ReplayInv, Owns PROVE ReplayInv'
<1>0. UNCHANGED <<authorityVars, consumed, runVars, dispatchVars, recovery>>
  BY DEF Owns, DowngradeOwnership, RecordOwnership
<1>1. UNCHANGED <<request, consumed, runVars, dispatch, claimedBy, leaseLive, recovery>>
  BY <1>0 DEF authorityVars, dispatchVars
<1>2. run \in Active /\ (root # NoOne => UNCHANGED <<root, identity>>)
  <2>1. ASSUME NEW w \in Workers, NEW state \in Attached, NEW c \in BOOLEAN,
               RecordOwnership(w, state, c)
        PROVE  run \in Active /\ root = NoOne
    <3>1. ownership = "UNKNOWN" /\ ownership' \in Attached
      BY <2>1 DEF RecordOwnership
    <3>2. dispatch = "CLAIMED"
      BY <1>1, <3>1 DEF StoreOK, StoreInv
    <3> QED BY <3>1, <3>2 DEF StoreOK, StoreInv, Active
  <2>2. ASSUME NEW w \in Workers, DowngradeOwnership(w)
        PROVE  run \in Active /\ UNCHANGED <<root, identity>>
    BY <2>2 DEF DowngradeOwnership, DowngradeOk
  <2> QED BY <2>1, <2>2 DEF Owns
<1> QED BY <1>1, <1>2, SameRun DEF ReplayInv

LEMMA RecoversReplay ==
    ASSUME StoreOK, StoreOK', ReplayInv, Recovers PROVE ReplayInv'
<1>0. recovery \in RecoveryRows /\ recovery' \in RecoveryRows
  BY DEF StoreOK, StoreTypeOK
<1>1. CASE RecoveryLeaseExpires
  <2>1. /\ UNCHANGED <<request, consumed, runVars, dispatch, claimedBy, leaseLive, ownershipVars, root, identity>>
        /\ recovery.live /\ recovery' = [recovery EXCEPT !.live = FALSE]
    BY <1>1 DEF RecoveryLeaseExpires, authorityVars, dispatchVars, ownershipVars
  <2>2. recovery.status = "IN_PROGRESS" /\ recovery'.status = "IN_PROGRESS"
    BY <1>0, <2>1 DEF RecoveryRows, ReplayInv
  <2> QED BY <2>1, <2>2, SameRun
<1>2. CASE RetryDue
  <2>1. /\ UNCHANGED <<request, consumed, runVars, dispatch, claimedBy, leaseLive, ownershipVars, root, identity>>
        /\ recovery.status = "DEFERRED" /\ recovery' = [recovery EXCEPT !.due = TRUE]
    BY <1>2 DEF RetryDue, authorityVars, dispatchVars, ownershipVars
  <2>2. recovery'.owner = recovery.owner /\ recovery'.live = recovery.live
    BY <1>0, <2>1 DEF RecoveryRows
  <2> QED BY <2>1, <2>2, SameRun DEF ReplayInv
<1>3. ASSUME NEW r \in Reapers, ClaimRecovery(r) PROVE ReplayInv'
  <2>1. /\ UNCHANGED <<request, consumed, runVars, dispatch, claimedBy, leaseLive, ownershipVars, root, identity>>
        /\ run \in Active
    BY <1>3 DEF ClaimRecovery, ClaimRecoveryOk, authorityVars, dispatchVars, ownershipVars
  <2>2. recovery'.status = "IN_PROGRESS"
    BY <1>0, <1>3 DEF ClaimRecovery, RecoveryRows
  <2> QED BY <2>1, <2>2, SameRun
<1>4. ASSUME NEW r \in Reapers, CompleteRecovery(r) PROVE ReplayInv'
  <2>1. /\ UNCHANGED <<request, consumed, runVars, dispatch, claimedBy, leaseLive, root, identity>>
        /\ run \in Active
    BY <1>4 DEF CompleteRecovery, CompleteRecoveryOk, authorityVars, dispatchVars
  <2>2. recovery'.owner = NoOne /\ ~recovery'.live
    BY <1>0, <1>4 DEF CompleteRecovery, RecoveryRows
  <2> QED BY <2>1, <2>2, SameRun
<1>5. ASSUME NEW owned, NEW attempt, RecordRecovery(owned, attempt) PROVE ReplayInv'
  <2>1. /\ UNCHANGED <<request, consumed, runVars, dispatch, claimedBy, leaseLive, ownershipVars, root, identity>>
        /\ run \in Active /\ recovery.status # "IN_PROGRESS"
    BY <1>5 DEF RecordRecovery, RecordRecoveryOk, authorityVars, dispatchVars, ownershipVars
  <2>2. recovery'.owner = recovery.owner /\ recovery'.live = recovery.live
    BY <1>0, <1>5 DEF RecordRecovery, RecoveryRows
  <2> QED BY <2>1, <2>2, SameRun DEF ReplayInv
<1> QED BY <1>1, <1>2, <1>3, <1>4, <1>5 DEF Recovers

(* The evidence that a settlement leaves behind. *)
LEMMA ClosedEvidence ==
    ASSUME StoreOK', NEW state, NEW why, ValidOutcome(state, why), CloseRun(state, why),
           recovery'.owner = NoOne, ~recovery'.live,
           \/ recovery'.status = "REQUESTED" /\ recovery'.attempt = 0
           \/ recovery'.status = "CONFIRMED_TERMINATED" /\ recovery'.attempt >= 1,
           consumed' => root' # NoOne /\ identity',
           \/ /\ ownership' \in {"NO_EXTERNAL_PROCESS", "TERMINAL"} /\ root' = NoOne
              /\ proof' = "NO_EXTERNAL_PROCESS"
           \/ /\ ownership' = "TERMINAL" /\ root' # NoOne /\ identity'
              /\ proof' \in {"KILLED", "ALREADY_EXITED"}
    PROVE  ReplayInv'
<1>1. /\ run' = state /\ reason' = why /\ dispatch' = TerminalDispatch(state)
      /\ claimedBy' = NoOne /\ ~leaseLive' /\ state \in TerminalStates
  BY DEF CloseRun, ValidOutcome
<1>2. ReplayBinding'
  <2>1. request' \in {"AUTHORIZED", "REVOKED"}
    BY <1>1 DEF StoreOK, StoreTypeOK, StoreInv, TerminalStates
  <2> QED BY <1>1, <2>1 DEF ReplayBinding
<1>3. ValidOutcome(run, reason)' /\ DispatchEvidence'
  BY <1>1 DEF ValidOutcome, DispatchEvidence
<1>4. why # "PROCESS_LAUNCH_UNCERTAIN" => RecoveryEvidence'
  BY <1>1 DEF RecoveryEvidence, ConfirmedByRunWorker, RecoveryUntouched
<1>5. /\ why # "EXECUTION_CANCELLED_BEFORE_DISPATCH"
      /\ root' = NoOne \/ consumed'
      => NoProcessProof' \/ TerminationProof'
  BY <1>1 DEF NoProcessProof, TerminationProof, ClaimDigests, AttestedProcess, BoundToRun, DecodedProof
<1>6. ClosedRunIsReplayable'
  BY <1>1, <1>2, <1>3, <1>4, <1>5 DEF ClosedRunIsReplayable, ReplayAccepted
<1>7. run' # "RUNNING"
  BY <1>1 DEF TerminalStates
<1> QED BY <1>1, <1>6, <1>7 DEF ReplayInv

LEMMA ClosesReplay ==
    ASSUME StoreOK, StoreOK', ReplayInv, Closes PROVE ReplayInv'
<1>0. recovery \in RecoveryRows /\ recovery.attempt \in 0 .. MaxAttempts
  BY DEF StoreOK, StoreTypeOK, RecoveryRows
<1>1. ASSUME NEW w \in Workers, NEW state, NEW why, AbortExecutionStart(w, state, why)
      PROVE  ReplayInv'
  <2>1. /\ ValidOutcome(state, why) /\ CloseRun(state, why)
        /\ ownership = "UNKNOWN" /\ ownership' = "NO_EXTERNAL_PROCESS"
        /\ proof' = "NO_EXTERNAL_PROCESS" /\ RecoveryUntouched
        /\ UNCHANGED <<consumed, root, identity, recovery>>
    BY <1>1 DEF AbortExecutionStart, AbortStartOk
  <2>2. root' = NoOne
    BY <2>1 DEF StoreOK, StoreInv
  <2>3. /\ recovery'.status = "REQUESTED" /\ recovery'.attempt = 0
        /\ recovery'.owner = NoOne /\ ~recovery'.live
    BY <1>0, <2>1 DEF RecoveryUntouched, ReplayInv, RecoveryRows
  <2>4. consumed' => root' # NoOne /\ identity'
    BY <2>1 DEF ReplayInv
  <2> QED BY <2>1, <2>2, <2>3, <2>4, ClosedEvidence
<1>2. ASSUME NEW w \in Workers, NEW state, NEW why, FinishExecution(w, state, why)
      PROVE  ReplayInv'
  <2>1. /\ ValidOutcome(state, why) /\ CloseRun(state, why)
        /\ root = w /\ identity /\ ownership' = "TERMINAL"
        /\ proof' = "ALREADY_EXITED" /\ RecoveryUntouched
        /\ UNCHANGED <<consumed, root, identity, recovery>>
    BY <1>2 DEF FinishExecution, FinishOk
  <2>2. root' # NoOne
    BY <2>1, StoreAssumption
  <2>3. /\ recovery'.status = "REQUESTED" /\ recovery'.attempt = 0
        /\ recovery'.owner = NoOne /\ ~recovery'.live
    BY <1>0, <2>1 DEF RecoveryUntouched, ReplayInv, RecoveryRows
  <2>4. (consumed' => root' # NoOne /\ identity') /\ identity'
    BY <2>1 DEF ReplayInv
  <2> QED BY <2>1, <2>2, <2>3, <2>4, ClosedEvidence
<1>3. ASSUME NEW status, NEW state, NEW why, SettleConfirmed(status, state, why)
      PROVE  ReplayInv'
  <2>1. /\ ValidOutcome(state, why) /\ CloseRun(state, why)
        /\ ownership' = "TERMINAL" /\ proof' = status
        /\ UNCHANGED <<consumed, root, identity>>
        /\ \/ status \in {"KILLED", "ALREADY_EXITED"} /\ ownership = "EXTERNAL_PROCESS_GOVERNED" /\ identity
           \/ status = "NO_EXTERNAL_PROCESS" /\ ownership = "UNKNOWN"
    BY <1>3 DEF SettleConfirmed, SettleConfirmedOk
  <2>2. IF status = "NO_EXTERNAL_PROCESS" THEN root' = NoOne ELSE root' # NoOne /\ identity'
    BY <2>1 DEF StoreOK, StoreInv, Attached
  <2>3. /\ recovery'.status = "CONFIRMED_TERMINATED" /\ recovery'.owner = NoOne /\ ~recovery'.live
        /\ recovery'.attempt = NextAttempt(recovery.attempt)
    BY <1>3 DEF SettleConfirmed, NoRecovery
  <2>4. recovery'.attempt >= 1
    BY <1>0, <2>3, StoreAssumption DEF NextAttempt
  <2>5. consumed' => root' # NoOne /\ identity'
    BY <2>1 DEF ReplayInv
  <2> QED BY <2>1, <2>2, <2>3, <2>4, <2>5, ClosedEvidence
<1>4. ASSUME NEW r \in Reapers, NEW status, SettleRecoveryExecution(r, status) PROVE ReplayInv'
  <2>1. /\ run' = "FAILED" /\ reason' = "PROCESS_LAUNCH_UNCERTAIN"
        /\ UNCHANGED <<consumed, root, identity>>
    BY <1>4 DEF SettleRecoveryExecution, CloseRun
  <2>2. recovery'.owner = NoOne /\ ~recovery'.live
    BY <1>4 DEF SettleRecoveryExecution, NoRecovery
  <2> QED BY <2>1, <2>2 DEF ReplayInv, ClosedRunIsReplayable, TerminalStates
<1> QED BY <1>1, <1>2, <1>3, <1>4 DEF Closes

LEMMA TransactionReplay ==
    ASSUME StoreOK, StoreOK', ReplayInv, Transaction PROVE ReplayInv'
<1>1. CASE UNCHANGED storeVars \/ RevokeSession \/ Expire \/ LeaseExpires
  <2>1. UNCHANGED <<request, consumed, runVars, dispatch, claimedBy, ownershipVars, root, identity, recovery>>
        /\ (leaseLive' => leaseLive)
    BY <1>1 DEF storeVars, RevokeSession, Expire, LeaseExpires, authorityVars, dispatchVars, ownershipVars
  <2> QED BY <2>1, SameRun DEF ReplayInv
<1> QED BY <1>1, OpensReplay, ClaimsReplay, OwnsReplay, RecoversReplay, ClosesReplay DEF Transaction

-----------------------------------------------------------------------------
(* The evidence invariant holds of every behaviour of the system. *)
THEOREM ReplayEvidence == Spec => []ReplayInv
<1>1. Init => ReplayInv
  <2>1. NoRecovery.owner = NoOne /\ NoRecovery.live = FALSE
    BY DEF NoRecovery
  <2> QED BY <2>1 DEF Init, StoreInit, ReplayInv, ClosedRunIsReplayable, TerminalStates
<1>2. LifecycleInv /\ LifecycleInv' /\ ReplayInv /\ [Next]_vars => ReplayInv'
  BY StepIsTransaction, TransactionReplay DEF LifecycleInv, TypeOK, StoreOK
<1> QED BY Invariance, <1>1, <1>2, PTL DEF Spec

(* A redelivery of a closed execution is answered from its own evidence:   *)
(* validate_terminal_replay_proof accepts what whoever closed the run left *)
(* behind, for any number of workers, reapers and cancellers.              *)
THEOREM ClosedRunsReplay == Spec => []ClosedRunIsReplayable
<1>1. ReplayInv => ClosedRunIsReplayable
  BY DEF ReplayInv
<1> QED BY ReplayEvidence, <1>1, PTL
=============================================================================
