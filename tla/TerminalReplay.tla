--------------------------- MODULE TerminalReplay ---------------------------
(***************************************************************************)
(* The read-only fence in front of a redelivered, already closed           *)
(* execution: validate_terminal_replay_proof of                            *)
(* backend/app/core/scan_execution_authority.py, applied to the evidence   *)
(* that get_execution_replay_evidence reads in one transaction.  Nothing   *)
(* here changes state: the operators say which rows the fence accepts, in  *)
(* the order of its checks, and the property says that what the            *)
(* settlement paths of ExecutionLifecycle leave behind is accepted.        *)
(*                                                                         *)
(* The identity columns that every settlement copies from the run          *)
(* (tenant, request, decision, worker identity and generation,             *)
(* correlation id, policy and material snapshots) are constant for one     *)
(* execution and are left out, and with them the digests over them.        *)
(***************************************************************************)
EXTENDS ExecutionLifecycle

(* The joined binding: terminal run, matching dispatch, request not        *)
(* waiting for approval.                                                   *)
ReplayBinding ==
    /\ run \in TerminalStates /\ dispatch = TerminalDispatch(run)
    /\ request \in {"AUTHORIZED", "REVOKED"}

(* get_execution_replay_evidence finds the claim digests in the audit      *)
(* trail of the claim.  Only a run that was cancelled while PENDING was    *)
(* never claimed.                                                          *)
ClaimDigests == reason # "EXECUTION_CANCELLED_BEFORE_DISPATCH"

DispatchEvidence == claimedBy = NoOne /\ ~leaseLive

(* A confirmed attempt must carry the worker identity of the run.          *)
(* settle_recovery_execution writes the recovery coordinator's instead,    *)
(* and is the only writer of this reason code.                             *)
ConfirmedByRunWorker == recovery.attempt >= 1 /\ reason # "PROCESS_LAUNCH_UNCERTAIN"

RecoveryEvidence ==
    /\ recovery.owner = NoOne /\ ~recovery.live
    /\ \/ RecoveryUntouched
       \/ recovery.status = "CONFIRMED_TERMINATED" /\ ConfirmedByRunWorker

(* decode_execution_proof accepts the envelope under the expected type. *)
DecodedProof(kinds) == proof \in kinds

(* The attestation of the process, complete and verified, and the run's    *)
(* process_id, which only mark_execution_decision_started writes.          *)
AttestedProcess == root # NoOne /\ identity
BoundToRun      == consumed

NoProcessProof ==
    /\ ownership \in {"NO_EXTERNAL_PROCESS", "TERMINAL"} /\ root = NoOne /\ ~BoundToRun
    /\ DecodedProof({"NO_EXTERNAL_PROCESS"})
    /\ ClaimDigests \/ run = "CANCELLED"

TerminationProof ==
    /\ ownership = "TERMINAL" /\ AttestedProcess /\ BoundToRun
    /\ DecodedProof({"KILLED", "ALREADY_EXITED"})
    /\ ClaimDigests

ReplayAccepted ==
    /\ ReplayBinding
    /\ ValidOutcome(run, reason)
    /\ DispatchEvidence
    /\ RecoveryEvidence
    /\ NoProcessProof \/ TerminationProof

-----------------------------------------------------------------------------
(* The fence accepts what every settlement path leaves behind, whoever     *)
(* closed the run and whatever recovery had recorded before, except in     *)
(* three cases where no proof can be shown: a run cancelled while PENDING  *)
(* carries none, a run that the recovery coordinator closed carries the    *)
(* coordinator's identity, and a run killed between the launch record and  *)
(* the start was never bound to its process.                               *)
ClosedRunIsReplayable ==
    run \in TerminalStates =>
        \/ ReplayAccepted
        \/ reason \in {"EXECUTION_CANCELLED_BEFORE_DISPATCH", "PROCESS_LAUNCH_UNCERTAIN"}
        \/ root # NoOne /\ ~consumed

(* The inductive invariant behind it.  A run is bound to its process by    *)
(* the start, which follows the identity, and only there; a recovery row   *)
(* names an owner or a lease only while an attempt is in progress.         *)
ReplayInv ==
    /\ consumed => run \in {"RUNNING"} \cup TerminalStates /\ root # NoOne /\ identity
    /\ run = "RUNNING" => consumed
    /\ recovery.owner # NoOne \/ recovery.live => recovery.status = "IN_PROGRESS"
    /\ ClosedRunIsReplayable
=============================================================================
