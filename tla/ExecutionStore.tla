--------------------------- MODULE ExecutionStore ---------------------------
(***************************************************************************)
(* The durable rows of one governed execution and the transactions of      *)
(* backend/app/core/db.py (DatabaseManager) that read and write them.      *)
(*                                                                         *)
(* One execution owns one row in each of six tables: the request, the      *)
(* approved decision, the run, the dispatch intent, the process ownership  *)
(* and the recovery state.  Every operator XOk below is the condition      *)
(* under which transaction X commits (its WHERE clauses and early          *)
(* returns), and every action X is what it writes.  A caller that finds    *)
(* ~XOk gets False or None back and nothing is written.                    *)
(*                                                                         *)
(* Abstractions.  Timestamps become the facts the code compares them for:  *)
(* `expired' (request and decision share one expires_at), `leaseLive'      *)
(* (dispatch lease, and the decision claim that is given the same          *)
(* deadline), recovery.live and recovery.due.  The decision claim token    *)
(* and the dispatch claim token are issued and matched together, so        *)
(* `claimedBy' stands for both.  A process identity tuple (PID, group,     *)
(* session, start token, attestation) becomes `root', the worker thread    *)
(* that created the process, with `identity' telling whether the           *)
(* attestation is complete.                                                *)
(***************************************************************************)
EXTENDS Naturals

CONSTANTS
    Workers,      \* supervisor threads holding a capability for this execution
    Reapers,      \* observation services, one per API process
    NoOne,        \* SQL NULL in an owner column
    MaxAttempts,  \* max_recovery_attempts; attempt counters saturate here
    DbFaults      \* whether a database call may raise instead of committing

ASSUME StoreAssumption ==
    /\ NoOne \notin Workers \cup Reapers
    /\ MaxAttempts \in Nat \ {0}
    /\ DbFaults \in BOOLEAN

VARIABLES
    request,        \* execution_requests.state; REVOKED also stamps the decision
    expired,        \* now >= expires_at of request and decision
    sessionRevoked, \* the approver's session_jti is in revoked_tokens
    consumed,       \* execution_decisions.consumed_at is set
    run, reason,    \* execution_runs.state and reason_code
    dispatch,       \* execution_dispatch_intents.state
    claimedBy,      \* holder of the dispatch and decision claim tokens
    leaseLive,      \* lease_expires_at > now
    ownership,      \* execution_process_ownership.ownership_state
    root,           \* whose process the ownership row identifies
    identity,       \* the row carries a complete verified attestation
    proof,          \* termination status inside the no_process_proof column
    recovery        \* execution_recovery_state

authorityVars == <<request, expired, sessionRevoked>>
runVars       == <<run, reason>>
dispatchVars  == <<dispatch, claimedBy, leaseLive>>
ownershipVars == <<ownership, root, identity, proof>>
storeVars     == <<authorityVars, consumed, runVars, dispatchVars,
                   ownershipVars, recovery>>

Active        == {"REQUESTED", "STARTING", "RUNNING"}
TerminalStates == {"SUCCEEDED", "PARTIAL_RESULTS_WITH_WARNING", "FAILED",
                   "TIMED_OUT", "CANCELLED", "EXECUTION_BLOCKED"}
Uncertain     == {"LAUNCH_UNCERTAIN", "RECOVERY_BLOCKED"}

(* EXECUTION_TERMINAL_REASON_CODES, restricted to the codes that the       *)
(* execution path writes.  "NONE" is the NULL reason of a success.         *)
ReasonCodes ==
    [SUCCEEDED |-> {"NONE"},
     PARTIAL_RESULTS_WITH_WARNING |-> {"OUTPUT_LIMIT_EXCEEDED"},
     FAILED |-> {"EXECUTION_LEASE_RENEWAL_FAILED", "EXECUTABLE_NOT_FOUND",
                 "EXECUTABLE_PERMISSION_DENIED", "PROCESS_EXECUTION_EXCEPTION",
                 "PROCESS_EXIT_NONZERO", "PROCESS_LAUNCH_UNCERTAIN"},
     TIMED_OUT |-> {"EXECUTION_AUTHORITY_EXPIRED", "EXECUTION_TIMEOUT"},
     CANCELLED |-> {"EXECUTION_CANCELLED", "EXECUTION_CANCELLED_BEFORE_DISPATCH",
                    "EXECUTION_CANCELLED_BEFORE_PROCESS_CREATION"},
     EXECUTION_BLOCKED |-> {"EXECUTION_IDENTITY_MISMATCH",
                            "PROCESS_LAUNCH_REJECTED_SECURITY"}]

Reasons == UNION {ReasonCodes[s] : s \in TerminalStates}

(* is_valid_execution_terminal_outcome *)
ValidOutcome(state, why) == state \in TerminalStates /\ why \in ReasonCodes[state]

(* _expected_terminal_dispatch and the same choice repeated in each DAL    *)
(* settlement.                                                             *)
TerminalDispatch(state) ==
    CASE state \in {"SUCCEEDED", "PARTIAL_RESULTS_WITH_WARNING"} -> "COMPLETED"
      [] state \in {"CANCELLED", "EXECUTION_BLOCKED"}            -> "BLOCKED"
      [] OTHER                                                   -> "FAILED"

(* A call that writes nothing: the transaction refused it (~ok), or the    *)
(* database raised.                                                        *)
Refused(ok) == (DbFaults \/ ~ok) /\ UNCHANGED storeVars

NoRecovery == [status |-> "NONE", attempt |-> 0, owner |-> NoOne,
               live |-> FALSE, due |-> FALSE]

(* attempt_number + 1, saturated: the code only compares it with 0 and     *)
(* with max_recovery_attempts.                                             *)
NextAttempt(n) == IF n < MaxAttempts THEN n + 1 ELSE n

(* The predicate every authority-held transaction repeats: the request is  *)
(* AUTHORIZED, the decision APPROVED and not revoked, neither has expired  *)
(* and the approving session is not revoked.                               *)
AuthorityValid == request = "AUTHORIZED" /\ ~expired /\ ~sessionRevoked

-----------------------------------------------------------------------------
(* Creation, approval and loss of authority.                               *)

(* create_execution_request has committed a REQUESTED request.             *)
StoreInit ==
    /\ request = "REQUESTED" /\ expired = FALSE /\ sessionRevoked = FALSE
    /\ consumed = FALSE
    /\ run = "NONE" /\ reason = "NONE"
    /\ dispatch = "NONE" /\ claimedBy = NoOne /\ leaseLive = FALSE
    /\ ownership = "NONE" /\ root = NoOne /\ identity = FALSE /\ proof = "NONE"
    /\ recovery = NoRecovery

ApproveExecutionRequest ==
    /\ request = "REQUESTED" /\ ~expired
    /\ request' = "AUTHORIZED"
    /\ run' = "REQUESTED" /\ dispatch' = "PENDING" /\ ownership' = "UNKNOWN"
    /\ recovery' = [NoRecovery EXCEPT !.status = "REQUESTED", !.due = TRUE]
    /\ UNCHANGED <<expired, sessionRevoked, consumed, reason, claimedBy,
                   leaseLive, root, identity, proof>>

(* Mutant: the dispatch that nobody has claimed is left PENDING. *)
RevokeLeavesDispatch ==
    /\ request' = "REVOKED"
    /\ IF dispatch = "PENDING"
         THEN run' = "CANCELLED" /\ reason' = "EXECUTION_CANCELLED_BEFORE_DISPATCH"
         ELSE UNCHANGED runVars
    /\ UNCHANGED <<expired, sessionRevoked, consumed, dispatchVars, ownershipVars, recovery>>

(* Revocation and, in the same transaction, the closing of a dispatch      *)
(* that nobody has claimed.                                                *)
RevokeExecutionRequest ==
    /\ request' = "REVOKED"
    /\ IF dispatch = "PENDING"
         THEN /\ dispatch' = "BLOCKED" /\ run' = "CANCELLED"
              /\ reason' = "EXECUTION_CANCELLED_BEFORE_DISPATCH"
         ELSE UNCHANGED <<dispatch, runVars>>
    /\ UNCHANGED <<expired, sessionRevoked, consumed, claimedBy, leaseLive,
                   ownershipVars, recovery>>

(* expires_at passes. *)
Expire ==
    /\ ~expired /\ expired' = TRUE
    /\ UNCHANGED <<request, sessionRevoked, consumed, runVars, dispatchVars,
                   ownershipVars, recovery>>

(* The approving administrator logs out or is revoked: revoked_tokens.     *)
RevokeSession ==
    /\ run # "NONE" /\ ~sessionRevoked /\ sessionRevoked' = TRUE
    /\ UNCHANGED <<request, expired, consumed, runVars, dispatchVars,
                   ownershipVars, recovery>>

(* lease_expires_at passes without a renewal. *)
LeaseExpires ==
    /\ leaseLive /\ leaseLive' = FALSE
    /\ UNCHANGED <<authorityVars, consumed, runVars, dispatch, claimedBy,
                   ownershipVars, recovery>>

-----------------------------------------------------------------------------
(* The authority-held path: claim, start, settle.                          *)

(* Mutant: the claim is not fenced by the dispatch and run states. *)
ClaimUnfenced == AuthorityValid /\ ~consumed

ClaimOk == AuthorityValid /\ dispatch = "PENDING" /\ ~consumed /\ run = "REQUESTED"

ClaimExecutionAuthority(w) ==
    /\ ClaimOk
    /\ dispatch' = "CLAIMED" /\ claimedBy' = w /\ leaseLive' = TRUE
    /\ run' = "STARTING"
    /\ UNCHANGED <<authorityVars, consumed, reason, ownershipVars, recovery>>

HoldsClaim(w) == dispatch = "CLAIMED" /\ claimedBy = w

(* renew_execution_dispatch_lease only moves lease_expires_at, so a        *)
(* renewal that succeeds leaves leaseLive as it is.                        *)
RenewOk(w) == HoldsClaim(w) /\ leaseLive /\ AuthorityValid

(* Mutant: the start does not re-read the authority. *)
MarkStartedUnrevalidated(w) ==
    HoldsClaim(w) /\ leaseLive /\ ~consumed /\ run = "STARTING"

MarkStartedOk(w) ==
    HoldsClaim(w) /\ leaseLive /\ AuthorityValid /\ ~consumed /\ run = "STARTING"

MarkExecutionDecisionStarted(w) ==
    /\ MarkStartedOk(w)
    /\ consumed' = TRUE /\ run' = "RUNNING"
    /\ UNCHANGED <<authorityVars, reason, dispatchVars, ownershipVars, recovery>>

(* _proof_recovery_fields: an active run can be settled by its worker only *)
(* while no recovery evidence has been written for it.                     *)
RecoveryUntouched == recovery.status = "REQUESTED" /\ recovery.attempt = 0

(* What every settlement writes into run, dispatch and decision claim.     *)
CloseRun(state, why) ==
    /\ run' = state /\ reason' = why
    /\ dispatch' = TerminalDispatch(state)
    /\ claimedBy' = NoOne /\ leaseLive' = FALSE

(* settle_execution without a process: record_no_process and               *)
(* abort_execution_start in one transaction.                               *)
AbortStartOk(w, state, why) ==
    /\ ValidOutcome(state, why)
    /\ ownership = "UNKNOWN" /\ RecoveryUntouched
    /\ HoldsClaim(w) /\ run = "STARTING" /\ ~consumed

AbortExecutionStart(w, state, why) ==
    /\ AbortStartOk(w, state, why)
    /\ ownership' = "NO_EXTERNAL_PROCESS" /\ proof' = "NO_EXTERNAL_PROCESS"
    /\ CloseRun(state, why)
    /\ UNCHANGED <<authorityVars, consumed, root, identity, recovery>>

(* Mutant: the settlement ignores what recovery has recorded meanwhile. *)
FinishOverRecovery(w, state, why) ==
    /\ ValidOutcome(state, why)
    /\ ownership = "EXTERNAL_PROCESS_GOVERNED" /\ identity /\ root = w
    /\ HoldsClaim(w) /\ leaseLive /\ run = "RUNNING" /\ AuthorityValid

(* settle_execution with a process: record_terminal and finish_execution   *)
(* in one transaction.                                                     *)
FinishOk(w, state, why) ==
    /\ ValidOutcome(state, why)
    /\ ownership = "EXTERNAL_PROCESS_GOVERNED" /\ identity /\ root = w
    /\ RecoveryUntouched
    /\ HoldsClaim(w) /\ leaseLive /\ run = "RUNNING" /\ AuthorityValid

FinishExecution(w, state, why) ==
    /\ FinishOk(w, state, why)
    /\ ownership' = "TERMINAL" /\ proof' = "ALREADY_EXITED"
    /\ CloseRun(state, why)
    /\ UNCHANGED <<authorityVars, consumed, root, identity, recovery>>

-----------------------------------------------------------------------------
(* Process ownership.                                                      *)

(* Mutant: the state changes but the identity columns are not written. *)
RecordOwnershipAnonymous(w, state, complete) ==
    /\ ownership = "UNKNOWN" /\ ownership' = state
    /\ UNCHANGED <<authorityVars, consumed, runVars, dispatchVars, root, identity, proof,
                   recovery>>

(* transition_process_ownership from UNKNOWN: the launch record            *)
(* (record_posix_launch) and the uncertainty record                        *)
(* (record_launch_uncertain).  From UNKNOWN the request is not re-read.    *)
RecordOwnership(w, state, complete) ==
    /\ ownership = "UNKNOWN"
    /\ ownership' = state /\ root' = w /\ identity' = complete
    /\ UNCHANGED <<authorityVars, consumed, runVars, dispatchVars, proof, recovery>>

(* Mutant: the downgrade checks the identity but not the row states. *)
DowngradeAnyRow(w) == identity /\ root = w

(* transition_committed_process_to_recovery_blocked *)
DowngradeOk(w) ==
    /\ ownership = "EXTERNAL_PROCESS_GOVERNED" /\ identity /\ root = w
    /\ run \in Active /\ recovery.status # "CONFIRMED_TERMINATED"

DowngradeOwnership(w) ==
    /\ DowngradeOk(w)
    /\ ownership' = "RECOVERY_BLOCKED"
    /\ UNCHANGED <<authorityVars, consumed, runVars, dispatchVars, root,
                   identity, proof, recovery>>

(* settle_execution_after_confirmed_termination.  `status' is the          *)
(* termination proof the caller presents; only the launching worker        *)
(* (actor process-supervisor) may present NO_EXTERNAL_PROCESS for an       *)
(* UNKNOWN row.  Callers that pass no worker_identity never get here: the  *)
(* required-string check rejects them.                                     *)
SettleConfirmedOk(status, state, why) ==
    /\ ValidOutcome(state, why)
    /\ state \in {"CANCELLED", "TIMED_OUT", "FAILED", "EXECUTION_BLOCKED"}
    /\ \/ status \in {"KILLED", "ALREADY_EXITED"}
          /\ ownership = "EXTERNAL_PROCESS_GOVERNED" /\ identity
       \/ status = "NO_EXTERNAL_PROCESS" /\ ownership = "UNKNOWN"
          /\ run = "STARTING" /\ why = "EXECUTION_CANCELLED_BEFORE_PROCESS_CREATION"
    /\ run \in Active /\ dispatch = "CLAIMED"
    /\ recovery.status \in {"REQUESTED", "DEFERRED"}
    /\ ~AuthorityValid

SettleConfirmed(status, state, why) ==
    /\ SettleConfirmedOk(status, state, why)
    /\ ownership' = "TERMINAL" /\ proof' = status
    /\ CloseRun(state, why)
    /\ recovery' = [NoRecovery EXCEPT !.status = "CONFIRMED_TERMINATED",
                                      !.attempt = NextAttempt(recovery.attempt)]
    /\ UNCHANGED <<authorityVars, consumed, root, identity>>

(* A replay of the same settlement returns True and writes nothing.        *)
SettleReplayed(status, state, why) ==
    /\ ownership = "TERMINAL" /\ run = state /\ reason = why /\ proof = status
    /\ recovery.status = "CONFIRMED_TERMINATED"

-----------------------------------------------------------------------------
(* Recovery.                                                               *)

(* The recovery lease lapses, or the retry back-off ends.                  *)
RecoveryLeaseExpires ==
    /\ recovery.live
    /\ recovery' = [recovery EXCEPT !.live = FALSE]
    /\ UNCHANGED <<authorityVars, consumed, runVars, dispatchVars, ownershipVars>>

RetryDue ==
    /\ recovery.status = "DEFERRED" /\ ~recovery.due
    /\ recovery' = [recovery EXCEPT !.due = TRUE]
    /\ UNCHANGED <<authorityVars, consumed, runVars, dispatchVars, ownershipVars>>

ClaimRecoveryOk ==
    /\ ownership \in Uncertain /\ run \in Active /\ dispatch = "CLAIMED"
    /\ ~recovery.live /\ recovery.due
    /\ recovery.status \notin {"CONFIRMED_TERMINATED", "EXHAUSTED"}

ClaimRecovery(r) ==
    /\ ClaimRecoveryOk
    /\ recovery' = [recovery EXCEPT !.status = "IN_PROGRESS", !.owner = r,
                       !.live = TRUE, !.attempt = NextAttempt(recovery.attempt)]
    /\ UNCHANGED <<authorityVars, consumed, runVars, dispatchVars, ownershipVars>>

HoldsRecoveryLease(r) ==
    recovery.status = "IN_PROGRESS" /\ recovery.owner = r /\ recovery.live

(* Mutants: a lapsed lease may still be completed; one attempt too few.    *)
CompleteAnyLease(r) ==
    /\ recovery.status = "IN_PROGRESS"
    /\ ownership \in Uncertain /\ run \in Active /\ dispatch = "CLAIMED"

CompleteOneShort(r) ==
    /\ HoldsRecoveryLease(r)
    /\ ownership \in Uncertain /\ run \in Active /\ dispatch = "CLAIMED"
    /\ recovery' = [recovery EXCEPT !.owner = NoOne, !.live = FALSE, !.due = FALSE,
                       !.status = IF recovery.attempt + 1 >= MaxAttempts
                                    THEN "EXHAUSTED" ELSE "DEFERRED"]
    /\ ownership' = "RECOVERY_BLOCKED"
    /\ UNCHANGED <<authorityVars, consumed, runVars, dispatchVars, root, identity, proof>>

(* Releases the lease with a retry time, or gives up.  LAUNCH_UNCERTAIN    *)
(* becomes RECOVERY_BLOCKED.                                               *)
CompleteRecoveryOk(r) ==
    /\ HoldsRecoveryLease(r)
    /\ ownership \in Uncertain /\ run \in Active /\ dispatch = "CLAIMED"

CompleteRecovery(r) ==
    /\ CompleteRecoveryOk(r)
    /\ recovery' = [recovery EXCEPT !.owner = NoOne, !.live = FALSE, !.due = FALSE,
                       !.status = IF recovery.attempt >= MaxAttempts
                                    THEN "EXHAUSTED" ELSE "DEFERRED"]
    /\ ownership' = "RECOVERY_BLOCKED"
    /\ UNCHANGED <<authorityVars, consumed, runVars, dispatchVars, root, identity, proof>>

SettleRecoveryOk(r) ==
    /\ HoldsRecoveryLease(r)
    /\ ownership \in Uncertain /\ identity /\ run \in Active /\ dispatch = "CLAIMED"

SettleRecoveryExecution(r, status) ==
    /\ SettleRecoveryOk(r)
    /\ ownership' = "TERMINAL" /\ proof' = status
    /\ CloseRun("FAILED", "PROCESS_LAUNCH_UNCERTAIN")
    /\ recovery' = [NoRecovery EXCEPT !.status = "CONFIRMED_TERMINATED",
                                      !.attempt = recovery.attempt]
    /\ UNCHANGED <<authorityVars, consumed, root, identity>>

(* record_unavailable_governed_recovery and                                *)
(* record_unconfirmed_governed_recovery write the same projection; they    *)
(* differ in the ownership states they accept.  `attempt' is the attempt   *)
(* number of the caller's earlier snapshot, which alone decides between    *)
(* DEFERRED and EXHAUSTED; the row's own counter is advanced.              *)
RecordRecoveryOk(owned) ==
    /\ ownership \in owned /\ run \in Active
    /\ recovery.status \in {"REQUESTED", "DEFERRED"}

RecordRecovery(owned, attempt) ==
    /\ RecordRecoveryOk(owned)
    /\ recovery' = [recovery EXCEPT !.attempt = NextAttempt(recovery.attempt),
                       !.due = FALSE,
                       !.status = IF attempt + 1 >= MaxAttempts
                                    THEN "EXHAUSTED" ELSE "DEFERRED"]
    /\ UNCHANGED <<authorityVars, consumed, runVars, dispatchVars, ownershipVars>>

(* Mutants: a lapsed recovery lease, or a deferred retry, is not listed.   *)
CandidateNoTakeover ==
    /\ run \in Active
    /\ recovery.status \in {"REQUESTED", "DEFERRED"} /\ recovery.due

CandidateNoRetry ==
    /\ run \in Active
    /\ \/ recovery.status = "REQUESTED"
       \/ recovery.status = "IN_PROGRESS" /\ ownership \in Uncertain /\ ~recovery.live

(* list_execution_recovery_candidates.  The last disjunct admits every     *)
(* active run whose ownership is unresolved and whose retry is due,        *)
(* whether or not its authority is still valid.                            *)
RecoveryCandidate ==
    /\ run \in Active
    /\ \/ recovery.status \in {"REQUESTED", "DEFERRED"} /\ recovery.due
       \/ recovery.status = "IN_PROGRESS" /\ ownership \in Uncertain /\ ~recovery.live
    /\ \/ ~AuthorityValid
       \/ dispatch = "CLAIMED" /\ ~leaseLive
       \/ ownership \in {"UNKNOWN", "EXTERNAL_PROCESS_GOVERNED"} \cup Uncertain

(* The terminal outcome that the same query computes for a candidate.      *)
CandidateOutcome ==
    CASE ownership \in Uncertain -> <<"FAILED", "PROCESS_LAUNCH_UNCERTAIN">>
      [] ownership \notin Uncertain /\ (request = "REVOKED" \/ sessionRevoked)
           -> <<"CANCELLED", "EXECUTION_CANCELLED">>
      [] OTHER -> <<"TIMED_OUT", "EXECUTION_AUTHORITY_EXPIRED">>

(* load_durable_process_identity returns an identity. *)
IdentityLoadable ==
    /\ run \in Active /\ identity
    /\ ownership \in {"EXTERNAL_PROCESS_GOVERNED"} \cup Uncertain

-----------------------------------------------------------------------------
OwnershipStates == {"NONE", "UNKNOWN", "NO_EXTERNAL_PROCESS",
                    "EXTERNAL_PROCESS_GOVERNED", "TERMINAL"} \cup Uncertain

RecoveryRows ==
    [status : {"NONE", "REQUESTED", "IN_PROGRESS", "DEFERRED", "EXHAUSTED",
               "CONFIRMED_TERMINATED"},
     attempt : 0 .. MaxAttempts, owner : Reapers \cup {NoOne},
     live : BOOLEAN, due : BOOLEAN]

StoreTypeOK ==
    /\ request \in {"REQUESTED", "AUTHORIZED", "REVOKED"}
    /\ expired \in BOOLEAN /\ sessionRevoked \in BOOLEAN /\ consumed \in BOOLEAN
    /\ run \in {"NONE"} \cup Active \cup TerminalStates
    /\ reason \in {"NONE"} \cup Reasons
    /\ dispatch \in {"NONE", "PENDING", "CLAIMED", "COMPLETED", "FAILED", "BLOCKED"}
    /\ claimedBy \in Workers \cup {NoOne} /\ leaseLive \in BOOLEAN
    /\ ownership \in OwnershipStates
    /\ root \in Workers \cup {NoOne} /\ identity \in BOOLEAN
    /\ proof \in {"NONE", "NO_EXTERNAL_PROCESS", "KILLED", "ALREADY_EXITED"}
    /\ recovery \in RecoveryRows

Attached == {"EXTERNAL_PROCESS_GOVERNED"} \cup Uncertain

(* The rows change together: the part of the inductive invariant that      *)
(* concerns the store alone.                                               *)
StoreInv ==
    /\ run = "NONE" <=> dispatch = "NONE"
    /\ run = "REQUESTED" <=> dispatch = "PENDING"
    /\ run \in {"STARTING", "RUNNING"} <=> dispatch = "CLAIMED"
    /\ claimedBy # NoOne <=> dispatch = "CLAIMED"
    /\ leaseLive => dispatch = "CLAIMED"
    /\ run \in TerminalStates => dispatch = TerminalDispatch(run)
    /\ request = "REQUESTED" => run = "NONE"
    /\ run = "NONE" <=> ownership = "NONE"
    /\ run = "REQUESTED" => ownership = "UNKNOWN"
    /\ run = "RUNNING" => ownership \in Attached /\ identity
    /\ ownership \in Attached => dispatch = "CLAIMED" /\ root # NoOne
    /\ ownership \in {"TERMINAL", "NO_EXTERNAL_PROCESS"} => run \in TerminalStates
    /\ ownership \in {"NONE", "UNKNOWN", "NO_EXTERNAL_PROCESS"} => root = NoOne
    /\ run = "NONE" <=> recovery.status = "NONE"
    /\ run = "NONE" => recovery.attempt = 0
    /\ recovery.status = "REQUESTED" => recovery.due
    /\ recovery.status = "IN_PROGRESS" => ownership \in Uncertain
    /\ recovery.status = "CONFIRMED_TERMINATED" => ownership = "TERMINAL"
    /\ recovery.status = "EXHAUSTED" => recovery.attempt = MaxAttempts
=============================================================================
