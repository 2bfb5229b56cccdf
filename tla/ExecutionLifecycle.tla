------------------------- MODULE ExecutionLifecycle -------------------------
(***************************************************************************)
(* One governed execution from its request to its terminal run: the        *)
(* durable store, the supervisor threads that hold a capability for it,    *)
(* the reapers of the API processes, and the cancellation calls, all       *)
(* running concurrently and sharing nothing but the store and the process  *)
(* table.                                                                  *)
(***************************************************************************)
EXTENDS ProcessSupervisor, RecoveryReaper, CancellationCoordinator

vars == <<storeVars, proc, supervisorVars, reaperVars, coordinatorVars>>

Init ==
    StoreInit /\ ProcInit /\ SupervisorInit /\ ReaperInit /\ CoordinatorInit

(* Approval, and what only the passing of time or an administrator does.   *)
Environment ==
    \/ ApproveExecutionRequest \/ RevokeSession \/ Expire \/ LeaseExpires
    \/ RecoveryLeaseExpires \/ RetryDue

Next ==
    \/ Environment /\ UNCHANGED <<proc, supervisorVars, reaperVars, coordinatorVars>>
    \/ /\ \E w \in Workers : ProcessExit(w)
       /\ UNCHANGED <<supervisorVars, reaperVars, coordinatorVars>>
    \/ /\ \E w \in Workers : SupervisorStep(w)
       /\ UNCHANGED <<reaperVars, coordinatorVars>>
    \/ /\ \E r \in Reapers : ReaperStep(r)
       /\ UNCHANGED <<supervisorVars, coordinatorVars>>
    \/ /\ \E c \in Cancellers : CoordinatorStep(c)
       /\ UNCHANGED <<supervisorVars, reaperVars>>

Spec == Init /\ [][Next]_vars

(* What the scheduling guarantees.  Clocks advance, so deadlines pass.     *)
(* BackendObservationService._run repeats the reaper pass for ever, so a   *)
(* step it reaches again and again is eventually completed, even though    *)
(* the API process may restart and the database may fail in between.       *)
(* Nothing is assumed of workers, tools or cancellers: a worker may hang,  *)
(* and a tool may never exit.                                              *)
ReaperAlone(A) == A /\ UNCHANGED <<supervisorVars, coordinatorVars>>
ClockAlone(A)  == A /\ UNCHANGED <<proc, supervisorVars, reaperVars, coordinatorVars>>

ReaperFairness(r) ==
    /\ WF_vars(ReaperAlone(ReaperPass(r)))
    /\ SF_vars(ReaperAlone(LeaseRecovery(r) /\ rpc'[r] = "leased"))
    /\ SF_vars(ReaperAlone(LoadLeasedIdentity(r)))
    /\ SF_vars(ReaperAlone(LoadIdentity(r)))
    /\ SF_vars(ReaperAlone(Terminate(r)))
    /\ SF_vars(ReaperAlone((CloseRecovered(r) \/ CloseGoverned(r)) /\ run' # run))
    /\ SF_vars(ReaperAlone((DeferRecovery(r) \/ RecordUnavailable(r)
                                \/ RecordUnconfirmed(r)) /\ recovery' # recovery))
    /\ WF_vars(ReaperAlone(LateCancellation(r)))

FairSpec ==
    /\ Spec
    /\ WF_vars(ClockAlone(Expire))
    /\ WF_vars(ClockAlone(RetryDue))
    /\ WF_vars(ClockAlone(RecoveryLeaseExpires))
    /\ \A r \in Reapers : ReaperFairness(r)

TypeOK ==
    StoreTypeOK /\ ProcTypeOK /\ SupervisorTypeOK /\ ReaperTypeOK /\ CoordinatorTypeOK

-----------------------------------------------------------------------------
(* A run that is durably terminal has no live process: no settlement path  *)
(* (worker, reaper or canceller) closes a run while the process tree it    *)
(* launched still has a member.                                            *)
TerminalMeansNoLiveProcess ==
    run \in TerminalStates => \A w \in Workers : ~Live(w)

(* One approval creates at most one process, whatever the number of        *)
(* workers that hold a capability for it and however the claim is fenced.  *)
AtMostOneLaunch ==
    \A v, w \in Workers : proc[v] # "none" /\ proc[w] # "none" => v = w

(* RUNNING is reported only for a process whose identity was committed     *)
(* first, and a process that recovery is to kill is the one launched.      *)
OwnershipNamesTheProcess ==
    /\ run = "RUNNING" => root # NoOne /\ identity
    /\ root # NoOne => proc[root] # "none"
    /\ ownership = "NO_EXTERNAL_PROCESS" => \A w \in Workers : proc[w] = "none"

(* Success is reported only for a process that ended by itself; a kill     *)
(* issued by a reaper or a canceller while the worker waits is never       *)
(* taken for a normal end.                                                 *)
SuccessIsNatural == run = "SUCCEEDED" => proc[root] = "exited"

(* The rows of one execution agree: dispatch, ownership, recovery and run  *)
(* close together, so no reader sees a closed run with an open owner, and  *)
(* a recovery lease exists only for an open run of uncertain ownership.    *)
RowsAgree ==
    /\ run \in Active <=> dispatch \in {"PENDING", "CLAIMED"}
    /\ run \in TerminalStates => dispatch = TerminalDispatch(run)
    /\ ownership \in {"TERMINAL", "NO_EXTERNAL_PROCESS"} => run \in TerminalStates
    /\ recovery.status = "CONFIRMED_TERMINATED" => ownership = "TERMINAL"
    /\ recovery.status = "IN_PROGRESS" => ownership \in Uncertain /\ run \in Active

(* A process that outlives its supervisor thread stays in reach of         *)
(* recovery: the reaper's query lists its run, at once or when the current *)
(* lease or back-off ends, unless recovery gave up after its last attempt. *)
OrphanIsRecoverable ==
    \A w \in Workers : Live(w) /\ pc[w] \in Done =>
        \/ RecoveryCandidate
        \/ recovery.live
        \/ recovery.status = "DEFERRED" /\ ~recovery.due
        \/ recovery.status = "EXHAUSTED"

(* Recovery gives up only after max_recovery_attempts attempts, although   *)
(* the decision is taken from the attempt number of a stale snapshot.      *)
ExhaustedOnlyAtLimit == recovery.status = "EXHAUSTED" => recovery.attempt = MaxAttempts

(* A confirmed cancellation of a known run is true: the run is durably     *)
(* terminal, the request is revoked and nothing runs.                      *)
ConfirmedIsSound ==
    \A c \in Cancellers : result[c] = "confirmed" =>
        /\ run \in TerminalStates /\ request = "REVOKED"
        /\ \A w \in Workers : ~Live(w)

(* A terminal run is immutable, with its reason, its dispatch and its      *)
(* ownership evidence, against late workers, reapers and cancellers.       *)
TerminalIsFinal ==
    [][(run \in TerminalStates) => UNCHANGED <<runVars, dispatchVars, ownershipVars>>]_vars

(* Once authority is lost no step reports the run as started or as         *)
(* completed, and an identity once written is never replaced.              *)
LostAuthorityStartsNothing ==
    [][/\ ~AuthorityValid /\ run' # run =>
             run' \notin {"STARTING", "RUNNING", "SUCCEEDED", "PARTIAL_RESULTS_WITH_WARNING"}
       /\ root # NoOne => UNCHANGED <<root, identity>>]_vars

(* A reaper whose recovery lease lapsed, or was taken over by another      *)
(* reaper, while it was killing the process changes nothing durable.       *)
LapsedLeaseWritesNothing ==
    [][\A r \in Reapers :
          /\ rpc[r] \in {"proved", "unproved"} /\ SnapUncertain(r)
          /\ rpc'[r] = "idle" /\ ~HoldsRecoveryLease(r)
          => UNCHANGED storeVars]_vars

(* Every dispatched run is closed in the end, or the recovery budget has   *)
(* been used up, whether or not its worker survives.                       *)
DispatchedRunEnds ==
    run \in {"STARTING", "RUNNING"} ~>
        run \in TerminalStates \/ recovery.attempt = MaxAttempts

(* A process whose authority is lost does not run for ever, unless the     *)
(* recovery budget has been used up.                                       *)
AuthorityLossStopsProcess ==
    \A w \in Workers :
        Live(w) /\ ~AuthorityValid ~> ~Live(w) \/ recovery.attempt = MaxAttempts

-----------------------------------------------------------------------------
(* The inductive invariant behind the safety properties.  Its first part,  *)
(* StoreInv, is in ExecutionStore.                                         *)

(* A process exists only for the worker whose claim was granted, and is    *)
(* named by the ownership row from the moment that row leaves UNKNOWN.     *)
ProcessInv ==
    /\ \A w \in Workers : proc[w] # "none" =>
          /\ root \in {w, NoOne}
          /\ root = NoOne => ownership = "UNKNOWN" /\ claimedBy = w
    /\ root # NoOne => proc[root] # "none"
    /\ run \in TerminalStates => \A w \in Workers : ~Live(w)
    /\ run = "SUCCEEDED" => root # NoOne /\ proc[root] = "exited"

(* What each control point of a supervisor thread implies. *)
ThreadInv(w) ==
    /\ pc[w] = "idle" => claimedBy # w /\ proc[w] = "none"
    /\ pc[w] \in {"claimed", "cleared"} =>
          claimedBy = w /\ ownership = "UNKNOWN" /\ proc[w] = "none"
    /\ pc[w] \in {"created", "unidentified"} =>
          claimedBy = w /\ ownership = "UNKNOWN" /\ proc[w] # "none"
    /\ pc[w] = "uncertain" => proc[w] # "none" /\ (root = w \/ ownership = "UNKNOWN")
    /\ pc[w] \in {"recorded", "running"} \cup Settling =>
          root = w /\ identity /\ proc[w] # "none"
    /\ pc[w] \in Settling => ~Live(w)

(* Snapshots and termination proofs stay true while reapers and cancellers *)
(* hold them.                                                              *)
HolderInv(r) ==
    /\ rpc[r] \in {"targeted", "proved"} \/ inflight[r] => root # NoOne
    /\ rpc[r] = "proved" => ~Live(root) /\ killStatus[r] # "NONE"
    /\ snap[r].attempt <= recovery.attempt

CallInv(c) ==
    /\ cpc[c] = "terminal" => run \in TerminalStates
    /\ cpc[c] \in {"loaded", "proved"} => root # NoOne
    /\ cpc[c] = "proved" => ~Live(root) /\ cancelStatus[c] # "NONE"
    /\ cpc[c] \in {"revoked", "loaded", "proved"} => request = "REVOKED"
    /\ result[c] = "confirmed" => run \in TerminalStates /\ request = "REVOKED"

(* All of it, for every reachable state of the composed system: what each  *)
(* row, thread, reaper and canceller may rely on while the others move.    *)
LifecycleInv ==
    /\ TypeOK /\ StoreInv /\ ProcessInv
    /\ \A w \in Workers : ThreadInv(w)
    /\ \A r \in Reapers : HolderInv(r)
    /\ \A c \in Cancellers : CallInv(c)

-----------------------------------------------------------------------------
(* Statements of the repository's documentation that the code does not     *)
(* keep.                                                                   *)

(* list_execution_recovery_candidates: "Return active executions whose     *)
(* durable authority is no longer valid."  No reaper is about to kill a    *)
(* process whose authority and lease both hold.                            *)
RecoveryTargetsLostAuthority ==
    \A r \in Reapers : rpc[r] = "targeted" => ~RenewOk(root)

(* cancel_request: revocation prevents "a concurrent worker from creating  *)
(* a new governed process".                                                *)
NoLaunchAfterRevocation ==
    [][request = "REVOKED" => \A w \in Workers : proc[w] = "none" => proc'[w] = "none"]_vars

(* ExecutionCancellationOutcome.confirmed: "Return true only when no       *)
(* process or a durable terminal run is proven."                           *)
ConfirmedNoRunIsSound ==
    \A c \in Cancellers : result[c] = "confirmedNoRun" =>
        run \in TerminalStates \/ \A w \in Workers : ~Live(w)

(* cancel_request: "a durable terminal run plus a confirmed process        *)
(* outcome (or an atomic pre-dispatch cancellation) is reported as         *)
(* confirmed".                                                             *)
PreDispatchCancellationIsConfirmed ==
    \A c \in Cancellers :
        cpc[c] = "done" /\ reason = "EXECUTION_CANCELLED_BEFORE_DISPATCH"
            => result[c] # "unconfirmed"

(* abort_execution_start: "Atomically terminalize a fenced STARTING run    *)
(* after launch failure."  A worker that returns without having created a  *)
(* process leaves no open run behind, unless recovery has recorded         *)
(* evidence for it.                                                        *)
LaunchFailureCloses ==
    \A w \in Workers :
        pc[w] = "stopped" /\ claimedBy = w /\ proc[w] = "none" => ~RecoveryUntouched

(* Contract 04: "the loop MUST use bounded batch size, cadence, and retry  *)
(* behavior".  No lease is granted once max_recovery_attempts have begun.  *)
RecoveryRetryIsBounded ==
    [][recovery.attempt = MaxAttempts /\ ~recovery.live => ~recovery'.live]_vars

(* Contract 04: the recovery loop must "enumerate authority-lost active    *)
(* runs" and settle them, also "a run with no process ever created".       *)
ExpiredRequestIsReaped ==
    run = "REQUESTED" /\ expired ~> run # "REQUESTED"

(* is_valid_process_ownership_transition: PROCESS_OWNERSHIP_TRANSITIONS is *)
(* the contract of every ownership change.                                 *)
OwnershipTransitions ==
    [NONE |-> {"UNKNOWN"},
     UNKNOWN |-> {"NO_EXTERNAL_PROCESS", "EXTERNAL_PROCESS_GOVERNED",
                  "LAUNCH_UNCERTAIN", "RECOVERY_BLOCKED"},
     NO_EXTERNAL_PROCESS |-> {"TERMINAL"},
     EXTERNAL_PROCESS_GOVERNED |-> {"RECOVERY_BLOCKED", "TERMINAL"},
     LAUNCH_UNCERTAIN |-> {"EXTERNAL_PROCESS_GOVERNED", "NO_EXTERNAL_PROCESS",
                           "RECOVERY_BLOCKED"},
     RECOVERY_BLOCKED |-> {"TERMINAL"},
     TERMINAL |-> {}]

OwnershipFollowsContract ==
    [][ownership' # ownership => ownership' \in OwnershipTransitions[ownership]]_vars
=============================================================================
