-------------------------- MODULE ProcessSupervisor --------------------------
(***************************************************************************)
(* ProcessSupervisor.execute: the thread body _run_sync that turns a       *)
(* claimed capability into a process and the process into a terminal run.  *)
(*                                                                         *)
(* Control points of thread w:                                             *)
(*   idle          holds a capability, has not claimed it                  *)
(*   claimed       claim committed, launch checks running                  *)
(*   cleared       the last cancellation check before Popen has passed     *)
(*   created       Popen returned                                          *)
(*   unidentified  the identity of the new process could not be captured   *)
(*   recorded      ownership EXTERNAL_PROCESS_GOVERNED committed           *)
(*   running       mark_started committed, _bounded_communicate loops      *)
(*   exited, cancelled, overflow, timeout, leaseLost                       *)
(*                 the tree is verified empty, for this cause              *)
(*   uncertain     a failure after Popen, to be recorded durably           *)
(*   stopped       execute returned      crashed  the worker process died  *)
(***************************************************************************)
EXTENDS ProcessTree

VARIABLES
    pc,         \* control point of each supervisor thread
    cancelReq   \* the cancellation_requested event of execute

supervisorVars == <<pc, cancelReq>>

Settling == {"exited", "cancelled", "overflow", "timeout", "leaseLost"}
Done     == {"stopped", "crashed"}

Goto(w, l) == pc' = [pc EXCEPT ![w] = l]

SupervisorInit ==
    /\ pc = [w \in Workers |-> "idle"]
    /\ cancelReq = [w \in Workers |-> FALSE]

-----------------------------------------------------------------------------
(* Claim and launch checks.                                                *)

RevalidateAndClaim(w) ==
    /\ pc[w] = "idle" /\ run # "NONE"
    /\ \/ ClaimExecutionAuthority(w) /\ Goto(w, "claimed")
       \/ Refused(ClaimOk) /\ Goto(w, "stopped")
    /\ UNCHANGED <<proc, cancelReq>>

(* The asyncio task that awaits execute is cancelled. *)
CancelTask(w) ==
    /\ run # "NONE" /\ pc[w] \notin Done /\ ~cancelReq[w]
    /\ cancelReq' = [cancelReq EXCEPT ![w] = TRUE]
    /\ UNCHANGED <<storeVars, proc, pc>>

(* _settle_no_process.  A settlement that the authority-held path refuses  *)
(* is retried through the post-revocation path, for cancellations only.    *)
SettleNoProcess(w, state, why) ==
    /\ \/ AbortExecutionStart(w, state, why)
       \/ /\ why = "EXECUTION_CANCELLED_BEFORE_PROCESS_CREATION"
          /\ ~AbortStartOk(w, state, why)
          /\ SettleConfirmed("NO_EXTERNAL_PROCESS", state, why)
       \/ Refused(\/ AbortStartOk(w, state, why)
                  \/ /\ why = "EXECUTION_CANCELLED_BEFORE_PROCESS_CREATION"
                     /\ SettleConfirmedOk("NO_EXTERNAL_PROCESS", state, why))
    /\ Goto(w, "stopped")
    /\ UNCHANGED <<proc, cancelReq>>

(* A launch check fails or raises. *)
RejectLaunch(w) ==
    /\ pc[w] = "claimed"
    /\ \/ SettleNoProcess(w, "EXECUTION_BLOCKED", "EXECUTION_IDENTITY_MISMATCH")
       \/ SettleNoProcess(w, "EXECUTION_BLOCKED", "PROCESS_LAUNCH_REJECTED_SECURITY")
       \/ SettleNoProcess(w, "FAILED", "PROCESS_EXECUTION_EXCEPTION")

CancelBeforeCreation(w) ==
    /\ pc[w] = "claimed" /\ cancelReq[w]
    /\ SettleNoProcess(w, "CANCELLED", "EXECUTION_CANCELLED_BEFORE_PROCESS_CREATION")

ClearLaunch(w) ==
    /\ pc[w] = "claimed" /\ ~cancelReq[w]
    /\ Goto(w, "cleared")
    /\ UNCHANGED <<storeVars, proc, cancelReq>>

(* Popen raises FileNotFoundError, PermissionError or anything else. *)
LaunchFails(w) ==
    /\ pc[w] = "cleared"
    /\ \/ SettleNoProcess(w, "FAILED", "EXECUTABLE_NOT_FOUND")
       \/ SettleNoProcess(w, "EXECUTION_BLOCKED", "EXECUTABLE_PERMISSION_DENIED")
       \/ SettleNoProcess(w, "FAILED", "PROCESS_EXECUTION_EXCEPTION")

-----------------------------------------------------------------------------
(* The launch handshake.                                                   *)

CreateProcess(w) ==
    /\ pc[w] = "cleared"
    /\ proc' = [proc EXCEPT ![w] = "alive"]
    /\ Goto(w, "created")
    /\ UNCHANGED <<storeVars, cancelReq>>

(* _capture_stable_process_identity returns None: the process is left      *)
(* alone, because it cannot be named.                                      *)
IdentityLost(w) ==
    /\ pc[w] = "created"
    /\ Goto(w, "unidentified")
    /\ UNCHANGED <<storeVars, proc, cancelReq>>

(* A failure after Popen with the identity at hand: kill, then uncertain.  *)
KillAndGiveUp(w) ==
    /\ KillUnconfirmed(w)
    /\ Goto(w, "uncertain")
    /\ UNCHANGED <<storeVars, cancelReq>>

RecordLaunch(w) ==
    /\ pc[w] = "created"
    /\ \/ /\ RecordOwnership(w, "EXTERNAL_PROCESS_GOVERNED", TRUE)
          /\ Goto(w, "recorded")
          /\ UNCHANGED <<proc, cancelReq>>
       \/ (DbFaults \/ ownership # "UNKNOWN") /\ KillAndGiveUp(w)

MarkStarted(w) ==
    /\ pc[w] = "recorded"
    /\ \/ /\ MarkExecutionDecisionStarted(w)
          /\ Goto(w, "running")
          /\ UNCHANGED <<proc, cancelReq>>
       \/ (DbFaults \/ ~MarkStartedOk(w)) /\ KillAndGiveUp(w)

(* record_launch_uncertain, after which execute returns.  A process        *)
(* without a captured identity is recorded as RECOVERY_BLOCKED.            *)
RecordLaunchUncertain(w) ==
    /\ pc[w] \in {"unidentified", "uncertain"}
    /\ \/ IF pc[w] = "uncertain"
            THEN RecordOwnership(w, "LAUNCH_UNCERTAIN", TRUE)
            ELSE RecordOwnership(w, "RECOVERY_BLOCKED", FALSE)
       \/ DowngradeOwnership(w)
       \/ Refused(ownership = "UNKNOWN" \/ DowngradeOk(w))
    /\ Goto(w, "stopped")
    /\ UNCHANGED <<proc, cancelReq>>

-----------------------------------------------------------------------------
(* _bounded_communicate and settlement.                                    *)

(* Why the wait loop kills a root that still runs. *)
StopCause(w) ==
    {"overflow", "timeout"} \cup {l \in {"cancelled"} : cancelReq[w]}
                            \cup {l \in {"leaseLost"} : ~RenewOk(w)}

(* The loop ends the process, and the tree is then verified empty or not.  *)
StopProcess(w) ==
    /\ pc[w] = "running" /\ proc[w] = "alive"
    /\ \/ KillConfirmed(w) /\ \E l \in StopCause(w) : Goto(w, l)
       \/ KillUnconfirmed(w) /\ Goto(w, "uncertain")
    /\ UNCHANGED <<storeVars, cancelReq>>

(* Mutant: completion is reported without checking for descendants. *)
ObserveRootExit(w) ==
    /\ pc[w] = "running" /\ proc[w] # "alive"
    /\ \E l \in {"exited", "overflow"} : Goto(w, l)
    /\ UNCHANGED <<storeVars, proc, cancelReq>>

(* The loop sees that the root has gone.  Remaining descendants are killed *)
(* before completion is reported; output may have hit the limit.           *)
ObserveExit(w) ==
    /\ pc[w] = "running" /\ proc[w] # "alive"
    /\ \/ KillConfirmed(w) /\ \E l \in {"exited", "overflow"} : Goto(w, l)
       \/ proc[w] = "draining" /\ KillUnconfirmed(w) /\ Goto(w, "uncertain")
    /\ UNCHANGED <<storeVars, cancelReq>>

(* A renewal raises out of the loop. *)
RenewalRaises(w) ==
    /\ pc[w] = "running" /\ DbFaults
    /\ KillAndGiveUp(w)

(* Mutant: the return code of a killed root is not looked at. *)
OutcomeAnyExit(w) ==
    CASE cancelReq[w]          -> {<<"CANCELLED", "EXECUTION_CANCELLED">>}
      [] pc[w] = "overflow"    -> {<<"PARTIAL_RESULTS_WITH_WARNING", "OUTPUT_LIMIT_EXCEEDED">>}
      [] pc[w] = "timeout"     -> {<<"TIMED_OUT", "EXECUTION_TIMEOUT">>}
      [] pc[w] = "leaseLost"   -> {<<"FAILED", "EXECUTION_LEASE_RENEWAL_FAILED">>}
      [] OTHER -> {<<"SUCCEEDED", "NONE">>}

(* The outcome written for each cause; a cancellation request that is      *)
(* visible by now replaces every other cause.                              *)
Outcome(w) ==
    CASE cancelReq[w]          -> {<<"CANCELLED", "EXECUTION_CANCELLED">>}
      [] pc[w] = "overflow"    -> {<<"PARTIAL_RESULTS_WITH_WARNING", "OUTPUT_LIMIT_EXCEEDED">>}
      [] pc[w] = "timeout"     -> {<<"TIMED_OUT", "EXECUTION_TIMEOUT">>}
      [] pc[w] = "leaseLost"   -> {<<"FAILED", "EXECUTION_LEASE_RENEWAL_FAILED">>}
      [] OTHER -> {<<"FAILED", "PROCESS_EXIT_NONZERO">>} \cup
                  (IF proc[w] = "exited" THEN {<<"SUCCEEDED", "NONE">>} ELSE {})

(* _finish_durable; only EXECUTION_CANCELLED has the post-revocation       *)
(* fallback.  A database error counts as a failure after Popen.            *)
Settle(w) ==
    /\ pc[w] \in Settling
    /\ \E out \in Outcome(w) :
         LET fallback == /\ out[2] = "EXECUTION_CANCELLED"
                         /\ SettleConfirmedOk("ALREADY_EXITED", out[1], out[2])
         IN  \/ FinishExecution(w, out[1], out[2]) /\ Goto(w, "stopped")
             \/ /\ ~FinishOk(w, out[1], out[2]) /\ fallback
                /\ SettleConfirmed("ALREADY_EXITED", out[1], out[2])
                /\ Goto(w, "stopped")
             \/ /\ ~FinishOk(w, out[1], out[2]) /\ ~fallback
                /\ UNCHANGED storeVars /\ Goto(w, "stopped")
             \/ DbFaults /\ UNCHANGED storeVars /\ Goto(w, "uncertain")
    /\ UNCHANGED <<proc, cancelReq>>

(* The worker process dies.  Its child runs in a session of its own and    *)
(* survives.                                                               *)
WorkerCrash(w) ==
    /\ pc[w] \notin Done \cup {"idle"}
    /\ Goto(w, "crashed")
    /\ UNCHANGED <<storeVars, proc, cancelReq>>

SupervisorStep(w) ==
    \/ RevalidateAndClaim(w) \/ CancelTask(w)
    \/ RejectLaunch(w) \/ CancelBeforeCreation(w) \/ ClearLaunch(w) \/ LaunchFails(w)
    \/ CreateProcess(w) \/ IdentityLost(w) \/ RecordLaunch(w) \/ MarkStarted(w)
    \/ RecordLaunchUncertain(w)
    \/ StopProcess(w) \/ ObserveExit(w) \/ RenewalRaises(w) \/ Settle(w)
    \/ WorkerCrash(w)

SupervisorTypeOK ==
    /\ pc \in [Workers -> {"idle", "claimed", "cleared", "created", "unidentified",
                           "recorded", "running", "uncertain"} \cup Settling \cup Done]
    /\ cancelReq \in [Workers -> BOOLEAN]
=============================================================================
