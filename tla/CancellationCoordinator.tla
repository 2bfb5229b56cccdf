----------------------- MODULE CancellationCoordinator -----------------------
(***************************************************************************)
(* ExecutionCancellationCoordinator.cancel_request: one call per canceller *)
(* (the executions API, or the scan orchestrator).  The call reads the     *)
(* run, revokes the request, kills the process by its durable identity,    *)
(* settles the run, and reports whether the cancellation is confirmed.     *)
(*                                                                         *)
(* Control points: idle, noRun / active / terminal (what the first read    *)
(* found), revoked, loaded (identity loaded), proved (kill confirmed),     *)
(* done.  result is the answer: confirmed (confirmedNoRun when its         *)
(* execution_id is None), taskRunning when only stop_task failed, or       *)
(* unconfirmed.                                                            *)
(***************************************************************************)
EXTENDS ProcessTree

CONSTANT Cancellers

VARIABLES cpc, result, cancelStatus

coordinatorVars == <<cpc, result, cancelStatus>>

CoordinatorInit ==
    /\ cpc = [c \in Cancellers |-> "idle"]
    /\ result = [c \in Cancellers |-> "none"]
    /\ cancelStatus = [c \in Cancellers |-> "NONE"]

CGoto(c, l) == cpc' = [cpc EXCEPT ![c] = l] /\ UNCHANGED result

Return(c, answers) ==
    /\ cpc' = [cpc EXCEPT ![c] = "done"]
    /\ \E a \in answers : result' = [result EXCEPT ![c] = a]

(* `confirmed' also needs stop_task to have stopped the owning task.       *)
Confirm(c, answer) == Return(c, {answer, "taskRunning"})
Escalate(c)        == Return(c, {"unconfirmed"})

ReadRun(c) ==
    /\ cpc[c] = "idle"
    /\ CGoto(c, CASE run = "NONE"   -> "noRun"
                  [] run \in Active -> "active"
                  [] OTHER          -> "terminal")
    /\ UNCHANGED <<storeVars, proc, cancelStatus>>

Revoke(c) ==
    /\ cpc[c] \in {"noRun", "active", "terminal"}
    /\ \/ /\ RevokeExecutionRequest
          /\ CASE cpc[c] = "noRun"    -> Confirm(c, "confirmedNoRun")
               [] cpc[c] = "terminal" -> Confirm(c, "confirmed")
               [] OTHER               -> CGoto(c, "revoked")
       \/ Refused(TRUE) /\ Escalate(c)
    /\ UNCHANGED <<proc, cancelStatus>>

(* What is left to kill.  A run that the revocation closed before dispatch *)
(* is settled again without a worker_identity, which the settlement        *)
(* refuses, so that answer is unconfirmed like that of a run with no       *)
(* loadable identity.                                                      *)
Inspect(c) ==
    /\ cpc[c] = "revoked"
    /\ IF IdentityLoadable THEN CGoto(c, "loaded") ELSE Escalate(c)
    /\ UNCHANGED <<storeVars, proc, cancelStatus>>

(* Mutant: the answer of the kill is ignored. *)
CancelUnverified(c) ==
    /\ cpc[c] = "loaded"
    /\ KillUnconfirmed(root) /\ CGoto(c, "proved")
    /\ cancelStatus' = [cancelStatus EXCEPT ![c] = KillStatus(root)]
    /\ UNCHANGED storeVars

CancelExecution(c) ==
    /\ cpc[c] = "loaded"
    /\ \/ /\ KillConfirmed(root) /\ CGoto(c, "proved")
          /\ cancelStatus' = [cancelStatus EXCEPT ![c] = KillStatus(root)]
       \/ KillUnconfirmed(root) /\ Escalate(c) /\ UNCHANGED cancelStatus
    /\ UNCHANGED storeVars

(* Mutant: the answer of the settlement is ignored. *)
SettleIgnored(c) ==
    /\ cpc[c] = "proved"
    /\ \/ SettleConfirmed(cancelStatus[c], "CANCELLED", "EXECUTION_CANCELLED")
       \/ Refused(SettleConfirmedOk(cancelStatus[c], "CANCELLED", "EXECUTION_CANCELLED"))
    /\ Confirm(c, "confirmed")
    /\ UNCHANGED <<proc, cancelStatus>>

SettleCancelled(c) ==
    /\ cpc[c] = "proved"
    /\ LET state  == "CANCELLED"
           why    == "EXECUTION_CANCELLED"
           replay == SettleReplayed(cancelStatus[c], state, why)
       IN  \/ SettleConfirmed(cancelStatus[c], state, why) /\ Confirm(c, "confirmed")
           \/ replay /\ UNCHANGED storeVars /\ Confirm(c, "confirmed")
           \/ /\ Refused(replay \/ SettleConfirmedOk(cancelStatus[c], state, why))
              /\ Escalate(c)
    /\ UNCHANGED <<proc, cancelStatus>>

CoordinatorStep(c) ==
    ReadRun(c) \/ Revoke(c) \/ Inspect(c) \/ CancelExecution(c) \/ SettleCancelled(c)

CoordinatorTypeOK ==
    /\ cpc \in [Cancellers -> {"idle", "noRun", "active", "terminal", "revoked",
                               "loaded", "proved", "done"}]
    /\ result \in [Cancellers -> {"none", "confirmed", "confirmedNoRun",
                                  "taskRunning", "unconfirmed"}]
    /\ cancelStatus \in [Cancellers -> {"NONE", "KILLED", "ALREADY_EXITED"}]
=============================================================================
