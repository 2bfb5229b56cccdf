--------------------------- MODULE RecoveryReaper ---------------------------
(***************************************************************************)
(* ObservationService._reap_execution_authority_once: the periodic task of *)
(* every API process that terminates executions nobody supervises any      *)
(* more.  It works from a snapshot: the candidate row it listed is used    *)
(* several awaits later, while workers and other reapers move on.          *)
(*                                                                         *)
(* Control points of reaper r:                                             *)
(*   idle         between two candidates                                   *)
(*   listed       holds a candidate snapshot                               *)
(*   leased       holds (or held) the recovery lease, for uncertain rows   *)
(*   targeted     has loaded the durable identity of the process           *)
(*   unavailable  found no loadable identity for an UNKNOWN/GOVERNED row   *)
(*   unproved     the termination was not confirmed                        *)
(*   proved       the termination was confirmed, with killStatus[r]        *)
(* inflight[r] is a cancellation whose caller timed out: the executor      *)
(* thread keeps running and may still kill the process.                    *)
(***************************************************************************)
EXTENDS ProcessTree

VARIABLES
    rpc,         \* control point of each reaper
    snap,        \* the candidate row it works from
    killStatus,  \* the status its confirmed termination reported
    inflight     \* _pending_supervisor_cancellations is not empty

reaperVars == <<rpc, snap, killStatus, inflight>>

NoSnap == [ownership |-> "NONE", preDispatch |-> FALSE,
           outcome |-> <<"NONE", "NONE">>, attempt |-> 0]

ReaperInit ==
    /\ rpc = [r \in Reapers |-> "idle"]
    /\ snap = [r \in Reapers |-> NoSnap]
    /\ killStatus = [r \in Reapers |-> "NONE"]
    /\ inflight = [r \in Reapers |-> FALSE]

RGoto(r, l) == rpc' = [rpc EXCEPT ![r] = l]

(* The loop goes on to the next candidate. *)
NextCandidate(r) ==
    /\ RGoto(r, "idle")
    /\ snap' = [snap EXCEPT ![r] = NoSnap]
    /\ killStatus' = [killStatus EXCEPT ![r] = "NONE"]

SnapUncertain(r) == snap[r].ownership \in Uncertain

ListCandidate(r) ==
    /\ rpc[r] = "idle" /\ RecoveryCandidate
    /\ snap' = [snap EXCEPT ![r] =
         [ownership |-> ownership, outcome |-> CandidateOutcome,
          preDispatch |-> (run = "REQUESTED" /\ dispatch = "PENDING"),
          attempt |-> recovery.attempt]]
    /\ RGoto(r, "listed")
    /\ UNCHANGED <<storeVars, proc, killStatus, inflight>>

(* _supervisor_cancellation_requires_reconciliation: an earlier            *)
(* cancellation for this execution is still running.                       *)
SkipInFlight(r) ==
    /\ rpc[r] = "listed" /\ inflight[r]
    /\ SnapUncertain(r) \/ (~snap[r].preDispatch /\ IdentityLoadable)
    /\ NextCandidate(r)
    /\ UNCHANGED <<storeVars, proc, inflight>>

-----------------------------------------------------------------------------
(* Uncertain ownership: lease, kill, settle or defer.                      *)

LeaseRecovery(r) ==
    /\ rpc[r] = "listed" /\ SnapUncertain(r) /\ ~inflight[r]
    /\ \/ ClaimRecovery(r) /\ RGoto(r, "leased") /\ UNCHANGED <<snap, killStatus>>
       \/ Refused(ClaimRecoveryOk) /\ NextCandidate(r)
    /\ UNCHANGED <<proc, inflight>>

(* The durable identity, read after the lease was granted. *)
LoadLeasedIdentity(r) ==
    /\ rpc[r] = "leased"
    /\ RGoto(r, IF IdentityLoadable THEN "targeted" ELSE "unproved")
    /\ UNCHANGED <<storeVars, proc, snap, killStatus, inflight>>

(* _owned_supervisor_cancellation with the loaded identity: confirmed,     *)
(* refused, or timed out with the kill still running.                      *)
Terminate(r) ==
    /\ rpc[r] = "targeted"
    /\ \/ /\ KillConfirmed(root) /\ RGoto(r, "proved")
          /\ killStatus' = [killStatus EXCEPT ![r] = KillStatus(root)]
          /\ UNCHANGED inflight
       \/ /\ KillUnconfirmed(root) /\ RGoto(r, "unproved")
          /\ UNCHANGED <<killStatus, inflight>>
       \/ /\ RGoto(r, "unproved") /\ inflight' = [inflight EXCEPT ![r] = TRUE]
          /\ UNCHANGED <<proc, killStatus>>
    /\ UNCHANGED <<storeVars, snap>>

(* The timed-out cancellation ends.  Its result settles nothing. *)
LateCancellation(r) ==
    /\ inflight[r]
    /\ KillUnconfirmed(root)
    /\ inflight' = [inflight EXCEPT ![r] = FALSE]
    /\ UNCHANGED <<storeVars, rpc, snap, killStatus>>

CloseRecovered(r) ==
    /\ rpc[r] = "proved" /\ SnapUncertain(r)
    /\ \/ SettleRecoveryExecution(r, killStatus[r])
       \/ Refused(SettleRecoveryOk(r))
    /\ NextCandidate(r)
    /\ UNCHANGED <<proc, inflight>>

DeferRecovery(r) ==
    /\ rpc[r] = "unproved" /\ SnapUncertain(r)
    /\ CompleteRecovery(r) \/ Refused(CompleteRecoveryOk(r))
    /\ NextCandidate(r)
    /\ UNCHANGED <<proc, inflight>>

-----------------------------------------------------------------------------
(* UNKNOWN and governed ownership.                                         *)

(* A run that was never dispatched.  The settlement call passes no         *)
(* worker_identity, so settle_execution_after_confirmed_termination        *)
(* returns False before it reads anything.                                 *)
ReapPreDispatch(r) ==
    /\ rpc[r] = "listed" /\ ~SnapUncertain(r) /\ snap[r].preDispatch
    /\ NextCandidate(r)
    /\ UNCHANGED <<storeVars, proc, inflight>>

LoadIdentity(r) ==
    /\ rpc[r] = "listed" /\ ~SnapUncertain(r) /\ ~snap[r].preDispatch
    /\ IF IdentityLoadable THEN ~inflight[r] /\ RGoto(r, "targeted")
                           ELSE RGoto(r, "unavailable")
    /\ UNCHANGED <<storeVars, proc, snap, killStatus, inflight>>

RecordUnavailable(r) ==
    /\ rpc[r] = "unavailable"
    /\ LET owned == {"UNKNOWN", "EXTERNAL_PROCESS_GOVERNED"}
       IN  RecordRecovery(owned, snap[r].attempt) \/ Refused(RecordRecoveryOk(owned))
    /\ NextCandidate(r)
    /\ UNCHANGED <<proc, inflight>>

RecordUnconfirmed(r) ==
    /\ rpc[r] = "unproved" /\ ~SnapUncertain(r)
    /\ LET owned == {"EXTERNAL_PROCESS_GOVERNED"}
       IN  RecordRecovery(owned, snap[r].attempt) \/ Refused(RecordRecoveryOk(owned))
    /\ NextCandidate(r)
    /\ UNCHANGED <<proc, inflight>>

(* The outcome is the one computed when the candidate was listed. *)
CloseGoverned(r) ==
    /\ rpc[r] = "proved" /\ ~SnapUncertain(r)
    /\ LET state == snap[r].outcome[1]
           why   == snap[r].outcome[2]
       IN  \/ SettleConfirmed(killStatus[r], state, why)
           \/ Refused(SettleConfirmedOk(killStatus[r], state, why))
    /\ NextCandidate(r)
    /\ UNCHANGED <<proc, inflight>>

(* The API process restarts; snapshot and running cancellations are lost.  *)
ReaperCrash(r) ==
    /\ rpc[r] # "idle" \/ inflight[r]
    /\ NextCandidate(r)
    /\ inflight' = [inflight EXCEPT ![r] = FALSE]
    /\ UNCHANGED <<storeVars, proc>>

(* One step of the reaper pass. *)
ReaperPass(r) ==
    \/ ListCandidate(r) \/ SkipInFlight(r) \/ LeaseRecovery(r) \/ LoadLeasedIdentity(r)
    \/ Terminate(r) \/ CloseRecovered(r) \/ DeferRecovery(r)
    \/ ReapPreDispatch(r) \/ LoadIdentity(r) \/ RecordUnavailable(r)
    \/ RecordUnconfirmed(r) \/ CloseGoverned(r)

ReaperStep(r) == ReaperPass(r) \/ LateCancellation(r) \/ ReaperCrash(r)

ReaperTypeOK ==
    /\ rpc \in [Reapers -> {"idle", "listed", "leased", "targeted", "unavailable",
                            "unproved", "proved"}]
    /\ snap \in [Reapers ->
         [ownership : OwnershipStates,
          preDispatch : BOOLEAN, attempt : 0 .. MaxAttempts,
          outcome : {<<"NONE", "NONE">>, <<"FAILED", "PROCESS_LAUNCH_UNCERTAIN">>,
                     <<"CANCELLED", "EXECUTION_CANCELLED">>,
                     <<"TIMED_OUT", "EXECUTION_AUTHORITY_EXPIRED">>}]]
    /\ killStatus \in [Reapers -> {"NONE", "KILLED", "ALREADY_EXITED"}]
    /\ inflight \in [Reapers -> BOOLEAN]
=============================================================================
