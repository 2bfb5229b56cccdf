----------------------------- MODULE ScanControl -----------------------------
(***************************************************************************)
(* The control plane of one scan in the API processes: the approval route  *)
(* with ScanOrchestrator.dispatch_approved_scan, cancel_scan, and the      *)
(* acknowledgement of a quarantined message by an operator.                *)
(*                                                                         *)
(* The API process keeps the scan job it dispatched in _active_jobs and    *)
(* never reads the record again; the worker has a copy of its own.  A      *)
(* process serves one approval or cancellation of the scan at a time;      *)
(* requests that overlap are those of two processes.                       *)
(***************************************************************************)
EXTENDS DispatchQueue, ScanStore

CONSTANTS Apis, Operators

VARIABLES
    apc,     \* where each API process is in the approval route
    snap,    \* status in the job that the route has loaded
    job,     \* status in the job kept in _active_jobs, or "none"
    tasked,  \* _tasks holds the finished publication of the scan
    review   \* per operator: the <<message, stamp>> under review, or <<>>

controlVars == <<apc, snap, job, tasked, review>>

ControlInit ==
    /\ apc = [a \in Apis |-> "idle"] /\ snap = [a \in Apis |-> "OPEN"]
    /\ job = [a \in Apis |-> "none"] /\ tasked = [a \in Apis |-> FALSE]
    /\ review = [p \in Operators |-> <<>>]

AGoto(a, where) == apc' = [apc EXCEPT ![a] = where]

(* The route returns; its job is only kept if it was dispatched.           *)
Answer(a) == AGoto(a, "idle") /\ snap' = [snap EXCEPT ![a] = "OPEN"]

(* approve_scan_authorization: load the job, approve, dispatch.  (An       *)
(* expired request is as closed before it is marked EXPIRED as after.)     *)
LoadScan(a) ==
    /\ apc[a] = "idle"
    /\ AGoto(a, "loaded") /\ snap' = [snap EXCEPT ![a] = scan]
    /\ UNCHANGED <<queueVars, scanVars, job, tasked, review>>

Approve(a) ==
    /\ apc[a] = "loaded"
    /\ \/ ApproveScan /\ AGoto(a, "approved") /\ UNCHANGED snap
       \/ expired /\ Answer(a) /\ UNCHANGED scanVars
    /\ UNCHANGED <<queueVars, job, tasked, review>>

(* dispatch_approved_scan up to the publication.  It saves the loaded job. *)
Dispatch(a) ==
    /\ apc[a] = "approved"
    /\ \/ /\ Dispatchable /\ ~tasked[a]
          /\ AGoto(a, "publishing") /\ job' = [job EXCEPT ![a] = snap[a]]
          /\ SaveScan(snap[a]) /\ UNCHANGED snap
       \/ /\ ~Dispatchable \/ tasked[a]
          /\ Answer(a) /\ UNCHANGED <<scanVars, job>>
    /\ UNCHANGED <<queueVars, tasked, review>>

(* The publication succeeds, fails, or succeeds with its answer lost.      *)
PublishIntent(a) ==
    /\ apc[a] = "publishing"
    /\ \/ EnqueueOnce /\ \E known \in BOOLEAN : tasked' = [tasked EXCEPT ![a] = known]
       \/ UNCHANGED <<queueVars, tasked>>
    /\ Answer(a)
    /\ UNCHANGED <<scanVars, job, review>>

ApiRestart(a) ==
    /\ Answer(a)
    /\ job' = [job EXCEPT ![a] = "none"] /\ tasked' = [tasked EXCEPT ![a] = FALSE]
    /\ UNCHANGED <<queueVars, scanVars, review>>

(* cancel_scan ends the children one by one through the cancellation       *)
(* coordinator...                                                          *)
CancelChild(o) ==
    /\ EndChild(o, {"PENDING", "STARTING", "RUNNING"})
    /\ UNCHANGED <<queueVars, controlVars>>

(* ... and, when all of them are terminal, saves the job this process      *)
(* knows, if that is still open.                                           *)
CancelScan(a) ==
    LET known == IF job[a] = "none" THEN scan ELSE job[a] IN
    /\ apc[a] = "idle" /\ known = "OPEN"
    /\ \A o \in Ops : child[o] \in {"NONE", "ENDED"}
    /\ SaveScan("CANCELLED")
    /\ job' = IF job[a] = "none" THEN job ELSE [job EXCEPT ![a] = "CANCELLED"]
    /\ UNCHANGED <<queueVars, apc, snap, tasked, review>>

(* acknowledge_quarantined: read the record, then compare and delete.      *)
ReviewQuarantine(p) ==
    /\ review[p] = <<>>
    /\ \E m \in Messages :
          Acknowledgeable(m) /\ review' = [review EXCEPT ![p] = <<m, stream[m].stamp>>]
    /\ UNCHANGED <<queueVars, scanVars, apc, snap, job, tasked>>

Acknowledge(p) ==
    /\ review[p] # <<>>
    /\ AcknowledgeQuarantined(review[p][1], review[p][2])
    /\ review' = [review EXCEPT ![p] = <<>>]
    /\ UNCHANGED <<dedupe, scanVars, apc, snap, job, tasked>>

ControlStep ==
    \/ \E a \in Apis : \/ LoadScan(a) \/ Approve(a) \/ Dispatch(a) \/ PublishIntent(a)
                       \/ ApiRestart(a) \/ CancelScan(a)
    \/ \E o \in Ops : CancelChild(o)
    \/ \E p \in Operators : ReviewQuarantine(p) \/ Acknowledge(p)

ControlTypeOK ==
    /\ apc \in [Apis -> {"idle", "loaded", "approved", "publishing"}]
    /\ snap \in [Apis -> Statuses] /\ job \in [Apis -> Statuses \cup {"none"}]
    /\ tasked \in [Apis -> BOOLEAN]
    /\ review \in [Operators -> {<<>>} \cup (Messages \X Nat)]
=============================================================================
