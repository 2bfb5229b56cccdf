----------------------------- MODULE ScanStore -----------------------------
(***************************************************************************)
(* The durable rows of one scan (core/db.py, core/storage.py): the scan    *)
(* record, its parent authorization request and the child execution of     *)
(* every selected operation.  A child is seen here from the scan: its      *)
(* life between the claim and the end is that of ExecutionLifecycle.       *)
(***************************************************************************)
EXTENDS Naturals

CONSTANT NumOps   \* selected operations of the manifest, in their id order

ASSUME OpsAssumption == NumOps \in Nat \ {0}

Ops == 1 .. NumOps

VARIABLES
    parent,   \* scan_authorization_requests.state
    expired,  \* its expires_at has passed; the children expire with it
    child,    \* execution_runs.state of each operation
    claims,   \* how often each child was claimed (history)
    scan      \* scans.status; PENDING and RUNNING are both "OPEN"

scanVars == <<parent, expired, child, claims, scan>>

Statuses == {"OPEN", "COMPLETED", "FAILED", "CANCELLED"}

ScanInit ==
    /\ parent = "REQUESTED" /\ expired = FALSE
    /\ child = [o \in Ops |-> "NONE"] /\ claims = [o \in Ops |-> 0]
    /\ scan = "OPEN"

Dispatchable == parent = "DISPATCHABLE" /\ ~expired

AllEnded  == \A o \in Ops : child[o] = "ENDED"
SomeEnded == \E o \in Ops : child[o] = "ENDED"

ParentExpires == ~expired /\ expired' = TRUE /\ UNCHANGED <<parent, child, claims, scan>>

(* approve_scan_authorization_request: the first approval creates all      *)
(* children in the transaction that makes the parent dispatchable; an      *)
(* exact replay returns them.                                              *)
ApproveScan ==
    /\ ~expired
    /\ parent' = "DISPATCHABLE"
    /\ child' = IF parent = "REQUESTED" THEN [o \in Ops |-> "PENDING"] ELSE child
    /\ UNCHANGED <<expired, claims, scan>>

(* save_scan overwrites the whole record: last writer wins.                *)
SaveScan(status) ==
    scan' = status /\ UNCHANGED <<parent, expired, child, claims>>

(* Mutant: a second worker of the same identity takes a live claim over.   *)
ClaimAgain(o) ==
    /\ Dispatchable /\ child[o] \in {"PENDING", "STARTING"}
    /\ child' = [child EXCEPT ![o] = "STARTING"]
    /\ claims' = [claims EXCEPT ![o] = @ + 1]
    /\ UNCHANGED <<parent, expired, scan>>

(* claim_execution_authority. *)
ClaimChild(o) ==
    /\ Dispatchable /\ child[o] = "PENDING"
    /\ child' = [child EXCEPT ![o] = "STARTING"]
    /\ claims' = [claims EXCEPT ![o] = @ + 1]
    /\ UNCHANGED <<parent, expired, scan>>

(* mark_execution_decision_started consumes the decision.                  *)
StartChild(o) ==
    /\ Dispatchable /\ child[o] = "STARTING"
    /\ child' = [child EXCEPT ![o] = "RUNNING"]
    /\ UNCHANGED <<parent, expired, claims, scan>>

(* The run ends: settled by its worker, by the reaper, or by a             *)
(* cancellation, which also closes a run that nobody has claimed.          *)
EndChild(o, from) ==
    /\ child[o] \in from
    /\ child' = [child EXCEPT ![o] = "ENDED"]
    /\ UNCHANGED <<parent, expired, claims, scan>>

ScanTypeOK ==
    /\ parent \in {"REQUESTED", "DISPATCHABLE"} /\ expired \in BOOLEAN
    /\ child \in [Ops -> {"NONE", "PENDING", "STARTING", "RUNNING", "ENDED"}]
    /\ claims \in [Ops -> Nat] /\ scan \in Statuses
=============================================================================
