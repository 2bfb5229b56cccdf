----------------------------- MODULE ProcessTree -----------------------------
(***************************************************************************)
(* The operating-system side of an execution: the process tree that a      *)
(* supervisor thread creates with Popen(start_new_session=True), and       *)
(* identity-bound termination (ProcessSupervisor.kill_process_tree and     *)
(* cancel_execution).  Every caller names the tree by its full identity,   *)
(* so a kill reaches the tree of the worker in `root' or nothing.          *)
(*                                                                         *)
(* proc[w] is the tree created by worker thread w:                         *)
(*   none      Popen has not happened                                      *)
(*   alive     the root runs                                               *)
(*   draining  the root exited by itself, descendants still run            *)
(*   exited    the tree is empty and the root exited by itself             *)
(*   killed    the tree is empty and the root was killed                   *)
(***************************************************************************)
EXTENDS ExecutionStore

VARIABLE proc

Live(w) == proc[w] \in {"alive", "draining"}

ProcInit == proc = [w \in Workers |-> "none"]

(* The tool ends, with or without leaving descendants behind. *)
ProcessExit(w) ==
    /\ \/ proc[w] = "alive" /\ proc' = [proc EXCEPT ![w] = "draining"]
       \/ Live(w) /\ proc' = [proc EXCEPT ![w] = "exited"]
    /\ UNCHANGED storeVars

(* The tree of w once SIGKILL has reached all of it.  The exit status of a *)
(* root that had already exited is kept.                                   *)
AfterKill(w) ==
    CASE proc[w] = "alive"    -> [proc EXCEPT ![w] = "killed"]
      [] proc[w] = "draining" -> [proc EXCEPT ![w] = "exited"]
      [] OTHER                -> proc

(* kill_process_tree returned True: emptiness was verified. *)
KillConfirmed(w) == proc' = AfterKill(w)

(* It returned False, because the identity could not be verified, the      *)
(* signal failed, or the deadline passed; the signal may have worked.      *)
KillUnconfirmed(w) == proc' \in {proc, AfterKill(w)}

(* The status cancel_execution reports for a confirmed termination. *)
KillStatus(w) == IF Live(w) THEN "KILLED" ELSE "ALREADY_EXITED"

ProcTypeOK ==
    proc \in [Workers -> {"none", "alive", "draining", "exited", "killed"}]
=============================================================================
