----------------------------- MODULE ScanWorker -----------------------------
(***************************************************************************)
(* An enterprise worker: the loop of run_worker.py around                  *)
(* RedisDurableQueue.consume_once, the handoff                             *)
(* ScanOrchestrator.execute_dispatched_scan and the scan itself,           *)
(* _execute_scan.  Each action runs from one await on Redis, the database  *)
(* or a child execution to the next.  The reads of the handoff are taken   *)
(* together: a child that changes between them is detected and refused     *)
(* like any other mismatch.  A worker handles one message at a time, so    *)
(* its own task table and semaphores never hold it up.                     *)
(*                                                                         *)
(* What leaves consume_once as an exception ends the process: the loop     *)
(* catches nothing.  The container restarts it.                            *)
(***************************************************************************)
EXTENDS DispatchQueue, ScanStore

CONSTANT Workers

VARIABLES
    wpc,      \* where each worker is in consume_once
    msg,      \* the message it took, or 0
    att,      \* delivery_attempts, as it read the counter
    at,       \* the next operation of the scan it executes
    mine,     \* it holds the claim of that operation
    entered   \* per message: how often the handler was entered (history)

workerVars == <<wpc, msg, att, at, mine, entered>>

WorkerInit ==
    /\ wpc = [w \in Workers |-> "idle"] /\ msg = [w \in Workers |-> 0]
    /\ att = [w \in Workers |-> 0] /\ at = [w \in Workers |-> 1]
    /\ mine = [w \in Workers |-> FALSE]
    /\ entered = [m \in 1 .. MaxEntries |-> 0]

Goto(w, where) == wpc' = [wpc EXCEPT ![w] = where]

(* consume_once returns, or its exception ends the process: everything the *)
(* worker held in memory is gone.                                          *)
Leave(w, where) ==
    /\ Goto(w, where)
    /\ msg' = [msg EXCEPT ![w] = 0] /\ att' = [att EXCEPT ![w] = 0]
    /\ at' = [at EXCEPT ![w] = 1] /\ mine' = [mine EXCEPT ![w] = FALSE]
    /\ UNCHANGED entered

Take(w, m) ==
    /\ Goto(w, "taken") /\ msg' = [msg EXCEPT ![w] = m]
    /\ UNCHANGED <<att, at, mine, entered>>

(* Mutant: only new messages are read. *)
PollNewOnly(w) ==
    /\ wpc[w] = "idle"
    /\ Goto(w, "reading") /\ UNCHANGED <<queueVars, scanVars, msg, att, at, mine, entered>>

(* Pending messages are reclaimed before new ones are read.                *)
Poll(w) ==
    /\ wpc[w] = "idle"
    /\ \/ \E m \in Messages : Autoclaim(m) /\ Take(w, m)
       \/ /\ \A m \in Messages : ~Reclaimable(m)
          /\ Goto(w, "reading") /\ UNCHANGED <<queueVars, msg, att, at, mine, entered>>
    /\ UNCHANGED scanVars

Read(w) ==
    /\ wpc[w] = "reading"
    /\ \/ \E m \in Messages : ReadNew(m) /\ Take(w, m)
       \/ (\A m \in Messages : ~Unread(m)) /\ Leave(w, "idle") /\ UNCHANGED queueVars
    /\ UNCHANGED scanVars

(* _is_quarantined, then _validate_wire_message. *)
Classify(w) ==
    /\ wpc[w] = "taken"
    /\ LET m == msg[w] IN
         \/ stream[m].hold # "none" /\ Leave(w, "idle")
         \/ /\ stream[m].hold = "none" /\ Goto(w, stream[m].wire)
            /\ UNCHANGED <<msg, att, at, mine, entered>>
    /\ UNCHANGED <<queueVars, scanVars>>

(* _quarantine_invalid_wire_message.  The counter is left out of the       *)
(* evidence when it cannot be read.                                        *)
RejectWire(w) ==
    /\ wpc[w] = "REJECTED"
    /\ LET m  == msg[w]
           ok == Pending(m) => EvidenceOk(stream[m].count)
       IN  \/ ok /\ Quarantine(m, "rejected") /\ Leave(w, "idle")
           \/ ~ok /\ UNCHANGED queueVars /\ Leave(w, "down")
    /\ UNCHANGED scanVars

(* A diagnostic message has no request; handle_consumed_scan refuses it    *)
(* and fail acknowledges it.                                               *)
RefuseLegacy(w) ==
    /\ wpc[w] = "LEGACY"
    /\ Complete(msg[w]) /\ Leave(w, "idle") /\ UNCHANGED scanVars

(* Mutant: the bound on deliveries is not enforced before the handler.     *)
CountUnbounded(w) ==
    /\ wpc[w] = "AUTHORITATIVE" /\ Pending(msg[w])
    /\ att' = [att EXCEPT ![w] = stream[msg[w]].count]
    /\ entered' = [entered EXCEPT ![msg[w]] = @ + 1]
    /\ Goto(w, "handler") /\ UNCHANGED <<queueVars, scanVars, msg, at, mine>>

(* The delivery counter decides.  Above the bound the message should be    *)
(* quarantined, but fail refuses the evidence.  The counter of a message   *)
(* that is no longer pending is unavailable; any Redis error has the same  *)
(* effect.                                                                 *)
CountDeliveries(w) ==
    /\ wpc[w] = "AUTHORITATIVE"
    /\ LET m == msg[w] IN
         \/ /\ Pending(m) /\ EvidenceOk(stream[m].count)
            /\ att' = [att EXCEPT ![w] = stream[m].count]
            /\ entered' = [entered EXCEPT ![m] = @ + 1]
            /\ Goto(w, "handler") /\ UNCHANGED <<queueVars, msg, at, mine>>
         \/ /\ Pending(m) /\ ~EvidenceOk(stream[m].count)
            /\ Leave(w, "down") /\ UNCHANGED queueVars
         \/ Quarantine(m, "counter") /\ Leave(w, "idle")
    /\ UNCHANGED scanVars

(* execute_dispatched_scan up to the creation of the task.                 *)
FirstTaken == {o \in Ops : child[o] # "PENDING" /\ \A p \in 1 .. o - 1 : child[p] = "PENDING"}

NothingToDo ==
    \/ AllEnded
    \/ /\ ~SomeEnded /\ Dispatchable
       /\ IF FirstTaken # {} THEN \A o \in FirstTaken : child[o] = "STARTING"
                             ELSE scan # "OPEN"

Runnable == Dispatchable /\ scan = "OPEN" /\ \A o \in Ops : child[o] = "PENDING"

(* The checks of the child authorities and of the queue binding, or the    *)
(* database, may raise in every case.                                      *)
Refuse(w) == Goto(w, "failed")

Handoff(w) ==
    /\ wpc[w] = "handler"
    /\ \/ NothingToDo /\ Goto(w, "handled")
       \/ Runnable /\ Goto(w, "starting")
       \/ Refuse(w)
    /\ UNCHANGED <<queueVars, scanVars, msg, att, at, mine, entered>>

(* _execute_scan checks the parent again; its own failures are recorded in *)
(* the scan and the handler returns normally.  When no engine applies the  *)
(* scan is complete.                                                       *)
StartScan(w) ==
    /\ wpc[w] = "starting"
    /\ \/ /\ Dispatchable /\ scan # "CANCELLED"
          /\ \E next \in {"engines", "saving"} : Goto(w, next)
          /\ UNCHANGED scanVars
       \/ ~Dispatchable /\ SaveScan("FAILED") /\ Goto(w, "handled")
    /\ UNCHANGED <<queueVars, msg, att, at, mine, entered>>

(* The external operations of the engines.                                 *)
ClaimOperation(w) ==
    /\ wpc[w] = "engines" /\ at[w] <= NumOps /\ ~mine[w]
    /\ ClaimChild(at[w]) /\ mine' = [mine EXCEPT ![w] = TRUE]
    /\ UNCHANGED <<queueVars, wpc, msg, att, at, entered>>

StartOperation(w) ==
    /\ wpc[w] = "engines" /\ mine[w]
    /\ StartChild(at[w]) /\ UNCHANGED <<queueVars, workerVars>>

NextOperation(w) ==
    /\ at' = [at EXCEPT ![w] = @ + 1] /\ mine' = [mine EXCEPT ![w] = FALSE]
    /\ UNCHANGED <<queueVars, wpc, msg, att, entered>>

(* Settled by this worker, or found settled by somebody else.              *)
EndOperation(w) ==
    /\ wpc[w] = "engines" /\ mine[w]
    /\ \/ EndChild(at[w], {"STARTING", "RUNNING"})
       \/ child[at[w]] = "ENDED" /\ UNCHANGED scanVars
    /\ NextOperation(w)

(* The tool is unavailable or the claim is refused: an engine's failure    *)
(* never fails the scan.                                                   *)
SkipOperation(w) ==
    /\ wpc[w] = "engines" /\ at[w] <= NumOps /\ ~mine[w]
    /\ NextOperation(w) /\ UNCHANGED scanVars

(* Between engines, and before the result is saved, the record is read     *)
(* again.                                                                  *)
FinishEngines(w) ==
    /\ wpc[w] = "engines" /\ at[w] > NumOps /\ scan # "CANCELLED"
    /\ Goto(w, "saving")
    /\ UNCHANGED <<queueVars, scanVars, msg, att, at, mine, entered>>

SaveResult(w) ==
    /\ wpc[w] = "saving"
    /\ SaveScan("COMPLETED") /\ Goto(w, "handled")
    /\ UNCHANGED <<queueVars, msg, att, at, mine, entered>>

(* An error outside the engines, such as a failed read or save.            *)
FailScan(w) ==
    /\ wpc[w] \in {"engines", "saving"} /\ ~mine[w]
    /\ SaveScan("FAILED") /\ Goto(w, "handled")
    /\ UNCHANGED <<queueVars, msg, att, at, mine, entered>>

(* The CancelledError branch of _execute_scan, which begins with the       *)
(* engines.                                                                *)
SaveCancelled(w) ==
    IF wpc[w] = "engines" THEN SaveScan(IF AllEnded THEN "CANCELLED" ELSE "OPEN")
                          ELSE UNCHANGED scanVars

(* A cancelled record raises CancelledError, which no handler on the way   *)
(* to the worker loop catches.                                             *)
ObserveCancelled(w) ==
    /\ (wpc[w] = "starting" /\ Dispatchable) \/ (wpc[w] = "engines" /\ ~mine[w])
    /\ scan = "CANCELLED"
    /\ SaveCancelled(w) /\ Leave(w, "down") /\ UNCHANGED queueVars

(* GLOBAL_SCAN_TIMEOUT_SECONDS: the scan is cancelled, the handler gets a  *)
(* TimeoutError.                                                           *)
ScanTimeout(w) ==
    /\ wpc[w] \in {"starting", "engines"}
    /\ SaveCancelled(w) /\ Goto(w, "failed") /\ mine' = [mine EXCEPT ![w] = FALSE]
    /\ UNCHANGED <<queueVars, msg, att, at, entered>>

Succeed(w) ==
    /\ wpc[w] = "handled"
    /\ Complete(msg[w]) /\ Leave(w, "idle") /\ UNCHANGED scanVars

(* The message stays pending; at the bound it is quarantined.              *)
Fail(w) ==
    /\ wpc[w] = "failed"
    /\ IF att[w] >= MaxDeliveries THEN Quarantine(msg[w], "authoritative")
                                  ELSE UNCHANGED queueVars
    /\ Leave(w, "idle") /\ UNCHANGED scanVars

(* The process dies, or a Redis call fails: the message stays pending.     *)
Crash(w) ==
    /\ wpc[w] # "down" /\ Leave(w, "down") /\ UNCHANGED <<queueVars, scanVars>>

Restart(w) ==
    /\ wpc[w] = "down" /\ Leave(w, "idle") /\ UNCHANGED <<queueVars, scanVars>>

(* The scan executed by _execute_scan. *)
ScanStep(w) ==
    \/ StartScan(w) \/ ClaimOperation(w) \/ StartOperation(w) \/ EndOperation(w)
    \/ SkipOperation(w) \/ FinishEngines(w) \/ SaveResult(w) \/ FailScan(w)
    \/ ObserveCancelled(w) \/ ScanTimeout(w)

(* One iteration of the worker loop. *)
ConsumeStep(w) ==
    \/ Poll(w) \/ Read(w) \/ Classify(w) \/ RejectWire(w) \/ RefuseLegacy(w)
    \/ CountDeliveries(w) \/ Handoff(w) \/ ScanStep(w) \/ Succeed(w) \/ Fail(w)

WorkerTypeOK ==
    /\ wpc \in [Workers -> {"idle", "reading", "taken", "handler", "starting",
                            "engines", "saving", "handled", "failed", "down"} \cup Wires]
    /\ msg \in [Workers -> 0 .. Len(stream)]
    /\ att \in [Workers -> 0 .. MaxDeliveries]
    /\ at \in [Workers -> 1 .. NumOps + 1]
    /\ mine \in [Workers -> BOOLEAN]
    /\ entered \in [1 .. MaxEntries -> Nat]
=============================================================================
