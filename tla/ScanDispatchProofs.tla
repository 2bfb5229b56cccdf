------------------------- MODULE ScanDispatchProofs -------------------------
(***************************************************************************)
(* DispatchInv is an inductive invariant of ScanDispatch, for any number   *)
(* of workers, API processes, operators, operations and deliveries, and    *)
(* the properties that follow from it.                                     *)
(***************************************************************************)
EXTENDS ScanDispatch, SequenceTheorems, FiniteSetTheorems, TLAPS

-----------------------------------------------------------------------------
(* The queue.                                                              *)

(* A command that rewrites entry m as e, and no other.                     *)
Rewrites(m, e) ==
    /\ stream' \in Seq(Entry) /\ Len(stream') = Len(stream)
    /\ stream'[m] = e
    /\ \A k \in Messages \ {m} : stream'[k] = stream[k]

(* A command that delivers nothing: the counters stay as they are.         *)
QueueSteady ==
    /\ stream' \in Seq(Entry) /\ Len(stream') = Len(stream)
    /\ \A k \in Messages : /\ stream'[k].wire = stream[k].wire
                           /\ stream'[k].count = stream[k].count

(* The message ids are 1 .. Len(stream), now and after the step.           *)
LEMMA MessageIds ==
    /\ stream \in Seq(Entry) => Messages = 1 .. Len(stream) /\ Len(stream) \in Nat
    /\ stream' \in Seq(Entry) => Messages' = 1 .. Len(stream') /\ Len(stream') \in Nat
BY LenProperties DEF Messages

(* The entries of a well-formed stream have the fields of Entry.           *)
LEMMA EntryTypes ==
    ASSUME stream \in Seq(Entry), NEW m \in Messages
    PROVE  /\ stream[m] \in Entry
           /\ stream[m].count \in 0 .. MaxDeliveries + 1
           /\ stream[m].stamp \in Nat
           /\ stream[m].hold \in Holds /\ stream[m].wire \in Wires
<1>1. stream[m] \in Entry
  BY MessageIds, ElementOfSeq
<1> QED BY <1>1 DEF Entry

(* Replacing one entry by another keeps the stream well formed.            *)
LEMMA RewriteEntry ==
    ASSUME stream \in Seq(Entry), NEW m \in Messages, NEW e \in Entry,
           stream' = [stream EXCEPT ![m] = e]
    PROVE  Rewrites(m, e)
BY ExceptSeq DEF Messages, Rewrites

(* XREADGROUP and XAUTOCLAIM advance the counter of their entry, up to one *)
(* above the bound, and leave its record alone.                            *)
LEMMA DeliverEntry ==
    ASSUME stream \in Seq(Entry), NEW m \in Messages, Deliver(m)
    PROVE  /\ stream' \in Seq(Entry) /\ Len(stream') = Len(stream)
           /\ \A k \in Messages \ {m} : stream'[k] = stream[k]
           /\ stream'[m].wire = stream[m].wire /\ stream'[m].hold = stream[m].hold
           /\ stream'[m].count = IF stream[m].count > MaxDeliveries
                                   THEN stream[m].count ELSE stream[m].count + 1
           /\ dedupe' = dedupe
<1> DEFINE c == IF stream[m].count > MaxDeliveries
                  THEN stream[m].count ELSE stream[m].count + 1
           e == [stream[m] EXCEPT !.state = "pending", !.idle = FALSE, !.count = c]
<1>1. stream[m] \in Entry
  BY EntryTypes
<1>2. c \in 0 .. MaxDeliveries + 1
  BY EntryTypes, QueueAssumption
<1>3. stream' = [stream EXCEPT ![m] = e] /\ dedupe' = dedupe
  BY DEF Deliver
<1> HIDE DEF c
<1>4. e \in Entry /\ e.wire = stream[m].wire /\ e.hold = stream[m].hold /\ e.count = c
  BY <1>1, <1>2 DEF Entry
<1> HIDE DEF e
<1>5. Rewrites(m, e)
  BY <1>3, <1>4, RewriteEntry
<1> QED BY <1>3, <1>4, <1>5 DEF Rewrites, c

(* The clock and XACK leave counters, wires and records alone.             *)
LEMMA QuietEntry ==
    ASSUME stream \in Seq(Entry), NEW m \in Messages, BecomesIdle(m) \/ Complete(m)
    PROVE  /\ QueueSteady /\ dedupe' = dedupe
           /\ \A k \in Messages : stream'[k].hold = stream[k].hold
<1>0. stream[m] \in Entry
  BY EntryTypes
<1>1. CASE BecomesIdle(m)
  <2> DEFINE e == [stream[m] EXCEPT !.idle = TRUE]
  <2>1. stream' = [stream EXCEPT ![m] = e] /\ dedupe' = dedupe
    BY <1>1 DEF BecomesIdle
  <2>2. e \in Entry /\ e.wire = stream[m].wire /\ e.hold = stream[m].hold
                    /\ e.count = stream[m].count
    BY <1>0 DEF Entry
  <2> HIDE DEF e
  <2> QED BY <2>1, <2>2, RewriteEntry DEF Rewrites, QueueSteady
<1>2. CASE Complete(m)
  <2> DEFINE s == IF stream[m].state = "pending" THEN "acked" ELSE stream[m].state
             e == [stream[m] EXCEPT !.state = s]
  <2>1. stream' = [stream EXCEPT ![m] = e] /\ dedupe' = dedupe
    BY <1>2 DEF Complete
  <2>2. s \in {"new", "pending", "acked"}
    BY <1>0 DEF Entry
  <2> HIDE DEF s
  <2>3. e \in Entry /\ e.wire = stream[m].wire /\ e.hold = stream[m].hold
                    /\ e.count = stream[m].count
    BY <1>0, <2>2 DEF Entry
  <2> HIDE DEF e
  <2> QED BY <2>1, <2>3, RewriteEntry DEF Rewrites, QueueSteady
<1> QED BY <1>1, <1>2

(* _ACK_QUARANTINE_SCRIPT deletes the record it was given or nothing.      *)
LEMMA AcknowledgeEntry ==
    ASSUME stream \in Seq(Entry), NEW m \in Messages, NEW stamp,
           AcknowledgeQuarantined(m, stamp)
    PROVE  /\ QueueSteady
           /\ \A k \in Messages :
                 \/ stream'[k].hold = stream[k].hold
                 \/ k = m /\ stamp = stream[m].stamp /\ stream'[m].hold = "none"
<1> DEFINE e == [stream[m] EXCEPT !.state = "acked", !.hold = "none"]
<1>1. stream[m] \in Entry
  BY EntryTypes
<1>2. \/ stream' = stream
      \/ stream' = [stream EXCEPT ![m] = e] /\ stream[m].stamp = stamp
  BY DEF AcknowledgeQuarantined
<1>3. e \in Entry /\ e.wire = stream[m].wire /\ e.hold = "none"
                  /\ e.count = stream[m].count
  BY <1>1 DEF Entry, Holds
<1> HIDE DEF e
<1>4. CASE stream' = stream
  BY <1>4 DEF QueueSteady
<1>5. CASE stream' = [stream EXCEPT ![m] = e] /\ stream[m].stamp = stamp
  BY <1>3, <1>5, RewriteEntry DEF Rewrites, QueueSteady
<1> QED BY <1>2, <1>4, <1>5

(* A quarantine record is written for its entry and for no other.          *)
LEMMA QuarantineEntry ==
    ASSUME stream \in Seq(Entry), NEW m \in Messages, NEW h \in Holds, Quarantine(m, h)
    PROVE  /\ QueueSteady /\ dedupe' = dedupe
           /\ stream'[m].hold = h
           /\ \A k \in Messages \ {m} : stream'[k].hold = stream[k].hold
<1> DEFINE s == stream[m].stamp + 1
           e == [stream[m] EXCEPT !.hold = h, !.stamp = s]
<1>1. stream[m] \in Entry
  BY EntryTypes
<1>2. s \in Nat
  BY EntryTypes
<1>3. stream' = [stream EXCEPT ![m] = e] /\ dedupe' = dedupe
  BY DEF Quarantine
<1> HIDE DEF s
<1>4. e \in Entry /\ e.wire = stream[m].wire /\ e.hold = h /\ e.count = stream[m].count
  BY <1>1, <1>2 DEF Entry
<1> HIDE DEF e
<1> QED BY <1>3, <1>4, RewriteEntry DEF Rewrites, QueueSteady

(* Publication appends one fresh entry.                                    *)
LEMMA PublishAppends ==
    ASSUME stream \in Seq(Entry), NEW wire \in Wires, Publish(wire)
    PROVE  /\ stream' \in Seq(Entry) /\ Len(stream') = Len(stream) + 1
           /\ Len(stream') <= MaxEntries
           /\ \A k \in Messages : stream'[k] = stream[k]
           /\ stream'[Len(stream) + 1].wire = wire
           /\ stream'[Len(stream) + 1].count = 0
           /\ stream'[Len(stream) + 1].hold = "none"
<1> DEFINE e == [wire |-> wire, state |-> "new", count |-> 0,
                 idle |-> FALSE, hold |-> "none", stamp |-> 0]
<1>1. e \in Entry /\ e.wire = wire /\ e.count = 0 /\ e.hold = "none"
  BY QueueAssumption DEF Entry, Holds
<1>2. stream' = Append(stream, e) /\ Len(stream) < MaxEntries
  BY DEF Publish
<1>3. stream \in Seq(Entry) /\ Messages = 1 .. Len(stream) /\ Len(stream) \in Nat
  BY MessageIds
<1> HIDE DEF e
<1>4. /\ Append(stream, e) \in Seq(Entry)
      /\ Len(Append(stream, e)) = Len(stream) + 1
      /\ \A i \in 1 .. Len(stream) : Append(stream, e)[i] = stream[i]
      /\ Append(stream, e)[Len(stream) + 1] = e
  BY <1>1, <1>3, AppendProperties
<1>5. Len(stream) + 1 <= MaxEntries
  BY <1>2, <1>3, QueueAssumption
<1> QED BY <1>1, <1>2, <1>3, <1>4, <1>5

-----------------------------------------------------------------------------
(* The rows of the scan.                                                   *)

ScanInv == ScanTypeOK /\ ClaimsFollowState /\ ChildClaimedOnce

(* The transactions on the rows, with well-typed arguments.                *)
ScanMove ==
    \/ UNCHANGED scanVars
    \/ ParentExpires
    \/ ApproveScan
    \/ \E status \in Statuses : SaveScan(status)
    \/ \E o \in Ops : ClaimChild(o) \/ StartChild(o)
                      \/ EndChild(o, {"STARTING", "RUNNING"})
                      \/ EndChild(o, {"PENDING", "STARTING", "RUNNING"})

(* The approval creates unclaimed children, a claim takes an unclaimed     *)
(* one, and nothing makes a child claimable again.                         *)
LEMMA ScanMoveKeeps ==
    ASSUME ScanInv, ScanMove PROVE ScanInv'
<1> USE DEF ScanInv, ScanTypeOK, ClaimsFollowState, ChildClaimedOnce, Statuses
<1>1. CASE UNCHANGED scanVars
  BY <1>1 DEF scanVars
<1>2. CASE ParentExpires
  BY <1>2 DEF ParentExpires
<1>3. CASE ApproveScan
  <2>1. CASE parent = "REQUESTED"
    <3>1. child' = [o \in Ops |-> "PENDING"] /\ claims' = claims /\ parent' = "DISPATCHABLE"
      BY <1>3, <2>1 DEF ApproveScan
    <3>2. \A o \in Ops : claims[o] = 0
      BY <2>1
    <3> QED BY <1>3, <3>1, <3>2 DEF ApproveScan
  <2>2. CASE parent # "REQUESTED"
    BY <1>3, <2>2 DEF ApproveScan
  <2> QED BY <2>1, <2>2
<1>4. CASE \E status \in Statuses : SaveScan(status)
  BY <1>4 DEF SaveScan
<1>5. ASSUME NEW o \in Ops, ClaimChild(o) PROVE ScanInv'
  <2>1. claims[o] = 0 /\ parent = "DISPATCHABLE"
    BY <1>5 DEF ClaimChild, Dispatchable
  <2>2. child' = [child EXCEPT ![o] = "STARTING"] /\ claims' = [claims EXCEPT ![o] = 1]
    BY <1>5, <2>1 DEF ClaimChild
  <2> QED BY <1>5, <2>1, <2>2 DEF ClaimChild
<1>6. ASSUME NEW o \in Ops, StartChild(o) PROVE ScanInv'
  BY <1>6 DEF StartChild, Dispatchable
<1>7. ASSUME NEW o \in Ops, NEW from \in SUBSET {"PENDING", "STARTING", "RUNNING"},
             EndChild(o, from)
      PROVE  ScanInv'
  <2>1. parent = "DISPATCHABLE"
    BY <1>7 DEF EndChild
  <2> QED BY <1>7, <2>1 DEF EndChild
<1> QED BY <1>1, <1>2, <1>3, <1>4, <1>5, <1>6, <1>7 DEF ScanMove

(* Every step of the system is one of these transactions on the rows.      *)
LEMMA NextMovesScan ==
    ASSUME WorkerTypeOK, WorkerHoldsMessage, ControlTypeOK, scan \in Statuses, Next
    PROVE  ScanMove
<1>1. ASSUME NEW w \in Workers, ConsumeStep(w) \/ Crash(w) \/ Restart(w)
      PROVE  ScanMove
  <2> USE DEF ScanMove
  <2>1. CASE Poll(w) \/ Read(w) \/ Classify(w) \/ RejectWire(w) \/ RefuseLegacy(w)
             \/ CountDeliveries(w)
    BY <2>1 DEF Poll, Read, Classify, RejectWire, RefuseLegacy, CountDeliveries, scanVars
  <2>2. CASE Handoff(w) \/ Succeed(w) \/ Fail(w) \/ Crash(w) \/ Restart(w)
    BY <2>2 DEF Handoff, Succeed, Fail, Crash, Restart, scanVars
  <2>3. CASE StartScan(w) \/ SaveResult(w) \/ FailScan(w) \/ FinishEngines(w)
             \/ SkipOperation(w)
    BY <2>3 DEF StartScan, SaveResult, FailScan, FinishEngines, SkipOperation, scanVars,
       Statuses
  <2>4. CASE ObserveCancelled(w) \/ ScanTimeout(w)
    <3>1. SaveCancelled(w)
      BY <2>4 DEF ObserveCancelled, ScanTimeout
    <3> QED BY <3>1 DEF SaveCancelled, Statuses
  <2>5. at[w] <= NumOps => at[w] \in Ops
    BY OpsAssumption DEF WorkerTypeOK, Ops
  <2>6. mine[w] => at[w] \in Ops
    BY <2>5 DEF WorkerHoldsMessage
  <2>7. CASE ClaimOperation(w) \/ StartOperation(w) \/ EndOperation(w)
    BY <2>5, <2>6, <2>7 DEF ClaimOperation, StartOperation, EndOperation
  <2> QED BY <1>1, <2>1, <2>2, <2>3, <2>4, <2>7 DEF ConsumeStep, ScanStep
<1>2. ASSUME ControlStep PROVE ScanMove
  <2> USE DEF ScanMove
  <2>1. ASSUME NEW a \in Apis, LoadScan(a) \/ PublishIntent(a) \/ ApiRestart(a)
        PROVE  ScanMove
    BY <2>1 DEF LoadScan, PublishIntent, ApiRestart, scanVars
  <2>2. ASSUME NEW a \in Apis, Approve(a) PROVE ScanMove
    BY <2>2 DEF Approve, scanVars
  <2>3. ASSUME NEW a \in Apis, Dispatch(a) PROVE ScanMove
    <3>1. snap[a] \in Statuses
      BY DEF ControlTypeOK
    <3> QED BY <2>3, <3>1 DEF Dispatch, scanVars
  <2>4. ASSUME NEW a \in Apis, CancelScan(a) PROVE ScanMove
    BY <2>4 DEF CancelScan, Statuses
  <2>5. ASSUME NEW o \in Ops, CancelChild(o) PROVE ScanMove
    BY <2>5 DEF CancelChild
  <2>6. ASSUME NEW p \in Operators, ReviewQuarantine(p) \/ Acknowledge(p) PROVE ScanMove
    BY <2>6 DEF ReviewQuarantine, Acknowledge, scanVars
  <2> QED BY <1>2, <2>1, <2>2, <2>3, <2>4, <2>5, <2>6 DEF ControlStep
<1>3. ASSUME OtherProducer \/ Reaper \/ Clock PROVE ScanMove
  BY <1>3 DEF OtherProducer, Reaper, Clock, ScanMove, scanVars
<1> QED BY <1>1, <1>2, <1>3 DEF Next

-----------------------------------------------------------------------------
(* The workers.                                                            *)

WorkerInv ==
    /\ stream \in Seq(Entry) /\ Len(stream) <= MaxEntries
    /\ WorkerTypeOK /\ WorkerHoldsMessage /\ EntriesPaidFor /\ HandlerEntriesBounded

Outside  == {"idle", "reading", "down"}
Counted  == {"handler", "starting", "engines", "saving", "handled", "failed"}
Deciding == {"taken", "AUTHORITATIVE"}

(* Fewer workers that have yet to decide cost no more deliveries.          *)
LEMMA FewerWorkers ==
    ASSUME NEW T \in SUBSET Workers, NEW S \in SUBSET T
    PROVE  /\ IsFiniteSet(S) /\ IsFiniteSet(T)
           /\ Cardinality(S) \in Nat /\ Cardinality(T) \in Nat
           /\ Cardinality(S) <= Cardinality(T)
<1>1. IsFiniteSet(T)
  BY FS_Subset, WorkersAssumption
<1>2. IsFiniteSet(S) /\ Cardinality(S) <= Cardinality(T)
  BY <1>1, FS_Subset
<1> QED BY <1>1, <1>2, FS_CardinalityType

(* When nothing is delivered, nobody enters the handler and nobody takes a *)
(* message, what was paid for stays paid for.                              *)
LEMMA PaidWhenQuiet ==
    ASSUME WorkerInv, QueueSteady, entered' = entered,
           \A w \in Workers : \A m \in Messages :
              msg'[w] = m /\ wpc'[w] \in Deciding => msg[w] = m /\ wpc[w] \in Deciding
    PROVE  EntriesPaidFor' /\ HandlerEntriesBounded'
<1>1. /\ Messages = 1 .. Len(stream) /\ Messages' = Messages /\ Len(stream) \in Nat
      /\ Messages \subseteq 1 .. MaxEntries
  BY MessageIds, QueueAssumption DEF WorkerInv, QueueSteady
<1>2. HandlerEntriesBounded'
  BY <1>1 DEF WorkerInv, HandlerEntriesBounded
<1>3. \A m \in (1 .. MaxEntries) \ Messages' : entered'[m] = 0
  BY <1>1 DEF WorkerInv, EntriesPaidFor
<1>4. ASSUME NEW m \in Messages, stream'[m].count <= MaxDeliveries
      PROVE  entered'[m] + Cardinality(Undecided(m)') <= stream'[m].count
  <2>1. Undecided(m)' \subseteq Undecided(m) /\ Undecided(m) \subseteq Workers
    BY DEF Undecided, Deciding
  <2> DEFINE S == Undecided(m)'
             T == Undecided(m)
  <2>2. Cardinality(S) \in Nat /\ Cardinality(T) \in Nat /\ Cardinality(S) <= Cardinality(T)
    BY <2>1, FewerWorkers
  <2>3. stream'[m].count = stream[m].count /\ stream[m].count \in Nat
    BY EntryTypes, QueueAssumption DEF QueueSteady, WorkerInv
  <2>4. entered[m] + Cardinality(T) <= stream[m].count
    BY <1>4, <2>3 DEF WorkerInv, EntriesPaidFor
  <2>5. entered[m] \in Nat
    BY <1>1 DEF WorkerInv, WorkerTypeOK
  <2> HIDE DEF S, T
  <2>6. entered[m] + Cardinality(S) <= stream[m].count
    BY <2>2, <2>3, <2>4, <2>5
  <2> QED BY <2>3, <2>6 DEF S
<1> QED BY <1>1, <1>2, <1>3, <1>4 DEF EntriesPaidFor

(* consume_once returns, or the process ends: the worker holds nothing.    *)
LEMMA LeaveKeeps ==
    ASSUME WorkerInv, NEW w \in Workers, NEW where \in {"idle", "down"},
           Leave(w, where), QueueSteady
    PROVE  WorkerInv'
<1> USE DEF WorkerInv
<1>1. Messages' = Messages /\ Messages = 1 .. Len(stream)
  BY MessageIds DEF QueueSteady
<1>2. EntriesPaidFor' /\ HandlerEntriesBounded'
  <2>1. \A v \in Workers : \A m \in Messages :
           msg'[v] = m /\ wpc'[v] \in Deciding => msg[v] = m /\ wpc[v] \in Deciding
    BY DEF Leave, Goto, Deciding, WorkerTypeOK
  <2> QED BY <2>1, PaidWhenQuiet DEF Leave
<1>3. WorkerTypeOK'
  BY OpsAssumption, QueueAssumption, MessageIds DEF Leave, Goto, WorkerTypeOK, QueueSteady
<1>4. WorkerHoldsMessage'
  <2> SUFFICES ASSUME NEW v \in Workers
               PROVE  /\ wpc'[v] \notin Outside => msg'[v] \in Messages'
                      /\ wpc'[v] \in Outside => msg'[v] = 0
                      /\ wpc'[v] \in Counted => att'[v] <= stream'[msg'[v]].count
                      /\ mine'[v] => at'[v] <= NumOps
    BY DEF WorkerHoldsMessage, Outside, Counted
  <2>1. CASE v = w
    BY <2>1 DEF Leave, Goto, WorkerTypeOK, Outside, Counted
  <2>2. CASE v # w
    <3>1. /\ wpc'[v] = wpc[v] /\ msg'[v] = msg[v] /\ att'[v] = att[v]
          /\ at'[v] = at[v] /\ mine'[v] = mine[v]
      BY <2>2 DEF Leave, Goto, WorkerTypeOK
    <3>2. wpc[v] \in Counted => msg[v] \in Messages
      BY DEF WorkerHoldsMessage, Counted
    <3> QED BY <1>1, <3>1, <3>2 DEF WorkerHoldsMessage, QueueSteady, Outside, Counted
  <2> QED BY <2>1, <2>2
<1> QED BY <1>2, <1>3, <1>4 DEF QueueSteady

(* A worker goes on with the message it has.  It may only keep its place   *)
(* among the undecided, and it has counted once it is past them.           *)
LEMMA GotoKeeps ==
    ASSUME WorkerInv, NEW w \in Workers, UNCHANGED <<stream, msg, att, entered>>,
           NEW where \in {"reading"} \cup Wires \cup Counted, Goto(w, where),
           where = "reading" <=> wpc[w] \in Outside,
           where = "AUTHORITATIVE" => wpc[w] \in Deciding,
           where \in Counted => wpc[w] \in Counted,
           at' \in [Workers -> 1 .. NumOps + 1], mine' \in [Workers -> BOOLEAN],
           \A v \in Workers : mine'[v] => at'[v] <= NumOps
    PROVE  WorkerInv'
<1> USE DEF WorkerInv
<1>1. stream' \in Seq(Entry) /\ Messages' = Messages /\ QueueSteady
  BY DEF Messages, QueueSteady
<1>2. EntriesPaidFor' /\ HandlerEntriesBounded'
  <2>1. \A v \in Workers : \A m \in Messages :
           msg'[v] = m /\ wpc'[v] \in Deciding => msg[v] = m /\ wpc[v] \in Deciding
    BY DEF Goto, Deciding, WorkerTypeOK, Wires, Counted
  <2> QED BY <1>1, <2>1, PaidWhenQuiet
<1>3. WorkerTypeOK'
  BY DEF Goto, WorkerTypeOK, Wires, Counted
<1>4. WorkerHoldsMessage'
  <2> SUFFICES ASSUME NEW v \in Workers
               PROVE  /\ wpc'[v] \notin Outside => msg'[v] \in Messages'
                      /\ wpc'[v] \in Outside => msg'[v] = 0
                      /\ wpc'[v] \in Counted => att'[v] <= stream'[msg'[v]].count
                      /\ mine'[v] => at'[v] <= NumOps
    BY DEF WorkerHoldsMessage, Outside, Counted
  <2>1. CASE v = w
    <3>1. wpc'[v] = where
      BY <2>1 DEF Goto, WorkerTypeOK
    <3> QED BY <1>1, <2>1, <3>1 DEF WorkerHoldsMessage, Outside, Counted, Wires
  <2>2. CASE v # w
    <3>1. wpc'[v] = wpc[v]
      BY <2>2 DEF Goto, WorkerTypeOK
    <3> QED BY <1>1, <3>1 DEF WorkerHoldsMessage, Outside, Counted
  <2> QED BY <2>1, <2>2
<1> QED BY <1>1, <1>2, <1>3, <1>4

(* A delivery pays for the worker that takes it.                           *)
LEMMA TakeKeeps ==
    ASSUME WorkerInv, NEW w \in Workers, NEW m \in Messages,
           wpc[w] \in Outside, Deliver(m), Take(w, m)
    PROVE  WorkerInv'
<1> USE DEF WorkerInv
<1>0. /\ stream' \in Seq(Entry) /\ Len(stream') = Len(stream)
      /\ \A k \in Messages \ {m} : stream'[k] = stream[k]
      /\ stream'[m].count = IF stream[m].count > MaxDeliveries
                              THEN stream[m].count ELSE stream[m].count + 1
  BY DeliverEntry
<1>1. /\ Messages' = Messages /\ Messages = 1 .. Len(stream) /\ Len(stream) \in Nat
      /\ Messages \subseteq 1 .. MaxEntries
  BY <1>0, MessageIds, QueueAssumption
<1>2. /\ \A k \in Messages : stream[k].count \in Nat
      /\ stream'[m].count \in Nat /\ stream[m].count <= stream'[m].count
  BY <1>0, EntryTypes, QueueAssumption
<1>3. WorkerTypeOK'
  BY <1>0, <1>1 DEF Take, Goto, WorkerTypeOK
<1>4. WorkerHoldsMessage'
  <2> SUFFICES ASSUME NEW v \in Workers
               PROVE  /\ wpc'[v] \notin Outside => msg'[v] \in Messages'
                      /\ wpc'[v] \in Outside => msg'[v] = 0
                      /\ wpc'[v] \in Counted => att'[v] <= stream'[msg'[v]].count
                      /\ mine'[v] => at'[v] <= NumOps
    BY DEF WorkerHoldsMessage, Outside, Counted
  <2>1. CASE v = w
    BY <1>1, <2>1 DEF Take, Goto, WorkerTypeOK, WorkerHoldsMessage, Outside, Counted
  <2>2. CASE v # w
    <3>1. /\ wpc'[v] = wpc[v] /\ msg'[v] = msg[v] /\ att'[v] = att[v]
          /\ at'[v] = at[v] /\ mine'[v] = mine[v]
      BY <2>2 DEF Take, Goto, WorkerTypeOK
    <3>2. wpc[v] \in Counted => msg[v] \in Messages /\ att[v] <= stream[msg[v]].count
      BY DEF WorkerHoldsMessage, Counted
    <3>3. att[v] \in Nat
      BY QueueAssumption DEF WorkerTypeOK
    <3>4. wpc[v] \in Counted => att[v] <= stream'[msg[v]].count
      BY <1>0, <1>2, <3>2, <3>3
    <3> QED BY <1>1, <3>1, <3>4 DEF WorkerHoldsMessage, Outside, Counted
  <2> QED BY <2>1, <2>2
<1>5. HandlerEntriesBounded'
  BY <1>1 DEF Take, HandlerEntriesBounded
<1>6. EntriesPaidFor'
  <2>1. entered' = entered
    BY DEF Take
  <2>2. \A v \in Workers \ {w} : wpc'[v] = wpc[v] /\ msg'[v] = msg[v]
    BY DEF Take, Goto, WorkerTypeOK
  <2>3. wpc'[w] = "taken" /\ msg'[w] = m
    BY DEF Take, Goto, WorkerTypeOK
  <2>4. ASSUME NEW k \in Messages, stream'[k].count <= MaxDeliveries
        PROVE  entered'[k] + Cardinality(Undecided(k)') <= stream'[k].count
    <3> DEFINE S == Undecided(k)'
               T == Undecided(k)
    <3>1. S \subseteq T \cup (IF k = m THEN {w} ELSE {}) /\ T \subseteq Workers
      BY <2>2, <2>3 DEF Undecided
    <3>2. IsFiniteSet(T) /\ Cardinality(T) \in Nat /\ entered[k] \in Nat
      BY <1>1, <3>1, FewerWorkers DEF WorkerTypeOK
    <3>3. CASE k # m
      <4>1. stream'[k].count = stream[k].count /\ stream[k].count \in Nat
        BY <1>0, <1>2, <3>3
      <4>2. entered[k] + Cardinality(T) <= stream[k].count
        BY <2>4, <4>1 DEF EntriesPaidFor
      <4> HIDE DEF S, T
      <4>3. Cardinality(S) <= Cardinality(T) /\ Cardinality(S) \in Nat
        BY <3>1, <3>3, FewerWorkers
      <4>4. entered[k] + Cardinality(S) <= stream[k].count
        BY <3>2, <4>1, <4>2, <4>3
      <4> QED BY <2>1, <4>1, <4>4 DEF S
    <3>4. CASE k = m
      <4>1. /\ stream[k].count <= MaxDeliveries /\ stream'[k].count = stream[k].count + 1
            /\ stream[k].count \in Nat
        BY <1>0, <1>2, <2>4, <3>4, QueueAssumption
      <4>2. entered[k] + Cardinality(T) <= stream[k].count
        BY <4>1 DEF EntriesPaidFor
      <4> HIDE DEF S, T
      <4>3. /\ IsFiniteSet(T \cup {w})
            /\ Cardinality(T \cup {w}) \in {Cardinality(T), Cardinality(T) + 1}
        BY <3>2, FS_AddElement
      <4>4. Cardinality(S) <= Cardinality(T \cup {w}) /\ Cardinality(S) \in Nat
        BY <3>1, <3>4, FewerWorkers
      <4>5. Cardinality(S) <= Cardinality(T) + 1
        BY <3>2, <4>3, <4>4
      <4>6. entered[k] + Cardinality(S) <= stream[k].count + 1
        BY <3>2, <4>1, <4>2, <4>4, <4>5
      <4> QED BY <2>1, <4>1, <4>6 DEF S
    <3> QED BY <3>3, <3>4
  <2> QED BY <1>1, <2>1, <2>4 DEF EntriesPaidFor
<1> QED BY <1>0, <1>3, <1>4, <1>5, <1>6

(* The handler is entered on a delivery of its own: the worker moves from  *)
(* the undecided to the entries.                                           *)
LEMMA EnterKeeps ==
    ASSUME WorkerInv, NEW w \in Workers, wpc[w] = "AUTHORITATIVE",
           stream[msg[w]].count <= MaxDeliveries,
           att' = [att EXCEPT ![w] = stream[msg[w]].count],
           entered' = [entered EXCEPT ![msg[w]] = @ + 1],
           Goto(w, "handler"), UNCHANGED <<stream, msg, at, mine>>
    PROVE  WorkerInv'
<1> USE DEF WorkerInv
<1> DEFINE m == msg[w]
<1>0. m \in Messages
  BY DEF WorkerHoldsMessage
<1>1. /\ Messages' = Messages /\ Messages = 1 .. Len(stream) /\ Len(stream) \in Nat
      /\ Messages \subseteq 1 .. MaxEntries
  BY MessageIds, QueueAssumption
<1>2. \A k \in Messages : stream[k].count \in Nat /\ entered[k] \in Nat
  BY <1>1, EntryTypes, QueueAssumption DEF WorkerTypeOK
<1>3. stream[m].count \in 0 .. MaxDeliveries
  BY <1>0, <1>2, QueueAssumption
<1>4. entered' \in [1 .. MaxEntries -> Nat] /\ entered'[m] = entered[m] + 1
                /\ \A k \in (1 .. MaxEntries) \ {m} : entered'[k] = entered[k]
  BY <1>0, <1>1 DEF WorkerTypeOK
<1>5. WorkerTypeOK'
  BY <1>3, <1>4 DEF Goto, WorkerTypeOK
<1>6. WorkerHoldsMessage'
  <2> SUFFICES ASSUME NEW v \in Workers
               PROVE  /\ wpc'[v] \notin Outside => msg'[v] \in Messages'
                      /\ wpc'[v] \in Outside => msg'[v] = 0
                      /\ wpc'[v] \in Counted => att'[v] <= stream'[msg'[v]].count
                      /\ mine'[v] => at'[v] <= NumOps
    BY DEF WorkerHoldsMessage, Outside, Counted
  <2>1. CASE v = w
    <3>1. wpc'[v] = "handler" /\ att'[v] = stream[m].count
      BY <2>1 DEF Goto, WorkerTypeOK
    <3> QED BY <1>0, <1>1, <1>3, <2>1, <3>1 DEF WorkerHoldsMessage, Outside
  <2>2. CASE v # w
    <3>1. wpc'[v] = wpc[v] /\ att'[v] = att[v]
      BY <2>2 DEF Goto, WorkerTypeOK
    <3> QED BY <1>1, <3>1 DEF WorkerHoldsMessage, Outside, Counted
  <2> QED BY <2>1, <2>2
<1>7. ASSUME NEW k \in Messages, stream[k].count <= MaxDeliveries
      PROVE  /\ entered'[k] + Cardinality(Undecided(k)') <= stream[k].count
             /\ entered'[k] <= stream[k].count
  <2> DEFINE S == Undecided(k)'
             T == Undecided(k)
  <2>1. wpc'[w] = "handler" /\ \A v \in Workers \ {w} : wpc'[v] = wpc[v]
    BY DEF Goto, WorkerTypeOK
  <2>2. S \subseteq T \ {w} /\ T \subseteq Workers /\ (k = m => w \in T)
    BY <2>1 DEF Undecided
  <2>3. entered[k] + Cardinality(T) <= stream[k].count
    BY <1>7 DEF EntriesPaidFor
  <2> HIDE DEF S, T, m
  <2>4. /\ IsFiniteSet(T) /\ Cardinality(T) \in Nat /\ Cardinality(S) \in Nat
        /\ Cardinality(S) <= Cardinality(T \ {w}) /\ Cardinality(T \ {w}) \in Nat
        /\ Cardinality(S) <= Cardinality(T)
    <3>1. S \subseteq T /\ T \ {w} \subseteq Workers
      BY <2>2
    <3> QED BY <2>2, <3>1, FewerWorkers
  <2>5. w \in T => Cardinality(T \ {w}) = Cardinality(T) - 1
    BY <2>4, FS_RemoveElement
  <2>6. CASE k = m
    <3>1. entered'[k] = entered[k] + 1 /\ stream[k].count \in Nat /\ entered[k] \in Nat
      BY <1>2, <1>4, <2>6
    <3>2. Cardinality(S) <= Cardinality(T) - 1
      BY <2>2, <2>4, <2>5, <2>6
    <3>3. /\ entered'[k] + Cardinality(S) <= stream[k].count
          /\ entered'[k] <= stream[k].count
      BY <2>3, <2>4, <3>1, <3>2
    <3> QED BY <3>3 DEF S
  <2>7. CASE k # m
    <3>1. entered'[k] = entered[k]
      BY <1>1, <1>4, <2>7
    <3> QED BY <1>2, <2>3, <2>4, <3>1 DEF S
  <2> QED BY <2>6, <2>7
<1>8. EntriesPaidFor'
  <2>1. \A k \in (1 .. MaxEntries) \ Messages : entered'[k] = 0
    BY <1>0, <1>4 DEF EntriesPaidFor
  <2> QED BY <1>1, <1>7, <2>1 DEF EntriesPaidFor
<1>9. HandlerEntriesBounded'
  <2> SUFFICES ASSUME NEW k \in Messages PROVE entered'[k] <= MaxDeliveries
    BY <1>1 DEF HandlerEntriesBounded
  <2>1. CASE k = m
    <3>1. entered'[k] <= stream[k].count
      BY <1>3, <1>7, <2>1
    <3>2. entered'[k] \in Nat
      BY <1>1, <1>4
    <3> QED BY <1>3, <2>1, <3>1, <3>2, QueueAssumption
  <2>2. CASE k # m
    BY <1>1, <1>4, <2>2 DEF HandlerEntriesBounded
  <2> QED BY <2>1, <2>2
<1> QED BY <1>5, <1>6, <1>8, <1>9

(* Steps of others that deliver and publish nothing do not concern the     *)
(* workers.                                                                *)
LEMMA OthersKeep ==
    ASSUME WorkerInv, UNCHANGED workerVars, QueueSteady
    PROVE  WorkerInv'
<1> USE DEF WorkerInv
<1>1. Messages' = Messages
  BY MessageIds DEF QueueSteady
<1>2. EntriesPaidFor' /\ HandlerEntriesBounded'
  BY PaidWhenQuiet DEF workerVars
<1>3. WorkerTypeOK'
  BY DEF workerVars, WorkerTypeOK, QueueSteady
<1>4. WorkerHoldsMessage'
  <2>1. \A v \in Workers : wpc[v] \in Counted => msg[v] \in Messages
    BY DEF WorkerHoldsMessage, Counted
  <2> QED BY <1>1, <2>1 DEF workerVars, WorkerHoldsMessage, QueueSteady, Counted
<1> QED BY <1>2, <1>3, <1>4 DEF QueueSteady

(* A new entry has been delivered to nobody.                               *)
LEMMA PublishKeeps ==
    ASSUME WorkerInv, UNCHANGED workerVars, NEW wire \in Wires, Publish(wire)
    PROVE  WorkerInv'
<1> USE DEF WorkerInv
<1>0. PICK n \in Nat : n = Len(stream) + 1
  BY MessageIds
<1>1. /\ stream' \in Seq(Entry) /\ Len(stream') = n /\ n <= MaxEntries
      /\ \A k \in Messages : stream'[k] = stream[k]
      /\ stream'[n].count = 0
  BY <1>0, PublishAppends
<1>2. /\ Messages = 1 .. Len(stream) /\ Messages' = Messages \cup {n}
      /\ Len(stream) \in Nat /\ n \in (1 .. MaxEntries) \ Messages
  BY <1>0, <1>1, MessageIds, QueueAssumption
<1>3. WorkerTypeOK'
  BY <1>1, <1>2 DEF workerVars, WorkerTypeOK
<1>4. WorkerHoldsMessage'
  <2>1. \A v \in Workers : wpc[v] \in Counted => msg[v] \in Messages
    BY DEF WorkerHoldsMessage, Counted
  <2> QED BY <1>1, <1>2, <2>1 DEF workerVars, WorkerHoldsMessage, Counted
<1>5. entered'[n] = 0 /\ entered' = entered
  BY <1>2 DEF EntriesPaidFor, workerVars
<1>6. HandlerEntriesBounded'
  BY <1>2, <1>5, QueueAssumption DEF HandlerEntriesBounded
<1>7. EntriesPaidFor'
  <2>1. \A k \in Nat : Undecided(k)' = Undecided(k)
    BY DEF Undecided, workerVars
  <2>2. Undecided(n) = {}
    BY <1>2 DEF Undecided, WorkerTypeOK
  <2>3. Cardinality(Undecided(n)') = 0
    BY <1>2, <2>1, <2>2, FS_EmptySet
  <2>4. entered'[n] + Cardinality(Undecided(n)') <= stream'[n].count
    BY <1>1, <1>5, <2>3
  <2>5. ASSUME NEW k \in Messages, stream'[k].count <= MaxDeliveries
        PROVE  entered'[k] + Cardinality(Undecided(k)') <= stream'[k].count
    BY <1>1, <1>2, <1>5, <2>1, <2>5 DEF EntriesPaidFor
  <2>6. \A k \in (1 .. MaxEntries) \ Messages' : entered'[k] = 0
    BY <1>2, <1>5 DEF EntriesPaidFor
  <2> QED BY <1>2, <2>4, <2>5, <2>6 DEF EntriesPaidFor
<1> QED BY <1>1, <1>3, <1>4, <1>6, <1>7

(* What no step does to an entry that is there: change its wire, take back *)
(* a delivery, or write a record of failure before the bound is used up.   *)
EntriesEvolve ==
    \A m \in Messages :
        /\ stream'[m].wire = stream[m].wire
        /\ stream[m].count <= stream'[m].count
        /\ stream'[m].hold = "authoritative" =>
              stream[m].hold = "authoritative" \/ stream[m].count >= MaxDeliveries

(* No record disappears.                                                   *)
HoldsKept == \A m \in Messages : stream[m].hold # "none" => stream'[m].hold # "none"

WorkerQueue ==
    Len(stream') = Len(stream) /\ dedupe' = dedupe /\ EntriesEvolve /\ HoldsKept

(* A step that leaves the stream alone is steady.                          *)
LEMMA UnchangedQueue ==
    ASSUME stream \in Seq(Entry), UNCHANGED queueVars
    PROVE  QueueSteady /\ WorkerQueue
<1>1. \A m \in Messages : stream[m].count <= stream[m].count
  BY EntryTypes, QueueAssumption
<1> QED BY <1>1 DEF QueueSteady, WorkerQueue, EntriesEvolve, HoldsKept, queueVars

(* consume_once from the delivery to the handler.                          *)
LEMMA DeliveryKeeps ==
    ASSUME WorkerInv, NEW w \in Workers,
           Poll(w) \/ Read(w) \/ Classify(w) \/ RejectWire(w) \/ RefuseLegacy(w)
           \/ CountDeliveries(w)
    PROVE  WorkerInv' /\ WorkerQueue
<1>0. stream \in Seq(Entry) /\ (wpc[w] \notin Outside => msg[w] \in Messages)
  BY DEF WorkerInv, WorkerHoldsMessage, Outside
<1>t. /\ at \in [Workers -> 1 .. NumOps + 1] /\ mine \in [Workers -> BOOLEAN]
      /\ \A v \in Workers : mine[v] => at[v] <= NumOps
  BY DEF WorkerInv, WorkerTypeOK, WorkerHoldsMessage
<1>c. \A m \in Messages : stream[m].count <= stream[m].count
  BY <1>0, EntryTypes, QueueAssumption
<1>1. ASSUME NEW m \in Messages, Deliver(m), Take(w, m), wpc[w] \in Outside
      PROVE  WorkerInv' /\ WorkerQueue
  <2>1. WorkerInv'
    BY <1>1, TakeKeeps
  <2>2. stream[m].count \in Nat
    BY <1>0, EntryTypes, QueueAssumption
  <2>3. WorkerQueue
    BY <1>0, <1>1, <1>c, <2>2, DeliverEntry DEF WorkerQueue, EntriesEvolve, HoldsKept
  <2> QED BY <2>1, <2>3
<1>2. ASSUME NEW where \in {"idle", "down"}, Leave(w, where), UNCHANGED queueVars
      PROVE  WorkerInv' /\ WorkerQueue
  BY <1>0, <1>2, UnchangedQueue, LeaveKeeps
<1>3. ASSUME NEW h \in Holds \ {"none", "authoritative"}, wpc[w] \notin Outside,
             Quarantine(msg[w], h), Leave(w, "idle")
      PROVE  WorkerInv' /\ WorkerQueue
  <2>1. /\ QueueSteady /\ dedupe' = dedupe /\ stream'[msg[w]].hold = h
        /\ \A k \in Messages \ {msg[w]} : stream'[k].hold = stream[k].hold
    BY <1>0, <1>3, QuarantineEntry
  <2>2. WorkerInv'
    BY <1>3, <2>1, LeaveKeeps
  <2> QED BY <1>c, <1>3, <2>1, <2>2 DEF QueueSteady, WorkerQueue, EntriesEvolve, HoldsKept
<1>4. CASE Poll(w)
  <2>1. CASE \E m \in Messages : Autoclaim(m) /\ Take(w, m)
    BY <1>1, <1>4, <2>1 DEF Poll, Autoclaim, Outside
  <2>2. CASE Goto(w, "reading") /\ UNCHANGED <<queueVars, msg, att, at, mine, entered>>
    <3>1. WorkerInv'
      BY <1>4, <1>t, <2>2, GotoKeeps DEF Poll, Outside, Counted, Wires, queueVars
    <3> QED BY <1>0, <2>2, <3>1, UnchangedQueue
  <2> QED BY <1>4, <2>1, <2>2 DEF Poll
<1>5. CASE Read(w)
  BY <1>1, <1>2, <1>5 DEF Read, ReadNew, Outside
<1>6. CASE Classify(w)
  <2>1. CASE Leave(w, "idle")
    BY <1>2, <1>6, <2>1 DEF Classify
  <2>2. CASE Goto(w, stream[msg[w]].wire) /\ UNCHANGED <<msg, att, at, mine, entered>>
    <3>1. stream[msg[w]].wire \in Wires
      BY <1>0, <1>6, EntryTypes DEF Classify, Outside
    <3>2. WorkerInv'
      BY <1>6, <1>t, <2>2, <3>1, GotoKeeps DEF Classify, Outside, Counted, Wires, Deciding,
         queueVars
    <3> QED BY <1>0, <1>6, <3>2, UnchangedQueue DEF Classify
  <2> QED BY <1>6, <2>1, <2>2 DEF Classify
<1>7. CASE RejectWire(w)
  <2>1. wpc[w] \notin Outside /\ "rejected" \in Holds \ {"none", "authoritative"}
    BY <1>7 DEF RejectWire, Outside, Holds
  <2> QED BY <1>2, <1>3, <1>7, <2>1 DEF RejectWire
<1>8. CASE RefuseLegacy(w)
  <2>1. /\ QueueSteady /\ dedupe' = dedupe
        /\ \A k \in Messages : stream'[k].hold = stream[k].hold
    BY <1>0, <1>8, QuietEntry DEF RefuseLegacy, Outside
  <2>2. WorkerInv'
    BY <1>8, <2>1, LeaveKeeps DEF RefuseLegacy
  <2> QED BY <1>c, <2>1, <2>2 DEF QueueSteady, WorkerQueue, EntriesEvolve, HoldsKept
<1>9. CASE CountDeliveries(w)
  <2>1. wpc[w] = "AUTHORITATIVE" /\ wpc[w] \notin Outside
        /\ "counter" \in Holds \ {"none", "authoritative"}
    BY <1>9 DEF CountDeliveries, Outside, Holds
  <2>2. CASE /\ EvidenceOk(stream[msg[w]].count)
             /\ att' = [att EXCEPT ![w] = stream[msg[w]].count]
             /\ entered' = [entered EXCEPT ![msg[w]] = @ + 1]
             /\ Goto(w, "handler") /\ UNCHANGED <<queueVars, msg, at, mine>>
    <3>1. WorkerInv'
      BY <2>1, <2>2, EnterKeeps DEF EvidenceOk, queueVars
    <3> QED BY <1>0, <2>2, <3>1, UnchangedQueue
  <2> QED BY <1>2, <1>3, <1>9, <2>1, <2>2 DEF CountDeliveries
<1> QED BY <1>4, <1>5, <1>6, <1>7, <1>8, <1>9

(* The handler, the scan it runs, and what becomes of the message.         *)
LEMMA HandlerKeeps ==
    ASSUME WorkerInv, NEW w \in Workers,
           Handoff(w) \/ ScanStep(w) \/ Succeed(w) \/ Fail(w) \/ Crash(w) \/ Restart(w)
    PROVE  WorkerInv' /\ WorkerQueue
<1>0. stream \in Seq(Entry) /\ (wpc[w] \notin Outside => msg[w] \in Messages)
  BY DEF WorkerInv, WorkerHoldsMessage, Outside
<1>t. /\ at \in [Workers -> 1 .. NumOps + 1] /\ mine \in [Workers -> BOOLEAN]
      /\ \A v \in Workers : mine[v] => at[v] <= NumOps
      /\ NumOps \in Nat
  BY OpsAssumption DEF WorkerInv, WorkerTypeOK, WorkerHoldsMessage
<1>c. \A m \in Messages : stream[m].count <= stream[m].count
  BY <1>0, EntryTypes, QueueAssumption
<1>1. ASSUME NEW where \in {"idle", "down"}, Leave(w, where), UNCHANGED queueVars
      PROVE  WorkerInv' /\ WorkerQueue
  BY <1>0, <1>1, UnchangedQueue, LeaveKeeps
<1>2. ASSUME NEW where \in Counted, Goto(w, where), wpc[w] \in Counted,
             UNCHANGED <<queueVars, msg, att, entered>>,
             at' \in [Workers -> 1 .. NumOps + 1], mine' \in [Workers -> BOOLEAN],
             \A v \in Workers : mine'[v] => at'[v] <= NumOps
      PROVE  WorkerInv' /\ WorkerQueue
  <2>1. WorkerInv'
    BY <1>2, GotoKeeps DEF Outside, Counted, queueVars
  <2> QED BY <1>0, <1>2, <2>1, UnchangedQueue
<1>3. CASE Handoff(w) \/ StartScan(w) \/ FinishEngines(w) \/ SaveResult(w) \/ FailScan(w)
  <2>1. wpc[w] \in Counted /\ UNCHANGED <<queueVars, msg, att, at, mine, entered>>
    BY <1>3 DEF Handoff, StartScan, FinishEngines, SaveResult, FailScan, Counted
  <2>2. \E where \in Counted : Goto(w, where)
    BY <1>3 DEF Handoff, Refuse, StartScan, FinishEngines, SaveResult, FailScan, Counted
  <2> QED BY <1>2, <1>t, <2>1, <2>2
<1>4. CASE ScanTimeout(w)
  <2>1. /\ wpc[w] \in Counted /\ Goto(w, "failed") /\ at' = at
        /\ UNCHANGED <<queueVars, msg, att, entered>>
        /\ mine' = [mine EXCEPT ![w] = FALSE]
    BY <1>4 DEF ScanTimeout, Counted
  <2>2. mine' \in [Workers -> BOOLEAN] /\ \A v \in Workers : mine'[v] => at'[v] <= NumOps
    BY <1>t, <2>1
  <2>3. "failed" \in Counted
    BY DEF Counted
  <2> QED BY <1>2, <1>t, <2>1, <2>2, <2>3
<1>5. CASE ClaimOperation(w) \/ StartOperation(w) \/ EndOperation(w) \/ SkipOperation(w)
  <2>1. /\ wpc[w] = "engines" /\ wpc' = wpc
        /\ UNCHANGED <<queueVars, msg, att, entered>>
        /\ at[w] <= NumOps
    BY <1>5, <1>t DEF ClaimOperation, StartOperation, EndOperation, SkipOperation,
       NextOperation, workerVars
  <2>2. Goto(w, "engines") /\ "engines" \in Counted /\ wpc[w] \in Counted
    BY <2>1 DEF Goto, WorkerInv, WorkerTypeOK, Counted
  <2>3. \/ at' = at /\ mine' = mine
        \/ at' = at /\ mine' = [mine EXCEPT ![w] = TRUE]
        \/ at' = [at EXCEPT ![w] = @ + 1] /\ mine' = [mine EXCEPT ![w] = FALSE]
    BY <1>5 DEF ClaimOperation, StartOperation, EndOperation, SkipOperation,
       NextOperation, workerVars
  <2>4. /\ at' \in [Workers -> 1 .. NumOps + 1] /\ mine' \in [Workers -> BOOLEAN]
        /\ \A v \in Workers : mine'[v] => at'[v] <= NumOps
    <3>1. at[w] \in 1 .. NumOps /\ at[w] + 1 \in 1 .. NumOps + 1
      BY <1>t, <2>1
    <3>2. CASE at' = at /\ mine' = mine
      BY <1>t, <3>2
    <3>3. CASE at' = at /\ mine' = [mine EXCEPT ![w] = TRUE]
      <4>1. mine' \in [Workers -> BOOLEAN]
        BY <1>t, <3>3
      <4>2. \A v \in Workers : v # w => mine'[v] = mine[v]
        BY <1>t, <3>3
      <4> QED BY <1>t, <2>1, <3>3, <4>1, <4>2
    <3>4. CASE at' = [at EXCEPT ![w] = @ + 1] /\ mine' = [mine EXCEPT ![w] = FALSE]
      <4>1. at' \in [Workers -> 1 .. NumOps + 1] /\ \A v \in Workers : v # w => at'[v] = at[v]
        BY <1>t, <3>1, <3>4
      <4>2. mine' \in [Workers -> BOOLEAN] /\ ~ mine'[w]
            /\ \A v \in Workers : v # w => mine'[v] = mine[v]
        BY <1>t, <3>4
      <4> QED BY <1>t, <4>1, <4>2
    <3> QED BY <2>3, <3>2, <3>3, <3>4
  <2> QED BY <1>2, <2>1, <2>2, <2>4
<1>6. CASE ObserveCancelled(w) \/ Crash(w) \/ Restart(w)
  BY <1>1, <1>6 DEF ObserveCancelled, Crash, Restart
<1>7. CASE Succeed(w)
  <2>1. /\ QueueSteady /\ dedupe' = dedupe
        /\ \A k \in Messages : stream'[k].hold = stream[k].hold
    BY <1>0, <1>7, QuietEntry DEF Succeed, Outside
  <2>2. WorkerInv'
    BY <1>7, <2>1, LeaveKeeps DEF Succeed
  <2> QED BY <1>c, <2>1, <2>2 DEF QueueSteady, WorkerQueue, EntriesEvolve, HoldsKept
<1>8. CASE Fail(w)
  <2>1. CASE att[w] < MaxDeliveries
    <3>1. ~ att[w] >= MaxDeliveries
      BY <2>1, QueueAssumption DEF WorkerInv, WorkerTypeOK
    <3> QED BY <1>1, <1>8, <3>1 DEF Fail
  <2>2. CASE att[w] >= MaxDeliveries
    <3>1. /\ Quarantine(msg[w], "authoritative") /\ Leave(w, "idle")
          /\ msg[w] \in Messages /\ "authoritative" \in Holds
      BY <1>0, <1>8, <2>2 DEF Fail, Outside, Holds
    <3>2. /\ QueueSteady /\ dedupe' = dedupe /\ stream'[msg[w]].hold = "authoritative"
          /\ \A k \in Messages \ {msg[w]} : stream'[k].hold = stream[k].hold
      BY <1>0, <3>1, QuarantineEntry
    <3>3. WorkerInv'
      BY <3>1, <3>2, LeaveKeeps
    <3>4. stream[msg[w]].count >= MaxDeliveries
      <4>1. att[w] <= stream[msg[w]].count /\ att[w] \in Nat
        BY <1>8, QueueAssumption DEF Fail, WorkerInv, WorkerTypeOK, WorkerHoldsMessage
      <4>2. stream[msg[w]].count \in Nat
        BY <1>0, <3>1, EntryTypes, QueueAssumption
      <4> QED BY <2>2, <4>1, <4>2, QueueAssumption
    <3> QED
      BY <1>c, <3>2, <3>3, <3>4 DEF QueueSteady, WorkerQueue, EntriesEvolve, HoldsKept
  <2>3. att[w] < MaxDeliveries \/ att[w] >= MaxDeliveries
    BY QueueAssumption DEF WorkerInv, WorkerTypeOK
  <2> QED BY <2>1, <2>2, <2>3
<1> QED BY <1>3, <1>4, <1>5, <1>6, <1>7, <1>8 DEF ScanStep

-----------------------------------------------------------------------------
(* The control plane.                                                      *)

QueueControl == QueueTypeOK /\ ControlTypeOK /\ IdentityGuards

(* A step that publishes nothing, starts no publication and forgets no     *)
(* identity keeps the identity guards.                                     *)
LEMMA IdentityKept ==
    ASSUME stream \in Seq(Entry), stream' \in Seq(Entry), Len(stream') = Len(stream),
           \A m \in Messages : stream'[m].wire = stream[m].wire,
           IdentityGuards, dedupe' = dedupe, expired => expired',
           \A a \in Apis : apc'[a] = "publishing" => apc[a] = "publishing" \/ ~expired
    PROVE  IdentityGuards'
<1>1. Messages' = Messages
  BY MessageIds
<1> QED BY <1>1 DEF IdentityGuards, Authoritative

(* Scan rows never lose their expiry.                                      *)
LEMMA ExpiryStays ==
    ASSUME ScanMove PROVE expired => expired'
BY DEF ScanMove, scanVars, ParentExpires, ApproveScan, SaveScan, ClaimChild, StartChild,
   EndChild

(* Reviews stay typed when the stream grows.                               *)
LEMMA ReviewTypes ==
    ASSUME ControlTypeOK, stream \in Seq(Entry), stream' \in Seq(Entry),
           Len(stream) <= Len(stream'),
           apc' \in [Apis -> {"idle", "loaded", "approved", "publishing"}],
           snap' \in [Apis -> Statuses], job' \in [Apis -> Statuses \cup {"none"}],
           tasked' \in [Apis -> BOOLEAN],
           \/ review' = review
           \/ \E p \in Operators, r \in {<<>>} \cup (Messages \X Nat) :
                 review' = [review EXCEPT ![p] = r]
    PROVE  ControlTypeOK'
<1> DEFINE R == {<<>>} \cup (Messages \X Nat)
<1>1. review' \in [Operators -> R]
  <2>1. review \in [Operators -> R]
    BY DEF ControlTypeOK
  <2> HIDE DEF R
  <2>2. \/ review' = review
        \/ \E p \in Operators, r \in R : review' = [review EXCEPT ![p] = r]
    BY DEF R
  <2> QED BY <2>1, <2>2
<1>2. Messages \subseteq Messages'
  BY MessageIds
<1>3. R \subseteq {<<>>} \cup (Messages' \X Nat)
  BY <1>2
<1>4. review' \in [Operators -> {<<>>} \cup (Messages' \X Nat)]
  <2> HIDE DEF R
  <2> QED BY <1>1, <1>3
<1> QED BY <1>4 DEF ControlTypeOK

(* A worker's step leaves the control plane alone.                         *)
LEMMA WorkerKeepsControl ==
    ASSUME QueueControl, stream' \in Seq(Entry), WorkerQueue, ScanMove,
           UNCHANGED controlVars
    PROVE  QueueControl'
<1> USE DEF QueueControl
<1>1. QueueTypeOK'
  BY DEF QueueTypeOK, WorkerQueue
<1>2. Len(stream) <= Len(stream')
  BY MessageIds DEF QueueTypeOK, WorkerQueue
<1>3. ControlTypeOK'
  BY <1>2, ReviewTypes DEF QueueTypeOK, ControlTypeOK, controlVars
<1>4. IdentityGuards'
  BY ExpiryStays, IdentityKept DEF QueueTypeOK, WorkerQueue, EntriesEvolve, controlVars
<1> QED BY <1>1, <1>3, <1>4

(* The approval route and the operator.                                    *)
LEMMA ControlKeeps ==
    ASSUME QueueControl, WorkerInv, ScanTypeOK, ScanMove, ControlStep, UNCHANGED workerVars
    PROVE  /\ QueueControl' /\ WorkerInv' /\ EntriesEvolve
           /\ \A m \in Messages' \ Messages : stream'[m].hold = "none"
<1> DEFINE Goal == /\ QueueControl' /\ WorkerInv' /\ EntriesEvolve
                   /\ \A m \in Messages' \ Messages : stream'[m].hold = "none"
<1>0. /\ stream \in Seq(Entry) /\ Messages = 1 .. Len(stream) /\ Len(stream) \in Nat
      /\ Len(stream) <= Len(stream) /\ Len(stream) <= MaxEntries
      /\ dedupe \in 0 .. Len(stream)
  BY MessageIds DEF QueueControl, QueueTypeOK
<1>t. /\ apc \in [Apis -> {"idle", "loaded", "approved", "publishing"}]
      /\ snap \in [Apis -> Statuses] /\ job \in [Apis -> Statuses \cup {"none"}]
      /\ tasked \in [Apis -> BOOLEAN] /\ scan \in Statuses
      /\ {"OPEN", "CANCELLED"} \subseteq Statuses
      /\ ControlTypeOK /\ IdentityGuards
  BY DEF QueueControl, ControlTypeOK, ScanTypeOK, Statuses
<1>c. \A m \in Messages : stream[m].count <= stream[m].count
  BY <1>0, EntryTypes, QueueAssumption
<1>1. ASSUME UNCHANGED queueVars,
             apc' \in [Apis -> {"idle", "loaded", "approved", "publishing"}],
             snap' \in [Apis -> Statuses], job' \in [Apis -> Statuses \cup {"none"}],
             tasked' \in [Apis -> BOOLEAN],
             \A a \in Apis : apc'[a] = "publishing" => apc[a] = "publishing" \/ ~expired,
             \/ review' = review
             \/ \E p \in Operators, r \in {<<>>} \cup (Messages \X Nat) :
                   review' = [review EXCEPT ![p] = r]
      PROVE  Goal
  <2>0. stream' = stream /\ dedupe' = dedupe /\ Messages' = Messages
    BY <1>1 DEF queueVars, Messages
  <2>1. QueueSteady /\ EntriesEvolve
    BY <1>0, <1>1, UnchangedQueue DEF WorkerQueue
  <2>2. WorkerInv'
    BY <2>1, OthersKeep
  <2>3. ControlTypeOK'
    BY <1>0, <1>1, <1>t, <2>0, ReviewTypes
  <2>4. IdentityGuards'
    BY <1>0, <1>1, <1>t, <2>0, ExpiryStays, IdentityKept
  <2>5. QueueTypeOK'
    BY <2>0 DEF QueueControl, QueueTypeOK
  <2> QED BY <2>0, <2>1, <2>2, <2>3, <2>4, <2>5 DEF QueueControl
<1>2. ASSUME NEW a \in Apis, LoadScan(a) PROVE Goal
  BY <1>1, <1>2, <1>t DEF LoadScan, AGoto
<1>3. ASSUME NEW a \in Apis, Approve(a) PROVE Goal
  BY <1>1, <1>3, <1>t DEF Approve, AGoto, Answer
<1>4. ASSUME NEW a \in Apis, Dispatch(a) PROVE Goal
  <2>1. CASE Dispatchable /\ AGoto(a, "publishing") /\ job' = [job EXCEPT ![a] = snap[a]]
             /\ UNCHANGED snap
    BY <1>1, <1>4, <1>t, <2>1 DEF Dispatch, AGoto, Dispatchable
  <2>2. CASE Answer(a) /\ UNCHANGED job
    BY <1>1, <1>4, <1>t, <2>2 DEF Dispatch, AGoto, Answer
  <2> QED BY <1>4, <2>1, <2>2 DEF Dispatch
<1>5. ASSUME NEW a \in Apis, PublishIntent(a) PROVE Goal
  <2>1. /\ apc' \in [Apis -> {"idle", "loaded", "approved", "publishing"}]
        /\ snap' \in [Apis -> Statuses] /\ job' = job /\ tasked' \in [Apis -> BOOLEAN]
        /\ review' = review /\ apc[a] = "publishing"
        /\ \A b \in Apis : apc'[b] = "publishing" => apc[b] = "publishing"
    BY <1>5, <1>t DEF PublishIntent, Answer, AGoto
  <2>2. CASE UNCHANGED queueVars
    BY <1>1, <1>t, <2>1, <2>2
  <2>3. CASE dedupe = 0 /\ Publish("AUTHORITATIVE") /\ dedupe' = Len(stream) + 1
    <3>1. /\ stream' \in Seq(Entry) /\ Len(stream') = Len(stream) + 1
          /\ Len(stream') <= MaxEntries
          /\ \A k \in Messages : stream'[k] = stream[k]
          /\ stream'[Len(stream) + 1].hold = "none"
      BY <1>0, <2>3, PublishAppends DEF Wires
    <3>2. Messages' = Messages \cup {Len(stream) + 1} /\ Len(stream) <= Len(stream')
      BY <1>0, <3>1, MessageIds
    <3>3. WorkerInv'
      BY <2>3, PublishKeeps DEF Wires
    <3>4. EntriesEvolve
      BY <1>c, <3>1 DEF EntriesEvolve
    <3>5. QueueTypeOK'
      BY <1>0, <2>3, <3>1 DEF QueueTypeOK
    <3>6. ControlTypeOK'
      BY <1>0, <1>t, <2>1, <3>1, <3>2, ReviewTypes
    <3>7. IdentityGuards'
      <4>1. \A m \in Messages : stream[m].wire # "AUTHORITATIVE"
        BY <1>t, <2>1, <2>3 DEF IdentityGuards, Authoritative
      <4>2. dedupe' # 0
        BY <1>0, <2>3
      <4> QED BY <3>1, <3>2, <4>1, <4>2 DEF IdentityGuards, Authoritative
    <3> QED BY <3>1, <3>2, <3>3, <3>4, <3>5, <3>6, <3>7 DEF QueueControl
  <2> QED BY <1>5, <2>2, <2>3 DEF PublishIntent, EnqueueOnce, queueVars
<1>6. ASSUME NEW a \in Apis, ApiRestart(a) PROVE Goal
  BY <1>1, <1>6, <1>t DEF ApiRestart, AGoto, Answer
<1>7. ASSUME NEW a \in Apis, CancelScan(a) PROVE Goal
  <2>1. job' = job \/ job' = [job EXCEPT ![a] = "CANCELLED"]
    BY <1>7 DEF CancelScan
  <2> QED BY <1>1, <1>7, <1>t, <2>1 DEF CancelScan
<1>8. ASSUME NEW o \in Ops, CancelChild(o) PROVE Goal
  BY <1>1, <1>8, <1>t DEF CancelChild, controlVars
<1>9. ASSUME NEW p \in Operators, ReviewQuarantine(p) PROVE Goal
  <2>1. PICK m \in Messages : review' = [review EXCEPT ![p] = <<m, stream[m].stamp>>]
    BY <1>9 DEF ReviewQuarantine
  <2>2. <<m, stream[m].stamp>> \in {<<>>} \cup (Messages \X Nat)
    BY <1>0, EntryTypes
  <2> QED BY <1>1, <1>9, <1>t, <2>1, <2>2 DEF ReviewQuarantine
<1>10. ASSUME NEW p \in Operators, Acknowledge(p) PROVE Goal
  <2>1. review[p] \in Messages \X Nat
    BY <1>10, <1>t DEF Acknowledge, ControlTypeOK
  <2>2. review[p][1] \in Messages
    BY <2>1
  <2>3. /\ QueueSteady
        /\ \A k \in Messages : stream'[k].hold \in {"none", stream[k].hold}
    BY <1>0, <1>10, <2>2, AcknowledgeEntry DEF Acknowledge
  <2>4. EntriesEvolve
    BY <1>c, <2>3 DEF EntriesEvolve, QueueSteady
  <2>5. WorkerInv'
    BY <2>3, OthersKeep
  <2>6. stream' \in Seq(Entry) /\ Len(stream') = Len(stream) /\ Messages' = Messages
    BY <1>0, <2>3, MessageIds DEF QueueSteady
  <2>7. QueueTypeOK'
    BY <1>10, <2>6 DEF Acknowledge, QueueControl, QueueTypeOK
  <2>8. ControlTypeOK'
    BY <1>0, <1>10, <1>t, <2>6, ReviewTypes DEF Acknowledge
  <2>9. IdentityGuards'
    BY <1>0, <1>10, <1>t, <2>3, <2>6, ExpiryStays, IdentityKept DEF Acknowledge, QueueSteady
  <2> QED BY <2>4, <2>5, <2>6, <2>7, <2>8, <2>9 DEF QueueControl
<1> QED BY <1>2, <1>3, <1>4, <1>5, <1>6, <1>7, <1>8, <1>9, <1>10 DEF ControlStep

(* Other producers, the reaper and the clocks.                             *)
LEMMA OthersStepKeeps ==
    ASSUME QueueControl, WorkerInv, ScanMove, OtherProducer \/ Reaper \/ Clock,
           UNCHANGED <<workerVars, controlVars>>
    PROVE  /\ QueueControl' /\ WorkerInv' /\ EntriesEvolve /\ HoldsKept
           /\ \A m \in Messages' \ Messages : stream'[m].hold = "none"
<1> DEFINE Goal == /\ QueueControl' /\ WorkerInv' /\ EntriesEvolve /\ HoldsKept
                   /\ \A m \in Messages' \ Messages : stream'[m].hold = "none"
<1>0. /\ stream \in Seq(Entry) /\ Messages = 1 .. Len(stream) /\ Len(stream) \in Nat
      /\ dedupe \in 0 .. Len(stream) /\ Len(stream) <= Len(stream)
      /\ UNCHANGED workerVars /\ ControlTypeOK /\ IdentityGuards
      /\ UNCHANGED <<apc, snap, job, tasked, review>>
  BY MessageIds DEF QueueControl, QueueTypeOK, controlVars
<1>c. \A m \in Messages : stream[m].count <= stream[m].count
  BY <1>0, EntryTypes, QueueAssumption
<1>1. ASSUME QueueSteady, dedupe' = dedupe,
             \A k \in Messages : stream'[k].hold = stream[k].hold
      PROVE  Goal
  <2>1. WorkerQueue /\ stream' \in Seq(Entry) /\ Messages' = Messages
    BY <1>0, <1>1, <1>c, MessageIds DEF QueueSteady, WorkerQueue, EntriesEvolve, HoldsKept
  <2>2. QueueControl'
    BY <2>1, WorkerKeepsControl
  <2>3. WorkerInv'
    BY <1>0, <1>1, OthersKeep
  <2> QED BY <2>1, <2>2, <2>3 DEF WorkerQueue
<1>2. ASSUME UNCHANGED queueVars PROVE Goal
  <2>1. QueueSteady /\ dedupe' = dedupe /\ stream' = stream
    BY <1>0, <1>2, UnchangedQueue DEF queueVars
  <2> QED BY <1>1, <2>1
<1>3. CASE OtherProducer
  <2>1. PICK wire \in OtherWires : Publish(wire) /\ UNCHANGED dedupe
    BY <1>3 DEF OtherProducer, EnqueueOther
  <2>2. wire \in Wires /\ wire # "AUTHORITATIVE"
    BY ProducersAssumption DEF Wires
  <2>3. /\ stream' \in Seq(Entry) /\ Len(stream') = Len(stream) + 1
        /\ Len(stream') <= MaxEntries
        /\ \A k \in Messages : stream'[k] = stream[k]
        /\ stream'[Len(stream) + 1].hold = "none"
        /\ stream'[Len(stream) + 1].wire = wire
    BY <1>0, <2>1, <2>2, PublishAppends
  <2>4. Messages' = Messages \cup {Len(stream) + 1} /\ Len(stream) <= Len(stream')
    BY <1>0, <2>3, MessageIds
  <2>5. WorkerInv'
    BY <1>0, <2>1, <2>2, PublishKeeps
  <2>6. EntriesEvolve /\ HoldsKept
    BY <1>c, <2>3 DEF EntriesEvolve, HoldsKept
  <2>7. QueueTypeOK'
    BY <1>0, <2>1, <2>3 DEF QueueTypeOK
  <2>8. ControlTypeOK'
    BY <1>0, <2>3, <2>4, ReviewTypes DEF ControlTypeOK
  <2>9. IdentityGuards'
    <3>1. \A m \in Messages' : Authoritative(m)' => m \in Messages /\ Authoritative(m)
      BY <2>2, <2>3, <2>4 DEF Authoritative
    <3>2. expired => expired'
      BY ExpiryStays
    <3> QED BY <1>0, <2>1, <3>1, <3>2 DEF IdentityGuards
  <2> QED BY <2>3, <2>4, <2>5, <2>6, <2>7, <2>8, <2>9 DEF QueueControl
<1>4. CASE Reaper
  BY <1>2, <1>4 DEF Reaper
<1>5. CASE Clock
  <2>1. CASE ParentExpires /\ UNCHANGED queueVars
    BY <1>2, <2>1
  <2>2. CASE /\ expired /\ \A a \in Apis : apc[a] # "publishing"
             /\ DedupeExpires /\ UNCHANGED scanVars
    <3>1. stream' = stream /\ dedupe' = 0 /\ Messages' = Messages
      BY <2>2 DEF DedupeExpires, Messages
    <3>2. QueueSteady /\ EntriesEvolve /\ HoldsKept
      BY <1>0, <1>c, <3>1 DEF QueueSteady, EntriesEvolve, HoldsKept
    <3>3. WorkerInv'
      BY <1>0, <3>2, OthersKeep
    <3>4. QueueTypeOK'
      BY <1>0, <3>1 DEF QueueControl, QueueTypeOK
    <3>5. ControlTypeOK'
      BY <1>0, <3>1, ReviewTypes DEF ControlTypeOK
    <3>6. IdentityGuards'
      BY <1>0, <2>2, <3>1 DEF IdentityGuards, Authoritative, scanVars
    <3> QED BY <3>1, <3>2, <3>3, <3>4, <3>5, <3>6 DEF QueueControl
  <2>3. CASE \E m \in Messages : BecomesIdle(m)
    BY <1>0, <1>1, <2>3, QuietEntry
  <2> QED BY <1>5, <2>1, <2>2, <2>3 DEF Clock
<1> QED BY <1>3, <1>4, <1>5

-----------------------------------------------------------------------------
(* The system.                                                             *)

(* A record of failure stays justified as the entries evolve.              *)
LEMMA BudgetKept ==
    ASSUME stream \in Seq(Entry), stream' \in Seq(Entry), QuarantineUsesBudget,
           EntriesEvolve, \A m \in Messages' \ Messages : stream'[m].hold = "none"
    PROVE  QuarantineUsesBudget'
<1> SUFFICES ASSUME NEW m \in Messages', stream'[m].hold = "authoritative"
             PROVE  stream'[m].count >= MaxDeliveries
  BY DEF QuarantineUsesBudget
<1>1. m \in Messages
  OBVIOUS
<1>2. stream[m].count >= MaxDeliveries /\ stream[m].count <= stream'[m].count
  BY <1>1 DEF QuarantineUsesBudget, EntriesEvolve
<1>3. stream[m].count \in Nat
  BY <1>1, EntryTypes, QueueAssumption
<1>4. stream'[m].count \in Nat
  <2>1. stream'[m] \in Entry
    BY MessageIds, ElementOfSeq
  <2> QED BY <2>1, QueueAssumption DEF Entry
<1> QED BY <1>2, <1>3, <1>4, QueueAssumption

(* The inductive invariant holds initially: nothing is published, nothing  *)
(* delivered, nothing claimed.                                             *)
LEMMA InitDispatch == Init => DispatchInv
<1> SUFFICES ASSUME Init PROVE DispatchInv
  OBVIOUS
<1> USE DEF Init, QueueInit, ScanInit, WorkerInit, ControlInit
<1>1. stream \in Seq(Entry) /\ Len(stream) = 0 /\ Messages = {}
  BY EmptySeq DEF Messages
<1>2. QueueTypeOK
  BY <1>1, QueueAssumption DEF QueueTypeOK
<1>3. ScanTypeOK /\ ClaimsFollowState /\ ChildClaimedOnce
  <2>1. \A o \in Ops : child[o] = "NONE" /\ claims[o] = 0
    OBVIOUS
  <2>2. ScanTypeOK
    BY DEF ScanTypeOK, Statuses
  <2> QED BY <2>1, <2>2 DEF ClaimsFollowState, ChildClaimedOnce
<1>4. WorkerTypeOK
  BY <1>1, QueueAssumption, OpsAssumption DEF WorkerTypeOK
<1>5. ControlTypeOK
  BY DEF ControlTypeOK, Statuses
<1>6. WorkerHoldsMessage
  BY DEF WorkerHoldsMessage
<1>7. EntriesPaidFor /\ IdentityGuards /\ HandlerEntriesBounded /\ QuarantineUsesBudget
  BY <1>1 DEF EntriesPaidFor, IdentityGuards, HandlerEntriesBounded, QuarantineUsesBudget
<1> QED BY <1>2, <1>3, <1>4, <1>5, <1>6, <1>7 DEF DispatchInv, TypeOK

(* The inductive invariant in the pieces above.                            *)
LEMMA InvParts ==
    DispatchInv <=> QueueControl /\ ScanInv /\ WorkerInv /\ QuarantineUsesBudget
BY DEF DispatchInv, TypeOK, QueueControl, QueueTypeOK, ScanInv, WorkerInv

(* Every step of the system keeps it.                                      *)
LEMMA NextDispatch == DispatchInv /\ [Next]_vars => DispatchInv'
<1> SUFFICES ASSUME DispatchInv, [Next]_vars PROVE DispatchInv'
  OBVIOUS
<1>0. /\ QueueControl /\ ScanInv /\ WorkerInv /\ QuarantineUsesBudget
      /\ stream \in Seq(Entry) /\ ScanTypeOK
  BY InvParts DEF QueueControl, QueueTypeOK, ScanInv
<1>1. CASE UNCHANGED vars
  <2>1. /\ UNCHANGED queueVars /\ UNCHANGED scanVars /\ UNCHANGED workerVars
        /\ UNCHANGED controlVars /\ stream' = stream /\ Messages' = Messages
    BY <1>1 DEF vars, queueVars, Messages
  <2>2. QueueSteady /\ WorkerQueue /\ ScanMove
    BY <1>0, <2>1, UnchangedQueue DEF ScanMove
  <2>3. QueueControl' /\ ScanInv' /\ WorkerInv'
    BY <1>0, <2>1, <2>2, WorkerKeepsControl, ScanMoveKeeps, OthersKeep
  <2>4. QuarantineUsesBudget'
    BY <1>0, <2>1 DEF QuarantineUsesBudget
  <2>5. (QueueControl /\ ScanInv /\ WorkerInv /\ QuarantineUsesBudget)'
    BY <2>3, <2>4
  <2> QED BY <2>5, InvParts DEF DispatchInv, TypeOK, QueueControl, QueueTypeOK, ScanInv, WorkerInv
<1>2. CASE Next
  <2>1. ScanMove
    BY <1>0, <1>2, NextMovesScan DEF QueueControl, WorkerInv, ScanTypeOK
  <2>2. ScanInv'
    BY <1>0, <2>1, ScanMoveKeeps
  <2>3. ASSUME NEW w \in Workers, ConsumeStep(w) \/ Crash(w) \/ Restart(w),
               UNCHANGED controlVars
        PROVE  /\ QueueControl' /\ WorkerInv' /\ EntriesEvolve
               /\ \A m \in Messages' \ Messages : stream'[m].hold = "none"
    <3>1. WorkerInv' /\ WorkerQueue
      BY <1>0, <2>3, DeliveryKeeps, HandlerKeeps DEF ConsumeStep
    <3>2. stream' \in Seq(Entry)
      BY <3>1 DEF WorkerInv
    <3>3. QueueControl'
      BY <1>0, <2>1, <2>3, <3>1, <3>2, WorkerKeepsControl
    <3>4. Messages' = Messages
      BY <1>0, <3>1, <3>2, MessageIds DEF WorkerQueue
    <3> QED BY <3>1, <3>3, <3>4 DEF WorkerQueue
  <2>4. /\ QueueControl' /\ WorkerInv' /\ EntriesEvolve
        /\ \A m \in Messages' \ Messages : stream'[m].hold = "none"
    BY <1>0, <1>2, <2>1, <2>3, ControlKeeps, OthersStepKeeps DEF Next
  <2>5. stream' \in Seq(Entry)
    BY <2>4 DEF WorkerInv
  <2>6. QuarantineUsesBudget'
    BY <1>0, <2>4, <2>5, BudgetKept
  <2> QED
    BY <2>2, <2>4, <2>6 DEF DispatchInv, TypeOK, QueueControl, QueueTypeOK, ScanInv, WorkerInv
<1> QED BY <1>1, <1>2

(* DispatchInv is an invariant of the whole path from the approval to the  *)
(* workers, whatever crashes, restarts, expires or is replayed.            *)
THEOREM DispatchInvariant == Spec => []DispatchInv
BY InitDispatch, NextDispatch, PTL DEF Spec

(* The variables keep their types.                                         *)
THEOREM DispatchTypes == Spec => []TypeOK
<1>1. DispatchInv => TypeOK
  BY DEF DispatchInv
<1> QED BY <1>1, DispatchInvariant, PTL

(* No child execution is claimed twice (execute_dispatched_scan,           *)
(* claim_execution_authority).                                             *)
THEOREM ChildrenClaimedOnce == Spec => []ChildClaimedOnce
<1>1. DispatchInv => ChildClaimedOnce
  BY DEF DispatchInv
<1> QED BY <1>1, DispatchInvariant, PTL

(* The handler of a message is entered at most MaxDeliveries times         *)
(* (consume_once).                                                         *)
THEOREM HandlerEntries == Spec => []HandlerEntriesBounded
<1>1. DispatchInv => HandlerEntriesBounded
  BY DEF DispatchInv
<1> QED BY <1>1, DispatchInvariant, PTL

(* A message is quarantined for failing only when its deliveries are used  *)
(* up (fail).                                                              *)
THEOREM QuarantineAfterBudget == Spec => []QuarantineUsesBudget
<1>1. DispatchInv => QuarantineUsesBudget
  BY DEF DispatchInv
<1> QED BY <1>1, DispatchInvariant, PTL

(* One approved request never has two entries in the stream                *)
(* (_IDEMPOTENT_ENQUEUE_SCRIPT, dispatch_approved_scan).                   *)
THEOREM RequestPublishedOnce == Spec => []PublishedOnce
<1>1. ASSUME DispatchInv PROVE PublishedOnce
  <2> DEFINE A == {m \in Messages : stream[m].wire = "AUTHORITATIVE"}
  <2>1. \A m, k \in A : m = k
    BY <1>1 DEF DispatchInv, IdentityGuards, Authoritative
  <2>2. A = {} \/ \E m : A = {m}
    BY <2>1
  <2> HIDE DEF A
  <2>3. Cardinality(A) \in {0, 1}
    <3>1. CASE A = {}
      BY <3>1, FS_EmptySet
    <3>2. ASSUME NEW m, A = {m} PROVE Cardinality(A) = 1
      BY <3>2, FS_Singleton
    <3> QED BY <2>2, <3>1, <3>2
  <2> QED BY <2>3 DEF PublishedOnce, A
<1>2. DispatchInv => PublishedOnce
  BY <1>1
<1> QED BY <1>2, DispatchInvariant, PTL

(* An acknowledgement deletes no record but the one its operator has read  *)
(* (acknowledge_quarantined).                                              *)
THEOREM EvidenceKept == Spec => UnreviewedEvidenceKept
<1> DEFINE Kept == \A m \in Messages :
                      stream[m].hold # "none" /\ stream'[m].hold = "none"
                          => \E p \in Operators : review[p] = <<m, stream[m].stamp>>
<1>1. ASSUME DispatchInv, [Next]_vars PROVE [Kept]_vars
  <2>0. /\ QueueControl /\ ScanInv /\ WorkerInv
        /\ stream \in Seq(Entry) /\ ControlTypeOK
    BY <1>1, InvParts DEF QueueControl, QueueTypeOK
  <2>1. HoldsKept => Kept
    BY DEF HoldsKept
  <2>2. CASE UNCHANGED vars
    BY <2>2
  <2>3. ASSUME UNCHANGED queueVars PROVE Kept
    BY <2>3 DEF queueVars
  <2>4. ASSUME Next PROVE Kept
    <3>1. ScanMove
      BY <2>0, <2>4, NextMovesScan DEF WorkerInv, ScanInv, ScanTypeOK
    <3>2. ASSUME NEW w \in Workers, ConsumeStep(w) \/ Crash(w) \/ Restart(w) PROVE Kept
      <4>1. WorkerQueue
        BY <2>0, <3>2, DeliveryKeeps, HandlerKeeps DEF ConsumeStep
      <4> QED BY <2>1, <4>1 DEF WorkerQueue
    <3>3. ASSUME OtherProducer \/ Reaper \/ Clock, UNCHANGED <<workerVars, controlVars>>
          PROVE  Kept
      BY <2>0, <2>1, <3>1, <3>3, OthersStepKeeps
    <3>4. ASSUME NEW a \in Apis, PublishIntent(a) PROVE Kept
      <4>1. CASE UNCHANGED queueVars
        BY <2>3, <4>1
      <4>2. CASE Publish("AUTHORITATIVE")
        BY <2>0, <4>2, PublishAppends DEF Wires
      <4> QED BY <3>4, <4>1, <4>2 DEF PublishIntent, EnqueueOnce, queueVars
    <3>5. ASSUME NEW a \in Apis,
                 LoadScan(a) \/ Approve(a) \/ Dispatch(a) \/ ApiRestart(a) \/ CancelScan(a)
          PROVE  Kept
      BY <2>3, <3>5 DEF LoadScan, Approve, Dispatch, ApiRestart, CancelScan
    <3>6. ASSUME NEW o \in Ops, CancelChild(o) PROVE Kept
      BY <2>3, <3>6 DEF CancelChild
    <3>7. ASSUME NEW p \in Operators, ReviewQuarantine(p) PROVE Kept
      BY <2>3, <3>7 DEF ReviewQuarantine
    <3>8. ASSUME NEW p \in Operators, Acknowledge(p) PROVE Kept
      <4>1. review[p] \in Messages \X Nat
        BY <2>0, <3>8 DEF Acknowledge, ControlTypeOK
      <4>2. review[p][1] \in Messages /\ review[p] = <<review[p][1], review[p][2]>>
        BY <4>1
      <4>3. \A k \in Messages :
               \/ stream'[k].hold = stream[k].hold
               \/ k = review[p][1] /\ review[p][2] = stream[k].stamp
        BY <2>0, <3>8, <4>2, AcknowledgeEntry DEF Acknowledge
      <4> QED BY <4>2, <4>3
    <3> QED
      BY <2>4, <3>2, <3>3, <3>4, <3>5, <3>6, <3>7, <3>8 DEF Next, ControlStep
  <2> QED BY <1>1, <2>2, <2>4
<1>2. Spec => [][DispatchInv /\ [Next]_vars]_vars
  BY DispatchInvariant, PTL DEF Spec
<1> QED BY <1>1, <1>2, DispatchInvariant, PTL DEF Spec, UnreviewedEvidenceKept
=============================================================================
