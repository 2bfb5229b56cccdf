--------------------------- MODULE DispatchQueue ---------------------------
(***************************************************************************)
(* RedisDurableQueue (core/queue.py): one Redis stream with one consumer   *)
(* group, the publication identity of one scan request, and the quarantine *)
(* record of every entry.  Each operator is one atomic Redis command or    *)
(* one transaction; the code that calls them is in ScanWorker and          *)
(* ScanControl.                                                            *)
(*                                                                         *)
(* Entries are never deleted from the stream.  The persistent quarantine   *)
(* record and its expiring review marker are written and deleted together, *)
(* and the record alone closes the handler, so the marker is left out.     *)
(* The identity conflicts of the enqueue script cannot occur: the entry is *)
(* never deleted and the manifest of a request is immutable.               *)
(***************************************************************************)
EXTENDS Naturals, Sequences, FiniteSets

CONSTANTS
    MaxDeliveries,  \* EXECUTION_QUEUE_MAX_DELIVERY_ATTEMPTS
    MaxEntries      \* bound on the length of the stream

ASSUME QueueAssumption ==
    MaxDeliveries \in Nat \ {0} /\ MaxEntries \in Nat

VARIABLES
    stream,  \* the entries, by message id
    dedupe   \* the publication identity key of the request: a message id, or 0

queueVars == <<stream, dedupe>>

(* What _validate_wire_message makes of the fields.                        *)
Wires == {"AUTHORITATIVE", "LEGACY", "REJECTED"}

(* The quarantine record: "counter" is QUEUE_DELIVERY_COUNTER_UNAVAILABLE, *)
(* "rejected" a malformed message.                                         *)
Holds == {"none", "authoritative", "rejected", "counter"}

(* `count' is the delivery counter, kept exact up to MaxDeliveries + 1;    *)
(* `stamp' numbers the quarantine records written for the entry, which     *)
(* differ in their timestamps.                                             *)
Entry == [wire : Wires, state : {"new", "pending", "acked"},
          count : 0 .. MaxDeliveries + 1, idle : BOOLEAN,
          hold : Holds, stamp : Nat]

QueueInit == stream = <<>> /\ dedupe = 0

Messages   == DOMAIN stream
Pending(m) == stream[m].state = "pending"

Publish(wire) ==
    /\ Len(stream) < MaxEntries
    /\ stream' = Append(stream, [wire |-> wire, state |-> "new", count |-> 0,
                                 idle |-> FALSE, hold |-> "none", stamp |-> 0])

(* Mutant: the identity key is not set. *)
EnqueueForgets ==
    \/ dedupe # 0 /\ UNCHANGED queueVars
    \/ dedupe = 0 /\ Publish("AUTHORITATIVE") /\ UNCHANGED dedupe

(* _IDEMPOTENT_ENQUEUE_SCRIPT. *)
EnqueueOnce ==
    \/ dedupe # 0 /\ UNCHANGED queueVars
    \/ dedupe = 0 /\ Publish("AUTHORITATIVE") /\ dedupe' = Len(stream) + 1

(* A diagnostic message, or one of an unsupported format.                  *)
EnqueueOther(wire) == Publish(wire) /\ UNCHANGED dedupe

DedupeExpires == dedupe # 0 /\ dedupe' = 0 /\ UNCHANGED stream

Deliver(m) ==
    /\ stream' = [stream EXCEPT ![m].state = "pending", ![m].idle = FALSE,
                     ![m].count = IF @ > MaxDeliveries THEN @ ELSE @ + 1]
    /\ UNCHANGED dedupe

(* The reclaim interval (60 s) has passed since the last delivery; the     *)
(* handler may run for 300 s.                                              *)
BecomesIdle(m) ==
    /\ Pending(m) /\ ~stream[m].idle
    /\ stream' = [stream EXCEPT ![m].idle = TRUE]
    /\ UNCHANGED dedupe

(* XAUTOCLAIM from 0-0 with COUNT 1: the first idle pending entry.  (Redis *)
(* gives up after ten pending entries that are not idle; the streams of    *)
(* the model are shorter.)                                                 *)
Reclaimable(m) == Pending(m) /\ stream[m].idle

Autoclaim(m) == Reclaimable(m) /\ (\A k \in 1 .. m - 1 : ~Reclaimable(k)) /\ Deliver(m)

(* XREADGROUP ">" with COUNT 1. *)
Unread(m)  == stream[m].state = "new"
ReadNew(m) == Unread(m) /\ (\A k \in 1 .. m - 1 : ~Unread(k)) /\ Deliver(m)

(* XACK: no effect on an entry that is not pending.  The quarantine record *)
(* is not looked at.                                                       *)
Complete(m) ==
    /\ stream' = [stream EXCEPT ![m].state = IF @ = "pending" THEN "acked" ELSE @]
    /\ UNCHANGED dedupe

(* _canonical_failure_evidence refuses a delivery count above the bound.   *)
EvidenceOk(count) == count <= MaxDeliveries

(* _quarantine: record, marker and failure event in one MULTI.             *)
Quarantine(m, hold) ==
    /\ stream' = [stream EXCEPT ![m].hold = hold, ![m].stamp = @ + 1]
    /\ UNCHANGED dedupe

Acknowledgeable(m) == stream[m].hold \in {"authoritative", "rejected"}

(* Mutant: the record is deleted whatever it says now. *)
AckUncompared(m, stamp) ==
    IF Pending(m)
      THEN stream' = [stream EXCEPT ![m].state = "acked", ![m].hold = "none"]
      ELSE UNCHANGED stream

(* _ACK_QUARANTINE_SCRIPT: compare the record with the one reviewed,       *)
(* acknowledge, delete.                                                    *)
AcknowledgeQuarantined(m, stamp) ==
    IF stream[m].hold # "none" /\ stream[m].stamp = stamp /\ Pending(m)
      THEN stream' = [stream EXCEPT ![m].state = "acked", ![m].hold = "none"]
      ELSE UNCHANGED stream

QueueTypeOK ==
    /\ stream \in Seq(Entry) /\ Len(stream) <= MaxEntries
    /\ dedupe \in 0 .. Len(stream)
=============================================================================
