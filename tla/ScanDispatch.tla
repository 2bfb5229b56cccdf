---------------------------- MODULE ScanDispatch ----------------------------
(***************************************************************************)
(* One approved scan from its approval through the queue to the workers:   *)
(* API processes, queue, workers and operators run concurrently and share  *)
(* only Redis and the database.                                            *)
(***************************************************************************)
EXTENDS ScanWorker, ScanControl

CONSTANT OtherWires   \* other messages that share the stream

ASSUME ProducersAssumption == OtherWires \subseteq {"LEGACY", "REJECTED"}
ASSUME WorkersAssumption == IsFiniteSet(Workers)

vars == <<queueVars, scanVars, workerVars, controlVars>>

Init == QueueInit /\ ScanInit /\ WorkerInit /\ ControlInit

(* Other producers, the reaper that closes abandoned children, and clocks. *)
(* The publication identity lives at least 900 s from the publication (24  *)
(* hours by default) and the parent at most 900 s from its creation, so    *)
(* the parent expires first; a publication in flight for all that time is  *)
(* left out.                                                               *)
OtherProducer ==
    (\E wire \in OtherWires : EnqueueOther(wire)) /\ UNCHANGED scanVars

Reaper ==
    (\E o \in Ops : EndChild(o, {"STARTING", "RUNNING"})) /\ UNCHANGED queueVars

Clock ==
    \/ ParentExpires /\ UNCHANGED queueVars
    \/ /\ expired /\ \A a \in Apis : apc[a] # "publishing"
       /\ DedupeExpires /\ UNCHANGED scanVars
    \/ (\E m \in Messages : BecomesIdle(m)) /\ UNCHANGED scanVars

Next ==
    \/ \E w \in Workers : /\ ConsumeStep(w) \/ Crash(w) \/ Restart(w)
                          /\ UNCHANGED controlVars
    \/ ControlStep /\ UNCHANGED workerVars
    \/ (OtherProducer \/ Reaper \/ Clock) /\ UNCHANGED <<workerVars, controlVars>>

Spec == Init /\ [][Next]_vars

(* A crashed container is restarted, a restarted worker gets as far as its *)
(* reads of the stream now and then, a worker that does not crash goes on  *)
(* to the end of its message, and a delivered entry becomes idle.  Nothing *)
(* is assumed about crashes, approvals, cancellations or operators.        *)
Fairness ==
    /\ \A w \in Workers :
          /\ WF_vars((ConsumeStep(w) \/ Restart(w)) /\ UNCHANGED controlVars)
          /\ SF_vars(Poll(w) /\ UNCHANGED controlVars)
          /\ SF_vars(Read(w) /\ UNCHANGED controlVars)
    /\ \A m \in 1 .. MaxEntries :
          WF_vars(m \in Messages /\ BecomesIdle(m)
                    /\ UNCHANGED <<scanVars, workerVars, controlVars>>)

FairSpec == Spec /\ Fairness

(* In addition, a worker does not always die before it has looked at the   *)
(* delivery counter.                                                       *)
DecidingSpec ==
    /\ FairSpec
    /\ \A w \in Workers : /\ SF_vars(Classify(w) /\ UNCHANGED controlVars)
                          /\ SF_vars(CountDeliveries(w) /\ UNCHANGED controlVars)

-----------------------------------------------------------------------------

TypeOK == QueueTypeOK /\ ScanTypeOK /\ WorkerTypeOK /\ ControlTypeOK

(* One approved request never has two entries in the stream, although the  *)
(* route is replayed, API processes restart and forget what they have      *)
(* published, answers of Redis get lost, and the identity key expires      *)
(* (_IDEMPOTENT_ENQUEUE_SCRIPT, dispatch_approved_scan).                   *)
PublishedOnce ==
    Cardinality({m \in Messages : stream[m].wire = "AUTHORITATIVE"}) <= 1

(* The handler of one message is entered at most MaxDeliveries times, even *)
(* when several workers hold it at once, read a counter that has moved on, *)
(* or die (consume_once).                                                  *)
HandlerEntriesBounded ==
    \A m \in Messages : entered[m] <= MaxDeliveries

(* However often the message is delivered, and although two workers may    *)
(* execute the scan at the same time, no child execution is claimed twice  *)
(* (execute_dispatched_scan, claim_execution_authority).                   *)
ChildClaimedOnce == \A o \in Ops : claims[o] <= 1

(* A message is quarantined for failing only after all its deliveries      *)
(* (consume_once, fail).                                                   *)
QuarantineUsesBudget ==
    \A m \in Messages :
        stream[m].hold = "authoritative" => stream[m].count >= MaxDeliveries

(* An acknowledgement deletes the quarantine record that its operator has  *)
(* read and no other, although a second worker may replace the record      *)
(* between the read and the deletion (acknowledge_quarantined).            *)
UnreviewedEvidenceKept ==
    [][\A m \in Messages :
          stream[m].hold # "none" /\ stream'[m].hold = "none"
              => \E p \in Operators : review[p] = <<m, stream[m].stamp>>]_vars

(* Whatever dies, and whenever: a published intent is in the end           *)
(* acknowledged, quarantined, or has used up its deliveries                *)
(* (consume_once, XAUTOCLAIM before XREADGROUP).                           *)
Settled(m)   == stream[m].state = "acked" \/ stream[m].hold # "none"
OverBound(m) == stream[m].count > MaxDeliveries
IntentSettled ==
    \A m \in 1 .. MaxEntries :
        m \in Messages ~> m \in Messages /\ (Settled(m) \/ OverBound(m))

-----------------------------------------------------------------------------
(* The inductive invariant: why the properties above hold.                 *)

(* A worker that works has a message, and its count of deliveries is one   *)
(* that the counter had.                                                   *)
WorkerHoldsMessage ==
    \A w \in Workers :
        /\ wpc[w] \notin {"idle", "reading", "down"} => msg[w] \in Messages
        /\ wpc[w] \in {"idle", "reading", "down"} => msg[w] = 0
        /\ wpc[w] \in {"handler", "starting", "engines", "saving", "handled", "failed"}
              => att[w] <= stream[msg[w]].count
        /\ mine[w] => at[w] <= NumOps

(* Every entry of the handler is paid for by a delivery of its own, and so *)
(* is every worker that has yet to decide.                                 *)
Undecided(m) == {w \in Workers : msg[w] = m /\ wpc[w] \in {"taken", "AUTHORITATIVE"}}

EntriesPaidFor ==
    /\ \A m \in Messages :
          stream[m].count <= MaxDeliveries
              => entered[m] + Cardinality(Undecided(m)) <= stream[m].count
    /\ \A m \in (1 .. MaxEntries) \ Messages : entered[m] = 0

(* While the request can still be published its entry has its identity.    *)
Authoritative(m) == stream[m].wire = "AUTHORITATIVE"

IdentityGuards ==
    /\ \A m, k \in Messages : Authoritative(m) /\ Authoritative(k) => m = k
    /\ dedupe = 0 /\ (\E m \in Messages : Authoritative(m))
          => expired /\ \A a \in Apis : apc[a] # "publishing"

(* Children are created once, and only unclaimed ones can be claimed.      *)
ClaimsFollowState ==
    /\ parent = "REQUESTED" => \A o \in Ops : child[o] = "NONE"
    /\ \A o \in Ops : child[o] \in {"NONE", "PENDING"} => claims[o] = 0

(* All of it (consume_once, the enqueue script, the approval and claim     *)
(* transactions).                                                          *)
DispatchInv ==
    /\ TypeOK /\ WorkerHoldsMessage /\ EntriesPaidFor /\ IdentityGuards
    /\ ClaimsFollowState /\ HandlerEntriesBounded /\ ChildClaimedOnce
    /\ QuarantineUsesBudget

-----------------------------------------------------------------------------
(* What the documents say and the code does not do.                        *)

(* contracts/04: "At the configured maximum delivery count the message     *)
(* MUST be marked quarantined and escalated" (consume_once, fail).         *)
PoisonQuarantined ==
    \A m \in 1 .. MaxEntries :
        m \in Messages /\ OverBound(m) ~> m \in Messages /\ Settled(m)

(* fail: the message "remains in the consumer group's PEL [...]; only an   *)
(* explicit quarantine recovery acknowledgement may remove it".            *)
QuarantineStaysPending ==
    [][\A m \in Messages : Pending(m) /\ stream[m].hold = "authoritative"
                             => Pending(m)' \/ stream'[m].hold = "none"]_vars

(* contracts/04: "while quarantined it MUST not re-enter the handler       *)
(* automatically" (consume_once).                                          *)
NoEntryWhileQuarantined ==
    [][\A m \in Messages : stream[m].hold = "authoritative"
                             => entered'[m] = entered[m]]_vars

(* execute_dispatched_scan: "A replay that observes any child already      *)
(* STARTING, RUNNING, or terminal is an idempotent no-op".                 *)
ReplayIsNoOp ==
    \A w \in Workers :
        wpc[w] = "handler" /\ Dispatchable /\ (\E o \in Ops : child[o] # "PENDING")
            => NothingToDo

(* consume_once: "a worker that dies mid-scan does not leave the execution *)
(* intent permanently stranded".  Stranded: the scan was begun and is not  *)
(* over, no worker executes it, and its message will not be delivered      *)
(* again.                                                                  *)
Executing(w) == wpc[w] \in {"starting", "engines", "saving"}

ScanNotStranded ==
    ~ /\ \E m \in Messages : stream[m].wire = "AUTHORITATIVE" /\ stream[m].state = "acked"
      /\ scan = "OPEN" /\ (\A w \in Workers : ~Executing(w))
      /\ \E o \in Ops : claims[o] > 0
      /\ \E o \in Ops : child[o] = "PENDING"

(* contracts/04: "Scan jobs, test results, [...] cancellation state, and   *)
(* failure state MUST be persisted [...] and MUST remain retrievable"      *)
(* (save_scan).                                                            *)
OutcomeKept == [][scan # "OPEN" => scan' = scan]_vars

=============================================================================
