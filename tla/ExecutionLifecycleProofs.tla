---------------------- MODULE ExecutionLifecycleProofs ----------------------
(***************************************************************************)
(* LifecycleInv is inductive, for any number of workers, reapers and       *)
(* cancellers and any recovery budget, and implies the safety properties.  *)
(*                                                                         *)
(* The argument is by non-interference.  No step undoes what the store     *)
(* protects (StoreStable), no step revives a process (ProcStable), and no  *)
(* step of anyone else disturbs what a launching thread relies on          *)
(* (Undisturbed).  Each actor's own assertions then only have to be        *)
(* checked for its own steps.                                              *)
(***************************************************************************)
EXTENDS ExecutionLifecycle, ExecutionStoreProofs

(* A process that exists does not vanish and a dead tree does not change. *)
ProcStable ==
    \A w \in Workers : proc[w] # "none" =>
        proc'[w] # "none" /\ (~Live(w) => proc'[w] = proc[w])

(* Nobody but w itself creates the process of w. *)
NoNewProcess == \A w \in Workers : proc[w] = "none" => proc'[w] = "none"

(* What thread w relies on when another actor takes a step. *)
Undisturbed(w) ==
    /\ pc'[w] = pc[w]
    /\ proc[w] = "none" => proc'[w] = "none"
    /\ claimedBy # w => claimedBy' # w
    /\ claimedBy = w /\ ownership = "UNKNOWN" =>
          claimedBy' = w /\ ownership' = "UNKNOWN"

-----------------------------------------------------------------------------
(* Consequences of the invariant.                                          *)

(* The ownership row names the only process there is. *)
LEMMA RootIsTheProcess ==
    ASSUME ProcessInv, root # NoOne, NEW v \in Workers, proc[v] # "none"
    PROVE  v = root
BY DEF ProcessInv

(* When the process the row names is dead, nothing lives. *)
LEMMA DeadRoot ==
    ASSUME ProcessInv, root # NoOne, ~Live(root)
    PROVE  \A v \in Workers : ~Live(v)
<1> SUFFICES ASSUME NEW v \in Workers, Live(v) PROVE FALSE
  OBVIOUS
<1>1. v = root
  BY RootIsTheProcess DEF Live
<1> QED BY <1>1

(* Before its own launch the claim holder knows that no process exists. *)
LEMMA NoProcessYet ==
    ASSUME StoreInv, ProcessInv, ownership = "UNKNOWN",
           NEW w, claimedBy = w, w \in Workers => proc[w] = "none"
    PROVE  \A v \in Workers : proc[v] = "none"
<1>1. root = NoOne
  BY DEF StoreInv
<1> QED BY <1>1 DEF ProcessInv

(* AfterKill empties the tree of w and touches no other tree. *)
LEMMA KillEffect ==
    ASSUME ProcTypeOK, NEW w \in Workers, proc' \in {proc, AfterKill(w)}
    PROVE  /\ ProcTypeOK' /\ ProcStable /\ NoNewProcess
           /\ proc' = AfterKill(w) => ~Live(w)'
<1>1. CASE proc[w] = "alive"
  BY <1>1 DEF ProcTypeOK, ProcStable, NoNewProcess, AfterKill, Live
<1>2. CASE proc[w] = "draining"
  BY <1>2 DEF ProcTypeOK, ProcStable, NoNewProcess, AfterKill, Live
<1>3. CASE proc[w] \notin {"alive", "draining"}
  BY <1>3 DEF ProcTypeOK, ProcStable, NoNewProcess, AfterKill, Live
<1> QED BY <1>1, <1>2, <1>3

(* A step that leaves the process table alone disturbs no process. *)
LEMMA ProcUnchanged ==
    ASSUME ProcTypeOK, UNCHANGED proc
    PROVE  ProcTypeOK' /\ ProcStable /\ NoNewProcess
BY DEF ProcTypeOK, ProcStable, NoNewProcess

-----------------------------------------------------------------------------
(* Non-interference.                                                       *)

(* The assertions of a thread survive the steps of the others. *)
LEMMA ThreadSurvives ==
    ASSUME NEW w \in Workers, StoreOK, ProcessInv, ThreadInv(w),
           StoreStable, ProcStable, Undisturbed(w)
    PROVE  ThreadInv(w)'
<1> USE StoreAssumption
<1>1. root = w => root' = w /\ identity' = identity
  BY DEF StoreStable
<1>2. proc[w] # "none" => proc'[w] # "none"
  BY DEF ProcStable
<1>3. proc[w] # "none" /\ ~Live(w) => ~Live(w)'
  BY DEF ProcStable, Live
<1>4. pc[w] = "uncertain" /\ ownership = "UNKNOWN" => ownership' = "UNKNOWN"
  <2> SUFFICES ASSUME pc[w] = "uncertain", ownership = "UNKNOWN"
               PROVE  ownership' = "UNKNOWN"
    OBVIOUS
  <2>1. claimedBy = w
    BY DEF ThreadInv, ProcessInv, StoreOK, StoreInv
  <2> QED BY <2>1 DEF Undisturbed
<1> QED BY <1>1, <1>2, <1>3, <1>4 DEF ThreadInv, Undisturbed, Settling

(* The assertions of a reaper survive the steps of the others. *)
LEMMA HolderSurvives ==
    ASSUME NEW r \in Reapers, StoreOK, ProcessInv, HolderInv(r), ReaperTypeOK,
           StoreStable, ProcStable, StoreOK',
           rpc'[r] = rpc[r], snap'[r] = snap[r], killStatus'[r] = killStatus[r],
           inflight'[r] => inflight[r]
    PROVE  HolderInv(r)'
<1>1. root # NoOne => root' = root
  BY DEF StoreStable
<1>2. root # NoOne => proc[root] # "none" /\ root \in Workers
  BY DEF ProcessInv, StoreOK, StoreTypeOK
<1>3. root # NoOne /\ ~Live(root) => ~Live(root)'
  BY <1>1, <1>2 DEF ProcStable, Live
<1>4. snap'[r].attempt <= recovery'.attempt
  <2>1. /\ snap[r].attempt \in 0 .. MaxAttempts
        /\ recovery.attempt \in 0 .. MaxAttempts /\ recovery'.attempt \in 0 .. MaxAttempts
    BY DEF ReaperTypeOK, StoreOK, StoreTypeOK, RecoveryRows
  <2>2. snap[r].attempt <= recovery.attempt /\ recovery.attempt <= recovery'.attempt
    BY DEF HolderInv, StoreStable
  <2> QED BY <2>1, <2>2, StoreAssumption
<1> QED BY <1>1, <1>3, <1>4 DEF HolderInv

(* The assertions of a cancellation call survive the steps of the others.  *)
LEMMA CallSurvives ==
    ASSUME NEW c \in Cancellers, StoreOK, ProcessInv, CallInv(c),
           StoreStable, ProcStable,
           cpc'[c] = cpc[c], result'[c] = result[c], cancelStatus'[c] = cancelStatus[c]
    PROVE  CallInv(c)'
<1>1. root # NoOne => root' = root
  BY DEF StoreStable
<1>2. root # NoOne => proc[root] # "none" /\ root \in Workers
  BY DEF ProcessInv, StoreOK, StoreTypeOK
<1>3. root # NoOne /\ ~Live(root) => ~Live(root)'
  BY <1>1, <1>2 DEF ProcStable, Live
<1>4. run \in TerminalStates => run' \in TerminalStates
  BY DEF StoreStable, runVars
<1>5. request = "REVOKED" => request' = "REVOKED"
  BY DEF StoreStable
<1> QED BY <1>1, <1>3, <1>4, <1>5 DEF CallInv

(* Kills and exits preserve ProcessInv. *)
LEMMA ProcessInvKill ==
    ASSUME StoreOK, ProcessInv, UNCHANGED storeVars, ProcStable, NoNewProcess
    PROVE  ProcessInv'
<1> USE DEF storeVars, authorityVars, runVars, dispatchVars, ownershipVars
<1>1. \A w \in Workers : proc'[w] # "none" => proc[w] # "none"
  BY DEF NoNewProcess
<1>2. \A w \in Workers : ~Live(w) => ~Live(w)'
  BY DEF ProcStable, NoNewProcess, Live
<1>3. root # NoOne => root \in Workers
  BY DEF StoreOK, StoreTypeOK
<1>4. run = "SUCCEEDED" => proc'[root] = "exited"
  BY <1>3 DEF ProcessInv, ProcStable, Live
<1> QED BY <1>1, <1>2, <1>3, <1>4 DEF ProcessInv, ProcStable

(* A transaction preserves ProcessInv if it names only the process of the  *)
(* claim holder, keeps the claim while that process is unnamed, and closes *)
(* the run only when nothing lives.                                        *)
LEMMA ProcessInvWrite ==
    ASSUME StoreOK, StoreOK', ProcessInv, StoreStable, UNCHANGED proc,
           root' # root => root' \in Workers /\ claimedBy = root' /\ proc[root'] # "none",
           root' = root => \A w \in Workers :
               proc[w] # "none" /\ ownership = "UNKNOWN" /\ claimedBy = w
                   => ownership' = "UNKNOWN" /\ claimedBy' = w,
           run' \in TerminalStates => \A w \in Workers : ~Live(w),
           run' = "SUCCEEDED" /\ run # run' => root # NoOne /\ proc[root] = "exited"
    PROVE  ProcessInv'
<1>1. root # NoOne => root' = root
  BY DEF StoreStable
<1>2. run = "SUCCEEDED" => root' = root
  BY <1>1 DEF ProcessInv
<1>3. ASSUME NEW w \in Workers, proc[w] # "none"
      PROVE  root' \in {w, NoOne} /\ (root' = NoOne => ownership' = "UNKNOWN" /\ claimedBy' = w)
  BY <1>1, <1>3 DEF ProcessInv
<1>4. root' # NoOne => proc[root'] # "none"
  BY <1>1 DEF ProcessInv
<1>5. run' = "SUCCEEDED" => root' # NoOne /\ proc[root'] = "exited"
  BY <1>1, <1>2 DEF ProcessInv
<1>6. run' \in TerminalStates => \A w \in Workers : ~Live(w)'
  BY DEF Live
<1> QED BY <1>3, <1>4, <1>5, <1>6 DEF ProcessInv

-----------------------------------------------------------------------------
(* Supervisor threads.                                                     *)

(* What a step of thread w has to establish. *)
ThreadStepOK(w) ==
    /\ StoreOK' /\ StoreStable
    /\ ProcTypeOK' /\ ProcStable /\ ProcessInv'
    /\ SupervisorTypeOK' /\ ThreadInv(w)'
    /\ \A v \in Workers \ {w} : Undisturbed(v)

ThreadInvariant(w) ==
    StoreOK /\ ProcTypeOK /\ SupervisorTypeOK /\ ProcessInv /\ ThreadInv(w)

(* A move of thread w leaves the other threads where they are. *)
LEMMA GotoEffect ==
    ASSUME SupervisorTypeOK, NEW w \in Workers, NEW l, Goto(w, l), UNCHANGED cancelReq,
           l \in {"claimed", "cleared", "created", "unidentified", "recorded", "running",
                  "uncertain"} \cup Settling \cup Done
    PROVE  SupervisorTypeOK' /\ pc'[w] = l /\ \A v \in Workers \ {w} : pc'[v] = pc[v]
BY DEF SupervisorTypeOK, Goto

(* A step that writes nothing durable and creates no process. *)
LEMMA LocalStep ==
    ASSUME NEW w \in Workers, ThreadInvariant(w), UNCHANGED storeVars,
           ProcTypeOK', ProcStable, NoNewProcess, SupervisorTypeOK',
           \A v \in Workers \ {w} : pc'[v] = pc[v], ThreadInv(w)'
    PROVE  ThreadStepOK(w)
<1>1. StoreOK' /\ StoreStable
  BY UnchangedStore DEF ThreadInvariant
<1>2. ProcessInv'
  BY ProcessInvKill DEF ThreadInvariant
<1>3. ASSUME NEW v \in Workers \ {w} PROVE Undisturbed(v)
  BY DEF Undisturbed, NoNewProcess, storeVars, dispatchVars, ownershipVars
<1> QED BY <1>1, <1>2, <1>3 DEF ThreadStepOK

(* A settlement by thread w, whose process, if any, is dead. *)
LEMMA ThreadCloses ==
    ASSUME NEW w \in Workers, ThreadInvariant(w), StoreOK', StoreStable,
           UNCHANGED <<proc, cancelReq>>, Goto(w, "stopped"),
           root' = root, claimedBy' = NoOne, run' \in TerminalStates,
           ownership = "UNKNOWN" => claimedBy = w /\ proc[w] = "none",
           \A v \in Workers : ~Live(v),
           run' = "SUCCEEDED" /\ run # run' => root # NoOne /\ proc[root] = "exited"
    PROVE  ThreadStepOK(w)
<1>1. /\ SupervisorTypeOK' /\ pc'[w] = "stopped"
      /\ \A v \in Workers \ {w} : pc'[v] = pc[v]
  BY GotoEffect DEF ThreadInvariant, Done
<1>2. ProcTypeOK' /\ ProcStable
  BY ProcUnchanged DEF ThreadInvariant
<1>3. ProcessInv'
  BY ProcessInvWrite DEF ThreadInvariant
<1>4. ThreadInv(w)'
  BY <1>1 DEF ThreadInv, Settling
<1>5. ASSUME NEW v \in Workers \ {w} PROVE Undisturbed(v)
  BY <1>1, StoreAssumption DEF Undisturbed
<1> QED BY <1>1, <1>2, <1>3, <1>4, <1>5 DEF ThreadStepOK

(* revalidate_and_claim *)
LEMMA RevalidateAndClaimStep ==
    ASSUME NEW w \in Workers, ThreadInvariant(w), RevalidateAndClaim(w)
    PROVE  ThreadStepOK(w)
<1>1. ProcTypeOK' /\ ProcStable /\ NoNewProcess
  BY ProcUnchanged DEF ThreadInvariant, RevalidateAndClaim
<1>2. CASE ClaimExecutionAuthority(w) /\ Goto(w, "claimed")
  <2>1. StoreOK' /\ StoreStable
    BY <1>2, ClaimStore DEF ThreadInvariant
  <2>2. /\ SupervisorTypeOK' /\ pc'[w] = "claimed"
        /\ \A v \in Workers \ {w} : pc'[v] = pc[v]
    BY <1>2, GotoEffect DEF ThreadInvariant, RevalidateAndClaim
  <2>3. /\ claimedBy' = w /\ claimedBy = NoOne /\ run' = "STARTING"
        /\ ownership = "UNKNOWN" /\ ownership' = "UNKNOWN" /\ root' = root
    BY <1>2 DEF ClaimExecutionAuthority, ClaimOk, ThreadInvariant, StoreOK, StoreInv,
       ownershipVars
  <2>4. ProcessInv'
    BY <2>1, <2>3, ProcessInvWrite, StoreAssumption
       DEF ThreadInvariant, RevalidateAndClaim, TerminalStates
  <2>5. ThreadInv(w)'
    BY <2>2, <2>3 DEF ThreadInv, ThreadInvariant, RevalidateAndClaim, Settling
  <2>6. ASSUME NEW v \in Workers \ {w} PROVE Undisturbed(v)
    BY <2>2, <2>3, StoreAssumption DEF Undisturbed, RevalidateAndClaim
  <2> QED BY <1>1, <2>1, <2>2, <2>4, <2>5, <2>6 DEF ThreadStepOK
<1>3. CASE Refused(ClaimOk) /\ Goto(w, "stopped")
  <2>1. /\ SupervisorTypeOK' /\ pc'[w] = "stopped"
        /\ \A v \in Workers \ {w} : pc'[v] = pc[v]
    BY <1>3, GotoEffect DEF ThreadInvariant, RevalidateAndClaim, Done
  <2>2. ThreadInv(w)'
    BY <2>1 DEF ThreadInv, Settling
  <2> QED BY <1>1, <1>3, <2>1, <2>2, LocalStep DEF Refused
<1> QED BY <1>2, <1>3 DEF RevalidateAndClaim

(* The cancellation event of execute is set. *)
LEMMA CancelTaskStep ==
    ASSUME NEW w \in Workers, ThreadInvariant(w), CancelTask(w)
    PROVE  ThreadStepOK(w)
<1>1. ProcTypeOK' /\ ProcStable /\ NoNewProcess
  BY ProcUnchanged DEF ThreadInvariant, CancelTask
<1>2. SupervisorTypeOK'
  BY DEF ThreadInvariant, SupervisorTypeOK, CancelTask
<1>3. ThreadInv(w)'
  BY DEF ThreadInvariant, ThreadInv, CancelTask, Live, storeVars, dispatchVars, ownershipVars
<1> QED BY <1>1, <1>2, <1>3, LocalStep DEF CancelTask

(* _settle_no_process, from either point before Popen has returned. *)
LEMMA SettleNoProcessStep ==
    ASSUME NEW w \in Workers, ThreadInvariant(w), pc[w] \in {"claimed", "cleared"},
           NEW state, NEW why, SettleNoProcess(w, state, why),
           state \notin {"SUCCEEDED", "PARTIAL_RESULTS_WITH_WARNING"}
    PROVE  ThreadStepOK(w)
<1>1. claimedBy = w /\ ownership = "UNKNOWN" /\ proc[w] = "none"
  BY DEF ThreadInvariant, ThreadInv
<1>2. \A v \in Workers : ~Live(v)
  BY <1>1, NoProcessYet DEF ThreadInvariant, StoreOK, Live
<1>3. UNCHANGED <<proc, cancelReq>> /\ Goto(w, "stopped")
  BY DEF SettleNoProcess
<1>4. CASE AbortExecutionStart(w, state, why)
  <2>1. StoreOK' /\ StoreStable
    BY <1>4, AbortStore DEF ThreadInvariant
  <2>2. root' = root /\ claimedBy' = NoOne /\ run' = state /\ run' \in TerminalStates
    BY <1>4, OutcomeReason DEF AbortExecutionStart, AbortStartOk, CloseRun
  <2> QED BY <1>1, <1>2, <1>3, <2>1, <2>2, ThreadCloses
<1>5. CASE SettleConfirmed("NO_EXTERNAL_PROCESS", state, why)
  <2>1. StoreOK' /\ StoreStable
    BY <1>5, SettleConfirmedStore DEF ThreadInvariant
  <2>2. root' = root /\ claimedBy' = NoOne /\ run' = state /\ run' \in TerminalStates
    BY <1>5, OutcomeReason DEF SettleConfirmed, SettleConfirmedOk, CloseRun
  <2> QED BY <1>1, <1>2, <1>3, <2>1, <2>2, ThreadCloses
<1>6. CASE UNCHANGED storeVars
  <2>1. /\ SupervisorTypeOK' /\ pc'[w] = "stopped"
        /\ \A v \in Workers \ {w} : pc'[v] = pc[v]
    BY <1>3, GotoEffect DEF ThreadInvariant, Done
  <2>2. ThreadInv(w)'
    BY <2>1 DEF ThreadInv, Settling
  <2>3. ProcTypeOK' /\ ProcStable /\ NoNewProcess
    BY <1>3, ProcUnchanged DEF ThreadInvariant
  <2> QED BY <1>6, <2>1, <2>2, <2>3, LocalStep
<1> QED BY <1>4, <1>5, <1>6 DEF SettleNoProcess, Refused

(* The launch checks, and a Popen that raises. *)
LEMMA LaunchRejectedStep ==
    ASSUME NEW w \in Workers, ThreadInvariant(w),
           RejectLaunch(w) \/ CancelBeforeCreation(w) \/ LaunchFails(w)
    PROVE  ThreadStepOK(w)
BY SettleNoProcessStep DEF RejectLaunch, CancelBeforeCreation, LaunchFails

(* Moves that touch neither the store nor the process. *)
LEMMA PlainMoveStep ==
    ASSUME NEW w \in Workers, ThreadInvariant(w),
           ClearLaunch(w) \/ IdentityLost(w) \/ WorkerCrash(w)
    PROVE  ThreadStepOK(w)
<1>1. UNCHANGED <<storeVars, proc, cancelReq>>
  BY DEF ClearLaunch, IdentityLost, WorkerCrash
<1>2. ProcTypeOK' /\ ProcStable /\ NoNewProcess
  BY <1>1, ProcUnchanged DEF ThreadInvariant
<1>3. PICK l \in {"cleared", "unidentified", "crashed"} :
           /\ Goto(w, l)
           /\ l = "cleared" => pc[w] = "claimed"
           /\ l = "unidentified" => pc[w] = "created"
  BY DEF ClearLaunch, IdentityLost, WorkerCrash
<1>4. SupervisorTypeOK' /\ pc'[w] = l /\ \A v \in Workers \ {w} : pc'[v] = pc[v]
  BY <1>1, <1>3, GotoEffect DEF ThreadInvariant, Done
<1>5. ThreadInv(w)'
  BY <1>1, <1>3, <1>4 DEF ThreadInvariant, ThreadInv, Settling, storeVars, dispatchVars,
     ownershipVars
<1> QED BY <1>1, <1>2, <1>4, <1>5, LocalStep

(* Popen.  The claim makes w the only thread that can be here, so the new  *)
(* process is the first and only one.                                      *)
LEMMA CreateProcessStep ==
    ASSUME NEW w \in Workers, ThreadInvariant(w), CreateProcess(w)
    PROVE  ThreadStepOK(w)
<1> USE DEF storeVars, authorityVars, runVars, dispatchVars, ownershipVars
<1>1. claimedBy = w /\ ownership = "UNKNOWN" /\ proc[w] = "none"
  BY DEF ThreadInvariant, ThreadInv, CreateProcess
<1>2. \A v \in Workers : proc[v] = "none"
  BY <1>1, NoProcessYet DEF ThreadInvariant, StoreOK
<1>3. root = NoOne /\ run \notin TerminalStates
  BY <1>1, StoreAssumption DEF ThreadInvariant, StoreOK, StoreInv, TerminalStates
<1>4. StoreOK' /\ StoreStable
  BY UnchangedStore DEF ThreadInvariant, CreateProcess
<1>5. /\ SupervisorTypeOK' /\ pc'[w] = "created"
      /\ \A v \in Workers \ {w} : pc'[v] = pc[v]
  BY GotoEffect DEF ThreadInvariant, CreateProcess
<1>6. ProcTypeOK' /\ proc'[w] = "alive" /\ \A v \in Workers \ {w} : proc'[v] = proc[v]
  BY DEF ThreadInvariant, ProcTypeOK, CreateProcess
<1>7. ProcStable
  BY <1>2 DEF ProcStable
<1>8. ProcessInv'
  BY <1>1, <1>2, <1>3, <1>6 DEF ProcessInv, CreateProcess, TerminalStates
<1>9. ThreadInv(w)'
  BY <1>1, <1>5, <1>6 DEF ThreadInv, CreateProcess, Settling
<1>10. ASSUME NEW v \in Workers \ {w} PROVE Undisturbed(v)
  BY <1>5, <1>6 DEF Undisturbed, CreateProcess
<1> QED BY <1>4, <1>5, <1>6, <1>7, <1>8, <1>9, <1>10 DEF ThreadStepOK

(* A kill that ends the attempt without a settlement. *)
LEMMA GiveUpStep ==
    ASSUME NEW w \in Workers, ThreadInvariant(w), KillAndGiveUp(w),
           proc[w] # "none", root = w \/ ownership = "UNKNOWN"
    PROVE  ThreadStepOK(w)
<1>1. ProcTypeOK' /\ ProcStable /\ NoNewProcess
  BY KillEffect DEF ThreadInvariant, KillAndGiveUp, KillUnconfirmed
<1>2. /\ SupervisorTypeOK' /\ pc'[w] = "uncertain"
      /\ \A v \in Workers \ {w} : pc'[v] = pc[v]
  BY GotoEffect DEF ThreadInvariant, KillAndGiveUp
<1>3. ThreadInv(w)'
  BY <1>1, <1>2 DEF ThreadInv, ProcStable, KillAndGiveUp, Settling, storeVars, ownershipVars
<1> QED BY <1>1, <1>2, <1>3, LocalStep DEF KillAndGiveUp

(* The launch record or the uncertainty record names the process of w.     *)
LEMMA NameProcessStep ==
    ASSUME NEW w \in Workers, ThreadInvariant(w), NEW state \in Attached,
           NEW complete \in BOOLEAN, RecordOwnership(w, state, complete),
           NEW l \in {"recorded", "stopped"}, Goto(w, l), l = "recorded" => complete,
           UNCHANGED <<proc, cancelReq>>, proc[w] # "none"
    PROVE  ThreadStepOK(w)
<1>1. root = NoOne /\ claimedBy = w /\ dispatch = "CLAIMED"
  BY StoreAssumption DEF ThreadInvariant, StoreOK, StoreInv, ProcessInv, RecordOwnership
<1>2. StoreOK' /\ StoreStable
  BY <1>1, RecordOwnershipStore DEF ThreadInvariant
<1>3. SupervisorTypeOK' /\ pc'[w] = l /\ \A v \in Workers \ {w} : pc'[v] = pc[v]
  BY GotoEffect DEF ThreadInvariant, Done
<1>4. ProcTypeOK' /\ ProcStable
  BY ProcUnchanged DEF ThreadInvariant
<1>5. root' = w /\ identity' = complete /\ claimedBy' = w /\ run' = run
  BY <1>1 DEF RecordOwnership, runVars, dispatchVars
<1>6. run \notin TerminalStates
  BY <1>1 DEF ThreadInvariant, StoreOK, StoreInv, TerminalStates
<1>7. ProcessInv'
  BY <1>1, <1>2, <1>5, <1>6, ProcessInvWrite, StoreAssumption DEF ThreadInvariant
<1>8. ThreadInv(w)'
  BY <1>3, <1>5 DEF ThreadInv, Settling
<1>9. ASSUME NEW v \in Workers \ {w} PROVE Undisturbed(v)
  BY <1>1, <1>3, <1>5 DEF Undisturbed
<1> QED BY <1>2, <1>3, <1>4, <1>7, <1>8, <1>9 DEF ThreadStepOK

(* record_posix_launch *)
LEMMA RecordLaunchStep ==
    ASSUME NEW w \in Workers, ThreadInvariant(w), RecordLaunch(w)
    PROVE  ThreadStepOK(w)
<1>1. proc[w] # "none" /\ ownership = "UNKNOWN"
  BY DEF ThreadInvariant, ThreadInv, RecordLaunch
<1>2. CASE RecordOwnership(w, "EXTERNAL_PROCESS_GOVERNED", TRUE) /\ Goto(w, "recorded")
           /\ UNCHANGED <<proc, cancelReq>>
  BY <1>1, <1>2, NameProcessStep DEF Attached
<1>3. CASE KillAndGiveUp(w)
  BY <1>1, <1>3, GiveUpStep
<1> QED BY <1>2, <1>3 DEF RecordLaunch

(* mark_started, after the launch record has been committed. *)
LEMMA MarkStartedStep ==
    ASSUME NEW w \in Workers, ThreadInvariant(w), MarkStarted(w)
    PROVE  ThreadStepOK(w)
<1>1. root = w /\ identity /\ proc[w] # "none" /\ root # NoOne
  BY StoreAssumption DEF ThreadInvariant, ThreadInv, MarkStarted
<1>2. CASE MarkExecutionDecisionStarted(w) /\ Goto(w, "running")
           /\ UNCHANGED <<proc, cancelReq>>
  <2>1. ownership \in Attached /\ run = "STARTING" /\ run' = "RUNNING"
    BY <1>1, <1>2 DEF MarkExecutionDecisionStarted, MarkStartedOk, ThreadInvariant, StoreOK,
       StoreTypeOK, StoreInv, OwnershipStates, Attached, TerminalStates
  <2>2. StoreOK' /\ StoreStable
    BY <1>1, <1>2, <2>1, MarkStartedStore DEF ThreadInvariant
  <2>3. SupervisorTypeOK' /\ pc'[w] = "running" /\ \A v \in Workers \ {w} : pc'[v] = pc[v]
    BY <1>2, GotoEffect DEF ThreadInvariant
  <2>4. ProcTypeOK' /\ ProcStable
    BY <1>2, ProcUnchanged DEF ThreadInvariant
  <2>5. UNCHANGED <<root, identity, ownership, claimedBy>>
    BY <1>2 DEF MarkExecutionDecisionStarted, dispatchVars, ownershipVars
  <2>6. ProcessInv'
    BY <1>2, <2>1, <2>2, <2>5, ProcessInvWrite DEF ThreadInvariant, TerminalStates
  <2>7. ThreadInv(w)'
    BY <1>1, <1>2, <2>3, <2>5 DEF ThreadInv, Settling
  <2>8. ASSUME NEW v \in Workers \ {w} PROVE Undisturbed(v)
    BY <1>2, <2>3, <2>5 DEF Undisturbed
  <2> QED BY <2>2, <2>3, <2>4, <2>6, <2>7, <2>8 DEF ThreadStepOK
<1>3. CASE KillAndGiveUp(w)
  BY <1>1, <1>3, GiveUpStep
<1> QED BY <1>2, <1>3 DEF MarkStarted

(* record_launch_uncertain *)
LEMMA RecordLaunchUncertainStep ==
    ASSUME NEW w \in Workers, ThreadInvariant(w), RecordLaunchUncertain(w)
    PROVE  ThreadStepOK(w)
<1>1. proc[w] # "none"
  BY DEF ThreadInvariant, ThreadInv, RecordLaunchUncertain
<1>2. UNCHANGED <<proc, cancelReq>> /\ Goto(w, "stopped")
  BY DEF RecordLaunchUncertain
<1>3. /\ SupervisorTypeOK' /\ pc'[w] = "stopped"
      /\ \A v \in Workers \ {w} : pc'[v] = pc[v]
  BY <1>2, GotoEffect DEF ThreadInvariant, Done
<1>4. ThreadInv(w)'
  BY <1>3 DEF ThreadInv, Settling
<1>5. ProcTypeOK' /\ ProcStable /\ NoNewProcess
  BY <1>2, ProcUnchanged DEF ThreadInvariant
<1>6. CASE RecordOwnership(w, "LAUNCH_UNCERTAIN", TRUE)
           \/ RecordOwnership(w, "RECOVERY_BLOCKED", FALSE)
  BY <1>1, <1>2, <1>6, NameProcessStep DEF Attached, Uncertain
<1>7. CASE DowngradeOwnership(w)
  <2>1. StoreOK' /\ StoreStable
    BY <1>7, DowngradeStore DEF ThreadInvariant
  <2>2. /\ UNCHANGED <<root, identity, claimedBy, run>> /\ root # NoOne
        /\ ownership # "UNKNOWN" /\ run \notin TerminalStates
    BY <1>7, StoreAssumption DEF DowngradeOwnership, DowngradeOk, runVars, dispatchVars,
       Active, TerminalStates
  <2>3. ProcessInv'
    BY <1>2, <2>1, <2>2, ProcessInvWrite DEF ThreadInvariant
  <2>4. ASSUME NEW v \in Workers \ {w} PROVE Undisturbed(v)
    BY <1>2, <1>3, <2>2 DEF Undisturbed
  <2> QED BY <1>3, <1>4, <1>5, <2>1, <2>3, <2>4 DEF ThreadStepOK
<1>8. CASE UNCHANGED storeVars
  BY <1>3, <1>4, <1>5, <1>8, LocalStep
<1> QED BY <1>6, <1>7, <1>8 DEF RecordLaunchUncertain, Refused

(* The wait loop ends, by a kill or because the root has gone. *)
LEMMA WaitLoopStep ==
    ASSUME NEW w \in Workers, ThreadInvariant(w), StopProcess(w) \/ ObserveExit(w)
    PROVE  ThreadStepOK(w)
<1>1. root = w /\ identity /\ proc[w] # "none"
  BY DEF ThreadInvariant, ThreadInv, StopProcess, ObserveExit
<1>2. proc' \in {proc, AfterKill(w)} /\ UNCHANGED <<storeVars, cancelReq>>
  BY DEF StopProcess, ObserveExit, KillConfirmed, KillUnconfirmed
<1>3. PICK l \in Settling \cup {"uncertain"} :
           Goto(w, l) /\ (l \in Settling => proc' = AfterKill(w))
  BY DEF StopProcess, ObserveExit, KillConfirmed, StopCause, Settling
<1>4. SupervisorTypeOK' /\ pc'[w] = l /\ \A v \in Workers \ {w} : pc'[v] = pc[v]
  BY <1>2, <1>3, GotoEffect DEF ThreadInvariant
<1>5. ProcTypeOK' /\ ProcStable /\ NoNewProcess /\ (l \in Settling => ~Live(w)')
  BY <1>2, <1>3, KillEffect DEF ThreadInvariant
<1>6. ThreadInv(w)'
  BY <1>1, <1>2, <1>4, <1>5 DEF ThreadInv, ProcStable, Settling, storeVars, ownershipVars
<1> QED BY <1>2, <1>4, <1>5, <1>6, LocalStep

(* A renewal raises out of the loop. *)
LEMMA RenewalRaisesStep ==
    ASSUME NEW w \in Workers, ThreadInvariant(w), RenewalRaises(w)
    PROVE  ThreadStepOK(w)
<1>1. root = w /\ proc[w] # "none"
  BY DEF ThreadInvariant, ThreadInv, RenewalRaises
<1> QED BY <1>1, GiveUpStep DEF RenewalRaises

(* A success is reported only for a root that exited by itself. *)
LEMMA SuccessOutcome ==
    ASSUME NEW w \in Workers, NEW out \in Outcome(w), out[1] = "SUCCEEDED"
    PROVE  proc[w] = "exited"
BY DEF Outcome

(* _finish_durable: the tree of w is known to be empty. *)
LEMMA SettleStep ==
    ASSUME NEW w \in Workers, ThreadInvariant(w), Settle(w)
    PROVE  ThreadStepOK(w)
<1>1. root = w /\ identity /\ proc[w] # "none" /\ ~Live(w) /\ root # NoOne
  BY StoreAssumption DEF ThreadInvariant, ThreadInv, Settle, Settling
<1>2. \A v \in Workers : ~Live(v)
  BY <1>1, DeadRoot DEF ThreadInvariant
<1>3. UNCHANGED <<proc, cancelReq>>
  BY DEF Settle
<1>4. ownership # "UNKNOWN"
  BY <1>1 DEF ThreadInvariant, StoreOK, StoreInv
<1>5. PICK out \in Outcome(w) :
        \/ FinishExecution(w, out[1], out[2]) /\ Goto(w, "stopped")
        \/ SettleConfirmed("ALREADY_EXITED", out[1], out[2]) /\ Goto(w, "stopped")
        \/ UNCHANGED storeVars /\ (Goto(w, "stopped") \/ Goto(w, "uncertain"))
  BY DEF Settle
<1>6. CASE FinishExecution(w, out[1], out[2]) /\ Goto(w, "stopped")
  <2>1. StoreOK' /\ StoreStable
    BY <1>6, FinishStore DEF ThreadInvariant
  <2>2. /\ root' = root /\ claimedBy' = NoOne /\ run' = out[1] /\ run' \in TerminalStates
    BY <1>6, OutcomeReason DEF FinishExecution, FinishOk, CloseRun
  <2>3. run' = "SUCCEEDED" => proc[root] = "exited"
    BY <1>1, <2>2, SuccessOutcome
  <2> QED BY <1>1, <1>2, <1>3, <1>4, <1>6, <2>1, <2>2, <2>3, ThreadCloses
<1>7. CASE SettleConfirmed("ALREADY_EXITED", out[1], out[2]) /\ Goto(w, "stopped")
  <2>1. StoreOK' /\ StoreStable
    BY <1>7, SettleConfirmedStore DEF ThreadInvariant
  <2>2. /\ root' = root /\ claimedBy' = NoOne /\ run' \in TerminalStates
        /\ run' # "SUCCEEDED"
    BY <1>7, OutcomeReason DEF SettleConfirmed, SettleConfirmedOk, CloseRun
  <2> QED BY <1>1, <1>2, <1>3, <1>4, <1>7, <2>1, <2>2, ThreadCloses
<1>8. CASE UNCHANGED storeVars /\ (Goto(w, "stopped") \/ Goto(w, "uncertain"))
  <2>1. PICK l \in {"stopped", "uncertain"} : Goto(w, l)
    BY <1>8
  <2>2. SupervisorTypeOK' /\ pc'[w] = l /\ \A v \in Workers \ {w} : pc'[v] = pc[v]
    BY <1>3, <2>1, GotoEffect DEF ThreadInvariant, Done
  <2>3. ThreadInv(w)'
    BY <1>1, <1>3, <1>8, <2>2 DEF ThreadInv, Settling, storeVars, ownershipVars
  <2>4. ProcTypeOK' /\ ProcStable /\ NoNewProcess
    BY <1>3, ProcUnchanged DEF ThreadInvariant
  <2> QED BY <1>8, <2>2, <2>3, <2>4, LocalStep
<1> QED BY <1>5, <1>6, <1>7, <1>8

(* Every step of a supervisor thread. *)
LEMMA SupervisorStepOK ==
    ASSUME NEW w \in Workers, ThreadInvariant(w), SupervisorStep(w)
    PROVE  ThreadStepOK(w)
BY RevalidateAndClaimStep, CancelTaskStep, LaunchRejectedStep, PlainMoveStep,
   CreateProcessStep, RecordLaunchStep, MarkStartedStep, RecordLaunchUncertainStep,
   WaitLoopStep, RenewalRaisesStep, SettleStep
   DEF SupervisorStep

-----------------------------------------------------------------------------
(* Everyone else shares the store and the process table with the threads.  *)

SharedInvariant == StoreOK /\ ProcTypeOK /\ ProcessInv

(* What a step that is not a step of a supervisor thread has to establish. *)
SharedStepOK ==
    /\ StoreOK' /\ StoreStable
    /\ ProcTypeOK' /\ ProcStable /\ ProcessInv'
    /\ \A v \in Workers : Undisturbed(v)

(* A step that writes nothing durable; it may kill. *)
LEMMA SharedKill ==
    ASSUME SharedInvariant, UNCHANGED <<storeVars, pc>>,
           \/ UNCHANGED proc
           \/ root # NoOne /\ proc' \in {proc, AfterKill(root)}
    PROVE  SharedStepOK
<1>1. StoreOK' /\ StoreStable
  BY UnchangedStore DEF SharedInvariant
<1>2. root # NoOne => root \in Workers
  BY DEF SharedInvariant, StoreOK, StoreTypeOK
<1>3. ProcTypeOK' /\ ProcStable /\ NoNewProcess
  BY <1>2, ProcUnchanged, KillEffect DEF SharedInvariant
<1>4. ProcessInv'
  BY <1>3, ProcessInvKill DEF SharedInvariant
<1>5. ASSUME NEW v \in Workers PROVE Undisturbed(v)
  BY <1>3 DEF Undisturbed, NoNewProcess, storeVars, dispatchVars, ownershipVars
<1> QED BY <1>1, <1>3, <1>4, <1>5 DEF SharedStepOK

(* A transaction that neither names a process nor closes a run that has    *)
(* one.                                                                    *)
LEMMA SharedWrite ==
    ASSUME SharedInvariant, StoreOK', StoreStable,
           UNCHANGED <<proc, pc, root, claimedBy>>,
           ownership = "UNKNOWN" => ownership' = "UNKNOWN",
           run' \in TerminalStates => run \in TerminalStates \/ \A w \in Workers : ~Live(w),
           run' = "SUCCEEDED" => run' = run
    PROVE  SharedStepOK
<1>1. ProcTypeOK' /\ ProcStable
  BY ProcUnchanged DEF SharedInvariant
<1>2. run' \in TerminalStates => \A w \in Workers : ~Live(w)
  BY DEF SharedInvariant, ProcessInv
<1>3. ProcessInv'
  BY <1>2, ProcessInvWrite DEF SharedInvariant
<1>4. ASSUME NEW v \in Workers PROVE Undisturbed(v)
  BY DEF Undisturbed
<1> QED BY <1>1, <1>3, <1>4 DEF SharedStepOK

(* A settlement by someone who has proved that the named process is dead.  *)
LEMMA SharedClose ==
    ASSUME SharedInvariant, StoreOK', StoreStable, UNCHANGED <<proc, pc, root>>,
           ownership # "UNKNOWN", root # NoOne, ~Live(root),
           claimedBy' = NoOne, run' # "SUCCEEDED"
    PROVE  SharedStepOK
<1>1. ProcTypeOK' /\ ProcStable
  BY ProcUnchanged DEF SharedInvariant
<1>2. \A w \in Workers : ~Live(w)
  BY DeadRoot DEF SharedInvariant
<1>3. ProcessInv'
  BY <1>2, ProcessInvWrite DEF SharedInvariant
<1>4. ASSUME NEW v \in Workers PROVE Undisturbed(v)
  BY StoreAssumption DEF Undisturbed
<1> QED BY <1>1, <1>3, <1>4 DEF SharedStepOK

(* settle_execution_after_confirmed_termination with a proof of death. *)
LEMMA SettleConfirmedShared ==
    ASSUME SharedInvariant, NEW status \in {"KILLED", "ALREADY_EXITED"}, NEW state, NEW why,
           SettleConfirmed(status, state, why), root # NoOne, ~Live(root),
           UNCHANGED <<proc, pc>>
    PROVE  SharedStepOK /\ run' \in TerminalStates
<1>1. StoreOK' /\ StoreStable
  BY SettleConfirmedStore DEF SharedInvariant
<1>2. /\ UNCHANGED root /\ ownership # "UNKNOWN" /\ claimedBy' = NoOne
      /\ run' # "SUCCEEDED" /\ run' \in TerminalStates
  BY OutcomeReason DEF SettleConfirmed, SettleConfirmedOk, CloseRun
<1> QED BY <1>1, <1>2, SharedClose

(* revoke_execution_request, by the coordinator. *)
LEMMA RevokeShared ==
    ASSUME SharedInvariant, RevokeExecutionRequest, UNCHANGED <<proc, pc>>
    PROVE  SharedStepOK
<1>1. StoreOK' /\ StoreStable
  BY RevokeStore DEF SharedInvariant
<1>2. UNCHANGED <<root, claimedBy, ownership>>
  BY DEF RevokeExecutionRequest, ownershipVars
<1>3. CASE dispatch = "PENDING"
  <2>1. ownership = "UNKNOWN" /\ claimedBy = NoOne
    BY <1>3 DEF SharedInvariant, StoreOK, StoreInv
  <2>2. \A v \in Workers : ~Live(v)
    BY <2>1, NoProcessYet, StoreAssumption DEF SharedInvariant, StoreOK, Live
  <2>3. run' = "CANCELLED"
    BY <1>3 DEF RevokeExecutionRequest
  <2> QED BY <1>1, <1>2, <2>2, <2>3, SharedWrite
<1>4. CASE dispatch # "PENDING"
  <2>1. run' = run
    BY <1>4 DEF RevokeExecutionRequest, runVars
  <2> QED BY <1>1, <1>2, <2>1, SharedWrite
<1> QED BY <1>3, <1>4

(* Approval, clocks and administrators. *)
LEMMA EnvironmentShared ==
    ASSUME SharedInvariant, Environment, UNCHANGED <<proc, pc>>
    PROVE  SharedStepOK
<1>1. CASE ApproveExecutionRequest
  <2>1. StoreOK' /\ StoreStable
    BY <1>1, ApproveStore DEF SharedInvariant
  <2>2. UNCHANGED <<root, claimedBy>> /\ ownership' = "UNKNOWN" /\ run' = "REQUESTED"
    BY <1>1 DEF ApproveExecutionRequest
  <2> QED BY <2>1, <2>2, SharedWrite DEF TerminalStates
<1>2. CASE Expire \/ RevokeSession \/ LeaseExpires
  <2>1. StoreOK' /\ StoreStable
    BY <1>2, AuthorityLossStore DEF SharedInvariant
  <2>2. UNCHANGED <<root, claimedBy, ownership, run>>
    BY <1>2 DEF Expire, RevokeSession, LeaseExpires, runVars, dispatchVars, ownershipVars
  <2> QED BY <2>1, <2>2, SharedWrite
<1>3. CASE RecoveryLeaseExpires \/ RetryDue
  <2>1. StoreOK' /\ StoreStable
    BY <1>3, RecoveryClockStore DEF SharedInvariant
  <2>2. UNCHANGED <<root, claimedBy, ownership, run>>
    BY <1>3 DEF RecoveryLeaseExpires, RetryDue, runVars, dispatchVars, ownershipVars
  <2> QED BY <2>1, <2>2, SharedWrite
<1> QED BY <1>1, <1>2, <1>3 DEF Environment

(* The tool ends by itself. *)
LEMMA ProcessExitShared ==
    ASSUME SharedInvariant, NEW w \in Workers, ProcessExit(w), UNCHANGED pc
    PROVE  SharedStepOK
<1>1. StoreOK' /\ StoreStable
  BY UnchangedStore DEF SharedInvariant, ProcessExit
<1>2. ProcTypeOK' /\ ProcStable /\ NoNewProcess
  <2>1. PICK s \in {"draining", "exited"} : proc' = [proc EXCEPT ![w] = s]
    BY DEF ProcessExit
  <2>2. Live(w)
    BY DEF ProcessExit, Live
  <2> QED BY <2>1, <2>2 DEF SharedInvariant, ProcTypeOK, ProcStable, NoNewProcess, Live
<1>3. ProcessInv'
  BY <1>2, ProcessInvKill DEF SharedInvariant, ProcessExit
<1>4. ASSUME NEW v \in Workers PROVE Undisturbed(v)
  BY <1>2 DEF Undisturbed, NoNewProcess, ProcessExit, storeVars, dispatchVars, ownershipVars
<1> QED BY <1>1, <1>2, <1>3, <1>4 DEF SharedStepOK

-----------------------------------------------------------------------------
(* Reapers.                                                                *)

OtherReapersIdle(r) ==
    \A q \in Reapers \ {r} :
        /\ rpc'[q] = rpc[q] /\ snap'[q] = snap[q]
        /\ killStatus'[q] = killStatus[q] /\ inflight'[q] = inflight[q]

ReaperStepOK(r) ==
    SharedStepOK /\ ReaperTypeOK' /\ OtherReapersIdle(r) /\ HolderInv(r)'

ReaperInvariant(r) == SharedInvariant /\ ReaperTypeOK /\ HolderInv(r)

(* Attempt numbers are natural numbers. *)
LEMMA AttemptIsNat ==
    ASSUME StoreOK PROVE recovery.attempt \in 0 .. MaxAttempts /\ recovery.attempt \in Nat
<1>1. recovery.attempt \in 0 .. MaxAttempts
  BY DEF StoreOK, StoreTypeOK, RecoveryRows
<1> QED BY <1>1, StoreAssumption

(* A reaper that drops its candidate asserts nothing any more. *)
LEMMA DropCandidate ==
    ASSUME NEW r \in Reapers, ReaperInvariant(r), SharedStepOK, NextCandidate(r),
           \/ UNCHANGED inflight
           \/ inflight' = [inflight EXCEPT ![r] = FALSE]
    PROVE  ReaperStepOK(r)
<1>1. NoSnap.attempt = 0 /\ NoSnap \in
         [ownership : OwnershipStates,
          preDispatch : BOOLEAN, attempt : 0 .. MaxAttempts,
          outcome : {<<"NONE", "NONE">>, <<"FAILED", "PROCESS_LAUNCH_UNCERTAIN">>,
                     <<"CANCELLED", "EXECUTION_CANCELLED">>,
                     <<"TIMED_OUT", "EXECUTION_AUTHORITY_EXPIRED">>}]
  <2>1. 0 \in 0 .. MaxAttempts
    BY StoreAssumption
  <2> QED BY <2>1 DEF NoSnap, OwnershipStates
<1>2. ReaperTypeOK'
  BY <1>1 DEF ReaperInvariant, ReaperTypeOK, NextCandidate, RGoto
<1>3. rpc'[r] = "idle" /\ snap'[r] = NoSnap /\ (inflight'[r] => inflight[r])
  BY DEF ReaperInvariant, ReaperTypeOK, NextCandidate, RGoto
<1>4. OtherReapersIdle(r)
  BY DEF ReaperInvariant, ReaperTypeOK, OtherReapersIdle, NextCandidate, RGoto
<1>5. snap'[r].attempt <= recovery'.attempt
  <2>1. recovery'.attempt \in 0 .. MaxAttempts
    BY DEF SharedStepOK, StoreOK, StoreTypeOK, RecoveryRows
  <2> QED BY <1>1, <1>3, <2>1, StoreAssumption
<1>6. inflight[r] => root' # NoOne
  BY DEF ReaperInvariant, HolderInv, SharedStepOK, StoreStable
<1>7. HolderInv(r)'
  BY <1>3, <1>5, <1>6 DEF HolderInv
<1> QED BY <1>2, <1>4, <1>7 DEF ReaperStepOK

(* A move within the pass that keeps the snapshot. *)
LEMMA KeepCandidate ==
    ASSUME NEW r \in Reapers, ReaperInvariant(r), SharedStepOK,
           NEW l \in {"leased", "targeted", "unavailable", "unproved"}, RGoto(r, l),
           UNCHANGED <<snap, killStatus, inflight>>, l = "targeted" => root # NoOne
    PROVE  ReaperStepOK(r)
<1>1. ReaperTypeOK' /\ OtherReapersIdle(r) /\ rpc'[r] = l
  BY DEF ReaperInvariant, ReaperTypeOK, OtherReapersIdle, RGoto
<1>2. snap'[r].attempt <= recovery'.attempt
  <2>1. /\ snap[r].attempt \in 0 .. MaxAttempts /\ recovery.attempt \in 0 .. MaxAttempts
        /\ recovery'.attempt \in 0 .. MaxAttempts
    BY DEF ReaperInvariant, ReaperTypeOK, SharedInvariant, SharedStepOK, StoreOK,
       StoreTypeOK, RecoveryRows
  <2>2. snap[r].attempt <= recovery.attempt /\ recovery.attempt <= recovery'.attempt
    BY DEF ReaperInvariant, HolderInv, SharedStepOK, StoreStable
  <2> QED BY <2>1, <2>2, StoreAssumption
<1>3. root # NoOne => root' # NoOne
  BY DEF SharedStepOK, StoreStable
<1>4. HolderInv(r)'
  BY <1>1, <1>2, <1>3 DEF ReaperInvariant, HolderInv
<1> QED BY <1>1, <1>4 DEF ReaperStepOK

(* The steps that only give the candidate up. *)
LEMMA GiveUpCandidateStep ==
    ASSUME NEW r \in Reapers, ReaperInvariant(r), UNCHANGED pc,
           SkipInFlight(r) \/ ReapPreDispatch(r) \/ ReaperCrash(r)
    PROVE  ReaperStepOK(r)
<1>1. SharedStepOK
  BY SharedKill DEF SkipInFlight, ReapPreDispatch, ReaperCrash, ReaperInvariant
<1> QED BY <1>1, DropCandidate DEF SkipInFlight, ReapPreDispatch, ReaperCrash

(* The candidate query. *)
LEMMA ListCandidateStep ==
    ASSUME NEW r \in Reapers, ReaperInvariant(r), UNCHANGED pc, ListCandidate(r)
    PROVE  ReaperStepOK(r)
<1>1. SharedStepOK
  BY SharedKill DEF ListCandidate, ReaperInvariant
<1>2. CandidateOutcome \in {<<"FAILED", "PROCESS_LAUNCH_UNCERTAIN">>,
          <<"CANCELLED", "EXECUTION_CANCELLED">>, <<"TIMED_OUT", "EXECUTION_AUTHORITY_EXPIRED">>}
  BY DEF CandidateOutcome
<1>3. recovery.attempt \in 0 .. MaxAttempts /\ recovery.attempt \in Nat
  BY AttemptIsNat DEF ReaperInvariant, SharedInvariant
<1>4. ownership \in OwnershipStates
  BY DEF ReaperInvariant, SharedInvariant, StoreOK, StoreTypeOK
<1>5. ReaperTypeOK'
  BY <1>2, <1>3, <1>4 DEF ListCandidate, ReaperInvariant, ReaperTypeOK, RGoto
<1>6. OtherReapersIdle(r) /\ rpc'[r] = "listed"
  BY DEF ListCandidate, ReaperInvariant, ReaperTypeOK, OtherReapersIdle, RGoto
<1>7. snap'[r].attempt = recovery.attempt /\ recovery' = recovery
  BY DEF ListCandidate, ReaperInvariant, ReaperTypeOK, storeVars
<1>8. HolderInv(r)'
  BY <1>3, <1>6, <1>7 DEF ListCandidate, ReaperInvariant, HolderInv, storeVars, ownershipVars
<1> QED BY <1>1, <1>5, <1>6, <1>8 DEF ReaperStepOK

(* A loadable identity belongs to a named process. *)
LEMMA LoadedIdentity ==
    ASSUME StoreInv, IdentityLoadable PROVE root # NoOne
BY DEF StoreInv, IdentityLoadable, Attached

(* claim_recovery *)
LEMMA LeaseRecoveryStep ==
    ASSUME NEW r \in Reapers, ReaperInvariant(r), UNCHANGED pc, LeaseRecovery(r)
    PROVE  ReaperStepOK(r)
<1>1. UNCHANGED <<proc, inflight>>
  BY DEF LeaseRecovery
<1>2. CASE ClaimRecovery(r) /\ RGoto(r, "leased") /\ UNCHANGED <<snap, killStatus>>
  <2>1. StoreOK' /\ StoreStable
    BY <1>2, ClaimRecoveryStore DEF ReaperInvariant, SharedInvariant
  <2>2. UNCHANGED <<root, claimedBy, ownership, run>>
    BY <1>2 DEF ClaimRecovery, runVars, dispatchVars, ownershipVars
  <2>3. SharedStepOK
    BY <1>1, <2>1, <2>2, SharedWrite DEF ReaperInvariant
  <2> QED BY <1>1, <1>2, <2>3, KeepCandidate
<1>3. CASE Refused(ClaimRecoveryOk) /\ NextCandidate(r)
  <2>1. SharedStepOK
    BY <1>1, <1>3, SharedKill DEF ReaperInvariant, Refused
  <2> QED BY <1>1, <1>3, <2>1, DropCandidate
<1> QED BY <1>2, <1>3 DEF LeaseRecovery

(* load_durable_process_identity, in either branch. *)
LEMMA LoadIdentityStep ==
    ASSUME NEW r \in Reapers, ReaperInvariant(r), UNCHANGED pc,
           LoadLeasedIdentity(r) \/ LoadIdentity(r)
    PROVE  ReaperStepOK(r)
<1>1. UNCHANGED <<storeVars, proc, snap, killStatus, inflight>>
  BY DEF LoadLeasedIdentity, LoadIdentity
<1>2. SharedStepOK
  BY <1>1, SharedKill DEF ReaperInvariant
<1>3. PICK l \in {"targeted", "unavailable", "unproved"} :
           RGoto(r, l) /\ (l = "targeted" => IdentityLoadable)
  BY DEF LoadLeasedIdentity, LoadIdentity
<1>4. l = "targeted" => root # NoOne
  BY <1>3, LoadedIdentity DEF ReaperInvariant, SharedInvariant, StoreOK
<1> QED BY <1>1, <1>2, <1>3, <1>4, KeepCandidate

(* A settlement or a deferral is refused. *)
LEMMA RefusedStep ==
    ASSUME NEW r \in Reapers, ReaperInvariant(r), UNCHANGED <<storeVars, proc, pc, inflight>>,
           NextCandidate(r)
    PROVE  ReaperStepOK(r)
<1>1. SharedStepOK
  BY SharedKill DEF ReaperInvariant
<1> QED BY <1>1, DropCandidate

(* complete_recovery *)
LEMMA DeferRecoveryStep ==
    ASSUME NEW r \in Reapers, ReaperInvariant(r), UNCHANGED pc, DeferRecovery(r)
    PROVE  ReaperStepOK(r)
<1>1. UNCHANGED <<proc, inflight>> /\ NextCandidate(r)
  BY DEF DeferRecovery
<1>2. CASE CompleteRecovery(r)
  <2>1. StoreOK' /\ StoreStable
    BY <1>2, CompleteRecoveryStore DEF ReaperInvariant, SharedInvariant
  <2>2. UNCHANGED <<root, claimedBy, run>> /\ ownership # "UNKNOWN"
    BY <1>2 DEF CompleteRecovery, CompleteRecoveryOk, Uncertain, runVars, dispatchVars
  <2>3. SharedStepOK
    BY <1>1, <2>1, <2>2, SharedWrite DEF ReaperInvariant
  <2> QED BY <1>1, <2>3, DropCandidate
<1>3. CASE UNCHANGED storeVars
  BY <1>1, <1>3, RefusedStep
<1> QED BY <1>2, <1>3 DEF DeferRecovery, Refused

(* The identity-bound kill and its three answers. *)
LEMMA TerminateStep ==
    ASSUME NEW r \in Reapers, ReaperInvariant(r), UNCHANGED pc, Terminate(r)
    PROVE  ReaperStepOK(r)
<1>1. root # NoOne /\ root \in Workers
  BY DEF ReaperInvariant, HolderInv, Terminate, SharedInvariant, StoreOK, StoreTypeOK
<1>2. UNCHANGED <<storeVars, snap>> /\ proc' \in {proc, AfterKill(root)}
  BY DEF Terminate, KillConfirmed, KillUnconfirmed
<1>3. SharedStepOK
  BY <1>1, <1>2, SharedKill DEF ReaperInvariant
<1>4. UNCHANGED <<root, recovery>> /\ snap'[r].attempt <= recovery'.attempt
  BY <1>2 DEF ReaperInvariant, HolderInv, storeVars, ownershipVars
<1>5. CASE KillConfirmed(root) /\ RGoto(r, "proved") /\ UNCHANGED inflight
           /\ killStatus' = [killStatus EXCEPT ![r] = KillStatus(root)]
  <2>1. KillStatus(root) \in {"KILLED", "ALREADY_EXITED"}
    BY DEF KillStatus
  <2>2. ReaperTypeOK' /\ OtherReapersIdle(r)
    BY <1>2, <1>5, <2>1 DEF ReaperInvariant, ReaperTypeOK, OtherReapersIdle, RGoto
  <2>3. rpc'[r] = "proved" /\ killStatus'[r] # "NONE"
    BY <1>5, <2>1 DEF ReaperInvariant, ReaperTypeOK, RGoto
  <2>4. ~Live(root)'
    BY <1>1, <1>4, <1>5, KillEffect DEF KillConfirmed, ReaperInvariant, SharedInvariant, Live
  <2>5. HolderInv(r)'
    BY <1>1, <1>4, <2>3, <2>4 DEF HolderInv
  <2> QED BY <1>3, <2>2, <2>5 DEF ReaperStepOK
<1>6. CASE RGoto(r, "unproved") /\ UNCHANGED killStatus
           /\ (UNCHANGED inflight \/ inflight' = [inflight EXCEPT ![r] = TRUE])
  <2>1. ReaperTypeOK' /\ OtherReapersIdle(r) /\ rpc'[r] = "unproved"
    BY <1>2, <1>6 DEF ReaperInvariant, ReaperTypeOK, OtherReapersIdle, RGoto
  <2>2. HolderInv(r)'
    BY <1>1, <1>4, <2>1 DEF HolderInv
  <2> QED BY <1>3, <2>1, <2>2 DEF ReaperStepOK
<1> QED BY <1>5, <1>6 DEF Terminate

(* A kill whose caller has given up waiting. *)
LEMMA LateCancellationStep ==
    ASSUME NEW r \in Reapers, ReaperInvariant(r), UNCHANGED pc, LateCancellation(r)
    PROVE  ReaperStepOK(r)
<1>1. root # NoOne
  BY DEF ReaperInvariant, HolderInv, LateCancellation
<1>2. SharedStepOK
  BY <1>1, SharedKill DEF LateCancellation, KillUnconfirmed, ReaperInvariant
<1>3. ReaperTypeOK' /\ OtherReapersIdle(r)
  BY DEF LateCancellation, ReaperInvariant, ReaperTypeOK, OtherReapersIdle
<1>4. StoreOK' /\ inflight[r]
  BY <1>2 DEF SharedStepOK, LateCancellation
<1>5. HolderInv(r)'
  BY <1>2, <1>4, HolderSurvives
     DEF LateCancellation, ReaperInvariant, SharedInvariant, SharedStepOK
<1> QED BY <1>2, <1>3, <1>5 DEF ReaperStepOK

(* The proof a reaper holds. *)
LEMMA ProvedDead ==
    ASSUME NEW r \in Reapers, ReaperInvariant(r), rpc[r] = "proved"
    PROVE  root # NoOne /\ ~Live(root) /\ killStatus[r] \in {"KILLED", "ALREADY_EXITED"}
BY DEF ReaperInvariant, HolderInv, ReaperTypeOK

(* settle_recovery_execution *)
LEMMA CloseRecoveredStep ==
    ASSUME NEW r \in Reapers, ReaperInvariant(r), UNCHANGED pc, CloseRecovered(r)
    PROVE  ReaperStepOK(r)
<1>1. UNCHANGED <<proc, inflight>> /\ NextCandidate(r)
  BY DEF CloseRecovered
<1>2. root # NoOne /\ ~Live(root) /\ killStatus[r] \in {"KILLED", "ALREADY_EXITED"}
  BY ProvedDead DEF CloseRecovered
<1>3. CASE SettleRecoveryExecution(r, killStatus[r])
  <2>1. StoreOK' /\ StoreStable
    BY <1>2, <1>3, SettleRecoveryStore DEF ReaperInvariant, SharedInvariant
  <2>2. /\ UNCHANGED root /\ claimedBy' = NoOne /\ run' = "FAILED"
        /\ ownership # "UNKNOWN"
    BY <1>3 DEF SettleRecoveryExecution, SettleRecoveryOk, CloseRun, Uncertain
  <2>3. SharedStepOK
    BY <1>1, <1>2, <2>1, <2>2, SharedClose DEF ReaperInvariant
  <2> QED BY <1>1, <2>3, DropCandidate
<1>4. CASE UNCHANGED storeVars
  BY <1>1, <1>4, RefusedStep
<1> QED BY <1>3, <1>4 DEF CloseRecovered, Refused

(* settle_execution_after_confirmed_termination, from the reaper. *)
LEMMA CloseGovernedStep ==
    ASSUME NEW r \in Reapers, ReaperInvariant(r), UNCHANGED pc, CloseGoverned(r)
    PROVE  ReaperStepOK(r)
<1>1. UNCHANGED <<proc, inflight>> /\ NextCandidate(r)
  BY DEF CloseGoverned
<1>2. root # NoOne /\ ~Live(root) /\ killStatus[r] \in {"KILLED", "ALREADY_EXITED"}
  BY ProvedDead DEF CloseGoverned
<1>3. CASE SettleConfirmed(killStatus[r], snap[r].outcome[1], snap[r].outcome[2])
  <2>1. SharedStepOK
    BY <1>1, <1>2, <1>3, SettleConfirmedShared DEF ReaperInvariant
  <2> QED BY <1>1, <2>1, DropCandidate
<1>4. CASE UNCHANGED storeVars
  BY <1>1, <1>4, RefusedStep
<1> QED BY <1>3, <1>4 DEF CloseGoverned, Refused

(* The two record_..._governed_recovery writes. *)
LEMMA RecordRecoveryStep ==
    ASSUME NEW r \in Reapers, ReaperInvariant(r), UNCHANGED pc,
           RecordUnavailable(r) \/ RecordUnconfirmed(r)
    PROVE  ReaperStepOK(r)
<1>1. UNCHANGED <<proc, inflight>> /\ NextCandidate(r)
  BY DEF RecordUnavailable, RecordUnconfirmed
<1>2. CASE \E owned : RecordRecovery(owned, snap[r].attempt)
  <2>1. PICK owned : RecordRecovery(owned, snap[r].attempt)
    BY <1>2
  <2>2. snap[r].attempt \in 0 .. recovery.attempt
    <3>1. snap[r].attempt \in 0 .. MaxAttempts /\ recovery.attempt \in 0 .. MaxAttempts
      BY DEF ReaperInvariant, ReaperTypeOK, SharedInvariant, StoreOK, StoreTypeOK, RecoveryRows
    <3>2. snap[r].attempt <= recovery.attempt
      BY DEF ReaperInvariant, HolderInv
    <3> QED BY <3>1, <3>2, StoreAssumption
  <2>3. StoreOK' /\ StoreStable
    BY <2>1, <2>2, RecordRecoveryStore DEF ReaperInvariant, SharedInvariant
  <2>4. UNCHANGED <<root, claimedBy, ownership, run>>
    BY <2>1 DEF RecordRecovery, runVars, dispatchVars, ownershipVars
  <2>5. SharedStepOK
    BY <1>1, <2>3, <2>4, SharedWrite DEF ReaperInvariant
  <2> QED BY <1>1, <2>5, DropCandidate
<1>3. CASE UNCHANGED storeVars
  BY <1>1, <1>3, RefusedStep
<1> QED BY <1>2, <1>3 DEF RecordUnavailable, RecordUnconfirmed, Refused

(* Every step of a reaper. *)
LEMMA ReaperStepPreserves ==
    ASSUME NEW r \in Reapers, ReaperInvariant(r), UNCHANGED pc, ReaperStep(r)
    PROVE  ReaperStepOK(r)
BY GiveUpCandidateStep, ListCandidateStep, LeaseRecoveryStep, LoadIdentityStep,
   DeferRecoveryStep, TerminateStep, LateCancellationStep, CloseRecoveredStep,
   CloseGovernedStep, RecordRecoveryStep
   DEF ReaperStep, ReaperPass

-----------------------------------------------------------------------------
(* Cancellation calls.                                                     *)

OtherCallsIdle(c) ==
    \A d \in Cancellers \ {c} :
        cpc'[d] = cpc[d] /\ result'[d] = result[d] /\ cancelStatus'[d] = cancelStatus[d]

CallStepOK(c) == SharedStepOK /\ CoordinatorTypeOK' /\ OtherCallsIdle(c) /\ CallInv(c)'

CallInvariant(c) == SharedInvariant /\ CoordinatorTypeOK /\ CallInv(c)

(* A move that does not return. *)
LEMMA CallMove ==
    ASSUME NEW c \in Cancellers, CallInvariant(c), SharedStepOK,
           NEW l \in {"noRun", "active", "terminal", "revoked", "loaded"}, CGoto(c, l),
           UNCHANGED cancelStatus,
           l = "terminal" => run' \in TerminalStates,
           l \in {"revoked", "loaded"} => request' = "REVOKED",
           l = "loaded" => root # NoOne
    PROVE  CallStepOK(c)
<1>1. CoordinatorTypeOK' /\ OtherCallsIdle(c) /\ cpc'[c] = l /\ result'[c] = result[c]
  BY DEF CallInvariant, CoordinatorTypeOK, OtherCallsIdle, CGoto
<1>2. root # NoOne => root' # NoOne
  BY DEF SharedStepOK, StoreStable
<1>3. run \in TerminalStates => run' \in TerminalStates
  BY DEF SharedStepOK, StoreStable, runVars
<1>4. request = "REVOKED" => request' = "REVOKED"
  BY DEF SharedStepOK, StoreStable
<1>5. CallInv(c)'
  BY <1>1, <1>2, <1>3, <1>4 DEF CallInvariant, CallInv
<1> QED BY <1>1, <1>5 DEF CallStepOK

(* A return.  The answer `confirmed' needs a closed run and a revoked      *)
(* request.                                                                *)
LEMMA CallReturn ==
    ASSUME NEW c \in Cancellers, CallInvariant(c), SharedStepOK,
           NEW answers \in SUBSET {"confirmed", "confirmedNoRun", "taskRunning", "unconfirmed"},
           Return(c, answers), UNCHANGED cancelStatus,
           "confirmed" \in answers => run' \in TerminalStates /\ request' = "REVOKED"
    PROVE  CallStepOK(c)
<1>1. PICK a \in answers : result' = [result EXCEPT ![c] = a]
  BY DEF Return
<1>2. CoordinatorTypeOK' /\ OtherCallsIdle(c) /\ cpc'[c] = "done" /\ result'[c] = a
  BY <1>1 DEF CallInvariant, CoordinatorTypeOK, OtherCallsIdle, Return
<1>3. CallInv(c)'
  BY <1>1, <1>2 DEF CallInv
<1> QED BY <1>2, <1>3 DEF CallStepOK

(* The coordinator's first read of the run changes nothing durable. *)
LEMMA ReadRunStep ==
    ASSUME NEW c \in Cancellers, CallInvariant(c), UNCHANGED pc, ReadRun(c)
    PROVE  CallStepOK(c)
<1>1. SharedStepOK
  BY SharedKill DEF ReadRun, CallInvariant
<1>2. PICK l \in {"noRun", "active", "terminal"} :
           CGoto(c, l) /\ (l = "terminal" => run \notin {"NONE"} \cup Active)
  BY DEF ReadRun
<1>3. l = "terminal" => run' \in TerminalStates
  BY <1>2 DEF ReadRun, CallInvariant, SharedInvariant, StoreOK, StoreTypeOK, storeVars, runVars
<1> QED BY <1>1, <1>2, <1>3, CallMove DEF ReadRun

(* Revocation, for each of the three states the first read can find. *)
LEMMA RevokeStep ==
    ASSUME NEW c \in Cancellers, CallInvariant(c), UNCHANGED pc, Revoke(c)
    PROVE  CallStepOK(c)
<1>1. UNCHANGED <<proc, cancelStatus>>
  BY DEF Revoke
<1>2. CASE RevokeExecutionRequest /\ ( \/ cpc[c] = "noRun" /\ Confirm(c, "confirmedNoRun")
                                       \/ cpc[c] = "terminal" /\ Confirm(c, "confirmed")
                                       \/ CGoto(c, "revoked") )
  <2>1. SharedStepOK
    BY <1>1, <1>2, RevokeShared DEF CallInvariant
  <2>2. request' = "REVOKED"
    BY <1>2 DEF RevokeExecutionRequest
  <2>3. cpc[c] = "terminal" => run' \in TerminalStates
    BY <2>1 DEF CallInvariant, CallInv, SharedStepOK, StoreStable, runVars
  <2>4. CASE cpc[c] = "noRun" /\ Confirm(c, "confirmedNoRun")
    BY <1>1, <2>1, <2>2, <2>4, CallReturn DEF Confirm
  <2>5. CASE cpc[c] = "terminal" /\ Confirm(c, "confirmed")
    BY <1>1, <2>1, <2>2, <2>3, <2>5, CallReturn DEF Confirm
  <2>6. CASE CGoto(c, "revoked")
    BY <1>1, <2>1, <2>2, <2>6, CallMove
  <2> QED BY <1>2, <2>4, <2>5, <2>6
<1>3. CASE UNCHANGED storeVars /\ Escalate(c)
  <2>1. SharedStepOK
    BY <1>1, <1>3, SharedKill DEF CallInvariant
  <2> QED BY <1>1, <1>3, <2>1, CallReturn DEF Escalate
<1> QED BY <1>2, <1>3 DEF Revoke, Refused

(* Loading the identity: IdentityLoadable gives the kill a root. *)
LEMMA InspectStep ==
    ASSUME NEW c \in Cancellers, CallInvariant(c), UNCHANGED pc, Inspect(c)
    PROVE  CallStepOK(c)
<1>1. SharedStepOK
  BY SharedKill DEF Inspect, CallInvariant
<1>2. request' = "REVOKED"
  BY DEF CallInvariant, CallInv, Inspect, storeVars, authorityVars
<1>3. CASE IdentityLoadable /\ CGoto(c, "loaded")
  <2>1. root # NoOne
    BY <1>3, LoadedIdentity DEF CallInvariant, SharedInvariant, StoreOK
  <2> QED BY <1>1, <1>2, <1>3, <2>1, CallMove DEF Inspect
<1>4. CASE Escalate(c)
  BY <1>1, <1>4, CallReturn DEF Escalate, Inspect
<1> QED BY <1>3, <1>4 DEF Inspect

(* The kill of a cancellation call; a confirmed one leaves nothing alive. *)
LEMMA CancelExecutionStep ==
    ASSUME NEW c \in Cancellers, CallInvariant(c), UNCHANGED pc, CancelExecution(c)
    PROVE  CallStepOK(c)
<1>1. root # NoOne /\ root \in Workers /\ request = "REVOKED"
  BY DEF CallInvariant, CallInv, CancelExecution, SharedInvariant, StoreOK, StoreTypeOK
<1>2. UNCHANGED storeVars /\ proc' \in {proc, AfterKill(root)}
  BY DEF CancelExecution, KillConfirmed, KillUnconfirmed
<1>3. SharedStepOK
  BY <1>1, <1>2, SharedKill DEF CallInvariant
<1>4. CASE KillConfirmed(root) /\ CGoto(c, "proved")
           /\ cancelStatus' = [cancelStatus EXCEPT ![c] = KillStatus(root)]
  <2>1. KillStatus(root) \in {"KILLED", "ALREADY_EXITED"}
    BY DEF KillStatus
  <2>2. /\ CoordinatorTypeOK' /\ OtherCallsIdle(c) /\ cpc'[c] = "proved"
        /\ result'[c] = result[c] /\ cancelStatus'[c] # "NONE"
    BY <1>4, <2>1 DEF CallInvariant, CoordinatorTypeOK, OtherCallsIdle, CGoto
  <2>3. ~Live(root)'
    BY <1>1, <1>2, <1>4, KillEffect DEF KillConfirmed, CallInvariant, SharedInvariant, Live,
       storeVars, ownershipVars
  <2>4. CallInv(c)'
    BY <1>1, <1>2, <2>2, <2>3 DEF CallInvariant, CallInv, storeVars, authorityVars, runVars,
       ownershipVars
  <2> QED BY <1>3, <2>2, <2>4 DEF CallStepOK
<1>5. CASE Escalate(c) /\ UNCHANGED cancelStatus
  BY <1>3, <1>5, CallReturn DEF Escalate
<1> QED BY <1>4, <1>5 DEF CancelExecution

(* Settlement by the coordinator: only a dead process is closed. *)
LEMMA SettleCancelledStep ==
    ASSUME NEW c \in Cancellers, CallInvariant(c), UNCHANGED pc, SettleCancelled(c)
    PROVE  CallStepOK(c)
<1>1. /\ root # NoOne /\ ~Live(root) /\ request = "REVOKED"
      /\ cancelStatus[c] \in {"KILLED", "ALREADY_EXITED"}
  BY DEF CallInvariant, CallInv, CoordinatorTypeOK, SettleCancelled
<1>2. UNCHANGED <<proc, cancelStatus>>
  BY DEF SettleCancelled
<1>3. CASE SettleConfirmed(cancelStatus[c], "CANCELLED", "EXECUTION_CANCELLED")
           /\ Confirm(c, "confirmed")
  <2>1. SharedStepOK /\ run' \in TerminalStates
    BY <1>1, <1>2, <1>3, SettleConfirmedShared DEF CallInvariant
  <2>2. request' = "REVOKED"
    BY <1>1, <2>1 DEF SharedStepOK, StoreStable
  <2> QED BY <1>2, <1>3, <2>1, <2>2, CallReturn DEF Confirm
<1>4. CASE SettleReplayed(cancelStatus[c], "CANCELLED", "EXECUTION_CANCELLED")
           /\ UNCHANGED storeVars /\ Confirm(c, "confirmed")
  <2>1. SharedStepOK
    BY <1>2, <1>4, SharedKill DEF CallInvariant
  <2>2. run' \in TerminalStates /\ request' = "REVOKED"
    BY <1>1, <1>4 DEF SettleReplayed, TerminalStates, storeVars, authorityVars, runVars
  <2> QED BY <1>2, <1>4, <2>1, <2>2, CallReturn DEF Confirm
<1>5. CASE UNCHANGED storeVars /\ Escalate(c)
  <2>1. SharedStepOK
    BY <1>2, <1>5, SharedKill DEF CallInvariant
  <2> QED BY <1>2, <1>5, <2>1, CallReturn DEF Escalate
<1> QED BY <1>3, <1>4, <1>5 DEF SettleCancelled, Refused

(* Every step of a cancellation call. *)
LEMMA CoordinatorStepPreserves ==
    ASSUME NEW c \in Cancellers, CallInvariant(c), UNCHANGED pc, CoordinatorStep(c)
    PROVE  CallStepOK(c)
BY ReadRunStep, RevokeStep, InspectStep, CancelExecutionStep, SettleCancelledStep
   DEF CoordinatorStep

-----------------------------------------------------------------------------
(* The composed system.                                                    *)

(* The initial states satisfy the inductive invariant. *)
LEMMA InitEstablishes == Init => LifecycleInv
<1> SUFFICES ASSUME Init PROVE LifecycleInv
  OBVIOUS
<1>1. StoreOK
  BY InitStore DEF Init
<1>2. 0 \in 0 .. MaxAttempts
  BY StoreAssumption
<1>3. ProcTypeOK /\ SupervisorTypeOK /\ CoordinatorTypeOK
  BY DEF Init, ProcInit, SupervisorInit, CoordinatorInit, ProcTypeOK, SupervisorTypeOK,
     CoordinatorTypeOK
<1>4. ReaperTypeOK
  BY <1>2 DEF Init, ReaperInit, ReaperTypeOK, NoSnap, OwnershipStates
<1>5. ProcessInv
  BY DEF Init, StoreInit, ProcInit, ProcessInv, TerminalStates
<1>6. ASSUME NEW w \in Workers PROVE ThreadInv(w)
  BY StoreAssumption DEF Init, StoreInit, ProcInit, SupervisorInit, ThreadInv, Settling
<1>7. ASSUME NEW r \in Reapers PROVE HolderInv(r)
  BY NewRecoveryRow DEF Init, StoreInit, ReaperInit, HolderInv, NoSnap
<1>8. ASSUME NEW c \in Cancellers PROVE CallInv(c)
  BY DEF Init, CoordinatorInit, CallInv
<1> QED
  BY <1>1, <1>3, <1>4, <1>5, <1>6, <1>7, <1>8 DEF LifecycleInv, TypeOK, StoreOK

(* A step of anyone keeps what the store protects, and the invariant. *)
LEMMA NextPreserves ==
    ASSUME LifecycleInv, [Next]_vars PROVE LifecycleInv' /\ StoreStable
<1>0. /\ StoreOK /\ ProcTypeOK /\ SupervisorTypeOK /\ ReaperTypeOK /\ CoordinatorTypeOK
      /\ ProcessInv /\ SharedInvariant
      /\ \A w \in Workers : ThreadInv(w) /\ ThreadInvariant(w)
      /\ \A r \in Reapers : HolderInv(r) /\ ReaperInvariant(r)
      /\ \A c \in Cancellers : CallInv(c) /\ CallInvariant(c)
  BY DEF LifecycleInv, TypeOK, StoreOK, SharedInvariant, ThreadInvariant, ReaperInvariant,
     CallInvariant
<1>1. ASSUME UNCHANGED supervisorVars
      PROVE  UNCHANGED pc /\ SupervisorTypeOK'
  BY <1>0, <1>1 DEF supervisorVars, SupervisorTypeOK
<1>2. ASSUME UNCHANGED reaperVars, StoreOK', StoreStable, ProcStable
      PROVE  ReaperTypeOK' /\ \A r \in Reapers : HolderInv(r)'
  <2>1. UNCHANGED <<rpc, snap, killStatus, inflight>>
    BY <1>2 DEF reaperVars
  <2>2. ReaperTypeOK'
    BY <1>0, <2>1 DEF ReaperTypeOK
  <2>3. ASSUME NEW r \in Reapers PROVE HolderInv(r)'
    BY <1>0, <1>2, <2>1, HolderSurvives
  <2> QED BY <2>2, <2>3
<1>3. ASSUME UNCHANGED coordinatorVars, StoreStable, ProcStable
      PROVE  CoordinatorTypeOK' /\ \A c \in Cancellers : CallInv(c)'
  <2>1. UNCHANGED <<cpc, result, cancelStatus>>
    BY <1>3 DEF coordinatorVars
  <2>2. CoordinatorTypeOK'
    BY <1>0, <2>1 DEF CoordinatorTypeOK
  <2>3. ASSUME NEW c \in Cancellers PROVE CallInv(c)'
    BY <1>0, <1>3, <2>1, CallSurvives
  <2> QED BY <2>2, <2>3
<1>4. ASSUME SharedStepOK PROVE \A w \in Workers : ThreadInv(w)'
  BY <1>0, <1>4, ThreadSurvives DEF SharedStepOK
<1>5. ASSUME SharedStepOK, UNCHANGED <<supervisorVars, reaperVars, coordinatorVars>>
      PROVE  LifecycleInv' /\ StoreStable
  <2>1. StoreOK' /\ StoreStable /\ ProcTypeOK' /\ ProcStable /\ ProcessInv'
    BY <1>5 DEF SharedStepOK
  <2>2. SupervisorTypeOK'
    BY <1>1, <1>5
  <2>3. ReaperTypeOK' /\ \A r \in Reapers : HolderInv(r)'
    BY <1>2, <1>5, <2>1
  <2>4. CoordinatorTypeOK' /\ \A c \in Cancellers : CallInv(c)'
    BY <1>3, <1>5, <2>1
  <2>5. \A w \in Workers : ThreadInv(w)'
    BY <1>4, <1>5
  <2> QED BY <2>1, <2>2, <2>3, <2>4, <2>5 DEF LifecycleInv, TypeOK, StoreOK
<1>6. CASE Environment /\ UNCHANGED <<proc, supervisorVars, reaperVars, coordinatorVars>>
  BY <1>0, <1>1, <1>5, <1>6, EnvironmentShared
<1>7. CASE /\ \E w \in Workers : ProcessExit(w)
           /\ UNCHANGED <<supervisorVars, reaperVars, coordinatorVars>>
  BY <1>0, <1>1, <1>5, <1>7, ProcessExitShared
<1>8. CASE /\ \E w \in Workers : SupervisorStep(w)
           /\ UNCHANGED <<reaperVars, coordinatorVars>>
  <2>1. PICK w \in Workers : SupervisorStep(w)
    BY <1>8
  <2>2. ThreadStepOK(w)
    BY <1>0, <2>1, SupervisorStepOK
  <2>3. /\ StoreOK' /\ StoreStable /\ ProcTypeOK' /\ ProcStable /\ ProcessInv'
        /\ SupervisorTypeOK' /\ ThreadInv(w)' /\ \A v \in Workers \ {w} : Undisturbed(v)
    BY <2>2 DEF ThreadStepOK
  <2>4. ASSUME NEW v \in Workers PROVE ThreadInv(v)'
    <3>1. CASE v = w
      BY <2>3, <3>1
    <3>2. CASE v # w
      BY <1>0, <2>3, <3>2, ThreadSurvives
    <3> QED BY <3>1, <3>2
  <2>5. ReaperTypeOK' /\ \A r \in Reapers : HolderInv(r)'
    BY <1>2, <1>8, <2>3
  <2>6. CoordinatorTypeOK' /\ \A c \in Cancellers : CallInv(c)'
    BY <1>3, <1>8, <2>3
  <2> QED BY <2>3, <2>4, <2>5, <2>6 DEF LifecycleInv, TypeOK, StoreOK
<1>9. CASE /\ \E r \in Reapers : ReaperStep(r)
           /\ UNCHANGED <<supervisorVars, coordinatorVars>>
  <2>1. PICK r \in Reapers : ReaperStep(r)
    BY <1>9
  <2>2. ReaperStepOK(r)
    BY <1>0, <1>1, <1>9, <2>1, ReaperStepPreserves
  <2>3. /\ StoreOK' /\ StoreStable /\ ProcTypeOK' /\ ProcStable /\ ProcessInv'
        /\ ReaperTypeOK' /\ OtherReapersIdle(r) /\ HolderInv(r)' /\ SharedStepOK
    BY <2>2 DEF ReaperStepOK, SharedStepOK
  <2>4. ASSUME NEW q \in Reapers PROVE HolderInv(q)'
    <3>1. CASE q = r
      BY <2>3, <3>1
    <3>2. CASE q # r
      BY <1>0, <2>3, <3>2, HolderSurvives DEF OtherReapersIdle
    <3> QED BY <3>1, <3>2
  <2>5. CoordinatorTypeOK' /\ \A c \in Cancellers : CallInv(c)'
    BY <1>3, <1>9, <2>3
  <2>6. SupervisorTypeOK' /\ \A w \in Workers : ThreadInv(w)'
    BY <1>1, <1>4, <1>9, <2>3
  <2> QED BY <2>3, <2>4, <2>5, <2>6 DEF LifecycleInv, TypeOK, StoreOK
<1>10. CASE /\ \E c \in Cancellers : CoordinatorStep(c)
            /\ UNCHANGED <<supervisorVars, reaperVars>>
  <2>1. PICK c \in Cancellers : CoordinatorStep(c)
    BY <1>10
  <2>2. CallStepOK(c)
    BY <1>0, <1>1, <1>10, <2>1, CoordinatorStepPreserves
  <2>3. /\ StoreOK' /\ StoreStable /\ ProcTypeOK' /\ ProcStable /\ ProcessInv'
        /\ CoordinatorTypeOK' /\ OtherCallsIdle(c) /\ CallInv(c)' /\ SharedStepOK
    BY <2>2 DEF CallStepOK, SharedStepOK
  <2>4. ASSUME NEW d \in Cancellers PROVE CallInv(d)'
    <3>1. CASE d = c
      BY <2>3, <3>1
    <3>2. CASE d # c
      BY <1>0, <2>3, <3>2, CallSurvives DEF OtherCallsIdle
    <3> QED BY <3>1, <3>2
  <2>5. ReaperTypeOK' /\ \A r \in Reapers : HolderInv(r)'
    BY <1>2, <1>10, <2>3
  <2>6. SupervisorTypeOK' /\ \A w \in Workers : ThreadInv(w)'
    BY <1>1, <1>4, <1>10, <2>3
  <2> QED BY <2>3, <2>4, <2>5, <2>6 DEF LifecycleInv, TypeOK, StoreOK
<1>11. CASE UNCHANGED vars
  <2>1. UNCHANGED <<storeVars, proc, supervisorVars, reaperVars, coordinatorVars>>
    BY <1>11 DEF vars
  <2>2. SharedStepOK
    BY <1>0, <1>1, <2>1, SharedKill
  <2> QED BY <1>5, <2>1, <2>2
<1> QED BY <1>6, <1>7, <1>8, <1>9, <1>10, <1>11 DEF Next

(* The inductive invariant holds of every behaviour of the system. *)
THEOREM Invariance == Spec => []LifecycleInv
<1>1. LifecycleInv /\ [Next]_vars => LifecycleInv'
  BY NextPreserves
<1> QED BY InitEstablishes, <1>1, PTL DEF Spec

(* Every variable keeps its type: the rows, the process table and the      *)
(* control state of threads, reapers and cancellation calls.               *)
THEOREM TypeCorrect == Spec => []TypeOK
<1>1. LifecycleInv => TypeOK
  BY DEF LifecycleInv
<1> QED BY Invariance, <1>1, PTL

(* No settlement path closes a run while a member of its process tree      *)
(* lives, for any number of workers, reapers and cancellers.               *)
THEOREM NoLiveProcessAfterTerminal == Spec => []TerminalMeansNoLiveProcess
<1>1. LifecycleInv => TerminalMeansNoLiveProcess
  BY DEF LifecycleInv, ProcessInv, TerminalMeansNoLiveProcess
<1> QED BY Invariance, <1>1, PTL

(* One approval launches at most one process. *)
THEOREM SingleLaunch == Spec => []AtMostOneLaunch
<1>1. LifecycleInv => AtMostOneLaunch
  BY DEF LifecycleInv, ProcessInv, AtMostOneLaunch
<1> QED BY Invariance, <1>1, PTL

(* RUNNING follows a committed identity, and the identity is that of the   *)
(* process that was launched.                                              *)
THEOREM OwnershipIsAccurate == Spec => []OwnershipNamesTheProcess
<1>1. LifecycleInv => OwnershipNamesTheProcess
  <2> SUFFICES ASSUME LifecycleInv PROVE OwnershipNamesTheProcess
    OBVIOUS
  <2>1. run = "RUNNING" => root # NoOne /\ identity
    BY DEF LifecycleInv, StoreInv
  <2>2. root # NoOne => proc[root] # "none"
    BY DEF LifecycleInv, ProcessInv
  <2>3. ownership = "NO_EXTERNAL_PROCESS" => \A w \in Workers : proc[w] = "none"
    BY DEF LifecycleInv, ProcessInv, StoreInv
  <2> QED BY <2>1, <2>2, <2>3 DEF OwnershipNamesTheProcess
<1> QED BY Invariance, <1>1, PTL

(* A run is SUCCEEDED only if its process ended by itself. *)
THEOREM SuccessIsGenuine == Spec => []SuccessIsNatural
<1>1. LifecycleInv => SuccessIsNatural
  BY DEF LifecycleInv, ProcessInv, SuccessIsNatural
<1> QED BY Invariance, <1>1, PTL

(* Run, dispatch, ownership and recovery rows close together. *)
THEOREM RowsStayTogether == Spec => []RowsAgree
<1>1. LifecycleInv => RowsAgree
  <2> SUFFICES ASSUME LifecycleInv PROVE RowsAgree
    OBVIOUS
  <2>1. run \in TerminalStates => dispatch \in {"COMPLETED", "FAILED", "BLOCKED"}
    BY DispatchCloses DEF LifecycleInv, StoreInv
  <2>2. run \in Active <=> dispatch \in {"PENDING", "CLAIMED"}
    BY <2>1 DEF LifecycleInv, TypeOK, StoreTypeOK, StoreInv, Active
  <2> QED
    BY <2>2 DEF LifecycleInv, StoreInv, RowsAgree, Attached, Active
<1> QED BY Invariance, <1>1, PTL

(* A process that outlives its supervisor stays in reach of recovery. *)
THEOREM OrphansStayRecoverable == Spec => []OrphanIsRecoverable
<1>1. LifecycleInv => OrphanIsRecoverable
  <2> SUFFICES ASSUME LifecycleInv, NEW w \in Workers, Live(w)
               PROVE  \/ RecoveryCandidate
                      \/ recovery.live
                      \/ recovery.status = "DEFERRED" /\ ~recovery.due
                      \/ recovery.status = "EXHAUSTED"
    BY DEF OrphanIsRecoverable
  <2>1. run \notin TerminalStates /\ proc[w] # "none"
    BY DEF LifecycleInv, ProcessInv, Live
  <2>2. ownership \in {"UNKNOWN"} \cup Attached /\ dispatch = "CLAIMED"
    <3>1. root = w \/ (ownership = "UNKNOWN" /\ claimedBy = w)
      BY <2>1 DEF LifecycleInv, ProcessInv
    <3> QED
      BY <2>1, <3>1, StoreAssumption DEF LifecycleInv, TypeOK, StoreTypeOK, StoreInv,
         OwnershipStates, Attached
  <2>3. run \in Active
    BY <2>2 DEF LifecycleInv, StoreInv, Active
  <2>4. /\ recovery.status \in {"REQUESTED", "IN_PROGRESS", "DEFERRED", "EXHAUSTED"}
        /\ recovery.status = "REQUESTED" => recovery.due
        /\ recovery.status = "IN_PROGRESS" => ownership \in Uncertain
    BY <2>2, <2>3 DEF LifecycleInv, TypeOK, StoreTypeOK, RecoveryRows, StoreInv, Active,
       Attached, Uncertain
  <2> QED BY <2>2, <2>3, <2>4 DEF RecoveryCandidate, Attached
<1> QED BY Invariance, <1>1, PTL

(* Recovery gives up only when its budget is used. *)
THEOREM ExhaustionIsEarned == Spec => []ExhaustedOnlyAtLimit
<1>1. LifecycleInv => ExhaustedOnlyAtLimit
  BY DEF LifecycleInv, StoreInv, ExhaustedOnlyAtLimit
<1> QED BY Invariance, <1>1, PTL

(* A confirmed cancellation is true for as long as anyone can look. *)
THEOREM ConfirmationIsSound == Spec => []ConfirmedIsSound
<1>1. LifecycleInv => ConfirmedIsSound
  BY DEF LifecycleInv, CallInv, ProcessInv, ConfirmedIsSound
<1> QED BY Invariance, <1>1, PTL

(* A terminal run, its dispatch and its evidence are immutable. *)
THEOREM TerminalRunsAreFinal == Spec => TerminalIsFinal
<1>1. LifecycleInv /\ [Next]_vars =>
        [(run \in TerminalStates) => UNCHANGED <<runVars, dispatchVars, ownershipVars>>]_vars
  BY NextPreserves DEF StoreStable
<1> QED BY Invariance, <1>1, PTL DEF Spec, TerminalIsFinal

(* Lost authority starts and completes nothing; identities are never       *)
(* replaced.                                                               *)
THEOREM AuthorityGuardsProgress == Spec => LostAuthorityStartsNothing
<1>1. LifecycleInv /\ [Next]_vars =>
        [/\ ~AuthorityValid /\ run' # run =>
              run' \notin {"STARTING", "RUNNING", "SUCCEEDED", "PARTIAL_RESULTS_WITH_WARNING"}
         /\ root # NoOne => UNCHANGED <<root, identity>>]_vars
  BY NextPreserves DEF StoreStable
<1> QED BY Invariance, <1>1, PTL DEF Spec, LostAuthorityStartsNothing

(* What a reaper does when it leaves a candidate of uncertain ownership:   *)
(* both transactions that it may then commit require its own live lease.   *)
LEMMA LapsedReaper ==
    ASSUME ReaperTypeOK, NEW r \in Reapers, rpc[r] \in {"proved", "unproved"}, SnapUncertain(r),
           rpc'[r] = "idle", ~HoldsRecoveryLease(r),
           NEW q \in Reapers, ReaperStep(q)
    PROVE  UNCHANGED storeVars
<1>1. q = r
  <2>1. ASSUME NEW l, rpc' = [rpc EXCEPT ![q] = l] PROVE q = r
    BY <2>1 DEF ReaperTypeOK
  <2>2. CASE LateCancellation(q)
    BY <2>2 DEF LateCancellation
  <2>3. CASE ReaperCrash(q) \/ SkipInFlight(q) \/ CloseRecovered(q) \/ DeferRecovery(q)
             \/ ReapPreDispatch(q) \/ RecordUnavailable(q) \/ RecordUnconfirmed(q) \/ CloseGoverned(q)
    BY <2>1, <2>3 DEF ReaperCrash, SkipInFlight, CloseRecovered, DeferRecovery, ReapPreDispatch,
       RecordUnavailable, RecordUnconfirmed, CloseGoverned, NextCandidate, RGoto
  <2>4. CASE ListCandidate(q) \/ LeaseRecovery(q)
    BY <2>1, <2>4 DEF ListCandidate, LeaseRecovery, NextCandidate, RGoto
  <2>5. CASE LoadLeasedIdentity(q) \/ Terminate(q) \/ LoadIdentity(q)
    BY <2>1, <2>5 DEF LoadLeasedIdentity, Terminate, LoadIdentity, RGoto
  <2> QED BY <2>2, <2>3, <2>4, <2>5 DEF ReaperStep, ReaperPass
<1>2. CASE CloseRecovered(r) \/ DeferRecovery(r)
  BY <1>2 DEF CloseRecovered, DeferRecovery, SettleRecoveryExecution, SettleRecoveryOk,
     CompleteRecovery, CompleteRecoveryOk, Refused
<1>3. CASE RecordUnconfirmed(r) \/ CloseGoverned(r) \/ RecordUnavailable(r) \/ LeaseRecovery(r)
  BY <1>3 DEF RecordUnconfirmed, CloseGoverned, RecordUnavailable, LeaseRecovery
<1>4. CASE ListCandidate(r) \/ SkipInFlight(r) \/ LoadLeasedIdentity(r) \/ Terminate(r)
           \/ ReapPreDispatch(r) \/ LoadIdentity(r) \/ LateCancellation(r) \/ ReaperCrash(r)
  BY <1>4 DEF ListCandidate, SkipInFlight, LoadLeasedIdentity, Terminate, ReapPreDispatch,
     LoadIdentity, LateCancellation, ReaperCrash
<1> QED BY <1>1, <1>2, <1>3, <1>4 DEF ReaperStep, ReaperPass

(* A reaper that lost its recovery lease while it was killing the process  *)
(* writes nothing when it comes back, for any number of reapers and any    *)
(* order of their steps.                                                   *)
THEOREM LapsedLeasesWriteNothing == Spec => LapsedLeaseWritesNothing
<1>1. LifecycleInv /\ [Next]_vars =>
        [\A r \in Reapers :
            /\ rpc[r] \in {"proved", "unproved"} /\ SnapUncertain(r)
            /\ rpc'[r] = "idle" /\ ~HoldsRecoveryLease(r)
            => UNCHANGED storeVars]_vars
  <2> SUFFICES ASSUME LifecycleInv, Next, NEW r \in Reapers,
                      rpc[r] \in {"proved", "unproved"}, SnapUncertain(r),
                      rpc'[r] = "idle", ~HoldsRecoveryLease(r)
               PROVE  UNCHANGED storeVars
    OBVIOUS
  <2>1. ~ UNCHANGED reaperVars
    BY DEF reaperVars
  <2>2. PICK q \in Reapers : ReaperStep(q)
    BY <2>1 DEF Next
  <2> QED BY <2>2, LapsedReaper DEF LifecycleInv, TypeOK
<1> QED BY Invariance, <1>1, PTL DEF Spec, LapsedLeaseWritesNothing
=============================================================================
