----------------------- MODULE ToolProvisioningProofs -----------------------
(***************************************************************************)
(* Proofs about ToolProvisioning, for any sets of tools and any number of  *)
(* installations and crashes: ProvisioningInv is inductive, and the safety *)
(* properties follow from it.                                              *)
(*                                                                         *)
(* The argument: at most one task that was never cancelled installs a tool *)
(* (OneLive).  A task with a cancellation pending changes files only by    *)
(* its pip or under the pip lock (Restrained), which none of a tool's      *)
(* tasks has left to do once another one found or made the tool trusted.   *)
(* TaskStepKeeps turns that into a frame rule; one lemma per action        *)
(* supplies its hypotheses.                                                *)
(***************************************************************************)
EXTENDS ToolProvisioning, TLAPS

-----------------------------------------------------------------------------
(* Constants *)

LEMMA SomeTool == Idle.tool \in Tools
  BY ProvisioningAssumption DEF Idle

LEMMA Rows ==
    /\ Idle \in TaskRow /\ Idle.pc = "none" /\ Idle.cancelled = FALSE /\ Idle.spared = FALSE
    /\ Ended \in TaskRow /\ Ended.pc = "done" /\ Ended.cancelled = FALSE /\ Ended.spared = FALSE
    /\ NoRecord \in TrustRow /\ NoRecord.build = 0
    /\ AtRest \in [pc : {"idle", "record", "hashed", "launch"}, tool : Tools, rec : TrustRow]
    /\ AtRest.pc = "idle"
  <1>1. Idle \in TaskRow
    BY SomeTool DEF Idle, TaskRow, Builds
  <1>2. Ended \in TaskRow /\ Ended.pc = "done" /\ Ended.cancelled = FALSE /\ Ended.spared = FALSE
    BY <1>1 DEF Ended, TaskRow, Idle
  <1>3. NoRecord \in TrustRow /\ NoRecord.build = 0
    BY DEF NoRecord, TrustRow, Builds, Trees
  <1>4. /\ AtRest \in [pc : {"idle", "record", "hashed", "launch"}, tool : Tools, rec : TrustRow]
        /\ AtRest.pc = "idle"
    BY <1>3, SomeTool DEF AtRest
  <1> QED BY <1>1, <1>2, <1>3, <1>4 DEF Idle

LEMMA TaskNumbers == Tasks \subseteq Nat /\ NoTask \notin Tasks
  BY ProvisioningAssumption DEF Tasks, NoTask

\* Every tool has one installer class.
LEMMA Classes ==
    /\ Pip \cap Npm = {} /\ Pip \cap Resourced = {} /\ Npm \cap Resourced = {}
    /\ \A t \in Pip \cup Npm \cup Resourced : HasTree(t)
    /\ \A t \in Tools : HasTree(t) <=> t \in Pip \cup Npm \cup Resourced
  BY ProvisioningAssumption DEF HasTree, Tools

-----------------------------------------------------------------------------
(* Initially *)

LEMMA InitInv == Init => ProvisioningInv
  <1> SUFFICES ASSUME Init PROVE ProvisioningInv
    OBVIOUS
  <1>1. ProvisioningTypeOK
    <2>1. exe \in [Tools -> Builds] /\ tree \in [Tools -> Trees]
      BY DEF Init, Builds, Trees
    <2>2. trust \in [Tools -> TrustRow]
      <3>1. CASE trust = [t \in Tools |-> NoRecord]
        BY <3>1, Rows
      <3>2. CASE trust = [t \in Tools |-> [build |-> Old, exe |-> Old, tree |-> tree[t]]]
        BY <2>1, <3>2 DEF TrustRow, Builds
      <3> QED BY <3>1, <3>2 DEF Init
    <2>3. task \in [Tasks -> TaskRow]
      BY Rows DEF Init
    <2> QED BY <2>1, <2>2, <2>3, Rows, ProvisioningAssumption DEF Init, ProvisioningTypeOK
  <1>2. RecordInv
    BY <1>1, Rows DEF Init, RecordInv, Sound, Old, Pin
  <1>3. WorkerInv
    BY Rows DEF Init, WorkerInv
  <1>4. ASSUME NEW i \in Tasks
        PROVE  task[i].pc = "none" /\ LockInv(i) /\ PromotionInv(i) /\ CompletedInv(i) /\ ~Live(i)
    <2>1. task[i].pc = "none" /\ pipLock # i /\ loop # i /\ ~task[i].spared
      BY TaskNumbers, Rows DEF Init
    <2> QED BY <2>1 DEF LockInv, PromotionInv, CompletedInv, Live, Waiting, Promoting
  <1> QED BY <1>1, <1>2, <1>3, <1>4 DEF ProvisioningInv, InstallIsReachable, Init

-----------------------------------------------------------------------------
(* The frame rule of a task's step *)

\* Two tasks that were never cancelled do not install the same tool.
LEMMA OneLive ==
    ASSUME InstallIsReachable, NEW i \in Tasks, NEW j \in Tasks, Live(i), Live(j),
           task[i].tool = task[j].tool
    PROVE  i = j
  BY DEF InstallIsReachable

\* Of the tasks, only i moves; of the files, only those of its tool change.
OnlyTask(i) ==
    /\ task' \in [Tasks -> TaskRow]
    /\ \A j \in Tasks : j # i => task'[j] = task[j]
    /\ task'[i].pc \in {"pip", "check"} => task'[i].tool = task[i].tool

OwnFiles(i) ==
    /\ exe' \in [Tools -> Builds] /\ tree' \in [Tools -> Trees] /\ trust' \in [Tools -> TrustRow]
    /\ \A t \in Tools : t # task[i].tool =>
          exe'[t] = exe[t] /\ tree'[t] = tree[t] /\ trust'[t] = trust[t]
    /\ exe'[task[i].tool] \in {exe[task[i].tool], 0, Pin}
    /\ Sound(task[i].tool, trust'[task[i].tool])

\* A pip that the step leaves behind is one of the task's tool.
OwnStray(i) ==
    /\ orphan' \subseteq Pip
    /\ orphan' \in {orphan, orphan \cup {task[i].tool}}

\* What a task may do once a cancellation is pending, or was swallowed.
Restrained(i) ==
    /\ task'[i].pc \notin {"pip", "check"}
    /\ \/ UNCHANGED <<exe, tree, trust, orphan>>
       \/ task[i].tool \in Pip /\ task[i].pc \in {"pip", "check"}

LEMMA TaskStepKeeps ==
    ASSUME ProvisioningInv, NEW i \in Tasks, OnlyTask(i), OwnFiles(i), OwnStray(i),
           UNCHANGED <<queued, crashes, worker>>,
           task[i].pc # "none",
           Restrained(i) \/ Live(i),
           active' \subseteq active, toTask' \in [Tools -> {NoTask} \cup Tasks],
           \A j \in Tasks : j # i =>
               /\ j \in active => j \in active'
               /\ \A t \in Tools : toTask[t] = j => toTask'[t] = j
               /\ pipLock = j <=> pipLock' = j
               /\ loop = j <=> loop' = j,
           pipLock' \in {NoTask} \cup Tasks, loop' \in {NoTask} \cup Tasks,
           LockInv(i)', PromotionInv(i)', CompletedInv(i)',
           Live(i)' => i \in active' /\ toTask'[task'[i].tool] = i
    PROVE  ProvisioningInv'
  <1>0. /\ ProvisioningTypeOK /\ RecordInv /\ WorkerInv /\ InstallIsReachable
        /\ \A j \in Tasks : LockInv(j) /\ PromotionInv(j) /\ CompletedInv(j)
        /\ \A j \in Tasks : j > queued => task[j].pc = "none"
    BY DEF ProvisioningInv
  <1>1. task[i] \in TaskRow /\ task[i].tool \in Tools
    BY <1>0 DEF ProvisioningTypeOK, TaskRow
  <1>2. ProvisioningTypeOK'
    BY <1>0 DEF ProvisioningTypeOK, OnlyTask, OwnFiles, OwnStray
  <1>3. RecordInv'
    BY <1>0, <1>1 DEF RecordInv, OwnFiles, Sound
  <1>4. WorkerInv'
    <2>1. worker.tool \in Tools
      BY <1>0 DEF ProvisioningTypeOK
    <2>2. exe[worker.tool] \in {0, Pin} => exe'[worker.tool] \in {0, Pin}
      BY <1>1, <2>1 DEF OwnFiles
    <2> QED BY <1>0, <2>2 DEF WorkerInv
  <1>5. ASSUME NEW j \in Tasks, j # i
        PROVE  LockInv(j)' /\ PromotionInv(j)' /\ CompletedInv(j)'
    <2>1. task'[j] = task[j] /\ task[j] \in TaskRow /\ task[j].tool \in Tools
      BY <1>0, <1>5 DEF OnlyTask, ProvisioningTypeOK, TaskRow
    <2>2. (pipLock = j <=> pipLock' = j) /\ (loop = j <=> loop' = j)
      BY <1>5
    <2>3. LockInv(j)'
      BY <1>0, <2>1, <2>2 DEF LockInv
    <2> DEFINE t == task[j].tool
    <2>4. ASSUME Live(j), t \in Pip /\ task[i].tool = t => task[i].pc \notin {"pip", "check"}
          PROVE  /\ exe'[t] = exe[t] /\ tree'[t] = tree[t] /\ trust'[t] = trust[t]
                 /\ t \in orphan' => t \in orphan
                 /\ t \in Pip /\ task'[i].tool = t => task'[i].pc \notin {"pip", "check"}
      <3>1. CASE task[i].tool # t
        BY <2>1, <3>1 DEF OwnFiles, OwnStray, OnlyTask
      <3>2. CASE task[i].tool = t
        <4>1. ~Live(i)
          BY <1>0, <1>5, <2>4, <3>2, OneLive
        <4> QED BY <2>4, <3>2, <4>1 DEF Restrained
      <3> QED BY <3>1, <3>2
    <2>5. PromotionInv(j)'
      <3>1. task[j].pc \in Promoting => Live(j) /\ t \notin Pip
        BY <1>0 DEF PromotionInv, LockInv
      <3>2. task[j].pc \in {"rm", "tree", "rec"} => exe'[t] = exe[t] /\ tree'[t] = tree[t]
        BY <2>4, <3>1 DEF Promoting
      <3> QED BY <1>0, <2>1, <2>2, <3>2 DEF PromotionInv, HasTree, Live
    <2>6. CompletedInv(j)'
      <3> SUFFICES ASSUME task[j].pc \in {"probe", "infoOk"}, Live(j),
                          t \in Pip => task[j].alone
                   PROVE  /\ Assured(task[j].tool)'
                          /\ t \in Pip => t \notin orphan'
                          /\ \A k \in Tasks : k # j /\ t \in Pip /\ task'[k].tool = t
                                => task'[k].pc \notin {"pip", "check"}
        BY <2>1 DEF CompletedInv, Live
      <3>1. /\ Assured(t) /\ (t \in Pip => t \notin orphan)
            /\ \A k \in Tasks : k # j /\ t \in Pip /\ task[k].tool = t
                  => task[k].pc \notin {"pip", "check"}
        BY <1>0 DEF CompletedInv
      <3>2. /\ exe'[t] = exe[t] /\ tree'[t] = tree[t] /\ trust'[t] = trust[t]
            /\ t \in orphan' => t \in orphan
            /\ t \in Pip /\ task'[i].tool = t => task'[i].pc \notin {"pip", "check"}
        BY <1>5, <2>4, <3>1
      <3>3. Assured(task[j].tool)'
        BY <2>1, <3>1, <3>2 DEF Assured, RecordFits, ExeFits, TreeFits, HasTree
      <3> QED BY <3>1, <3>2, <3>3 DEF OnlyTask
    <2> QED BY <2>3, <2>5, <2>6
  <1>6. \A j \in Tasks : LockInv(j)' /\ PromotionInv(j)' /\ CompletedInv(j)'
    BY <1>5
  <1>7. InstallIsReachable'
    <2> SUFFICES ASSUME NEW j \in Tasks, Live(j)', j # i
                 PROVE  j \in active' /\ toTask'[task'[j].tool] = j
      BY DEF InstallIsReachable
    <2>1. task'[j] = task[j] /\ Live(j) /\ task[j].tool \in Tools
      BY <1>0 DEF OnlyTask, Live, ProvisioningTypeOK, TaskRow
    <2>2. j \in active /\ toTask[task[j].tool] = j
      BY <1>0, <2>1 DEF InstallIsReachable
    <2> QED BY <2>1, <2>2
  <1>8. \A j \in Tasks : j > queued' => task'[j].pc = "none"
    BY <1>0 DEF OnlyTask
  <1> QED BY <1>2, <1>3, <1>4, <1>6, <1>7, <1>8 DEF ProvisioningInv

-----------------------------------------------------------------------------
(* Steps of a task *)

Going == Waiting \cup Promoting \cup {"queued"}
Pcs == Going \cup {"none", "done", "dead"}

LEMMA Facts ==
    ASSUME ProvisioningInv, NEW i \in Tasks
    PROVE  /\ ProvisioningTypeOK /\ RecordInv /\ InstallIsReachable
           /\ task[i] \in TaskRow /\ task[i].tool \in Tools
           /\ LockInv(i) /\ PromotionInv(i) /\ CompletedInv(i)
  BY DEF ProvisioningInv, ProvisioningTypeOK, TaskRow

\* Only a task whose install has returned can have swallowed a cancellation.
LEMMA RunsLive ==
    ASSUME ProvisioningInv, NEW i \in Tasks, ~task[i].cancelled,
           task[i].pc \in {"queued", "lock", "probe", "fetch", "pip", "check"}
    PROVE  Live(i)
  BY Facts DEF PromotionInv, Live, Waiting

\* What Goto and Found do to the task.
Moves(i, c) ==
    /\ OnlyTask(i) /\ task'[i].pc = c /\ task'[i].tool = task[i].tool
    /\ ~task'[i].cancelled
    /\ task'[i].spared <=> task[i].spared \/ task[i].cancelled
    /\ c \notin {"infoOk", "infoFail"} => task'[i].staged = task[i].staged

LEMMA MovedRow ==
    ASSUME ProvisioningInv, NEW i \in Tasks, NEW c \in Pcs
    PROVE  LET n == Moved(i, c) IN
           /\ n \in TaskRow /\ n.pc = c /\ n.tool = task[i].tool /\ ~n.cancelled
           /\ n.spared <=> task[i].spared \/ task[i].cancelled
           /\ c \notin {"infoOk", "infoFail"} => n.staged = task[i].staged
           /\ n.alone = task[i].alone
  BY Facts DEF Moved, TaskRow, Pcs, Going, Builds

LEMMA GotoEffect ==
    ASSUME ProvisioningInv, NEW i \in Tasks, NEW c \in Pcs, Goto(i, c)
    PROVE  Moves(i, c) /\ task'[i].alone = task[i].alone
  <1> DEFINE n == Moved(i, c)
  <1>1. task' = [task EXCEPT ![i] = n] /\ task \in [Tasks -> TaskRow]
    BY Facts DEF Goto, ProvisioningTypeOK
  <1>2. /\ n \in TaskRow /\ n.pc = c /\ n.tool = task[i].tool /\ ~n.cancelled
        /\ n.spared <=> task[i].spared \/ task[i].cancelled
        /\ c \notin {"infoOk", "infoFail"} => n.staged = task[i].staged
        /\ n.alone = task[i].alone
    BY MovedRow
  <1> HIDE DEF n
  <1>3. task'[i] = n /\ OnlyTask(i)
    BY <1>1, <1>2 DEF OnlyTask
  <1> QED BY <1>2, <1>3 DEF Moves

LEMMA FoundEffect ==
    ASSUME ProvisioningInv, NEW i \in Tasks, NEW c \in Pcs, Found(i, c)
    PROVE  Moves(i, c) /\ (task'[i].alone => task[i].tool \notin orphan)
  <1> DEFINE n == Moved(i, c)
             m == [n EXCEPT !.alone = task[i].tool \notin orphan]
  <1>1. task' = [task EXCEPT ![i] = m] /\ task \in [Tasks -> TaskRow]
    BY Facts DEF Found, ProvisioningTypeOK
  <1>2. /\ n \in TaskRow /\ n.pc = c /\ n.tool = task[i].tool /\ ~n.cancelled
        /\ n.spared <=> task[i].spared \/ task[i].cancelled
        /\ c \notin {"infoOk", "infoFail"} => n.staged = task[i].staged
    BY MovedRow
  <1> HIDE DEF n
  <1>3. /\ m \in TaskRow /\ m.pc = n.pc /\ m.tool = n.tool /\ m.cancelled = n.cancelled
        /\ m.spared = n.spared /\ m.staged = n.staged
        /\ m.alone = (task[i].tool \notin orphan)
    BY <1>2 DEF TaskRow
  <1> HIDE DEF m
  <1>4. task'[i] = m /\ OnlyTask(i)
    BY <1>1, <1>2, <1>3 DEF OnlyTask
  <1> QED BY <1>2, <1>3, <1>4 DEF Moves

\* A file that the step leaves alone.
LEMMA FilesKept ==
    ASSUME ProvisioningInv, NEW i \in Tasks, UNCHANGED <<exe, tree, trust>>
    PROVE  OwnFiles(i)
  BY Facts DEF OwnFiles, ProvisioningTypeOK, RecordInv

\* A sidecar is removed.
LEMMA FilesUntrusted ==
    ASSUME ProvisioningInv, NEW i \in Tasks, UNCHANGED <<exe, tree>>,
           trust' = trust \/ trust' = Untrusted(task[i].tool)
    PROVE  OwnFiles(i)
  <1>1. CASE trust' = trust
    BY <1>1, FilesKept
  <1>2. CASE trust' = Untrusted(task[i].tool)
    BY <1>2, Facts, Rows DEF OwnFiles, ProvisioningTypeOK, Untrusted, Sound, Pin
  <1> QED BY <1>1, <1>2

LEMMA StrayKept ==
    ASSUME ProvisioningInv, NEW i \in Tasks, UNCHANGED orphan
    PROVE  OwnStray(i)
  BY Facts DEF OwnStray, ProvisioningTypeOK

\* Only a task that works with pip can leave a pip behind.
LEMMA StrayLeft ==
    ASSUME ProvisioningInv, NEW i \in Tasks, orphan' \in Unconfirmed(i)
    PROVE  /\ OwnStray(i)
           /\ task[i].pc # "pip" => orphan' = orphan
           /\ task[i].pc = "pip" => task[i].tool \in Pip
  BY Facts DEF OwnStray, Unconfirmed, ProvisioningTypeOK, LockInv

\* A step of an installation that leaves the tables alone.
LEMMA StepKeeps ==
    ASSUME ProvisioningInv, NEW i \in Tasks, NEW c \in Pcs, Moves(i, c), OwnFiles(i), OwnStray(i),
           task[i].pc \in Going, Restrained(i) \/ Live(i),
           UNCHANGED <<queued, active, toTask, crashes, worker>>,
           pipLock' \in {NoTask} \cup Tasks, loop' \in {NoTask} \cup Tasks,
           \A j \in Tasks : j # i => /\ pipLock = j <=> pipLock' = j
                                     /\ loop = j <=> loop' = j,
           LockInv(i)', PromotionInv(i)', CompletedInv(i)'
    PROVE  ProvisioningInv'
  <1>1. OnlyTask(i) /\ task'[i].tool = task[i].tool
    BY DEF Moves
  <1>2. Live(i)' => Live(i)
    BY DEF Live, Moves, Going
  <1>3. Live(i)' => i \in active' /\ toTask'[task'[i].tool] = i
    BY <1>1, <1>2, Facts DEF InstallIsReachable
  <1>4. active' \subseteq active /\ toTask' \in [Tools -> {NoTask} \cup Tasks]
    BY Facts DEF ProvisioningTypeOK
  <1>5. task[i].pc # "none"
    BY DEF Going, Waiting, Promoting
  <1> QED BY <1>1, <1>3, <1>4, <1>5, TaskStepKeeps

LEMMA LiveStep ==
    ASSUME ProvisioningInv, NEW i \in Tasks, NEW c \in Pcs, Goto(i, c), Live(i), OwnFiles(i),
           UNCHANGED <<orphan, queued, active, toTask, crashes, worker>>,
           pipLock' \in {NoTask} \cup Tasks, loop' \in {NoTask} \cup Tasks,
           \A j \in Tasks : j # i => /\ pipLock = j <=> pipLock' = j
                                     /\ loop = j <=> loop' = j,
           LockInv(i)', PromotionInv(i)', CompletedInv(i)'
    PROVE  ProvisioningInv'
  BY GotoEffect, StrayKept, StepKeeps DEF Live, Going

\* A task that moves on without having found its tool trusted.
LEMMA NothingFound ==
    ASSUME NEW i \in Tasks, task'[i].pc \notin {"probe", "infoOk"}
    PROVE  CompletedInv(i)'
  BY DEF CompletedInv

\* Outside the promotion: the loop is free and stays so.
LEMMA NotPromoting ==
    ASSUME NEW i \in Tasks, task'[i].pc \notin Promoting \cup {"check"}, loop' # i,
           task'[i].spared => task'[i].pc \in {"infoOk", "infoFail"}
    PROVE  PromotionInv(i)'
  BY DEF PromotionInv, Promoting

\* A task that goes on uncancelled, or whose install returns.
LEMMA MovesOn ==
    ASSUME NEW i \in Tasks, NEW c \in Pcs \ (Promoting \cup {"check"}), Moves(i, c), loop' # i,
           c \in {"infoOk", "infoFail"} \/ Live(i)
    PROVE  PromotionInv(i)'
  BY NotPromoting DEF Moves, Live

\* pip works on a tool only under the lock.
LEMMA NoPip ==
    ASSUME ProvisioningInv, NEW i \in Tasks, NEW c, Moves(i, c), pipLock \in {NoTask, i}
    PROVE  \A j \in Tasks : j # i /\ task'[i].tool \in Pip /\ task'[j].tool = task'[i].tool
              => task'[j].pc \notin {"pip", "check"}
  <1> SUFFICES ASSUME NEW j \in Tasks, j # i, task'[i].tool \in Pip, task'[j].tool = task'[i].tool,
                      task'[j].pc \in {"pip", "check"}
               PROVE  FALSE
    OBVIOUS
  <1>1. task'[j] = task[j]
    BY DEF Moves, OnlyTask
  <1>2. pipLock = j
    BY <1>1, Facts DEF LockInv
  <1> QED BY <1>2, TaskNumbers

\* Release of the pip lock.
LEMMA FreeEffect ==
    ASSUME ProvisioningInv, NEW i \in Tasks, pipLock' = Free(i)
    PROVE  /\ pipLock' \in {NoTask} \cup Tasks /\ pipLock' # i
           /\ \A j \in Tasks : j # i => (pipLock = j <=> pipLock' = j)
  BY TaskNumbers DEF Free, ProvisioningInv, ProvisioningTypeOK

LEMMA StartTaskKeeps ==
    ASSUME ProvisioningInv, NEW i \in Tasks, StartTask(i)
    PROVE  ProvisioningInv'
  <1> DEFINE t == task[i].tool
             c == IF t \in Pip THEN "lock" ELSE IF Kept(i) THEN "probe" ELSE "fetch"
  <1>1. /\ task[i].pc = "queued" /\ ~task[i].cancelled /\ Goto(i, c) /\ Live(i)
        /\ c \in {"lock", "probe", "fetch"} /\ c \in Pcs
        /\ UNCHANGED <<exe, tree, orphan, queued, active, toTask, pipLock, loop, crashes, worker>>
        /\ loop = NoTask
        /\ trust' = trust \/ trust' = Untrusted(t)
        /\ c = "probe" => trust' = trust /\ Assured(t)
        /\ c = "lock" <=> t \in Pip
    BY RunsLive DEF StartTask, Kept, Runs, tables, sched, Pcs, Going, Waiting
  <1> HIDE DEF c
  <1>2. task'[i].pc = c /\ task'[i].tool = t
    BY <1>1, GotoEffect DEF Moves
  <1>3. OwnFiles(i)
    BY <1>1, FilesUntrusted
  <1>4. LockInv(i)'
    BY <1>1, <1>2, Facts DEF LockInv, Promoting
  <1>5. PromotionInv(i)'
    BY <1>1, TaskNumbers, GotoEffect, MovesOn DEF Promoting
  <1>6. CompletedInv(i)'
    <2>1. CASE c # "probe"
      BY <1>1, <1>2, <2>1, NothingFound
    <2>2. CASE c = "probe"
      <3>1. Assured(task[i].tool)' /\ task'[i].tool \notin Pip
        BY <1>1, <1>2, <2>2 DEF Assured
      <3> QED BY <3>1 DEF CompletedInv
    <2> QED BY <2>1, <2>2
  <1>7. pipLock' \in {NoTask} \cup Tasks /\ loop' \in {NoTask} \cup Tasks
    BY <1>1, Facts DEF ProvisioningTypeOK
  <1> QED BY <1>1, <1>3, <1>4, <1>5, <1>6, <1>7, LiveStep

LEMMA RefuseInstallKeeps ==
    ASSUME ProvisioningInv, NEW i \in Tasks, RefuseInstall(i)
    PROVE  ProvisioningInv'
  <1>1. /\ task[i].pc \in {"queued", "lock"} /\ ~task[i].cancelled /\ Goto(i, "infoFail")
        /\ Live(i) /\ "infoFail" \in Pcs /\ loop = NoTask
        /\ trust' = trust \/ trust' = Untrusted(task[i].tool)
        /\ UNCHANGED <<exe, tree, orphan, queued, active, toTask, pipLock, loop, crashes, worker>>
    BY RunsLive DEF RefuseInstall, Runs, tables, sched, Pcs, Going, Waiting
  <1>2. task'[i].pc = "infoFail" /\ task'[i].tool = task[i].tool
    BY <1>1, GotoEffect DEF Moves
  <1>3. OwnFiles(i)
    BY <1>1, FilesUntrusted
  <1>4. LockInv(i)'
    BY <1>1, <1>2, Facts DEF LockInv, Promoting
  <1>5. PromotionInv(i)' /\ CompletedInv(i)'
    BY <1>1, <1>2, TaskNumbers, GotoEffect, MovesOn, NothingFound DEF Promoting
  <1>6. pipLock' \in {NoTask} \cup Tasks /\ loop' \in {NoTask} \cup Tasks
    BY <1>1, Facts DEF ProvisioningTypeOK
  <1> QED BY <1>1, <1>3, <1>4, <1>5, <1>6, LiveStep

\* Also a task whose probe has swallowed a cancellation.
LEMMA ProbeInstalledKeeps ==
    ASSUME ProvisioningInv, NEW i \in Tasks, ProbeInstalled(i)
    PROVE  ProvisioningInv'
  <1>1. /\ task[i].pc = "probe" /\ Goto(i, "infoOk") /\ task[i].pc \in Going
        /\ "infoOk" \in Pcs /\ pipLock' = Free(i) /\ loop = NoTask
        /\ UNCHANGED <<exe, tree, trust, orphan, queued, active, toTask, loop, crashes, worker>>
    BY DEF ProbeInstalled, Probed, disk, tables, Pcs, Going, Waiting
  <1>2. Moves(i, "infoOk") /\ task'[i].alone = task[i].alone
    BY <1>1, GotoEffect
  <1>3. task'[i].pc = "infoOk" /\ task'[i].tool = task[i].tool
    BY <1>2 DEF Moves
  <1>4. OwnFiles(i) /\ OwnStray(i) /\ Restrained(i)
    BY <1>1, <1>3, FilesKept, StrayKept DEF Restrained
  <1>5. LockInv(i)'
    BY <1>1, <1>3, FreeEffect DEF LockInv, Promoting
  <1>6. PromotionInv(i)'
    BY <1>1, <1>2, TaskNumbers, MovesOn DEF Promoting
  <1>7. CompletedInv(i)'
    <2> SUFFICES ASSUME Live(i)', task[i].tool \in Pip => task[i].alone
                 PROVE  /\ Assured(task[i].tool)'
                        /\ task[i].tool \in Pip => task[i].tool \notin orphan'
                        /\ \A j \in Tasks : j # i /\ task[i].tool \in Pip /\ task'[j].tool = task[i].tool
                              => task'[j].pc \notin {"pip", "check"}
      BY <1>2, <1>3 DEF CompletedInv
    <2>1. Live(i)
      BY <1>1, <1>2 DEF Live, Moves, Waiting
    <2>2. /\ Assured(task[i].tool) /\ (task[i].tool \in Pip => task[i].tool \notin orphan)
          /\ \A j \in Tasks : j # i /\ task[i].tool \in Pip /\ task[j].tool = task[i].tool
                => task[j].pc \notin {"pip", "check"}
      BY <1>1, <2>1, Facts DEF CompletedInv
    <2>3. Assured(task[i].tool)'
      BY <1>1, <1>3, <2>2 DEF Assured
    <2> QED BY <1>1, <1>2, <2>2, <2>3 DEF Moves, OnlyTask
  <1>8. loop' \in {NoTask} \cup Tasks
    BY <1>1
  <1> QED BY <1>1, <1>2, <1>4, <1>5, <1>6, <1>7, <1>8, FreeEffect, StepKeeps

LEMMA StagedKeeps ==
    ASSUME ProvisioningInv, NEW i \in Tasks, NEW class, Staged(i, class)
    PROVE  ProvisioningInv'
  <1> DEFINE n == [task[i] EXCEPT !.pc = "check", !.staged = Pin]
  <1>1. /\ task[i].pc = "fetch" /\ ~task[i].cancelled /\ Live(i) /\ loop = NoTask
        /\ task' = [task EXCEPT ![i] = n]
        /\ UNCHANGED <<exe, tree, trust, orphan, queued, active, toTask, pipLock, loop, crashes, worker>>
    BY RunsLive DEF Staged, Runs, disk, tables, sched, Waiting, DigestFits
  <1>2. n \in TaskRow /\ n.pc = "check" /\ n.tool = task[i].tool /\ ~n.cancelled
        /\ ~n.spared /\ n.staged = Pin
    BY <1>1, Facts DEF TaskRow, Waiting, Builds, Live
  <1> HIDE DEF n
  <1>3. task'[i] = n /\ OnlyTask(i)
    BY <1>1, <1>2, Facts DEF OnlyTask, ProvisioningTypeOK
  <1>4. OwnFiles(i)
    BY <1>1, FilesKept
  <1>5. task[i].tool \notin Pip /\ pipLock # i
    BY <1>1, Facts DEF LockInv
  <1>6. LockInv(i)'
    BY <1>1, <1>2, <1>3, <1>5 DEF LockInv, Promoting
  <1>7. PromotionInv(i)'
    BY <1>1, <1>2, <1>3, TaskNumbers DEF PromotionInv, Promoting, Live
  <1>8. CompletedInv(i)'
    BY <1>2, <1>3, NothingFound
  <1>9. i \in active' /\ toTask'[task'[i].tool] = i
    BY <1>1, <1>2, <1>3, Facts DEF InstallIsReachable
  <1>10. /\ pipLock' \in {NoTask} \cup Tasks /\ loop' \in {NoTask} \cup Tasks
         /\ toTask' \in [Tools -> {NoTask} \cup Tasks]
    BY <1>1, Facts DEF ProvisioningTypeOK
  <1> QED BY <1>1, <1>3, <1>4, <1>6, <1>7, <1>8, <1>9, <1>10, StrayKept, TaskStepKeeps

LEMMA InstallerFailsKeeps ==
    ASSUME ProvisioningInv, NEW i \in Tasks, InstallerFails(i)
    PROVE  ProvisioningInv'
  <1>1. /\ task[i].pc \in {"fetch", "check"} /\ ~task[i].cancelled /\ Goto(i, "infoFail")
        /\ Live(i) /\ "infoFail" \in Pcs /\ pipLock' = Free(i) /\ loop = NoTask
        /\ trust' = trust \/ trust' = Untrusted(task[i].tool)
        /\ UNCHANGED <<exe, tree, orphan, queued, active, toTask, loop, crashes, worker>>
    BY RunsLive DEF InstallerFails, Runs, tables, Pcs, Going, Waiting
  <1>2. task'[i].pc = "infoFail" /\ task'[i].tool = task[i].tool
    BY <1>1, GotoEffect DEF Moves
  <1>3. OwnFiles(i)
    BY <1>1, FilesUntrusted
  <1>4. LockInv(i)'
    BY <1>1, <1>2, FreeEffect DEF LockInv, Promoting
  <1>5. PromotionInv(i)' /\ CompletedInv(i)'
    BY <1>1, <1>2, TaskNumbers, GotoEffect, MovesOn, NothingFound DEF Promoting
  <1>6. loop' \in {NoTask} \cup Tasks
    BY <1>1
  <1> QED BY <1>1, <1>3, <1>4, <1>5, <1>6, FreeEffect, LiveStep

LEMMA BeginPromotionKeeps ==
    ASSUME ProvisioningInv, NEW i \in Tasks, BeginPromotion(i)
    PROVE  ProvisioningInv'
  <1> DEFINE c == IF task[i].tool \in Npm THEN "rm" ELSE "bin"
  <1>1. /\ task[i].pc = "check" /\ ~task[i].cancelled /\ Goto(i, c) /\ Live(i)
        /\ c \in Pcs /\ c \in {"rm", "bin"} /\ (c = "rm" <=> task[i].tool \in Npm)
        /\ loop = NoTask /\ loop' = i /\ task[i].tool \notin Pip
        /\ UNCHANGED <<exe, tree, trust, orphan, queued, active, toTask, pipLock, crashes, worker>>
    BY RunsLive DEF BeginPromotion, Runs, disk, tables, Pcs, Going, Waiting, Promoting
  <1> HIDE DEF c
  <1>2. task'[i].pc = c /\ task'[i].tool = task[i].tool /\ task'[i].staged = task[i].staged
        /\ ~task'[i].cancelled /\ ~task'[i].spared
    BY <1>1, GotoEffect DEF Moves, Live
  <1>3. OwnFiles(i)
    BY <1>1, FilesKept
  <1>4. LockInv(i)'
    BY <1>1, <1>2, Facts DEF LockInv, Promoting
  <1>5. task[i].tool \notin Resourced \/ c = "bin"
    BY <1>1, Classes
  <1>6. PromotionInv(i)'
    BY <1>1, <1>2, <1>5, Facts DEF PromotionInv, Promoting, Live
  <1>7. CompletedInv(i)'
    BY <1>1, <1>2, NothingFound
  <1>8. pipLock' \in {NoTask} \cup Tasks /\ \A j \in Tasks : j # i => (loop = j <=> loop' = j)
    BY <1>1, Facts, TaskNumbers DEF ProvisioningTypeOK
  <1> QED BY <1>1, <1>3, <1>4, <1>6, <1>7, <1>8, LiveStep

-----------------------------------------------------------------------------
(* Promotion *)

\* A task that promotes owns the event loop and is not cancelled.
LEMMA Promoter ==
    ASSUME ProvisioningInv, NEW i \in Tasks, task[i].pc \in Promoting
    PROVE  /\ Live(i) /\ loop = i /\ task[i].tool \notin Pip /\ pipLock # i
           /\ task[i].staged = Pin /\ ~task[i].cancelled
           /\ task[i].tool \in Tools
           /\ pipLock \in {NoTask} \cup Tasks
  BY Facts DEF Live, LockInv, PromotionInv, ProvisioningTypeOK

LEMMA PromoteBinaryKeeps ==
    ASSUME ProvisioningInv, NEW i \in Tasks, PromoteBinary(i)
    PROVE  ProvisioningInv'
  <1> DEFINE t == task[i].tool
             c == AfterBinary(t)
  <1>1. /\ task[i].pc = "bin" /\ task[i].pc \in Promoting /\ Goto(i, c)
        /\ c \in Pcs /\ c \in {"rm", "rec"} /\ (c = "rm" <=> t \in Resourced)
        /\ exe' = [exe EXCEPT ![t] = task[i].staged]
        /\ UNCHANGED <<tree, trust, orphan, queued, active, toTask, pipLock, loop, crashes, worker>>
    BY DEF PromoteBinary, AfterBinary, tables, sched, Pcs, Going, Promoting
  <1> HIDE DEF c
  <1>2. task'[i].pc = c /\ task'[i].tool = t /\ task'[i].staged = Pin /\ ~task'[i].cancelled
        /\ ~task'[i].spared
    BY <1>1, GotoEffect, Promoter DEF Moves, Live
  <1>3. exe' \in [Tools -> Builds] /\ exe'[t] = Pin /\ \A s \in Tools : s # t => exe'[s] = exe[s]
    BY <1>1, Facts, Promoter DEF ProvisioningTypeOK, Builds
  <1>4. OwnFiles(i)
    BY <1>1, <1>3, Facts DEF OwnFiles, ProvisioningTypeOK, RecordInv
  <1>5. t \notin Npm /\ t \notin Pip
    BY <1>1, Facts DEF LockInv, Promoting
  <1>6. LockInv(i)'
    BY <1>1, <1>2, <1>5, Promoter DEF LockInv, Promoting
  <1>7. c = "rec" => ~HasTree(t)
    BY <1>1, <1>5, Promoter, Classes
  <1>8. PromotionInv(i)'
    BY <1>1, <1>2, <1>3, <1>7, Promoter DEF PromotionInv, Promoting, HasTree, Live
  <1>9. CompletedInv(i)'
    BY <1>1, <1>2, NothingFound
  <1> QED BY <1>1, <1>4, <1>6, <1>8, <1>9, Promoter, LiveStep

LEMMA ClearTreeKeeps ==
    ASSUME ProvisioningInv, NEW i \in Tasks, ClearTree(i)
    PROVE  ProvisioningInv'
  <1> DEFINE t == task[i].tool
  <1>1. /\ task[i].pc = "rm" /\ task[i].pc \in Promoting /\ Goto(i, "tree") /\ "tree" \in Pcs
        /\ tree' = [tree EXCEPT ![t] = IF @ = 0 THEN 0 ELSE Part]
        /\ exe' \in {exe, IF t \in Npm THEN [exe EXCEPT ![t] = 0] ELSE exe}
        /\ UNCHANGED <<trust, orphan, queued, active, toTask, pipLock, loop, crashes, worker>>
    BY DEF ClearTree, tables, sched, Pcs, Going, Promoting
  <1>2. task'[i].pc = "tree" /\ task'[i].tool = t /\ task'[i].staged = Pin /\ ~task'[i].cancelled
        /\ ~task'[i].spared
    BY <1>1, GotoEffect, Promoter DEF Moves, Live
  <1>3. tree' \in [Tools -> Trees] /\ \A s \in Tools : s # t => tree'[s] = tree[s]
    BY <1>1, Facts DEF ProvisioningTypeOK, Trees, Builds
  <1>4. /\ exe' \in [Tools -> Builds] /\ exe'[t] \in {exe[t], 0}
        /\ \A s \in Tools : s # t => exe'[s] = exe[s]
        /\ t \notin Npm => exe'[t] = exe[t]
    BY <1>1, Facts DEF ProvisioningTypeOK, Builds
  <1>5. OwnFiles(i)
    BY <1>1, <1>3, <1>4, Facts DEF OwnFiles, ProvisioningTypeOK, RecordInv
  <1>6. LockInv(i)'
    BY <1>1, <1>2, Facts, Promoter DEF LockInv, Promoting
  <1>7. t \in Resourced => exe'[t] = Pin
    BY <1>1, <1>4, Facts, Classes DEF PromotionInv
  <1>8. PromotionInv(i)'
    BY <1>1, <1>2, <1>7, Promoter DEF PromotionInv, Promoting, Live
  <1>9. CompletedInv(i)'
    BY <1>2, NothingFound
  <1> QED BY <1>1, <1>5, <1>6, <1>8, <1>9, Promoter, LiveStep

LEMMA ReplaceTreeKeeps ==
    ASSUME ProvisioningInv, NEW i \in Tasks, ReplaceTree(i)
    PROVE  ProvisioningInv'
  <1> DEFINE t == task[i].tool
  <1>1. /\ task[i].pc = "tree" /\ task[i].pc \in Promoting /\ Goto(i, "rec") /\ "rec" \in Pcs
        /\ tree' = [tree EXCEPT ![t] = task[i].staged]
        /\ exe' = IF t \in Npm THEN [exe EXCEPT ![t] = task[i].staged] ELSE exe
        /\ trust' = IF t \in Npm THEN Untrusted(t) ELSE trust
        /\ UNCHANGED <<orphan, queued, active, toTask, pipLock, loop, crashes, worker>>
    BY DEF ReplaceTree, tables, sched, Pcs, Going, Promoting
  <1>2. task'[i].pc = "rec" /\ task'[i].tool = t /\ task'[i].staged = Pin /\ ~task'[i].cancelled
        /\ ~task'[i].spared
    BY <1>1, GotoEffect, Promoter DEF Moves, Live
  <1>3. tree' \in [Tools -> Trees] /\ tree'[t] = Pin /\ \A s \in Tools : s # t => tree'[s] = tree[s]
    BY <1>1, Facts, Promoter DEF ProvisioningTypeOK, Trees, Builds
  <1>4. /\ exe' \in [Tools -> Builds]
        /\ \A s \in Tools : s # t => exe'[s] = exe[s]
        /\ exe'[t] = IF t \in Npm THEN Pin ELSE exe[t]
    BY <1>1, Facts, Promoter DEF ProvisioningTypeOK, Builds
  <1>5. /\ trust' \in [Tools -> TrustRow] /\ \A s \in Tools : s # t => trust'[s] = trust[s]
        /\ trust'[t] \in {trust[t], NoRecord}
    BY <1>1, Facts, Rows DEF ProvisioningTypeOK, Untrusted
  <1>6. Sound(t, trust'[t])
    BY <1>5, Facts, Rows DEF RecordInv, Sound, Pin
  <1>7. OwnFiles(i)
    BY <1>3, <1>4, <1>5, <1>6 DEF OwnFiles
  <1>8. LockInv(i)'
    BY <1>1, <1>2, Facts, Promoter DEF LockInv, Promoting
  <1>9. exe'[t] = Pin
    BY <1>1, <1>4, Facts DEF PromotionInv, LockInv
  <1>10. PromotionInv(i)'
    BY <1>1, <1>2, <1>3, <1>9, Promoter DEF PromotionInv, Promoting, Live
  <1>11. CompletedInv(i)'
    BY <1>2, NothingFound
  <1> QED BY <1>1, <1>7, <1>8, <1>10, <1>11, Promoter, LiveStep

\* The sidecar that ends a promotion.
LEMMA PromoteRecordKeeps ==
    ASSUME ProvisioningInv, NEW i \in Tasks, PromoteRecord(i)
    PROVE  ProvisioningInv'
  <1> DEFINE t == task[i].tool
             r == IF t \in Resourced THEN RecordOf(t) ELSE StagedRecord(i)
  <1>1. /\ task[i].pc = "rec" /\ task[i].pc \in Promoting /\ Goto(i, "infoOk") /\ "infoOk" \in Pcs
        /\ trust' = [trust EXCEPT ![t] = r] /\ loop' = NoTask
        /\ UNCHANGED <<exe, tree, orphan, queued, active, toTask, pipLock, crashes, worker>>
    BY DEF PromoteRecord, tables, Pcs, Going, Promoting, Waiting
  <1>2. task'[i].pc = "infoOk" /\ task'[i].tool = t
    BY <1>1, GotoEffect DEF Moves
  <1>3. exe[t] = Pin /\ (HasTree(t) => tree[t] = Pin) /\ task[i].staged = Pin
    BY <1>1, Facts, Promoter DEF PromotionInv
  <1>4. r = [build |-> Pin, exe |-> Pin, tree |-> IF HasTree(t) THEN Pin ELSE 0]
    BY <1>3 DEF RecordOf, StagedRecord, TreeDigest
  <1>5. r \in TrustRow /\ Sound(t, r) /\ r.build = Pin /\ r.exe = Pin /\ (HasTree(t) => r.tree = Pin)
    BY <1>4 DEF TrustRow, Builds, Trees, Sound
  <1>6. r # NoRecord
    BY <1>5, Rows DEF Pin
  <1> HIDE DEF r
  <1>7. /\ trust' \in [Tools -> TrustRow] /\ trust'[t] = r
        /\ \A s \in Tools : s # t => trust'[s] = trust[s]
    BY <1>1, <1>5, Facts DEF ProvisioningTypeOK
  <1>8. OwnFiles(i)
    BY <1>1, <1>5, <1>7, Facts DEF OwnFiles, ProvisioningTypeOK
  <1>9. LockInv(i)'
    BY <1>1, <1>2, Promoter DEF LockInv, Promoting
  <1>10. PromotionInv(i)'
    BY <1>1, <1>2, TaskNumbers, GotoEffect, MovesOn DEF Promoting
  <1>11. Assured(task[i].tool)'
    <2>1. RecordFits(r) /\ ExeFits(r, exe[t])
      BY <1>3, <1>5, <1>6 DEF RecordFits, ExeFits, Pin
    <2>2. TreeFits(t, r, tree[t])
      BY <1>1, <1>3, <1>5, Promoter DEF TreeFits
    <2> QED BY <1>1, <1>2, <1>7, <2>1, <2>2 DEF Assured
  <1>12. CompletedInv(i)'
    <2>1. task'[i].tool \notin Pip
      BY <1>1, <1>2, Promoter
    <2> QED BY <1>2, <1>11, <2>1 DEF CompletedInv
  <1>13. \A j \in Tasks : j # i => (loop = j <=> loop' = j)
    BY <1>1, Promoter, TaskNumbers
  <1> QED BY <1>1, <1>8, <1>9, <1>10, <1>12, <1>13, Promoter, LiveStep

LEMMA PromotionFailsKeeps ==
    ASSUME ProvisioningInv, NEW i \in Tasks, PromotionFails(i)
    PROVE  ProvisioningInv'
  <1>1. /\ task[i].pc \in Promoting /\ Goto(i, "infoFail") /\ "infoFail" \in Pcs /\ loop' = NoTask
        /\ UNCHANGED <<exe, tree, trust, orphan, queued, active, toTask, pipLock, crashes, worker>>
    BY DEF PromotionFails, disk, tables, Pcs, Going, Waiting
  <1>2. task'[i].pc = "infoFail" /\ task'[i].tool = task[i].tool
    BY <1>1, GotoEffect DEF Moves
  <1>3. OwnFiles(i)
    BY <1>1, FilesKept
  <1>4. LockInv(i)'
    BY <1>1, <1>2, Promoter DEF LockInv, Promoting
  <1>5. PromotionInv(i)' /\ CompletedInv(i)'
    BY <1>1, <1>2, TaskNumbers, GotoEffect, MovesOn, NothingFound DEF Promoting
  <1>6. \A j \in Tasks : j # i => (loop = j <=> loop' = j)
    BY <1>1, Promoter, TaskNumbers
  <1> QED BY <1>1, <1>3, <1>4, <1>5, <1>6, Promoter, LiveStep

-----------------------------------------------------------------------------
(* The pip installer *)

LEMMA AcquirePipKeeps ==
    ASSUME ProvisioningInv, NEW i \in Tasks, AcquirePip(i)
    PROVE  ProvisioningInv'
  <1> DEFINE t == task[i].tool
  <1>1. /\ task[i].pc = "lock" /\ ~task[i].cancelled /\ Live(i) /\ task[i].pc \in Going
        /\ "pip" \in Pcs /\ "probe" \in Pcs
        /\ loop = NoTask /\ pipLock = NoTask /\ pipLock' = i
        /\ \/ Assured(t) /\ Found(i, "probe") /\ trust' = trust
           \/ Goto(i, "pip") /\ trust' = Untrusted(t)
        /\ UNCHANGED <<exe, tree, orphan, queued, active, toTask, loop, crashes, worker>>
    BY RunsLive DEF AcquirePip, Kept, Runs, tables, Pcs, Going, Waiting
  <1>2. PICK c \in {"probe", "pip"} :
            /\ Moves(i, c)
            /\ c = "probe" => /\ Assured(t) /\ trust' = trust
                              /\ task'[i].alone => t \notin orphan
    BY <1>1, GotoEffect, FoundEffect
  <1>3. task'[i].pc = c /\ task'[i].tool = t /\ c \in Pcs
    BY <1>1, <1>2 DEF Moves
  <1>4. OwnFiles(i) /\ OwnStray(i)
    BY <1>1, FilesUntrusted, StrayKept
  <1>5. t \in Pip
    BY <1>1, Facts DEF LockInv
  <1>6. LockInv(i)'
    BY <1>1, <1>2, <1>3, <1>5 DEF LockInv, Promoting
  <1>7. PromotionInv(i)'
    BY <1>1, <1>2, <1>3, TaskNumbers, MovesOn DEF Promoting
  <1>8. CompletedInv(i)'
    <2>1. CASE c = "pip"
      BY <1>3, <2>1, NothingFound
    <2>2. CASE c = "probe"
      <3>1. Assured(task[i].tool)'
        BY <1>1, <1>2, <1>3, <2>2 DEF Assured
      <3>2. \A j \in Tasks : j # i /\ task'[i].tool \in Pip /\ task'[j].tool = task'[i].tool
               => task'[j].pc \notin {"pip", "check"}
        BY <1>1, <1>2, NoPip
      <3> QED BY <1>1, <1>2, <1>3, <2>2, <3>1, <3>2 DEF CompletedInv
    <2> QED BY <2>1, <2>2
  <1>9. loop' \in {NoTask} \cup Tasks /\ \A j \in Tasks : j # i => (pipLock = j <=> pipLock' = j)
    BY <1>1, TaskNumbers
  <1> QED BY <1>1, <1>2, <1>3, <1>4, <1>6, <1>7, <1>8, <1>9, StepKeeps

LEMMA PipSucceedsKeeps ==
    ASSUME ProvisioningInv, NEW i \in Tasks, PipSucceeds(i)
    PROVE  ProvisioningInv'
  <1> DEFINE t == task[i].tool
  <1>1. /\ task[i].pc = "pip" /\ ~task[i].cancelled /\ Live(i) /\ Goto(i, "check")
        /\ "check" \in Pcs /\ loop = NoTask
        /\ \/ tree' = [tree EXCEPT ![t] = Pin] /\ exe' = [exe EXCEPT ![t] = Pin]
           \/ UNCHANGED <<tree, exe>>
        /\ UNCHANGED <<trust, orphan, queued, active, toTask, pipLock, loop, crashes, worker>>
    BY RunsLive DEF PipSucceeds, Runs, tables, sched, Pcs, Going, Waiting
  <1>2. task'[i].pc = "check" /\ task'[i].tool = t
    BY <1>1, GotoEffect DEF Moves
  <1>3. /\ exe' \in [Tools -> Builds] /\ tree' \in [Tools -> Trees]
        /\ \A s \in Tools : s # t => exe'[s] = exe[s] /\ tree'[s] = tree[s]
        /\ exe'[t] \in {exe[t], Pin}
    BY <1>1, Facts DEF ProvisioningTypeOK, Builds, Trees
  <1>4. OwnFiles(i)
    BY <1>1, <1>3, Facts DEF OwnFiles, ProvisioningTypeOK, RecordInv
  <1>5. t \in Pip /\ pipLock = i
    BY <1>1, Facts DEF LockInv
  <1>6. LockInv(i)'
    BY <1>1, <1>2, <1>5 DEF LockInv, Promoting
  <1>7. PromotionInv(i)'
    BY <1>1, <1>2, <1>5, TaskNumbers, GotoEffect DEF PromotionInv, Promoting, Live, Moves
  <1>8. CompletedInv(i)'
    BY <1>2, NothingFound
  <1>9. pipLock' \in {NoTask} \cup Tasks /\ loop' \in {NoTask} \cup Tasks
    BY <1>1, Facts DEF ProvisioningTypeOK
  <1> QED BY <1>1, <1>4, <1>6, <1>7, <1>8, <1>9, LiveStep

\* A command of the installer fails, or its cancellation is taken for a failure.
LEMMA CommandFails ==
    ASSUME ProvisioningInv, NEW i \in Tasks, task[i].pc \in Going, Goto(i, "infoFail"),
           Live(i) \/ task[i].tool \notin Pip \/ task[i].pc \in {"pip", "check"},
           loop = NoTask, loop' = NoTask, pipLock' = Free(i), orphan' \in Unconfirmed(i),
           UNCHANGED <<exe, tree, queued, active, toTask, crashes, worker>>,
           trust' = IF task[i].tool \in Pip THEN Untrusted(task[i].tool) ELSE trust
    PROVE  ProvisioningInv'
  <1>1. "infoFail" \in Pcs
    BY DEF Pcs, Going, Waiting
  <1>2. Moves(i, "infoFail")
    BY <1>1, GotoEffect
  <1>3. task'[i].pc = "infoFail" /\ task'[i].tool = task[i].tool
    BY <1>2 DEF Moves
  <1>4. OwnFiles(i)
    BY FilesUntrusted
  <1>5. OwnStray(i) /\ (task[i].tool \notin Pip => orphan' = orphan)
    BY StrayLeft
  <1>6. Restrained(i) \/ Live(i)
    BY <1>3, <1>5 DEF Restrained
  <1>7. LockInv(i)'
    BY <1>3, FreeEffect DEF LockInv, Promoting
  <1>8. PromotionInv(i)' /\ CompletedInv(i)'
    BY <1>1, <1>2, <1>3, TaskNumbers, MovesOn, NothingFound DEF Promoting
  <1> QED BY <1>1, <1>2, <1>4, <1>5, <1>6, <1>7, <1>8, FreeEffect, StepKeeps

LEMMA PipFailsKeeps ==
    ASSUME ProvisioningInv, NEW i \in Tasks, PipFails(i)
    PROVE  ProvisioningInv'
  <1>1. /\ task[i].pc = "pip" /\ task[i].pc \in Going /\ Goto(i, "infoFail")
        /\ loop = NoTask /\ loop' = NoTask /\ pipLock' = Free(i) /\ orphan' \in Unconfirmed(i)
        /\ trust' = Untrusted(task[i].tool)
        /\ UNCHANGED <<exe, tree, queued, active, toTask, crashes, worker>>
    BY DEF PipFails, Runs, tables, Going, Waiting
  <1>2. task[i].tool \in Pip
    BY <1>1, Facts DEF LockInv
  <1> QED BY <1>1, <1>2, CommandFails

LEMMA SurviveCancellationKeeps ==
    ASSUME ProvisioningInv, NEW i \in Tasks, SurviveCancellation(i)
    PROVE  ProvisioningInv'
  <1>1. /\ task[i].pc \in {"fetch", "pip", "check"} /\ task[i].pc \in Going /\ Goto(i, "infoFail")
        /\ loop = NoTask /\ loop' = NoTask /\ pipLock' = Free(i) /\ orphan' \in Unconfirmed(i)
        /\ trust' = IF task[i].tool \in Pip THEN Untrusted(task[i].tool) ELSE trust
        /\ UNCHANGED <<exe, tree, queued, active, toTask, crashes, worker>>
    BY DEF SurviveCancellation, Catches, tables, Going, Waiting
  <1>2. task[i].tool \notin Pip \/ task[i].pc \in {"pip", "check"}
    BY <1>1, Facts DEF LockInv
  <1> QED BY <1>1, <1>2, CommandFails

LEMMA RegisterPackageKeeps ==
    ASSUME ProvisioningInv, NEW i \in Tasks, RegisterPackage(i)
    PROVE  ProvisioningInv'
  <1> DEFINE t == task[i].tool
             r == RecordOf(t)
  <1>1. /\ task[i].pc = "check" /\ task[i].pc \in Going /\ t \in Pip
        /\ "infoOk" \in Pcs /\ "infoFail" \in Pcs
        /\ \/ EnvironmentWhole(t) /\ Found(i, "infoOk") /\ trust' = [trust EXCEPT ![t] = r]
           \/ Goto(i, "infoFail") /\ trust' = Untrusted(t)
        /\ loop = NoTask /\ pipLock' = Free(i)
        /\ UNCHANGED <<exe, tree, orphan, queued, active, toTask, loop, crashes, worker>>
    BY DEF RegisterPackage, Probed, tables, Pcs, Going, Waiting
  <1>2. EnvironmentWhole(t) => /\ r \in TrustRow /\ Sound(t, r) /\ RecordFits(r)
                               /\ ExeFits(r, exe[t]) /\ TreeFits(t, r, tree[t])
    <2>1. HasTree(t)
      BY <1>1, Classes
    <2>2. EnvironmentWhole(t) => /\ r = [build |-> Pin, exe |-> Pin, tree |-> Pin]
                                 /\ exe[t] = Pin /\ tree[t] = Pin
      BY <2>1 DEF EnvironmentWhole, RecordOf, TreeDigest
    <2> QED BY <2>2, Rows DEF RecordFits, ExeFits, TreeFits, Pin, Part, TrustRow, Builds, Trees, Sound
  <1> HIDE DEF r
  <1>3. PICK c \in {"infoOk", "infoFail"} :
            /\ Moves(i, c)
            /\ c = "infoOk" => /\ EnvironmentWhole(t) /\ trust' = [trust EXCEPT ![t] = r]
                               /\ task'[i].alone => t \notin orphan
            /\ c = "infoFail" => trust' = Untrusted(t)
    BY <1>1, GotoEffect, FoundEffect
  <1>4. task'[i].pc = c /\ task'[i].tool = t /\ c \in Pcs
    BY <1>1, <1>3 DEF Moves
  <1>5. c = "infoOk" => /\ trust' \in [Tools -> TrustRow] /\ trust'[t] = r
                        /\ \A s \in Tools : s # t => trust'[s] = trust[s]
    BY <1>2, <1>3, Facts DEF ProvisioningTypeOK
  <1>6. OwnFiles(i) /\ OwnStray(i)
    <2>1. CASE c = "infoOk"
      BY <1>1, <1>2, <1>3, <1>5, <2>1, Facts, StrayKept DEF OwnFiles, ProvisioningTypeOK
    <2>2. CASE c = "infoFail"
      BY <1>1, <1>3, <2>2, FilesUntrusted, StrayKept
    <2> QED BY <2>1, <2>2
  <1>7. LockInv(i)'
    BY <1>1, <1>3, <1>4, FreeEffect DEF LockInv, Promoting
  <1>8. PromotionInv(i)'
    BY <1>1, <1>3, <1>4, TaskNumbers, MovesOn DEF Promoting
  <1>9. CompletedInv(i)'
    <2>1. CASE c = "infoFail"
      BY <1>4, <2>1, NothingFound
    <2>2. CASE c = "infoOk"
      <3>1. Assured(task[i].tool)'
        BY <1>1, <1>2, <1>3, <1>4, <1>5, <2>2 DEF Assured
      <3>2. pipLock = i
        BY <1>1, Facts DEF LockInv
      <3>3. \A j \in Tasks : j # i /\ task'[i].tool \in Pip /\ task'[j].tool = task'[i].tool
               => task'[j].pc \notin {"pip", "check"}
        BY <1>3, <3>2, NoPip
      <3> QED BY <1>1, <1>3, <1>4, <2>2, <3>1, <3>3 DEF CompletedInv
    <2> QED BY <2>1, <2>2
  <1>10. loop' \in {NoTask} \cup Tasks /\ Restrained(i)
    BY <1>1, <1>3, <1>4 DEF Restrained
  <1> QED BY <1>1, <1>3, <1>4, <1>6, <1>7, <1>8, <1>9, <1>10, FreeEffect, StepKeeps

-----------------------------------------------------------------------------
(* The end of a task *)

LEMMA EndKeeps ==
    ASSUME ProvisioningInv, NEW i \in Tasks, NEW n \in TaskRow, n.pc \in {"done", "dead"}, ~n.spared,
           task' = [task EXCEPT ![i] = n], task[i].pc # "none", loop = NoTask, loop' = NoTask,
           UNCHANGED <<exe, tree, trust, queued, crashes, worker>>, orphan' \in Unconfirmed(i),
           active' \in {active, active \ {i}},
           toTask' \in {toTask} \cup {[toTask EXCEPT ![t] = NoTask] : t \in {s \in Tools : toTask[s] = i}},
           pipLock' = Free(i)
    PROVE  ProvisioningInv'
  <1>1. task'[i] = n /\ OnlyTask(i)
    BY Facts DEF OnlyTask, ProvisioningTypeOK
  <1>2. OwnFiles(i)
    BY FilesKept
  <1>3. LockInv(i)'
    BY <1>1, FreeEffect DEF LockInv, Promoting
  <1>4. PromotionInv(i)' /\ CompletedInv(i)'
    BY <1>1, TaskNumbers, NotPromoting, NothingFound DEF Promoting
  <1>5. ~Live(i)'
    BY <1>1 DEF Live, Waiting, Promoting
  <1>6. toTask' \in [Tools -> {NoTask} \cup Tasks]
        /\ \A j \in Tasks, t \in Tools : j # i /\ toTask[t] = j => toTask'[t] = j
    BY Facts DEF ProvisioningTypeOK
  <1>7. active' \subseteq active /\ \A j \in Tasks : j # i /\ j \in active => j \in active'
    OBVIOUS
  <1>8. OwnStray(i) /\ Restrained(i)
    BY <1>1, StrayLeft DEF Restrained
  <1> QED BY <1>1, <1>2, <1>3, <1>4, <1>5, <1>6, <1>7, <1>8, FreeEffect, TaskStepKeeps

\* The finally of a task clears at most its own entries.
LEMMA PopEffect ==
    ASSUME ProvisioningInv, NEW i \in Tasks, PopTables(i)
    PROVE  /\ active' \in {active, active \ {i}}
           /\ toTask' \in {toTask}
                 \cup {[toTask EXCEPT ![t] = NoTask] : t \in {s \in Tools : toTask[s] = i}}
  BY Facts DEF PopTables

LEMMA DropUnstartedKeeps ==
    ASSUME ProvisioningInv, NEW i \in Tasks, DropUnstarted(i)
    PROVE  ProvisioningInv'
  <1> DEFINE n == [Ended EXCEPT !.pc = "dead"]
  <1>1. n \in TaskRow /\ n.pc = "dead" /\ ~n.spared
    BY Rows DEF TaskRow
  <1>2. /\ task' = [task EXCEPT ![i] = n] /\ loop = NoTask /\ task[i].pc = "queued"
        /\ UNCHANGED <<exe, tree, trust, orphan, queued, active, toTask, pipLock, loop, crashes, worker>>
    BY DEF DropUnstarted, disk, tables, sched
  <1>3. pipLock # i /\ orphan' \in Unconfirmed(i)
    BY <1>2, Facts DEF LockInv, Unconfirmed
  <1> HIDE DEF n
  <1> QED BY <1>1, <1>2, <1>3, EndKeeps DEF Free

LEMMA FinishTaskKeeps ==
    ASSUME ProvisioningInv, NEW i \in Tasks, FinishTask(i)
    PROVE  ProvisioningInv'
  <1>1. /\ task' = [task EXCEPT ![i] = Ended] /\ loop = NoTask /\ task[i].pc \in {"infoOk", "infoFail"}
        /\ PopTables(i)
        /\ UNCHANGED <<exe, tree, trust, orphan, queued, pipLock, loop, crashes, worker>>
    BY DEF FinishTask, Probed, disk, sched
  <1>2. pipLock # i /\ orphan' \in Unconfirmed(i)
    BY <1>1, Facts DEF LockInv, Unconfirmed
  <1> QED BY <1>1, <1>2, Rows, PopEffect, EndKeeps DEF Free

LEMMA AbortTaskKeeps ==
    ASSUME ProvisioningInv, NEW i \in Tasks, AbortTask(i)
    PROVE  ProvisioningInv'
  <1>1. /\ task' = [task EXCEPT ![i] = Ended] /\ loop = NoTask /\ task[i].pc # "none"
        /\ PopTables(i) /\ pipLock' = Free(i) /\ orphan' \in Unconfirmed(i)
        /\ UNCHANGED <<exe, tree, trust, queued, loop, crashes, worker>>
    BY DEF AbortTask, Waiting
  <1> QED BY <1>1, Rows, PopEffect, EndKeeps

\* The process dies: no task is left.
LEMMA CrashApiKeeps ==
    ASSUME ProvisioningInv, CrashApi
    PROVE  ProvisioningInv'
  <1>0. /\ ProvisioningTypeOK /\ RecordInv /\ WorkerInv
        /\ \A j \in Tasks : LockInv(j)
        /\ \A j \in Tasks : j > queued => task[j].pc = "none"
    BY DEF ProvisioningInv
  <1>1. ASSUME NEW i \in Tasks
        PROVE  task'[i] \in TaskRow /\ task'[i].pc \in {"none", "done"} /\ ~task'[i].spared
               /\ (i > queued => task'[i].pc = "none")
    BY <1>0, Rows DEF CrashApi
  <1>2. /\ crashes' = crashes + 1 /\ crashes' \in 0 .. MaxCrashes /\ crashes' # 0
    BY <1>0, ProvisioningAssumption DEF CrashApi, ProvisioningTypeOK
  <1>3. orphan' \subseteq Pip
    BY <1>0 DEF CrashApi, ProvisioningTypeOK, LockInv
  <1>4. UNCHANGED <<exe, tree, trust, queued, worker>> /\ active' = {} /\ pipLock' = NoTask /\ loop' = NoTask
        /\ toTask' = [t \in Tools |-> NoTask] /\ task' = [i \in Tasks |-> task'[i]]
    BY DEF CrashApi
  <1>5. task' \in [Tasks -> TaskRow]
    BY <1>1, <1>4
  <1>6. ProvisioningTypeOK'
    BY <1>0, <1>2, <1>3, <1>4, <1>5 DEF ProvisioningTypeOK
  <1>7. RecordInv' /\ WorkerInv'
    BY <1>0, <1>4 DEF RecordInv, Sound, WorkerInv
  <1>8. ASSUME NEW i \in Tasks
        PROVE  LockInv(i)' /\ PromotionInv(i)' /\ CompletedInv(i)' /\ ~Live(i)'
    BY <1>1, <1>4, TaskNumbers DEF LockInv, PromotionInv, CompletedInv, Live, Waiting, Promoting
  <1> QED BY <1>1, <1>2, <1>4, <1>6, <1>7, <1>8 DEF ProvisioningInv, InstallIsReachable

-----------------------------------------------------------------------------
(* The manager's calls *)

\* After cancel_installation no uncancelled task of the tool is left, and
\* nothing else about the tasks has changed.
LEMMA CancelledEffect ==
    ASSUME ProvisioningInv, loop = NoTask, NEW t \in Tools
    PROVE  /\ Cancelled(t) \in [Tasks -> TaskRow]
           /\ \A j \in Tasks :
                 /\ Cancelled(t)[j].pc = task[j].pc /\ Cancelled(t)[j].tool = task[j].tool
                 /\ Cancelled(t)[j].staged = task[j].staged
                 /\ Cancelled(t)[j].spared = task[j].spared /\ Cancelled(t)[j].alone = task[j].alone
                 /\ Cancelled(t)[j].cancelled \/ Cancelled(t)[j].cancelled = task[j].cancelled
                 /\ task[j].tool = t /\ Live(j) => Cancelled(t)[j].cancelled
                 /\ task[j].pc \in Promoting => FALSE
  <1> DEFINE k == toTask[t]
             n == [task[k] EXCEPT !.cancelled = TRUE]
  <1>0. ProvisioningTypeOK /\ InstallIsReachable
    BY DEF ProvisioningInv
  <1>1. \A j \in Tasks : task[j].pc \notin Promoting
    BY Facts, TaskNumbers DEF PromotionInv
  <1>2. \A j \in Tasks : task[j].tool = t /\ Live(j) => j = k /\ k \in active
    BY <1>0 DEF InstallIsReachable
  <1>3. CASE k \notin active
    BY <1>0, <1>1, <1>2, <1>3 DEF Cancelled, ProvisioningTypeOK
  <1>4. CASE k \in active
    <2>1. k \in Tasks
      BY <1>0, <1>4, TaskNumbers, ProvisioningAssumption DEF ProvisioningTypeOK, Tasks, NoTask
    <2>2. task[k] \in TaskRow
      BY <1>0, <2>1 DEF ProvisioningTypeOK
    <2>3. n \in TaskRow /\ n.pc = task[k].pc /\ n.tool = task[k].tool
          /\ n.staged = task[k].staged /\ n.cancelled = TRUE
          /\ n.spared = task[k].spared /\ n.alone = task[k].alone
      BY <2>2 DEF TaskRow
    <2>4. Cancelled(t) = [task EXCEPT ![k] = n]
      BY <1>4 DEF Cancelled
    <2> HIDE DEF n
    <2>5. /\ Cancelled(t) \in [Tasks -> TaskRow] /\ Cancelled(t)[k] = n
          /\ \A j \in Tasks : j # k => Cancelled(t)[j] = task[j]
      BY <1>0, <2>1, <2>3, <2>4 DEF ProvisioningTypeOK
    <2> HIDE DEF k
    <2> QED BY <1>1, <1>2, <2>1, <2>3, <2>5
  <1> QED BY <1>3, <1>4

LEMMA CancelInstallationKeeps ==
    ASSUME ProvisioningInv, NEW t \in Tools, CancelInstallation(t)
    PROVE  ProvisioningInv'
  <1>0. /\ ProvisioningTypeOK /\ RecordInv /\ WorkerInv /\ InstallIsReachable
        /\ \A j \in Tasks : LockInv(j) /\ PromotionInv(j) /\ CompletedInv(j)
        /\ \A j \in Tasks : j > queued => task[j].pc = "none"
    BY DEF ProvisioningInv
  <1>1. /\ loop = NoTask /\ task' = Cancelled(t)
        /\ UNCHANGED <<exe, tree, trust, orphan, queued, active, toTask, pipLock, loop, crashes, worker>>
    BY DEF CancelInstallation, disk, tables, sched
  <1>2. /\ task' \in [Tasks -> TaskRow]
        /\ \A j \in Tasks :
              /\ task'[j].pc = task[j].pc /\ task'[j].tool = task[j].tool
              /\ task'[j].staged = task[j].staged
              /\ task'[j].spared = task[j].spared /\ task'[j].alone = task[j].alone
              /\ task'[j].cancelled \/ task'[j].cancelled = task[j].cancelled
              /\ task[j].pc \notin Promoting
    BY <1>1, CancelledEffect
  <1>3. ProvisioningTypeOK' /\ RecordInv' /\ WorkerInv'
    BY <1>0, <1>1, <1>2 DEF ProvisioningTypeOK, RecordInv, Sound, WorkerInv
  <1>4. ASSUME NEW j \in Tasks
        PROVE  LockInv(j)' /\ PromotionInv(j)' /\ CompletedInv(j)'
    <2>1. LockInv(j)'
      BY <1>0, <1>1, <1>2 DEF LockInv
    <2>2. PromotionInv(j)'
      BY <1>0, <1>1, <1>2 DEF PromotionInv, Promoting
    <2>3. CompletedInv(j)'
      BY <1>0, <1>1, <1>2 DEF CompletedInv, Assured, Live
    <2> QED BY <2>1, <2>2, <2>3
  <1>5. InstallIsReachable'
    BY <1>0, <1>1, <1>2 DEF InstallIsReachable, Live
  <1> QED BY <1>0, <1>1, <1>2, <1>3, <1>4, <1>5 DEF ProvisioningInv

LEMMA InstallToolKeeps ==
    ASSUME ProvisioningInv, NEW t \in Tools, NEW f \in BOOLEAN, InstallTool(t, f)
    PROVE  ProvisioningInv'
  <1> DEFINE q == queued + 1
             m == [Idle EXCEPT !.tool = t, !.force = f, !.pc = "queued"]
  <1>0. /\ ProvisioningTypeOK /\ RecordInv /\ WorkerInv /\ InstallIsReachable
        /\ \A j \in Tasks : LockInv(j) /\ PromotionInv(j) /\ CompletedInv(j)
        /\ \A j \in Tasks : j > queued => task[j].pc = "none"
    BY DEF ProvisioningInv
  <1>1. /\ loop = NoTask /\ queued' = q /\ task' = [Cancelled(t) EXCEPT ![q] = m]
        /\ toTask' = [toTask EXCEPT ![t] = q] /\ active' = active \cup {q}
        /\ UNCHANGED <<exe, tree, trust, orphan, pipLock, loop, crashes, worker>>
    BY DEF InstallTool, disk, sched
  <1>2. q \in Tasks /\ q \in Nat /\ q > queued /\ queued \in Nat /\ q \in 1 .. q /\ active \subseteq 1 .. q
    BY <1>0, ProvisioningAssumption DEF InstallTool, ProvisioningTypeOK, Tasks
  <1>3. m \in TaskRow /\ m.pc = "queued" /\ m.tool = t /\ ~m.spared
    BY Rows DEF TaskRow
  <1> HIDE DEF m
  <1>4. /\ Cancelled(t) \in [Tasks -> TaskRow]
        /\ \A j \in Tasks :
              /\ Cancelled(t)[j].pc = task[j].pc /\ Cancelled(t)[j].tool = task[j].tool
              /\ Cancelled(t)[j].staged = task[j].staged
              /\ Cancelled(t)[j].spared = task[j].spared /\ Cancelled(t)[j].alone = task[j].alone
              /\ Cancelled(t)[j].cancelled \/ Cancelled(t)[j].cancelled = task[j].cancelled
              /\ task[j].pc \notin Promoting
              /\ task[j].tool = t /\ Live(j) => Cancelled(t)[j].cancelled
    BY <1>1, CancelledEffect
  <1>5. /\ task' \in [Tasks -> TaskRow] /\ task'[q] = m
        /\ \A j \in Tasks : j # q => task'[j] = Cancelled(t)[j]
    BY <1>1, <1>2, <1>3, <1>4
  <1>6. ProvisioningTypeOK'
    <2>1. toTask' \in [Tools -> {NoTask} \cup Tasks] /\ active' \subseteq 1 .. queued'
      BY <1>0, <1>1, <1>2 DEF ProvisioningTypeOK
    <2>2. queued' \in 0 .. MaxInstalls
      BY <1>1, <1>2 DEF Tasks
    <2> QED BY <1>0, <1>1, <1>5, <2>1, <2>2 DEF ProvisioningTypeOK
  <1>7. RecordInv' /\ WorkerInv'
    BY <1>0, <1>1 DEF RecordInv, Sound, WorkerInv
  <1>8. task[q].pc = "none" /\ pipLock # q /\ loop # q
    BY <1>0, <1>1, <1>2, TaskNumbers DEF LockInv
  <1> HIDE DEF q
  <1>9. ASSUME NEW j \in Tasks, j = q
        PROVE  LockInv(j)' /\ PromotionInv(j)' /\ CompletedInv(j)'
    <2>1. task'[j].pc = "queued" /\ pipLock' # j /\ loop' # j /\ ~task'[j].spared
      BY <1>1, <1>3, <1>5, <1>8, <1>9
    <2> QED BY <2>1 DEF LockInv, PromotionInv, CompletedInv, Promoting
  <1>10. ASSUME NEW j \in Tasks, j # q
         PROVE  LockInv(j)' /\ PromotionInv(j)' /\ CompletedInv(j)'
    <2>0. /\ task'[j].pc = task[j].pc /\ task'[j].tool = task[j].tool
          /\ task'[j].staged = task[j].staged
          /\ task'[j].spared = task[j].spared /\ task'[j].alone = task[j].alone
          /\ task'[j].cancelled \/ task'[j].cancelled = task[j].cancelled
          /\ task[j].pc \notin Promoting
      BY <1>4, <1>5, <1>10
    <2>1. LockInv(j)'
      BY <1>0, <1>1, <2>0 DEF LockInv
    <2>2. PromotionInv(j)'
      BY <1>0, <1>1, <2>0 DEF PromotionInv, Promoting
    <2>3. \A k \in Tasks : task'[k].pc \in {"pip", "check"}
              => task[k].pc = task'[k].pc /\ task[k].tool = task'[k].tool
      BY <1>3, <1>4, <1>5
    <2>4. CompletedInv(j)'
      BY <1>0, <1>1, <2>0, <2>3 DEF CompletedInv, Assured, Live
    <2> QED BY <2>1, <2>2, <2>4
  <1>11. \A j \in Tasks : LockInv(j)' /\ PromotionInv(j)' /\ CompletedInv(j)'
    BY <1>9, <1>10
  <1>12. InstallIsReachable'
    <2> SUFFICES ASSUME NEW j \in Tasks, Live(j)'
                 PROVE  j \in active' /\ toTask'[task'[j].tool] = j
      BY DEF InstallIsReachable
    <2>1. CASE j = q
      BY <1>0, <1>1, <1>3, <1>5, <2>1 DEF ProvisioningTypeOK
    <2>2. CASE j # q
      <3>1. Live(j) /\ task'[j].tool = task[j].tool /\ task[j].tool # t
        BY <1>4, <1>5, <2>2 DEF Live
      <3>2. j \in active /\ toTask[task[j].tool] = j
        BY <1>0, <3>1 DEF InstallIsReachable
      <3> QED BY <1>0, <1>1, <3>1, <3>2 DEF ProvisioningTypeOK
    <2> QED BY <2>1, <2>2
  <1>13. \A j \in Tasks : j > queued' => task'[j].pc = "none"
    <2> SUFFICES ASSUME NEW j \in Tasks, j > q PROVE task'[j].pc = "none"
      BY <1>1
    <2>1. j # q /\ j > queued
      BY <1>2, TaskNumbers
    <2> QED BY <1>0, <1>4, <1>5, <2>1
  <1> QED BY <1>0, <1>1, <1>6, <1>7, <1>11, <1>12, <1>13 DEF ProvisioningInv

-----------------------------------------------------------------------------
(* pip processes *)

\* A pip process changes files of its tool only, which no task has found trusted
\* unless a stray pip was at large then.
LEMMA PipProcessKeeps ==
    ASSUME ProvisioningInv, NEW t \in Pip,
           t \in orphan \/ \E i \in Tasks : task[i].tool = t /\ task[i].pc = "pip",
           exe' \in [Tools -> Builds], tree' \in [Tools -> Trees],
           \A u \in Tools : u # t => exe'[u] = exe[u] /\ tree'[u] = tree[u],
           exe'[t] \in {exe[t], 0, Pin}, orphan' \subseteq orphan,
           UNCHANGED <<trust, task, queued, active, toTask, pipLock, loop, crashes, worker>>
    PROVE  ProvisioningInv'
  <1>0. /\ ProvisioningTypeOK /\ RecordInv /\ WorkerInv /\ InstallIsReachable
        /\ \A j \in Tasks : LockInv(j) /\ PromotionInv(j) /\ CompletedInv(j)
        /\ \A j \in Tasks : j > queued => task[j].pc = "none"
    BY DEF ProvisioningInv
  <1>1. ProvisioningTypeOK' /\ RecordInv'
    BY <1>0 DEF ProvisioningTypeOK, RecordInv, Sound
  <1>2. WorkerInv'
    <2>1. worker.tool \in Tools
      BY <1>0 DEF ProvisioningTypeOK
    <2> QED BY <1>0, <2>1 DEF WorkerInv
  <1>3. ASSUME NEW j \in Tasks
        PROVE  LockInv(j)' /\ PromotionInv(j)' /\ CompletedInv(j)'
    <2>0. task[j].tool \in Tools
      BY Facts
    <2>1. LockInv(j)'
      BY <1>0 DEF LockInv
    <2>2. PromotionInv(j)'
      <3>1. task[j].pc \in {"rm", "tree", "rec"} => task[j].tool # t
        BY <1>0 DEF LockInv, Promoting
      <3> QED BY <1>0, <2>0, <3>1 DEF PromotionInv, Promoting, Live
    <2>3. CompletedInv(j)'
      <3> DEFINE u == task[j].tool
      <3> SUFFICES ASSUME task[j].pc \in {"probe", "infoOk"}, Live(j), u \in Pip => task[j].alone
                   PROVE  /\ Assured(u)' /\ (u \in Pip => u \notin orphan')
                          /\ \A k \in Tasks : k # j /\ u \in Pip /\ task[k].tool = u
                                => task[k].pc \notin {"pip", "check"}
        BY DEF CompletedInv, Live
      <3>1. /\ Assured(u) /\ (u \in Pip => u \notin orphan)
            /\ \A k \in Tasks : k # j /\ u \in Pip /\ task[k].tool = u
                  => task[k].pc \notin {"pip", "check"}
        BY <1>0 DEF CompletedInv
      <3>2. u # t
        BY <1>0, <3>1
      <3> QED BY <2>0, <3>1, <3>2 DEF Assured
    <2> QED BY <2>1, <2>2, <2>3
  <1>4. InstallIsReachable'
    BY <1>0 DEF InstallIsReachable, Live
  <1> QED BY <1>0, <1>1, <1>2, <1>3, <1>4 DEF ProvisioningInv

LEMMA PipMutatesKeeps ==
    ASSUME ProvisioningInv, NEW t \in Tools, PipMutates(t)
    PROVE  ProvisioningInv'
  <1>1. t \in Pip /\ exe \in [Tools -> Builds] /\ tree \in [Tools -> Trees]
    BY DEF PipMutates, ProvisioningInv, ProvisioningTypeOK
  <1>2. /\ exe' \in [Tools -> Builds] /\ tree' \in [Tools -> Trees]
        /\ \A u \in Tools : u # t => exe'[u] = exe[u] /\ tree'[u] = tree[u]
        /\ exe'[t] \in {exe[t], 0, Pin}
    BY <1>1 DEF PipMutates, Builds, Trees
  <1>3. /\ orphan' \subseteq orphan
        /\ UNCHANGED <<trust, task, queued, active, toTask, pipLock, loop, crashes, worker>>
        /\ t \in orphan \/ \E i \in Tasks : task[i].tool = t /\ task[i].pc = "pip"
    BY DEF PipMutates, tables, sched
  <1> QED BY <1>1, <1>2, <1>3, PipProcessKeeps

LEMMA OrphanEndsKeeps ==
    ASSUME ProvisioningInv, NEW t \in Tools, OrphanEnds(t)
    PROVE  ProvisioningInv'
  <1>1. t \in Pip /\ exe \in [Tools -> Builds] /\ tree \in [Tools -> Trees]
    BY DEF OrphanEnds, ProvisioningInv, ProvisioningTypeOK
  <1>2. /\ exe' \in [Tools -> Builds] /\ tree' \in [Tools -> Trees]
        /\ \A u \in Tools : u # t => exe'[u] = exe[u] /\ tree'[u] = tree[u]
        /\ exe'[t] \in {exe[t], 0, Pin}
    BY <1>1 DEF OrphanEnds, Builds, Trees
  <1>3. /\ orphan' \subseteq orphan /\ t \in orphan
        /\ UNCHANGED <<trust, task, queued, active, toTask, pipLock, loop, crashes, worker>>
    BY DEF OrphanEnds, tables, sched
  <1> QED BY <1>1, <1>2, <1>3, PipProcessKeeps

-----------------------------------------------------------------------------
(* The scan worker *)

LEMMA WorkerStepKeeps ==
    ASSUME ProvisioningInv, UNCHANGED WorkerTables, WorkerInv',
           worker' \in [pc : {"idle", "record", "hashed", "launch"}, tool : Tools, rec : TrustRow]
    PROVE  ProvisioningInv'
  <1>1. UNCHANGED <<exe, tree, trust, orphan, task, queued, active, toTask, pipLock, loop, crashes>>
    BY DEF WorkerTables, tables, sched
  <1>2. ProvisioningTypeOK' /\ RecordInv' /\ InstallIsReachable'
    BY <1>1 DEF ProvisioningInv, ProvisioningTypeOK, RecordInv, Sound, InstallIsReachable, Live
  <1>3. \A j \in Tasks : LockInv(j)' /\ PromotionInv(j)' /\ CompletedInv(j)'
    BY <1>1 DEF ProvisioningInv, LockInv, PromotionInv, CompletedInv, Assured, Live
  <1> QED BY <1>1, <1>2, <1>3 DEF ProvisioningInv

LEMMA WorkerKeeps ==
    ASSUME ProvisioningInv,
           (\E t \in Tools : ReadTrustRecord(t)) \/ HashExecutable \/ CheckTree \/ LaunchTool
    PROVE  ProvisioningInv'
  <1> DEFINE W == [pc : {"idle", "record", "hashed", "launch"}, tool : Tools, rec : TrustRow]
  <1>0. worker \in W /\ WorkerInv /\ RecordInv /\ trust \in [Tools -> TrustRow]
    BY DEF ProvisioningInv, ProvisioningTypeOK
  <1>1. ASSUME NEW t \in Tools, ReadTrustRecord(t) PROVE ProvisioningInv'
    <2> DEFINE n == [worker EXCEPT !.pc = "record", !.tool = t, !.rec = trust[t]]
    <2>1. n \in W /\ n.pc = "record" /\ n.rec = trust[t]
      BY <1>0
    <2>2. trust[t].exe = Pin
      BY <1>0, <1>1 DEF ReadTrustRecord, RecordFits, RecordInv, Sound
    <2>3. worker' = n /\ UNCHANGED WorkerTables
      BY <1>1 DEF ReadTrustRecord
    <2> HIDE DEF n
    <2>4. WorkerInv'
      BY <2>1, <2>2, <2>3 DEF WorkerInv
    <2> QED BY <2>1, <2>3, <2>4, WorkerStepKeeps
  <1>2. ASSUME NEW c \in {"hashed", "launch"}, worker' = Passed(c) \/ worker' = AtRest,
               UNCHANGED WorkerTables, worker.pc # "idle",
               worker' = Passed(c) => exe[worker.tool] \in {0, Pin}
        PROVE  ProvisioningInv'
    <2> DEFINE n == [worker EXCEPT !.pc = c]
    <2>1. n \in W /\ n.pc = c /\ n.rec = worker.rec /\ n.tool = worker.tool /\ Passed(c) = n
      BY <1>0 DEF Passed
    <2> HIDE DEF n
    <2>2. exe' = exe
      BY <1>2 DEF WorkerTables
    <2>3. CASE worker' = n
      BY <1>0, <1>2, <2>1, <2>2, <2>3, WorkerStepKeeps DEF WorkerInv
    <2>4. CASE worker' = AtRest
      BY <1>2, <2>4, Rows, WorkerStepKeeps DEF WorkerInv
    <2> QED BY <1>2, <2>1, <2>3, <2>4
  <1>3. CASE HashExecutable
    <2>1. ExeFits(worker.rec, exe[worker.tool]) => exe[worker.tool] = Pin
      BY <1>0, <1>3 DEF HashExecutable, ExeFits, WorkerInv
    <2>2. CASE ExeFits(worker.rec, exe[worker.tool])
      BY <1>2, <1>3, <2>1, <2>2 DEF HashExecutable
    <2>3. CASE ~ExeFits(worker.rec, exe[worker.tool])
      <3>1. worker' = AtRest /\ UNCHANGED WorkerTables
        BY <1>3, <2>3 DEF HashExecutable
      <3> QED BY <3>1, Rows, WorkerStepKeeps DEF WorkerInv
    <2> QED BY <2>2, <2>3
  <1>4. CASE CheckTree
    BY <1>0, <1>2, <1>4 DEF CheckTree, WorkerInv
  <1>5. CASE LaunchTool
    <2>1. worker' = AtRest /\ UNCHANGED WorkerTables
      BY <1>5 DEF LaunchTool
    <2> QED BY <2>1, Rows, WorkerStepKeeps DEF WorkerInv
  <1> QED BY <1>1, <1>3, <1>4, <1>5

-----------------------------------------------------------------------------
(* Every step *)

LEMMA TaskKeeps ==
    ASSUME ProvisioningInv, NEW i \in Tasks, TaskStep(i)
    PROVE  ProvisioningInv'
  <1>1. CASE FetchRelease(i) \/ BuildFromSource(i) \/ FetchArtifact(i) \/ FetchPackage(i)
    BY <1>1, StagedKeeps DEF FetchRelease, BuildFromSource, FetchArtifact, FetchPackage
  <1>2. CASE DropUnstarted(i) \/ StartTask(i) \/ RefuseInstall(i) \/ ProbeInstalled(i)
             \/ InstallerFails(i)
    BY <1>2, DropUnstartedKeeps, StartTaskKeeps, RefuseInstallKeeps, ProbeInstalledKeeps,
       InstallerFailsKeeps
  <1>3. CASE BeginPromotion(i) \/ PromoteBinary(i) \/ ClearTree(i) \/ ReplaceTree(i)
             \/ PromoteRecord(i) \/ PromotionFails(i)
    BY <1>3, BeginPromotionKeeps, PromoteBinaryKeeps, ClearTreeKeeps, ReplaceTreeKeeps,
       PromoteRecordKeeps, PromotionFailsKeeps
  <1>4. CASE AcquirePip(i) \/ PipSucceeds(i) \/ PipFails(i) \/ RegisterPackage(i)
    BY <1>4, AcquirePipKeeps, PipSucceedsKeeps, PipFailsKeeps, RegisterPackageKeeps
  <1>5. CASE FinishTask(i) \/ AbortTask(i) \/ SurviveCancellation(i)
    BY <1>5, FinishTaskKeeps, AbortTaskKeeps, SurviveCancellationKeeps
  <1> QED BY <1>1, <1>2, <1>3, <1>4, <1>5 DEF TaskStep

LEMMA NextKeeps == ProvisioningInv /\ [Next]_vars => ProvisioningInv'
  <1> SUFFICES ASSUME ProvisioningInv, [Next]_vars PROVE ProvisioningInv'
    OBVIOUS
  <1>1. CASE UNCHANGED vars
    <2>1. UNCHANGED WorkerTables /\ worker' = worker /\ exe' = exe
      BY <1>1 DEF vars, disk, WorkerTables
    <2>2. WorkerInv'
      BY <2>1 DEF ProvisioningInv, WorkerInv
    <2> QED BY <2>1, <2>2, WorkerStepKeeps DEF ProvisioningInv, ProvisioningTypeOK
  <1>2. CASE \E t \in Tools, force \in BOOLEAN : InstallTool(t, force)
    BY <1>2, InstallToolKeeps
  <1>3. CASE \E t \in Tools : CancelInstallation(t)
    BY <1>3, CancelInstallationKeeps
  <1>4. CASE \E i \in Tasks : TaskStep(i)
    BY <1>4, TaskKeeps
  <1>5. CASE \E t \in Tools : PipMutates(t) \/ OrphanEnds(t)
    BY <1>5, PipMutatesKeeps, OrphanEndsKeeps
  <1>6. CASE CrashApi
    BY <1>6, CrashApiKeeps
  <1>7. CASE (\E t \in Tools : ReadTrustRecord(t)) \/ HashExecutable \/ CheckTree \/ LaunchTool
    BY <1>7, WorkerKeeps
  <1> QED BY <1>1, <1>2, <1>3, <1>4, <1>5, <1>6, <1>7 DEF Next

-----------------------------------------------------------------------------
(* The theorems *)

\* The inductive invariant holds in every state the installers, the pip processes,
\* the workers and the crashes of the API process can reach.
THEOREM ProvisioningInvariant == Spec => []ProvisioningInv
  BY InitInv, NextKeeps, PTL DEF Spec

\* Every variable of the installers and of the worker keeps its type.
THEOREM ProvisioningTypes == Spec => []ProvisioningTypeOK
  <1>1. ProvisioningInv => ProvisioningTypeOK
    BY DEF ProvisioningInv
  <1> QED BY <1>1, ProvisioningInvariant, PTL

\* A tool that passes the trust gate (verify_managed_binary_artifact,
\* verify_package_trust, verify_npm_trust) is the pinned build, whole, however
\* many installations were cancelled, failed or cut short by a crash.
THEOREM TrustMeansWhole == Spec => []TrustedIsWhole
  <1>1. ProvisioningInv => TrustedIsWhole
    BY DEF ProvisioningInv, RecordInv, Sound, TrustedIsWhole, Assured, RecordFits, ExeFits, TreeFits
  <1> QED BY <1>1, ProvisioningInvariant, PTL

\* Between the pre-launch check of a worker and its Popen the path of the tool leads
\* to the pinned build or to nothing, although installers replace files meanwhile.
THEOREM LaunchIsPinned == Spec => []LaunchedIsPinned
  <1>1. ProvisioningInv => LaunchedIsPinned
    BY DEF ProvisioningInv, WorkerInv, LaunchedIsPinned
  <1> QED BY <1>1, ProvisioningInvariant, PTL

\* cancel_installation reaches every installation that was never cancelled, so no
\* tool has two of them.
THEOREM InstallStaysReachable == Spec => []InstallIsReachable
  <1>1. ProvisioningInv => InstallIsReachable
    BY DEF ProvisioningInv
  <1> QED BY <1>1, ProvisioningInvariant, PTL

\* An installation that was never cancelled broadcasts install_completed only for a
\* tool that passes the trust gate then, however many others of the tool were
\* cancelled, swallowed it or died with the process: unless a stray pip was at large
\* as it found or made the tool trusted.
THEOREM CompletionIsTrusted == Spec => []CompletedIsTrusted
  <1>1. ProvisioningInv => CompletedIsTrusted
    BY DEF ProvisioningInv, CompletedInv, CompletedIsTrusted, Runs, Live, Waiting
  <1> QED BY <1>1, ProvisioningInvariant, PTL

=============================================================================
