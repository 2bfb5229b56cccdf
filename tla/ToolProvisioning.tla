-------------------------- MODULE ToolProvisioning --------------------------
(***************************************************************************)
(* The in-app installation of scanner tools (app/installers) and the trust *)
(* gate a scan worker passes before it launches one (app/core/binary_trust,*)
(* package_trust, npm_trust).                                              *)
(*                                                                         *)
(* Installations are asyncio tasks of the one API process: between two     *)
(* suspension points a task runs alone (`loop` names it), at a suspension  *)
(* point it can be cancelled, and the process can die anywhere, also       *)
(* between two os.replace calls.  The progress and log callbacks put on    *)
(* unbounded queues, so awaiting them does not suspend; downloads, version *)
(* probes, the package managers and the pip lock do.  Workers are other    *)
(* processes: they read the same files while an installer replaces them.   *)
(*                                                                         *)
(* A cancellation is a request.  The supervisor answers it with a          *)
(* CancelledError only when it has joined its worker thread and confirmed  *)
(* the kill; otherwise it raises RuntimeError, the child may live on, and  *)
(* an installer that catches Exception swallows the cancellation.          *)
(*                                                                         *)
(* A build is a number, Pin the one this deployment's manifest approves;   *)
(* 0 stands for a missing file, Part for a directory tree of which some    *)
(* files are missing.  Equal builds are equal contents, so comparing the   *)
(* build numbers stands for comparing SHA-256 digests.                     *)
(***************************************************************************)
EXTENDS Naturals, FiniteSets

CONSTANTS
    Release,      \* tools of GithubReleaseInstaller
    SourceBuilt,  \* tools of SourceBuildInstaller
    Resourced,    \* tools of NmapArtifactInstaller: an executable and its tree
    Pip,          \* tools of PipToolInstaller: a virtual environment each
    Npm,          \* tools of NpmToolInstaller: a prefix directory each
    MaxInstalls,  \* bound: installation tasks ever queued
    MaxCrashes    \* bound: deaths of the API process

Tools == Release \cup SourceBuilt \cup Resourced \cup Pip \cup Npm

ASSUME ProvisioningAssumption ==
    /\ Tools # {}
    /\ MaxInstalls \in Nat \ {0}
    /\ MaxCrashes \in Nat
    /\ (Release \cup SourceBuilt) \cap (Resourced \cup Pip \cup Npm) = {}
    /\ Release \cap SourceBuilt = {} /\ Resourced \cap (Pip \cup Npm) = {} /\ Pip \cap Npm = {}

Tasks == 1 .. MaxInstalls
NoTask == 0
Old == 1
Pin == 2
Part == 3
NoRecord == [build |-> 0, exe |-> 0, tree |-> 0]

VARIABLES
    exe,       \* the executable on disk, per tool
    tree,      \* the resource tree, virtual environment or prefix, per tool
    trust,     \* the .trust.json sidecar beside the executable, per tool
    orphan,    \* tools with a stray pip: one that outlived the task that started it
    task,      \* the installation tasks of the manager
    queued,    \* how many were ever created
    active,    \* _active_tasks
    toTask,    \* _tool_to_task
    pipLock,   \* the holder of _pip_lock
    loop,      \* the task that runs and has not reached a suspension point
    crashes,
    worker     \* a scan worker: the tool it is about to launch, the sidecar it read

disk == <<exe, tree, trust, orphan>>
tables == <<queued, active, toTask>>
sched == <<pipLock, loop>>
vars == <<disk, task, tables, sched, crashes, worker>>

\* A task: `cancelled` while a cancellation is pending, `spared` once it has
\* swallowed one; `alone` (history) when no stray pip of its tool was at large as
\* the task found or made the tool trusted.
Idle == [tool |-> CHOOSE t \in Tools : TRUE, force |-> FALSE, pc |-> "none",
         cancelled |-> FALSE, spared |-> FALSE, alone |-> FALSE, staged |-> 0]
Ended == [Idle EXCEPT !.pc = "done"]
Waiting == {"lock", "probe", "fetch", "pip", "check", "infoOk", "infoFail"}
Promoting == {"bin", "rm", "tree", "rec"}

(***************************************************************************)
(* The trust gate                                                          *)
(***************************************************************************)
HasTree(t) == t \notin Release \cup SourceBuilt

\* verify_download_integrity: the artifact has the digest of the manifest.
DigestFits(a) == a = Pin

\* The sidecar exists and names the version and the artifact of the manifest.
RecordFits(r) == r # NoRecord /\ r.build = Pin

\* verify_managed_binary_artifact, verify_npm_trust: the executable and the tree
\* have the digests of the sidecar.  verify_package_trust also checks every
\* file of the environment against the distributions' own RECORD files.
ExeFits(r, e) == e # 0 /\ r.exe = e
TreeFits(t, r, d) ==
    /\ HasTree(t) => r.tree = d
    /\ t \in Pip => d # Part

Assured(t) ==
    RecordFits(trust[t]) /\ ExeFits(trust[t], exe[t]) /\ TreeFits(t, trust[t], tree[t])

(***************************************************************************)
(* The manager's tables                                                    *)
(***************************************************************************)
\* Mutated form: an ended task forgets whichever task the tool has now.
PopTablesAlways(i) ==
    /\ active' = active \ {i}
    /\ toTask' = [toTask EXCEPT ![task[i].tool] = NoTask]

\* Mutated form: the ended task stays in _active_tasks.
PopTablesKeepsTask(i) ==
    /\ active' = active
    /\ toTask' = IF toTask[task[i].tool] = i
                 THEN [toTask EXCEPT ![task[i].tool] = NoTask] ELSE toTask

\* The finally of _run_install: forget the task; forget the tool's entry only
\* when no later installation of the tool has replaced it.
PopTables(i) ==
    /\ active' = active \ {i}
    /\ toTask' = IF toTask[task[i].tool] = i
                 THEN [toTask EXCEPT ![task[i].tool] = NoTask] ELSE toTask

\* cancel_installation: ask the tool's registered task to stop; it is not waited for.
Cancelled(t) ==
    IF toTask[t] \in active THEN [task EXCEPT ![toTask[t]].cancelled = TRUE] ELSE task

\* install_tool: cancel the tool's registered task, then register a new one.
\* install_all makes the same call for each tool whose file it found absent.
InstallTool(t, force) ==
    /\ loop = NoTask
    /\ queued < MaxInstalls
    /\ queued' = queued + 1
    /\ task' = [Cancelled(t) EXCEPT ![queued + 1] =
                  [Idle EXCEPT !.tool = t, !.force = force, !.pc = "queued"]]
    /\ toTask' = [toTask EXCEPT ![t] = queued + 1]
    /\ active' = active \cup {queued + 1}
    /\ UNCHANGED <<disk, sched, crashes, worker>>

\* The handler calls it as often as the user asks, also while an earlier
\* cancellation is pending.
CancelInstallation(t) ==
    /\ loop = NoTask
    /\ toTask[t] \in active
    /\ task' = Cancelled(t)
    /\ UNCHANGED <<disk, tables, sched, crashes, worker>>

(***************************************************************************)
(* A task: the steps every installer shares                                *)
(***************************************************************************)
\* invalidate_package_trust_record, invalidate_npm_trust_record.
Untrusted(t) == [trust EXCEPT ![t] = NoRecord]

\* A task that goes on although a cancellation was pending has swallowed it.  When
\* install returns, its argument and its staged files are gone.
Moved(i, pc) ==
    LET over == pc \in {"infoOk", "infoFail"} IN
    [task[i] EXCEPT !.pc = pc, !.cancelled = FALSE, !.spared = @ \/ task[i].cancelled,
                    !.force = @ /\ ~ over, !.staged = IF over THEN 0 ELSE @]
Goto(i, pc) == task' = [task EXCEPT ![i] = Moved(i, pc)]

\* The pip installer found the tool trusted, or registered it.
Found(i, pc) ==
    task' = [task EXCEPT ![i] = [Moved(i, pc) EXCEPT !.alone = task[i].tool \notin orphan]]

Runs(i, pc) == loop = NoTask /\ task[i].pc = pc /\ ~ task[i].cancelled
Free(i) == IF pipLock = i THEN NoTask ELSE pipLock

\* get_version of the pip and the npm installer catches every Exception, also the
\* RuntimeError of an unconfirmed cancellation: the task goes on after the probe.
Probed(i, pc) ==
    /\ loop = NoTask /\ task[i].pc = pc
    /\ task[i].cancelled => task[i].tool \in Pip \cup Npm

\* execute: a command that is cancelled or exceeds its time limit is killed, but the
\* kill may go unconfirmed; a pip that was running may then live on.
Unconfirmed(i) ==
    IF task[i].pc = "pip" THEN {orphan, orphan \cup {task[i].tool}} ELSE {orphan}

\* not force and is_assured_installation: install returns early.
Kept(i) == ~ task[i].force /\ Assured(task[i].tool)

\* A task that is cancelled before its first step never enters its body, so the
\* finally that clears the tables does not run either.
DropUnstarted(i) ==
    /\ loop = NoTask /\ task[i].pc = "queued" /\ task[i].cancelled
    /\ task' = [task EXCEPT ![i] = [Ended EXCEPT !.pc = "dead"]]
    /\ UNCHANGED <<disk, tables, sched, crashes, worker>>

\* The first step, up to the first suspension: pip tools queue for the lock; the
\* others return early when the installation is already assured and not forced.
StartTask(i) ==
    LET t == task[i].tool IN
    /\ Runs(i, "queued")
    /\ Goto(i, IF t \in Pip THEN "lock"
               ELSE IF Kept(i) THEN "probe" ELSE "fetch")
    /\ trust' = IF t \in Npm /\ exe[t] # 0 /\ ~ Kept(i) THEN Untrusted(t) ELSE trust
    /\ UNCHANGED <<exe, tree, orphan, tables, sched, crashes, worker>>

\* install refuses before it starts its package manager: the hash-locked
\* requirements are missing, npm's root is a link, or the sidecar (of pip, one of
\* two) could not be removed.
RefuseInstall(i) ==
    LET t == task[i].tool IN
    /\ \/ Runs(i, "queued") /\ t \in Npm
       \/ Runs(i, "lock") /\ pipLock = NoTask
    /\ ~ Kept(i)
    /\ Goto(i, "infoFail")
    /\ trust' \in {trust, Untrusted(t)}
    /\ UNCHANGED <<exe, tree, orphan, tables, sched, crashes, worker>>

\* get_version of an installation that is already assured: install returns True.
ProbeInstalled(i) ==
    /\ Probed(i, "probe")
    /\ Goto(i, "infoOk")
    /\ pipLock' = Free(i)
    /\ UNCHANGED <<disk, tables, loop, crashes, worker>>

\* An artifact is downloaded and unpacked under a name of its own; what does not
\* have the manifest's digest is refused before it is unpacked.
Staged(i, class) ==
    /\ Runs(i, "fetch") /\ task[i].tool \in class
    /\ \E a \in {Old, Pin} : /\ DigestFits(a)
                             /\ task' = [task EXCEPT ![i].pc = "check", ![i].staged = a]
    /\ UNCHANGED <<disk, tables, sched, crashes, worker>>

\* The release asset of the pinned tag.
FetchRelease(i) == Staged(i, Release)

\* The source archive and its toolchain, built by supervised commands.
BuildFromSource(i) == Staged(i, SourceBuilt)

\* The distribution package, with its executable and its resource tree.
FetchArtifact(i) == Staged(i, Resourced)

\* npm pack, then npm install of the verified tarball into a prefix of its own.
FetchPackage(i) == Staged(i, Npm)

\* Any awaited step of an installer fails: refusal, HTTP error, redirect, wrong
\* digest, unsafe archive, wrong version, exit code.  install returns False.
InstallerFails(i) ==
    /\ \E pc \in {"fetch", "check"} : Runs(i, pc)
    /\ Goto(i, "infoFail")
    /\ pipLock' = Free(i)
    /\ trust' = IF task[i].tool \in Pip THEN Untrusted(task[i].tool) ELSE trust
    /\ UNCHANGED <<exe, tree, orphan, tables, loop, crashes, worker>>

\* The staged executable reported the pinned version: the promotion begins, and
\* runs without a suspension point to its end.
BeginPromotion(i) ==
    /\ Runs(i, "check") /\ task[i].tool \notin Pip
    /\ Goto(i, IF task[i].tool \in Npm THEN "rm" ELSE "bin")
    /\ loop' = i
    /\ UNCHANGED <<disk, tables, pipLock, crashes, worker>>

(***************************************************************************)
(* Promotion                                                               *)
(***************************************************************************)
\* Mutated form: the sidecar is written over the resources of the last build.
AfterBinaryRecord(t) == "rec"

\* The sidecar follows the executable, and the resource tree where there is one.
AfterBinary(t) == IF t \in Resourced THEN "rm" ELSE "rec"

PromoteBinary(i) ==
    /\ loop = i /\ task[i].pc = "bin"
    /\ exe' = [exe EXCEPT ![task[i].tool] = task[i].staged]
    /\ Goto(i, AfterBinary(task[i].tool))
    /\ UNCHANGED <<tree, trust, orphan, tables, sched, crashes, worker>>

\* rmtree of the old tree, file by file; an npm prefix holds the executable too.
ClearTree(i) ==
    LET t == task[i].tool IN
    /\ loop = i /\ task[i].pc = "rm"
    /\ tree' = [tree EXCEPT ![t] = IF @ = 0 THEN 0 ELSE Part]
    /\ exe' \in {exe, IF t \in Npm THEN [exe EXCEPT ![t] = 0] ELSE exe}
    /\ Goto(i, "tree")
    /\ UNCHANGED <<trust, orphan, tables, sched, crashes, worker>>

\* os.replace of the staged tree: the new one appears whole.  An npm prefix
\* brings its executable along, and no sidecar.
ReplaceTree(i) ==
    LET t == task[i].tool IN
    /\ loop = i /\ task[i].pc = "tree"
    /\ tree' = [tree EXCEPT ![t] = task[i].staged]
    /\ exe' = IF t \in Npm THEN [exe EXCEPT ![t] = task[i].staged] ELSE exe
    /\ trust' = IF t \in Npm THEN Untrusted(t) ELSE trust
    /\ Goto(i, "rec")
    /\ UNCHANGED <<orphan, tables, sched, crashes, worker>>

\* build_resource_manifest and the package inventories: the digests of a tree.
TreeDigest(t, d) == IF HasTree(t) THEN d ELSE 0

\* A sidecar of the files as they are on disk, bound to the manifest's artifact.
RecordOf(t) == [build |-> Pin, exe |-> exe[t], tree |-> TreeDigest(t, tree[t])]

\* A sidecar of the staged files.
StagedRecord(i) ==
    [build |-> Pin, exe |-> task[i].staged, tree |-> TreeDigest(task[i].tool, task[i].staged)]

\* os.replace of the sidecar: nmap's is built from the promoted files, the others'
\* from the staged ones.  install returns True.
PromoteRecord(i) ==
    /\ loop = i /\ task[i].pc = "rec"
    /\ trust' = [trust EXCEPT ![task[i].tool] =
                    IF task[i].tool \in Resourced THEN RecordOf(task[i].tool) ELSE StagedRecord(i)]
    /\ Goto(i, "infoOk")
    /\ loop' = NoTask
    /\ UNCHANGED <<exe, tree, orphan, tables, pipLock, crashes, worker>>

\* A file operation of the promotion fails: install returns False, and what was
\* promoted before it stays.
PromotionFails(i) ==
    /\ loop = i /\ task[i].pc \in Promoting
    /\ Goto(i, "infoFail")
    /\ loop' = NoTask
    /\ UNCHANGED <<disk, tables, pipLock, crashes, worker>>

(***************************************************************************)
(* The pip installer: one environment, changed in place                    *)
(***************************************************************************)
\* Under the lock: return early when assured, else remove the sidecar before
\* any file of the environment changes, and start pip.
AcquirePip(i) ==
    /\ Runs(i, "lock")
    /\ pipLock = NoTask
    /\ pipLock' = i
    /\ \/ Kept(i) /\ Found(i, "probe") /\ UNCHANGED trust
       \/ ~ Kept(i) /\ Goto(i, "pip") /\ trust' = Untrusted(task[i].tool)
    /\ UNCHANGED <<exe, tree, orphan, tables, loop, crashes, worker>>

\* A pip process, the task's or a stray one, has changed some files of the
\* environment and not yet the others.  External: pip.
PipMutates(t) ==
    /\ t \in Pip
    /\ t \in orphan \/ \E i \in Tasks : task[i].tool = t /\ task[i].pc = "pip"
    /\ tree' = [tree EXCEPT ![t] = Part]
    /\ exe' \in {exe, [exe EXCEPT ![t] = 0]}
    /\ UNCHANGED <<trust, orphan, task, tables, sched, crashes, worker>>

\* pip exits with 0: the lock file is installed, or, unforced, its metadata was
\* found to be satisfied already and nothing was repaired.  External: pip.
PipSucceeds(i) ==
    LET t == task[i].tool IN
    /\ Runs(i, "pip")
    /\ \/ /\ tree' = [tree EXCEPT ![t] = Pin]
          /\ exe' = [exe EXCEPT ![t] = Pin]
       \/ /\ ~ task[i].force /\ tree[t] = Part
          /\ UNCHANGED <<tree, exe>>
    /\ Goto(i, "check")
    /\ UNCHANGED <<trust, orphan, tables, sched, crashes, worker>>

\* venv, ensurepip or pip exits with an error, or its time limit passes: -1 is
\* returned also when the kill could not be confirmed.
PipFails(i) ==
    LET t == task[i].tool IN
    /\ Runs(i, "pip")
    /\ trust' = Untrusted(t)
    /\ Goto(i, "infoFail")
    /\ pipLock' = Free(i)
    /\ orphan' \in Unconfirmed(i)
    /\ UNCHANGED <<exe, tree, tables, loop, crashes, worker>>

\* Mutated form: the environment is recorded without being verified.
RegisterUnverified(i) ==
    LET t == task[i].tool IN
    /\ Probed(i, "check") /\ t \in Pip
    /\ trust' = [trust EXCEPT ![t] = RecordOf(t)]
    /\ Found(i, "infoOk")
    /\ pipLock' = Free(i)
    /\ UNCHANGED <<exe, tree, orphan, tables, loop, crashes, worker>>

\* _distribution_inventory: every locked package is there with its locked version,
\* and every file has the digest of its distribution's RECORD.
EnvironmentWhole(t) == exe[t] = Pin /\ tree[t] = Pin

\* The version was probed: build_package_trust_record verifies the environment
\* and the sidecar is written, or it refuses and the sidecar stays away.
RegisterPackage(i) ==
    LET t == task[i].tool IN
    /\ Probed(i, "check") /\ t \in Pip
    /\ \/ EnvironmentWhole(t) /\ Found(i, "infoOk") /\ trust' = [trust EXCEPT ![t] = RecordOf(t)]
       \/ ~ EnvironmentWhole(t) /\ Goto(i, "infoFail") /\ trust' = Untrusted(t)
    /\ pipLock' = Free(i)
    /\ UNCHANGED <<exe, tree, orphan, tables, loop, crashes, worker>>

\* A stray pip ends, with its work done or not, or is killed late.  External: pip.
OrphanEnds(t) ==
    /\ t \in orphan
    /\ orphan' = orphan \ {t}
    /\ \/ UNCHANGED <<exe, tree>>
       \/ exe' = [exe EXCEPT ![t] = Pin] /\ tree' = [tree EXCEPT ![t] = Pin]
    /\ UNCHANGED <<trust, task, tables, sched, crashes, worker>>

(***************************************************************************)
(* The end of a task, the death of the process                             *)
(***************************************************************************)
\* get_info returned: install_completed or install_failed is broadcast and the
\* tables are cleared.
FinishTask(i) ==
    /\ Probed(i, "infoOk") \/ Probed(i, "infoFail")
    /\ task' = [task EXCEPT ![i] = Ended]
    /\ PopTables(i)
    /\ UNCHANGED <<disk, queued, sched, crashes, worker>>

\* CancelledError, or a RuntimeError the installer does not catch, is raised at the
\* suspension point: the child was killed, or not; staged files are removed, the
\* lock is released, the tables are cleared.
AbortTask(i) ==
    /\ loop = NoTask /\ task[i].cancelled /\ task[i].pc \in Waiting
    /\ task' = [task EXCEPT ![i] = Ended]
    /\ PopTables(i)
    /\ pipLock' = Free(i)
    /\ orphan' \in Unconfirmed(i)
    /\ UNCHANGED <<exe, tree, trust, queued, loop, crashes, worker>>

\* The `except Exception` around the supervised commands of install.  npm's install
\* catches no RuntimeError, and only a source build fetches by commands.
Catches(i) ==
    \/ task[i].pc = "pip"
    \/ task[i].pc = "check" /\ task[i].tool \notin Npm
    \/ task[i].pc = "fetch" /\ task[i].tool \in SourceBuilt

\* The unconfirmed cancellation is taken for a failure of the command: install
\* returns False, the lock is released, and the task goes on uncancelled.
SurviveCancellation(i) ==
    /\ loop = NoTask /\ task[i].cancelled /\ Catches(i)
    /\ Goto(i, "infoFail")
    /\ pipLock' = Free(i)
    /\ orphan' \in Unconfirmed(i)
    /\ trust' = IF task[i].tool \in Pip THEN Untrusted(task[i].tool) ELSE trust
    /\ UNCHANGED <<exe, tree, tables, loop, crashes, worker>>

\* The API process dies.  Its pip child has a session of its own and lives on.
CrashApi ==
    /\ crashes < MaxCrashes
    /\ crashes' = crashes + 1
    /\ orphan' = orphan \cup {task[i].tool : i \in {j \in Tasks : task[j].pc = "pip"}}
    /\ task' = [i \in Tasks |-> IF task[i].pc = "none" THEN Idle ELSE Ended]
    /\ active' = {}
    /\ toTask' = [t \in Tools |-> NoTask]
    /\ pipLock' = NoTask
    /\ loop' = NoTask
    /\ UNCHANGED <<exe, tree, trust, queued, worker>>

(***************************************************************************)
(* A scan worker: verify_managed_binary as the pre-launch check, then Popen *)
(***************************************************************************)
AtRest == [pc |-> "idle", tool |-> Idle.tool, rec |-> NoRecord]
Passed(pc) == [worker EXCEPT !.pc = pc]
WorkerTables == <<exe, tree, trust, orphan, task, tables, sched, crashes>>

\* Mutated form: the sidecar's version is not compared with the approved one.
ReadAnyTrustRecord(t) ==
    /\ worker.pc = "idle"
    /\ exe[t] # 0 /\ trust[t] # NoRecord
    /\ worker' = [worker EXCEPT !.pc = "record", !.tool = t, !.rec = trust[t]]
    /\ UNCHANGED WorkerTables

ReadTrustRecord(t) ==
    /\ worker.pc = "idle"
    /\ exe[t] # 0 /\ RecordFits(trust[t])
    /\ worker' = [worker EXCEPT !.pc = "record", !.tool = t, !.rec = trust[t]]
    /\ UNCHANGED WorkerTables

HashExecutable ==
    /\ worker.pc = "record"
    /\ worker' = IF ExeFits(worker.rec, exe[worker.tool]) THEN Passed("hashed") ELSE AtRest
    /\ UNCHANGED WorkerTables

CheckTree ==
    /\ worker.pc = "hashed"
    /\ worker' = IF TreeFits(worker.tool, worker.rec, tree[worker.tool])
                 THEN Passed("launch") ELSE AtRest
    /\ UNCHANGED WorkerTables

\* Popen by path: whatever is there now, or nothing.
LaunchTool ==
    /\ worker.pc = "launch"
    /\ worker' = AtRest
    /\ UNCHANGED WorkerTables

(***************************************************************************)
(* Specification                                                           *)
(***************************************************************************)
\* Nothing is installed, or every tool was, by the deployment before this one.
Init ==
    /\ \/ exe = [t \in Tools |-> 0] /\ tree = exe /\ trust = [t \in Tools |-> NoRecord]
       \/ /\ exe = [t \in Tools |-> Old]
          /\ tree = [t \in Tools |-> IF HasTree(t) THEN Old ELSE 0]
          /\ trust = [t \in Tools |-> [build |-> Old, exe |-> Old, tree |-> tree[t]]]
    /\ orphan = {}
    /\ task = [i \in Tasks |-> Idle]
    /\ queued = 0
    /\ active = {}
    /\ toTask = [t \in Tools |-> NoTask]
    /\ pipLock = NoTask
    /\ loop = NoTask
    /\ crashes = 0
    /\ worker = AtRest

TaskStep(i) ==
    \/ DropUnstarted(i) \/ StartTask(i) \/ RefuseInstall(i) \/ ProbeInstalled(i) \/ FetchRelease(i)
    \/ BuildFromSource(i) \/ FetchArtifact(i) \/ FetchPackage(i)
    \/ InstallerFails(i) \/ BeginPromotion(i) \/ PromoteBinary(i) \/ ClearTree(i)
    \/ ReplaceTree(i) \/ PromoteRecord(i) \/ PromotionFails(i) \/ AcquirePip(i)
    \/ PipSucceeds(i) \/ PipFails(i) \/ RegisterPackage(i) \/ FinishTask(i)
    \/ AbortTask(i) \/ SurviveCancellation(i)

Next ==
    \/ \E t \in Tools, force \in BOOLEAN : InstallTool(t, force)
    \/ \E t \in Tools : CancelInstallation(t)
    \/ \E i \in Tasks : TaskStep(i)
    \/ \E t \in Tools : PipMutates(t) \/ OrphanEnds(t)
    \/ CrashApi
    \/ \E t \in Tools : ReadTrustRecord(t)
    \/ HashExecutable \/ CheckTree \/ LaunchTool

\* The event loop runs every ready task.  Probes and package managers have time
\* limits; a download has a limit of inactivity, and a server that keeps sending is
\* assumed to come to an end.  So a suspended step ends, one way or the other.
Spec == Init /\ [][Next]_vars /\ \A i \in Tasks : WF_vars(TaskStep(i))

(***************************************************************************)
(* Properties                                                              *)
(***************************************************************************)
Builds == {0, Old, Pin}
Trees == Builds \cup {Part}
TrustRow == [build : Builds, exe : Builds, tree : Trees]
TaskRow == [tool : Tools, force : BOOLEAN, cancelled : BOOLEAN, spared : BOOLEAN,
            alone : BOOLEAN, staged : Builds,
            pc : Waiting \cup Promoting \cup {"none", "queued", "done", "dead"}]

\* Every variable has its type.
ProvisioningTypeOK ==
    /\ exe \in [Tools -> Builds] /\ tree \in [Tools -> Trees]
    /\ trust \in [Tools -> TrustRow]
    /\ orphan \subseteq Pip
    /\ queued \in 0 .. MaxInstalls /\ active \subseteq 1 .. queued
    /\ toTask \in [Tools -> {NoTask} \cup Tasks]
    /\ task \in [Tasks -> TaskRow]
    /\ crashes \in 0 .. MaxCrashes
    /\ worker \in [pc : {"idle", "record", "hashed", "launch"}, tool : Tools, rec : TrustRow]
    /\ pipLock \in {NoTask} \cup Tasks /\ loop \in {NoTask} \cup Tasks

\* Whatever installation was cancelled, failed or cut short by a crash, a tool
\* that passes the trust gate consists of the pinned executable and a whole tree
\* of the pinned build (github_release_installer.py:601-603, "the executable/sidecar
\* mismatch fails trust verification rather than authorizing an ambiguous binary").
TrustedIsWhole ==
    \A t \in Tools : Assured(t) => exe[t] = Pin /\ (HasTree(t) => tree[t] = Pin)

\* Once the pre-launch check has passed, and until Popen, the path of the tool
\* never leads to an executable other than the pinned build, although the
\* check reads sidecar, executable and tree one after the other while installers
\* replace them (base_adapter.py:179-209, process_supervisor.py:1875).
LaunchedIsPinned == worker.pc = "launch" => exe[worker.tool] \in {0, Pin}

\* The task runs, or is to run, and was never cancelled.
Live(i) ==
    /\ task[i].pc \in Waiting \cup Promoting \cup {"queued"}
    /\ ~ task[i].cancelled /\ ~ task[i].spared

\* cancel_installation reaches every installation that runs and was never
\* cancelled: the tables name it.  So a tool has at most one of them.  One that was
\* replaced and swallowed its cancellation is out of reach for the rest of its run.
InstallIsReachable ==
    \A i \in Tasks : Live(i) => i \in active /\ toTask[task[i].tool] = i

\* An installation that was never cancelled broadcasts install_completed ("installed
\* successfully and verified", manager.py:258) only for a tool that passes the trust
\* gate at that moment, whatever became of other installations of the tool during
\* its last probe.  A pip tool is excepted only when a stray pip (of a crashed API
\* process, an unconfirmed kill) was at large as the tool was found or made trusted.
CompletedIsTrusted ==
    \A i \in Tasks :
        /\ Runs(i, "infoOk") /\ ~ task[i].spared
        /\ task[i].tool \in Pip => task[i].alone
        => Assured(task[i].tool)

\* manager.py:258 says of every install_completed, also of one that an installation
\* sends which has swallowed a cancellation or shared its environment with a stray
\* pip: "installed successfully and verified."  What is verified may be gone.
CompletionIsVerified ==
    \A i \in Tasks : Probed(i, "infoOk") => Assured(task[i].tool)

\* Every installation that has started ends and leaves the tables: the pip lock
\* is handed on, and neither a failure nor a cancellation keeps it.
InstallEnds ==
    \A i \in Tasks : task[i].pc \in Waiting \cup Promoting ~> i \notin active

(***************************************************************************)
(* The inductive invariant                                                 *)
(***************************************************************************)
\* A sidecar that names the pinned build has the digests of the pinned files.
Sound(t, r) == r.build = Pin => r.exe = Pin /\ (HasTree(t) => r.tree = Pin)

RecordInv == \A t \in Tools : Sound(t, trust[t])

\* The executable a worker has compared with a sound sidecar never becomes
\* another build than the pinned one.
WorkerInv ==
    /\ worker.pc # "idle" => worker.rec.exe = Pin
    /\ worker.pc \in {"hashed", "launch"} => exe[worker.tool] \in {0, Pin}

\* Which kind of tool a task installs, by where it is, and the pip lock it holds.
LockInv(i) ==
    /\ task[i].pc \in {"lock", "pip"} => task[i].tool \in Pip
    /\ task[i].pc \in {"fetch"} \cup Promoting => task[i].tool \notin Pip
    /\ task[i].pc = "bin" => task[i].tool \notin Npm
    /\ task[i].pc \in {"rm", "tree"} => task[i].tool \in Resourced \cup Npm
    /\ pipLock = i <=> /\ task[i].tool \in Pip
                       /\ task[i].pc \in {"probe", "pip", "check"}

\* How far the promotion of a task has come.
PromotionInv(i) ==
    LET t == task[i].tool IN
    /\ loop = i <=> task[i].pc \in Promoting
    /\ task[i].pc \in Promoting => Live(i)
    /\ task[i].spared => task[i].pc \in {"infoOk", "infoFail"}
    /\ task[i].pc \in Promoting \cup {"check"} /\ t \notin Pip => task[i].staged = Pin
    /\ task[i].pc \in {"rm", "tree"} /\ t \in Resourced => exe[t] = Pin
    /\ task[i].pc = "rec" => exe[t] = Pin /\ (HasTree(t) => tree[t] = Pin)

\* Once a task that was never cancelled has found or made its tool trusted, and no
\* stray pip of the tool is at large, no other task is at work on the tool.
CompletedInv(i) ==
    LET t == task[i].tool IN
    /\ task[i].pc \in {"probe", "infoOk"} /\ Live(i)
    /\ t \in Pip => task[i].alone
    => /\ Assured(t)
       /\ t \in Pip => t \notin orphan
       /\ \A j \in Tasks : j # i /\ t \in Pip /\ task[j].tool = t => task[j].pc \notin {"pip", "check"}

ProvisioningInv ==
    /\ ProvisioningTypeOK
    /\ \A i \in Tasks : i > queued => task[i].pc = "none"
    /\ RecordInv
    /\ WorkerInv
    /\ \A i \in Tasks : LockInv(i) /\ PromotionInv(i) /\ CompletedInv(i)
    /\ InstallIsReachable

=============================================================================
