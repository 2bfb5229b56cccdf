# Verification of the CyberAssess platform

CyberAssess runs third-party security tools for tenants. Everything a tool run
may do hangs on one promise: a process exists only under a live approval, and
when the platform says that a run is over, it is. The code that keeps the promise is
spread over a database layer, a process supervisor, a recovery loop and a
cancellation coordinator that run in different threads and processes and share
nothing but the database and the operating system. A scan is a set of such runs;
its approval is handed to workers through a Redis stream that delivers at least
once. This project models both, the *execution lifecycle* and the *scan
dispatch* that feeds it, in TLA+, checks them with TLC and proves their safety
with TLAPS. Around this core it models, checks and proves what the core takes for
granted: the authority under which a scan may launch anything, the identities
and sessions behind an approval, the schema migrations that every process runs
before it serves, and the provisioning of the tools that are launched.

Contents: [inventory](#inventory), [modules](#modules-and-correspondence),
[runs](#runs), [fairness](#fairness), [proofs](#proofs),
[divergences](#where-the-code-and-its-documentation-disagree),
[what is left out](#not-modelled), [plan](#plan).

## Inventory

`backend/app` is a FastAPI application (SQLite or PostgreSQL, Redis Streams)
with a separate worker process, `run_worker.py`. Paths are below
`backend/app/core` unless they say otherwise.

| component | state it keeps | operations | what makes it correct |
|---|---|---|---|
| durable execution store (`db.py`, `models.py`) | per execution: request, decision, run, dispatch intent, process ownership, recovery state | create, approve, revoke; claim, renew, start, abort, finish; record ownership; recovery lease, evidence, settlement | rows change together; a terminal run is final; a claim is granted once |
| process supervisor (`process_supervisor.py`, `execution_service.py`, `execution_decision.py`) | control point of each thread, cancellation event, the process | claim, checks, `Popen`, identity capture, record, start, wait, kill, settle | one launch per approval; success only for a natural end; no closed run with a live tree |
| recovery reaper (`observation_service.py`) | candidate snapshot, recovery lease, pending cancellations | list, lease, load identity, kill, settle, defer | a lost lease writes nothing; the budget is honoured; orphans are found |
| cancellation coordinator (`execution_service.py`, `api/executions.py`) | position in one call | read, revoke, kill, settle, answer | a confirmed answer is true |
| dispatch queue (`queue.py`) and worker loop (`run_worker.py`) | stream entries, delivery counts, quarantine records | enqueue, consume, fail, quarantine, acknowledge | one publication per request; a bounded number of handler entries; every intent settled; no evidence lost |
| scan orchestrator (`orchestrator.py`, `api/scans.py`) | scan record, children, jobs in memory | approve, dispatch, execute, cancel | redelivery claims no child twice |
| scan authority (`api/scans.py`, `scan_manifest.py`, `scan_execution_authority.py`, `execution_decision.py`, `execution_context.py`) | request and child authorities, registries of capabilities and contexts | start, approve, replay, close, resolve, claim, launch; prove a terminal replay | one request per key, one approval per request, one launch per child, as approved; a closed run can be shown to be closed |
| identity (`auth.py`, `api/auth.py`) | users, keys, revoked tokens, per-process registry, audit chain | bootstrap, login, authenticate, log out, create, revoke | dead credentials stay out; one gap-free audit chain; no key beyond its grant |
| schema migrations (`db.py`, `migration_registry.py`, `scan_request_migration_v13.py`) | schema, ledger of attempts, lock | lock, judge history, apply, verify, reconcile | no row lost; the ledger is true; only a verified schema is served |
| tool provisioning (`installers/`, `binary_trust.py`, `package_trust.py`, `npm_trust.py`) | files, trust sidecars, installation tasks, pip lock | install, cancel, promote, register, verify, launch | only the whole pinned build passes the trust gate; installations end and can be cancelled |
| rate limiter, scoring, correlation | buckets; none | acquire; compute | never above the rate; bounds of the score |
| SSRF and path guards, adapters, engines, exporters, front end | none that is shared | string and file processing | not a matter of protocol |

Interaction: the API approves a request, which creates the run, its dispatch
intent, its ownership row and its recovery row in one transaction. A worker
thread that was given a capability claims the dispatch, launches the tool and
settles the run. Every API process runs a reaper which lists runs from the
database and, given a durable process identity, kills and settles them. The
coordinator does the same on request, after revoking the authority. All three
may work on the same execution at the same time. For a scan, the approval
creates one run per selected operation, and the approving API process publishes
one intent; a worker that receives the intent walks through the operations and
has each of them executed as above. Cancellation of the scan goes through the
coordinator, run by run.

What is hard: claims race; the authority is checked earlier than it is used;
the process outlives the worker that created it; a kill may time out and work
later; the reaper acts on a row it read several awaits ago; every database call may
fail; every process may die between two steps. A message is delivered again
after 60 s although its handler may take 300 s, so two workers hold it as a
matter of course, and each API process keeps a copy of the job that it never
reads again. Builds are replaced while approvals made under another build wait;
two processes start on the same old database; an installer replaces files that
a worker is just verifying. `PROJECT.json` lists these
hazards one by one at the line where they bite.

## Modules and correspondence

| module | models |
|---|---|
| `ExecutionStore` | the six rows of one execution and the transactions of `DatabaseManager` |
| `ProcessTree` | the tree created by `Popen`, identity-bound termination |
| `ProcessSupervisor` | `ProcessSupervisor.execute`, one control point per durable step |
| `RecoveryReaper` | `BackendObservationService._reap_execution_authority_once` |
| `CancellationCoordinator` | `ExecutionCancellationCoordinator.cancel_request` |
| `ExecutionLifecycle` | their composition, the fairness, all properties and the inductive invariant |
| `MCExecutionLifecycle` | symmetry for model checking |
| `ExecutionStoreProofs`, `ExecutionLifecycleProofs` | the theorems about them |
| `DispatchQueue` | `RedisDurableQueue`: one operator per Redis command, script or transaction |
| `ScanStore` | the rows of one scan: parent request, children, scan record |
| `ScanWorker` | `consume_once`, `execute_dispatched_scan`, `_execute_scan` and the loop of `run_worker.py` |
| `ScanControl` | the approval route, `dispatch_approved_scan`, `cancel_scan`, `acknowledge_quarantined` |
| `ScanDispatch` | their composition, the fairness, all properties and the inductive invariant |
| `MCScanDispatch` | symmetry for model checking |
| `ScanDispatchProofs` | the theorems about them |
| `TerminalReplay` | `validate_terminal_replay_proof` over the rows of `ExecutionLifecycle`, which it extends |
| `TerminalReplayProofs` | the theorems about it |
| `ScanAuthority`, `MCScanAuthority` | `/start`, `/approve`, the authorization rows, `ScanExecutionAuthority`, capability and execution context |
| `ScanAuthorityProofs` | the theorems about it |
| `Identity`, `MCIdentity` | users, sessions, API keys and the audit chain over several API processes |
| `IdentityProofs` | the theorems about it |
| `MigrationSchema` | the statements of the thirteen versions and their postconditions |
| `SchemaMigration`, `MCSchemaMigration` | the coordinator: lock, ledger, attempts, verification, reconciliation |
| `MigrationHistory` | what the ledger promises, in the abstract; `SchemaMigration` implements it |
| `SchemaMigrationProofs` | the theorems about the coordinator, the refinement included |
| `ToolProvisioning` | `ToolInstallationManager`, five classes of installers, the trust gate of a launch |
| `ToolProvisioningProofs` | the theorems about it |

**Store.** A transaction X appears as a condition `XOk` (its WHERE clauses and
early returns) and an action `X` (what it writes). A caller that finds `~XOk`
gets False or None and nothing is written; with `DbFaults` every call may also
raise. Timestamps are reduced to what the code compares them for: `expired`,
`leaseLive`, `recovery.live`, `recovery.due`. The two claim tokens are issued
and matched together and become `claimedBy`. A process identity (PID, group,
session, start token, attestation) becomes `root`, the thread that created the
process, and `identity`, whether the attestation is complete. `attempt_number`
saturates at `MaxAttempts`, because the code compares it only with 0 and with
the budget. `claim_execution_authority` can also resume a CLAIMED dispatch
whose token the caller presents; no caller presents one, and
`release_execution_authority` has no caller, so CLAIMED never returns to
PENDING.

**Process tree.** `alive`, `draining` (root gone, descendants left), `exited`,
`killed`. A kill by identity is confirmed (the tree is verified empty) or
unconfirmed (it may or may not have worked). Workers, reapers and
cancellers share a process table, as on one host; the Windows job object path
has the same outcomes and is not distinguished.

**Supervisor.** The control points follow `_run_sync`. Launch checks
(executable, command digest, environment, egress) are one nondeterministic
rejection. A settlement that the authority-held path refuses is retried through
`settle_execution_after_confirmed_termination` for cancellations only, as in
`_settle_durable`. A worker may crash anywhere after its claim; its child runs
in a session of its own and survives. The handlers of `FileNotFoundError` and
`PermissionError` only see what `Popen` raises, because the identity helpers
catch `OSError` themselves.

**Reaper.** One action per stretch between two awaits. A cancellation that
times out stays `inflight` and may kill later (`LateCancellation`); the same
holds of a durable write, but a write that completes late is a slow reaper, and
the model has those. `ReaperCrash` is the restart of an API process. The
branches for NO_EXTERNAL_PROCESS in reaper and coordinator cannot be reached:
that ownership state is only written in the transaction that also closes the
run (`RowsAgree`). The pre-dispatch branch calls the settlement without a
worker identity, which it requires; the call is refused in the model as in the code.

**Coordinator.** One call per canceller. A canceller that dies is a canceller
that takes no further step.

**Queue.** An entry of the stream has its wire format (what
`_validate_wire_message` makes of it), its place in the consumer group
(`new`, `pending`, `acked`), its delivery counter, whether it has been pending
for the reclaim interval (`idle`), and its quarantine record: the kind of
record and a stamp that tells two records apart, as their timestamps do. The
counter is exact up to `MaxDeliveries + 1`; no code compares it with more. The publication
identity key is `dedupe`. `EnqueueOnce` and `AcknowledgeQuarantined` are the
two Lua scripts, `Autoclaim` and `ReadNew` the two deliveries. Redis does not
let XAUTOCLAIM look at more than ten entries it may not claim; the streams of
the runs are shorter.

**Scan rows.** The parent is `REQUESTED` or `DISPATCHABLE`, and may be
expired; nothing calls `transition_scan_authorization_request`, so no other
state is reached. A child is `PENDING` (created by the approval), `STARTING`
(claimed), `RUNNING` (decision consumed) or `ENDED`; what lies between claim
and end is the subject of `ExecutionLifecycle`. `PENDING` and `RUNNING` of the
scan record are both `OPEN`, since nothing depends on the difference.

**Scan worker.** One action per stretch between two awaits on Redis, the
database or a child execution; `wpc` names the stretch. `Handoff` is
`execute_dispatched_scan` up to its task: it finds nothing to do, runs the
scan, or raises. `_execute_scan` handles its own errors in the scan record,
except `CancelledError`, which no handler on the way to the worker loop catches
and which ends the process. Every exception that leaves `consume_once` does the
same (`Leave(w, "down")`).

**Control plane.** The approval route in four stretches (load, approve,
dispatch, publish), a cancellation that ends children one by one and then saves
the job that the process knows, and an operator who reads a quarantine record
and acknowledges it in a second call. A publication may fail, or succeed with
its answer lost.

**Terminal replay.** A redelivered message may name a run that is closed. The
fence that lets the worker skip it reads the rows of the run in one transaction
and accepts them or raises. `TerminalReplay` adds no state: it says which rows of
`ExecutionStore` the fence accepts, check by check.

**Scan authority.** A call of `/start` owns the request it would insert, so a
request is named by its call; `FindByIdempotency`, `SaveScanAndAuthorizationRequest`
and `ReplayOrConflict` are the three transactions of the route. A manifest is
the canonical input and the policy revision; digests, seals and fingerprints are
what they are computed from. A supervisor thread resolves a binding
(`Launchable`), issues a capability, revalidates and claims it, issues a context
and launches; `Deploy` replaces a process by another build and `EditAsset` changes the asset between
any two of these. `transition_scan_authorization_request` is called by tests only; it is
modelled here because it is the store's own way to close a parent, and `ScanStore`
does without it. The registries keep their limits (4096 in the code).

**Identity.** One request per process at a time, since the handlers never
suspend; the interleavings are those of the transactions of several processes
on PostgreSQL, statement by statement where a handler uses more than one.
Refusals that leave nothing durable behind are the process going idle.
`OperatorChange` is a change of a user row by hand: the code has no route for it
but reads the row on every request because of it. `dead` is the set of flaws
(expired, revoked, owner gone) that a credential had when its request arrived and
has had ever since. It is a set because the check of a key is two statements: a
key whose owner is away when the key row is read, and which is revoked while the
owner comes back, is of no use at any moment and is accepted all the same.
`DeadCredentialStaysOut` therefore speaks of one and the same flaw.

**Migrations.** A database is the set of schema objects, the set of tables with
rows and the versions of `schema_migrations`. A version is the sequence of
statements the code issues on the database it finds, each with its transactional
effect: on SQLite a DDL statement outside a transaction commits by itself and
`executescript` commits what is open; on PostgreSQL the version is one
transaction. `Crash` and `StatementFails` strike between any two statements,
`Drift` is DDL from outside, and `sound` says whether a process runs the
reviewed sources. `KeepsHistory` is a refinement: under the mapping of
`History == INSTANCE MigrationHistory WITH ...`, every step of the coordinator is
a step of the abstract history (start the next version, advance, succeed,
abandon, resolve) or leaves it alone.

**Provisioning.** A build is a number; equal numbers are equal contents, so
comparing them stands for comparing SHA-256 digests. Installations are tasks of
one event loop: `loop` names the task that is between two suspension points, and
the promotion of files runs there, so other tasks never see it half done while
a crash, a failing file operation and a worker of another process do. Directory
trees can be partial (`Part`), executables and sidecars cannot, because
`os.replace` is atomic. The pip installer changes its environment in place and
has neither staging nor rollback; what pip leaves behind after a cancellation is
any partial tree, and an unforced pip may exit with 0 without repairing it.

A cancellation is a request, and may be repeated. `process_supervisor.execute` answers it with
`CancelledError` only when its worker thread is joined within five seconds, no second
cancellation arrives meanwhile and the kill is confirmed; else it raises
`RuntimeError` (2319-2360), and a command past its time limit returns -1 also
when its kill is unconfirmed. So a cancelled or timed-out pip may live on
(`Unconfirmed`; `orphan` holds such stray processes and those that outlived a
crash), and installers that catch `Exception` swallow the cancellation:
`SurviveCancellation` (the command counts as failed, the lock is released, the
task goes on) and the steps guarded by `Probed` (pip's and npm's `get_version`
hides the error, so the task even completes). `spared` marks a task that has
swallowed a cancellation. The history field `alone` records that no stray pip of
the tool was at large when the task found or made it trusted; no guard reads it.

## Runs

Deadlock checking is off in all runs: an execution really stops when it is
terminal and everybody has returned, a database when every process serves or was
refused, and the other models when their bounds are used up.

| run | instance | checks |
|---|---|---|
| `safety` | 2 workers, 1 reaper, database faults | `TerminalMeansNoLiveProcess`, `AtMostOneLaunch`, `OwnershipNamesTheProcess`, `SuccessIsNatural`, `OrphanIsRecoverable`, `TerminalIsFinal`, `LostAuthorityStartsNothing` |
| `reapers` | 1 worker, 2 reapers, no database faults | `ExhaustedOnlyAtLimit`, `LapsedLeaseWritesNothing` |
| `liveness` | 1 worker, 1 reaper, fairness | `DispatchedRunEnds`, `AuthorityLossStopsProcess` |
| `cancellation` | 1 worker, 1 reaper, 1 canceller, database faults | `ConfirmedIsSound`, `RowsAgree`, `ClosedRunIsReplayable` and `LifecycleInv`, the inductive invariant |
| `delivery` | 2 workers, 1 API process, 2 deliveries | `PublishedOnce`, `HandlerEntriesBounded`, `ChildClaimedOnce` |
| `review` | 2 workers, 1 API process, 1 operator, all wire formats, 1 delivery | `UnreviewedEvidenceKept` and `DispatchInv`, the inductive invariant |
| `settlement` | 1 worker, 1 API process, 2 deliveries, fairness | `IntentSettled` |
| `doc_stranded` | 2 workers, 1 API process, 2 operations | refutes `ScanNotStranded` (see below) |
| `migration` | 2 processes, 3 startups, 1 fault, 13 databases on 2 backends, fairness | `RowsKept`, `ServesVerifiedSchema`, `KeepsHistory`, `StartupEnds` |
| `authority` | 2 calls with one key, 2 approval keys, 2 operations, 2 threads, 1 deployment or edit | `OneRequestPerKey`, `OneApprovalPerRequest`, `LaunchedOnce`, `ClosedParentStartsNothing`, `LaunchedAsApproved` |
| `identity` | 2 processes, 2 users, 2 tenants, 1 session, 2 keys, 4 audit events, 1 fault, 1 outside change | `DeadCredentialStaysOut`, `AuditChainIntact`, `BootstrapIsAtomic`, `KeyWithinGrant`, `ChangesAreAudited` |
| `provisioning` | 5 tools (one per installer class), 2 installations, 1 crash, 1 worker, fairness | `TrustedIsWhole`, `LaunchedIsPinned`, `InstallIsReachable`, `CompletedIsTrusted`, `InstallEnds` |

`LifecycleInv` and `DispatchInv` contain the type invariants of their systems. The
inductive invariants of the other models (`AuthorityInv`, `IdentityInv`,
`ProvisioningInv`, `ReplayInv`, `MigrationInv` and `RowsInv`, with the type invariants) were
model-checked on the instances of their runs before they were proved; now that
they are theorems no run repeats them, nor `QuarantineUsesBudget`.

Bounds of the lifecycle runs. One execution is enough: no transaction reads or writes the rows of
another. Two workers suffice for a claim race, since the claim admits one
holder and the model has no way back from CLAIMED. Two reapers suffice for a
lease takeover. `MaxAttempts = 2` (5 in the code) has a deferral, a retry and an
exhaustion. Symmetry is used for workers, reapers and cancellers in safety runs
only. The runs split the combinations (two workers, a canceller, two reapers) so that
each takes a minute or two; the theorems drop all of these bounds for the safety
properties.

Bounds of the dispatch runs. `MaxEntries` (stream length) is 1, or 2 where a
second entry matters: an entry is never removed and handling one does not read
another, except for the order of delivery. `MaxDeliveries = 2` (5 by default)
has a delivery after which the message is left pending and one after which it is
quarantined. One operation (`NumOps`) suffices for claims, because claims of
different operations do not interact; `doc_stranded` needs two. An API process serves
one approval or cancellation of the scan at a time; overlapping requests are those of two
processes. The theorems drop these bounds, too.

Bounds of the other runs. `migration`: two processes contend for the lock, and a
third startup sees what the second left behind; the databases are every kind that an
earlier release may have left (before the registry, partly migrated, with
superseded keys, with rows a version refuses, without or with an old ledger,
newer than the registry). Refused startups are not faults, so a run has several
failures although `MaxFaults = 1`; the same instance with two faults (663,316
states) also passes, in five minutes. `authority`: one key and two calls are a race for the
key, two threads a race for a claim, a limit of one context fills the registry.
`identity`: two users give a key of one to a session of the other's tenant; four
audit events are a bootstrap and changes of two processes. `provisioning`: two
installations overlap on one tool or on two of them, pip tools with each other on the lock; the
early return, a forced reinstall and an upgrade from the last build all happen, and so
do repeated, swallowed and unconfirmed cancellations.

`safety` and `cancellation` show that whoever settles the run (worker, reaper or
canceller, in any order, with refused calls and crashes in between) the run is closed once, by
someone who has verified the tree empty, and never reopened. `reapers` shows that
the recovery lease fences a slow reaper and that deciding DEFERRED or EXHAUSTED from a
stale attempt number is harmless: the snapshot is never ahead of the row.
`liveness` shows that recovery alone is enough: nothing is assumed of workers.
`delivery` shows that overlapping deliveries of one intent, each with a view of
counter and rows that may be old, neither exceed the number of handler entries nor
claim a child twice, and that a replayed approval, by an API process that has
forgotten the first, publishes nothing. `review` shows that evidence which arrives
during a review survives it. `settlement` shows that an intent is not lost,
wherever its worker dies; that it may end over its bound without a quarantine
record is the subject of `DocPoison.cfg`.

`ClosedRunIsReplayable` shows that the evidence which the settlement paths leave
is the evidence that the replay fence asks for, except in three cases that it
names. `migration` shows
that the rebuilding migrations (v1, v2, v4, v8) keep every row although SQLite commits
their statements one by one, that the ledger is never ahead of the schema, and
that a fresh look at the schema, not the ledger, decides about serving. `authority`
shows that the claim and the start, which do not read the parent, still stop
when it is closed, because closing it writes the rows they do read; that only
the build an administrator approved launches; and that full registries refuse
without a second launch. `identity` shows that the two advisory locks are what keeps the
bootstrap single and the chain whole, and that the local registry of revoked tokens is
an optimisation only. `provisioning` shows that the order executable, tree,
sidecar makes every interruption fail the trust gate, that the guard in the
`finally` of an installation is needed when a second one has replaced it, and that
the announcement of an installation that was never cancelled is true, unless a stray pip was at
large in its environment. Without these two conditions it is not: `DocCompleted.cfg`.

`PROJECT.json` lists the hazards these properties are for. Known to the models
and covered by none of the properties, beside the four it marks with a note:

- `queue.py:914`, `queue.py:1310`: an acknowledgement or a handler entry after a
  quarantine that came in between (`DocQuarantinePending.cfg`, `DocHandlerQuarantined.cfg`);
- `queue.py:1285`: ten quarantined entries hide later ones from reclaim (inside
  Redis, beyond the stream lengths of the model);
- `execution_service.py:817`: deferred recovery of a healthy run keeps its worker
  from settling it, and `db.py:5023`: the reason that is recorded may be the older of two;
- `db.py:2434`: a failed migration attempt leaves no FAILED event, because the
  flag that allows it has been reset; `db.py:2047`: a crash between the ledger table
  and its triggers leaves a ledger that is refused from then on;
- `db.py:512`: a replayed approval raises once a child has started;
- `execution_context.py:65`: a full registry of contexts blocks an operation
  whose authority is already claimed (`LaunchedOnce` holds, the approval is lost);
- `api/auth.py:234`: the audit event of a failed login is rolled back with the
  answer; `db.py:8939`: the integrity report walks one organisation of a chain
  that links all of them;
- `process_supervisor.py:1875`: an installer may clear a tree between the
  pre-launch check and `Popen`; `process_supervisor.py:1468` and 2331-2360: a pip that
  survived the API process, a cancellation or a time limit may spoil an environment after
  `install_completed` (the trust gate then refuses it: `TrustedIsWhole`);
- `pip_installer.py:163`, 180, 339: a replaced installation that swallows its
  cancellation goes on beside the new one, and no call can cancel it any more;
- `installers/manager.py:291`: a task that is cancelled before its first step
  leaves its table entries behind.

## Fairness

`FairSpec` assumes that clocks advance (`Expire`, `RetryDue`,
`RecoveryLeaseExpires`) and that a reaper keeps taking steps:
`BackendObservationService._run` repeats the pass for ever, each candidate is
handled under its own exception handler, and a crash is followed by a restart.
Strong fairness is used for the steps that restarts and database errors can
interrupt again and again: it says that a step which is reached infinitely
often is completed some time, i.e. the API process does not die at the same
line for ever. No fairness is assumed of workers, tools or cancellers. The liveness
properties leave an exit for a recovery budget that is used up, because the
code then waits for an operator.

`ScanDispatch` has fairness for the workers: the container restarts a dead one,
one that does not die finishes its message, and a delivered message becomes
idle (weak fairness). That a worker which dies again and again reaches its reads of the stream now
and then is strong fairness of `Poll` and `Read`. `DecidingSpec`, used by
`DocPoison.cfg`, also grants that it gets past the delivery counter now and then, so
that the counterexample does not rest on a worker that always dies first. Nothing is assumed of crashes,
approvals, cancellations or operators.

`MigrationFairSpec` has weak fairness for each process's steps: a startup is a sequential
program that waits for nothing but the lock, and a lock of a dead process
is released by the server or the kernel. `ToolProvisioning` has weak fairness
for each installation task: the event loop runs every ready task, and
probes, builds and package managers have time limits, so a suspended step ends
with a result, an error or a cancellation. Downloads have a limit of inactivity
only: that a server which keeps sending comes to an end is an assumption about the
network, not a promise of the code. Nothing is assumed of crashes, cancellations, pip or workers.

## Proofs

`ExecutionLifecycleProofs` proves, for any sets of workers, reapers and
cancellers, any `MaxAttempts > 0`, with and without database faults:
`Invariance` (`LifecycleInv`), and from it `TypeCorrect`,
`NoLiveProcessAfterTerminal`, `SingleLaunch`, `OwnershipIsAccurate`,
`SuccessIsGenuine`, `RowsStayTogether`, `OrphansStayRecoverable`,
`ExhaustionIsEarned`, `ConfirmationIsSound`, `TerminalRunsAreFinal` and
`AuthorityGuardsProgress`. The only assumption is `StoreAssumption`.

None of the properties is inductive by itself. That a settlement closes no live
process, for instance, depends on what the settling thread learnt earlier, so the invariant
also says what every control point may rely on while the others move:

- `StoreInv`: the rows of the store agree with each other;
- `ProcessInv`: only the granted claimant has a process, and the ownership row
  names it from the moment it leaves UNKNOWN;
- `ThreadInv`, `HolderInv`, `CallInv`: what the control point of a worker,
  reaper or cancellation call implies. A proof of termination stays true,
  because a dead tree never comes back and `root` is never replaced.

The proof is a non-interference argument. `ExecutionStoreProofs` shows once per
transaction that it keeps `StoreInv` and is *stable* (`StoreStable`: a terminal
run does not change, `root` is not replaced, the attempt counter does not fall,
and so on). `ProcStable` says the same of the process table. A stable step
leaves the local invariants of all other participants alone (`Undisturbed`), so each action
needs to re-establish only those of the participant that takes it. `NextPreserves`
combines the actions.

`ScanDispatchProofs` proves, for any finite set of workers, any sets of API
processes and operators, any stream length, number of operations and bound on deliveries:
`DispatchInvariant` (`DispatchInv`), and from it `DispatchTypes`,
`ChildrenClaimedOnce`, `HandlerEntries`, `QuarantineAfterBudget`,
`RequestPublishedOnce` and `EvidenceKept`. The assumptions are
`QueueAssumption`, `OpsAssumption`, `WorkersAssumption` (finitely many workers)
and `ProducersAssumption` (other producers do not write authoritative
messages). The invariant adds to the properties:

- `WorkerHoldsMessage`: a worker past its delivery has a message, and the count
  it has read is one the counter had, so a stale count only errs on the side of another delivery;
- `EntriesPaidFor`: handler entries plus workers that have yet to decide never
  exceed the deliveries. The bound on entries is not inductive without the
  second term, because a worker compares a counter that others advance;
- `IdentityGuards`: while a request can be published, its entry has its
  identity key, although the key expires;
- `ClaimsFollowState`: children are created once, and nothing makes a claimed
  child claimable.

The proof goes by what a step may do to each part: lemmas on the queue commands
say what they do to an entry, `NextMovesScan` that every step is one of a few transactions
on the rows, and `LeaveKeeps`, `GotoKeeps`, `TakeKeeps`, `EnterKeeps`,
`OthersKeep` and `PublishKeeps` cover the ways in which a step concerns the workers. `NextDispatch`
combines them.

`LapsedLeasesWriteNothing`, also in `ExecutionLifecycleProofs`, is proved step by
step: of the steps with which a reaper leaves a candidate of uncertain ownership only two
may write, and both transactions require its own live lease.

`TerminalReplayProofs` proves `ReplayEvidence` (`ReplayInv`) and
`ClosedRunsReplay`. What the replay fence asks of a closed run is evidence that
several earlier transactions left, so `ReplayInv` adds what the rows hold before
the run closes: a consumed decision has its process on record with a complete
identity, and a recovery row names an owner only while an attempt is in progress. `StepIsTransaction` shows that every step of the lifecycle is
one of the store's transactions or leaves its rows alone, and each transaction
keeps `ReplayInv`; `LifecycleInv` is used before and after the step.

`ScanAuthorityProofs` proves, for any sets of calls, keys, operations, builds,
assets, sessions and threads and any limits of the registries, `AuthorityInvariant`
(`AuthorityInv`), `AuthorityTypes`, `KeyNamesOneRequest`, `ApprovalHasOneWinner`,
`ApprovalUsedOnce`, and the action properties `ParentGuardsStart` and
`LaunchFollowsApproval`. The parts of the invariant say that a call which is not
answered has inserted nothing (`CallInv`), that a request has its children from
its approval on, under the sealed policy and the approver's session, and they
show what closed it (`RequestInv`, `ChildInv`), that an approval that was granted is the one
the request carries (`GrantInv`), what a thread knows of the row it works on
(`ThreadInv`), that two threads hold no row in common (`HolderInv`), and that a
row launches at most once, and not before its claim (`LaunchInv`). That a thread
launches under the approved build, although `Deploy` replaces builds, needs that
a deployment of the worker ends its threads. `AuthorityAssumption` says that the
constants are of their types and `NoOne` is none of them.

`IdentityProofs` proves, for any sets of processes, users, tenants, tokens and
keys, `IdentityInvariant` (`IdentityInv`), `IdentityTypes`,
`DeadCredentialsStayOut`, `ChainStaysIntact`, `OneBootstrap`, `GrantsNeverWiden`
and `ChangesLeaveEvents`. The chain of the audit table is whole because the holder of
the advisory lock has read the last event and nobody else can append
(`ChainInv`); the bootstrap is single because its flag is read and written under
the other lock (`AuditedInv`, `BootInv`). `CredentialInv` and `CallerInv` say what a request
has established about its credential and caller by the point it has reached,
`WriteInv`, `ChangeInv` and `AuditedInv` what its open transaction is about to
write and which event goes with it, `ExclusiveInv` that two requests insert no
common row, and `Grounded` and `TableInv` that every key goes back to a grant of its
creator. The frame lemma `RequestStep` covers the steps that commit nothing,
`CommitStep` those that commit; `TablesGrow` (rows are only added, keys only revoked) is what
the other requests can rely on meanwhile. `IdentityAssumption` keeps the value `Nobody` apart
from rows and identifiers.

`ToolProvisioningProofs` proves, for any tools, any number of installations and
crashes, `ProvisioningInvariant` (`ProvisioningInv`), `ProvisioningTypes`,
`TrustMeansWhole`, `LaunchIsPinned`, `InstallStaysReachable` and
`CompletionIsTrusted`. `RecordInv` says that a sidecar which names the pinned
build has the digests of the pinned files (`Sound`), `PromotionInv` which files a
promotion has put in place by the point it has reached, `CompletedInv` that no
task and no stray pip is at work on a tool which a task that was never cancelled has found or
made trusted (given `alone`), `WorkerInv` that
the executable a worker has compared never becomes another build, `LockInv` which
tools take which path and who has the pip lock. `TaskStepKeeps` is the frame rule
for a step of one task; it rests on `OneLive`, one installation per tool that was never
cancelled, and on `Restrained`: any other one changes files only through its pip
or under the pip lock, and it can neither start pip nor promote any more. `CompletionIsTrusted` is
therefore stated for installations that were never cancelled and never beside a
stray pip; the announcement of any other one may be wrong (`DocCompleted.cfg`). `ProvisioningAssumption` asks for
pairwise disjoint installer classes.

`SchemaMigrationProofs` proves, for any set of processes, any origins, and any
numbers of startups and faults, `MigrationInvariant` (`MigrationInv`),
`MigrationTypes`, `ServesOnlyVerified`, `CoordinatorKeepsHistory` (the
coordinator implements `MigrationHistory`), `RowsInvariant` (`RowsInv`) and
`RowsStayKept`. `MigrationInv`: only the holder of the lock
is at work (`LockInv`); a transaction is open only while it applies a version
(`TxInv`); the versions on record are the first ones (`LedgerInv`); past the
history check no attempt but the holder's own is without an outcome, and every
version on record but its own has succeeded (`HistoryInv`); its attempt is for
the next version, which is on record once its program is through (`AttemptInv`). Of the thirteen programs the proofs need two facts, shown for each
version on any database (`ProgramV1` to `ProgramV13`). A program records its own
version and no other, in its last statement, or raises. And it is `Orderly` for
the execution and for the dispatch rows: it never empties their table, or it
empties it only between a statement that copies the rows to a backup and the one
that copies them back. `Alone`, `Hold`, `Leave` and `Outside` are the frame lemmas, and
`HistoryStep` and `NextMaps` map each step to a step of the abstract history. `MigrationAssumption`
types the bounds and origins.

`RowsKept` needs more than the state of the rows: while a program is under way,
what it still has to do must bring them home. `Safe` says so of the rows and the
statements that are left, and is preserved by every statement (`SafeStep`), so the
rows are at home when the program is through (`SafeEnd`) and in one of their
tables before (`SafeSomewhere`), also where SQLite commits each statement by
itself. A program that starts on rows left in a backup would be outside this
argument. None does: the interrupted attempt stays in the ledger without an
outcome, and the history check refuses the next startup (`Unsettled`). The only
operation that could lift this refusal is the resolution, and it
never succeeds (`NeverResolved`, the disagreement of `DocReconcile.cfg`): the
verifiers of versions 7 and 8 contradict each other. If that is repaired, this is
the step of the proof to revisit.

Only model-checked: `DispatchedRunEnds`, `AuthorityLossStopsProcess`,
`IntentSettled`, `StartupEnds` and `InstallEnds`, because liveness under fairness is
out of the prover's reach.

## Where the code and its documentation disagree

TLC refutes each of these documented statements. `doc_stranded` is a run of
`PROJECT.json`, which quotes the statement: a worker dies between claim and
start of a child; the next delivery takes it for alive and acknowledges the
intent, and the other operations are never executed.

For the others, the comment of the property quotes the statement, and
`tlc -config <cfg>` on the MC module of its system (`DocCompleted.cfg`: on `ToolProvisioning`
itself) shows the behaviour:

| cfg | property | what happens |
|---|---|---|
| `DocConfirmedNoRun.cfg` | `ConfirmedNoRunIsSound` | A cancellation that found no run answers confirmed although the request was approved and launched before it revoked. |
| `DocPreDispatchReap.cfg` | `ExpiredRequestIsReaped` | An approval that expires unclaimed stays REQUESTED for ever, because the reaper's settlement lacks the worker identity. |
| `DocPoison.cfg` | `PoisonQuarantined` | An intent whose worker died on its last permitted delivery is never quarantined: the evidence check refuses the count above the bound, and every further delivery ends a worker. |
| `DocOutcome.cfg` | `OutcomeKept` | An API process cancels from its own old copy of the job and overwrites a completed scan. |
| `DocReconcile.cfg` | `CompleteSchemaResolvable` | An interrupted attempt on a schema that is complete cannot be resolved, because the resolution re-runs a postcondition that a later version has made obsolete. |
| `DocReapValid.cfg` | `RecoveryTargetsLostAuthority` | The recovery query lists every active run with unresolved ownership, so a reaper targets executions whose authority and lease hold. |
| `DocLaunchAfterRevoke.cfg` | `NoLaunchAfterRevocation` | A worker past its last check creates the process after the revocation committed. (It is never reported RUNNING: `LostAuthorityStartsNothing`.) |
| `DocPreDispatch.cfg` | `PreDispatchCancellationIsConfirmed` | Cancelling an undispatched run is answered unconfirmed, for the reason of `DocPreDispatchReap.cfg`. |
| `DocLaunchFailure.cfg` | `LaunchFailureCloses` | A launch refused with `PermissionError` is settled with an outcome the outcome table forbids; the run stays STARTING. |
| `DocOwnershipContract.cfg` | `OwnershipFollowsContract` | Ownership goes from UNKNOWN and LAUNCH_UNCERTAIN straight to TERMINAL, which the transition table forbids. |
| `DocRetryBound.cfg` | `RecoveryRetryIsBounded` | Recovery leases are granted beyond `max_recovery_attempts`. |
| `DocQuarantinePending.cfg` | `QuarantineStaysPending` | A slower worker acknowledges a message that a faster one has quarantined; the operator can then never acknowledge the record. |
| `DocHandlerQuarantined.cfg` | `NoEntryWhileQuarantined` | A worker that looked for the record before it was written enters the handler after it. |
| `DocCompleted.cfg` | `CompletionIsVerified` | An installation that was cancelled during its last probes swallows the cancellation and announces a tool as installed and verified, although the one that replaced it has removed the sidecar meanwhile. |
| `DocReplay.cfg` | `ReplayIsNoOp` | A redelivery that finds a child RUNNING, or some but not all of them ended, raises instead of doing nothing. |

## Not modelled

Correlation IDs and health counters; audit events other than those of
`Identity`; the local mode of the orchestrator without Redis, its event stream,
findings and summaries. Of identity: the login rate limit, key rotation,
synthetic and development identities, hashing, list endpoints. Of migrations:
SQL text, column types and the static analysis of guarded statements, which are
one classification of a statement. Of provisioning: the status snapshot, the
event stream, the resources that amass copies beside its executable, archive formats, the
manual tools. And what has no protocol state of its own: SSRF and path guards,
command lines and parsers of the adapters, engines, exporters, front end, the
parsing and hashing inside the trust checks. The rate limiter, grading and correlation are
small sequential programs that the plan leaves for later; the Windows job object
has the outcomes that `ProcessTree` already has.

DAL methods that only tests call are left
out: `claim_execution_decision`, `release_execution_decision_claim`,
`revoke_execution_decision`, `claim_execution_dispatch_intent`,
`acknowledge_execution_cancellation`, `settle_execution_dispatch_intent`,
`create_execution_run`, `transition_execution_run`, `renew_recovery`,
`record_recovery_attempt`, `create_execution_decision`,
`release_execution_authority`, `reap_execution_dispatch`.

## Plan

1. Execution lifecycle core: modelled, checked and proved (above).
2. Scan dispatch (queue, workers, control plane): modelled, checked and proved
   (above).
3. Scan authority, terminal replay, identity, schema migrations with their
   abstract history, tool provisioning: modelled, checked and proved (above).
4. An abstract lifecycle (requested, running, closed, with the reason) that
   `ExecutionLifecycle` implements, and the same lifecycle as seen by the
   children of `ScanStore`, which ties the two systems together.
5. `RateLimiter`, grading and correlation as operators against reference
   definitions.
