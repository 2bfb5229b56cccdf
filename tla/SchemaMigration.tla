-------------------------- MODULE SchemaMigration --------------------------
(***************************************************************************)
(* The migration coordinator (core/db.py): processes that start up on one  *)
(* database take the migration lock in turn, read the ledger of attempts,  *)
(* apply the versions that are missing and verify the result before they   *)
(* serve.  A process may crash between any two statements; a statement may *)
(* fail.                                                                   *)
(***************************************************************************)
EXTENDS MigrationSchema, FiniteSets

CONSTANTS
    Procs,      \* processes that open the database
    Origins,    \* the databases they may find: see Origin
    MaxBoots,   \* startups
    MaxFaults,  \* crashes, failing statements, drifted binaries, outside schema changes
    Drifts      \* the objects that outside DDL may drop

NoTx == [obj |-> {"none"}, rows |-> {}, applied |-> {}]
Nobody == "nobody"

ASSUME MigrationAssumption ==
    /\ MaxBoots \in Nat /\ MaxFaults \in Nat
    /\ Nobody \notin Procs
    /\ Origins \subseteq [level : Nat, ledger : {"none", "legacy", "sound"},
                         rows : SUBSET Names, extra : SUBSET Names]

VARIABLES
    backend,   \* "sqlite" or "postgresql"
    db,        \* the committed database
    tx,        \* the database as the open transaction sees it, or NoTx
    ledger,    \* schema_migration_events: per attempt its version and event types
    table,     \* that table: "none", "legacy" columns, "bare" of its triggers, "sound"
    lock,      \* holder of the advisory lock or of the lock file
    phase,     \* where each process is in its startup
    todo,      \* the version it is applying
    prog,      \* the statements of that version still to execute
    first,     \* the generic columns are still to be reconciled
    durable,   \* _migration_started_durable
    attempt,   \* index of its attempt in the ledger
    sound,     \* its sources have the digests that were reviewed
    boots, faults, kept

vars == <<backend, db, tx, ledger, table, lock, phase, todo, prog, first, durable, attempt, sound, boots, faults, kept>>
-----------------------------------------------------------------------------
(* A database migrated to version k by this registry, with its history. *)
SchemaAt(k) ==
    (UNION {BaseTables[t] : t \in DOMAIN BaseTables}) \cup {"runs.request_uq"}
    \cup (IF k >= 8 THEN {"dispatch.lease"} ELSE {})
    \cup (IF k >= 10 THEN LifecycleTables \cup {"attempts.append_only"} ELSE {})
    \cup (IF k >= 11 THEN ScanTables \cup {"scan_requests.key"} ELSE {})
    \cup (IF k >= 12 THEN ApprovalColumns ELSE {})
    \cup (IF k >= 13 THEN {"scan_requests.manifest", "operations.scoped_key"} ELSE {})

Succeeded(k) == [v \in 1 .. k |-> [version |-> v, events |-> <<"STARTED", "SUCCEEDED">>]]

(* An existing database: [level, ledger, rows, extra].   Level 0 is a     *)
(* database older than the registry: tables without the tenant keys.       *)
Origin(b, o) ==
    [obj |-> IF o.level = 0
             THEN {"core", "decisions", "decisions.key", "decisions.claim_columns",
                   "requests", "requests.key", "requests.claim_columns", "runs"}
                  \cup (IF b = "postgresql" THEN {"runs.key"} ELSE {})
             ELSE SchemaAt(o.level),
     rows |-> o.rows,
     applied |-> 1 .. o.level]

Fresh == [obj |-> {}, rows |-> {}, applied |-> {}]

MigrationInit ==
    /\ backend \in Backends
    /\ \/ db = Fresh /\ ledger = <<>> /\ table = "none"
       \/ \E o \in Origins :
            /\ db = [Origin(backend, o) EXCEPT !.obj = @ \cup o.extra]
            /\ ledger = IF o.ledger # "none" THEN Succeeded(o.level) ELSE <<>>
            /\ table = o.ledger
    /\ tx = NoTx /\ lock = Nobody
    /\ phase = [p \in Procs |-> "down"]
    /\ todo = [p \in Procs |-> 0] /\ prog = [p \in Procs |-> <<>>]
    /\ first = [p \in Procs |-> TRUE] /\ durable = [p \in Procs |-> FALSE]
    /\ attempt = [p \in Procs |-> 0] /\ sound = [p \in Procs |-> TRUE]
    /\ boots = 0 /\ faults = 0 /\ kept = db.rows \cap {"runs", "dispatch"}
-----------------------------------------------------------------------------
(* The ledger. *)
Outcome(a) == Tail(a.events)     \* what follows STARTED

Orphaned(a)   == Outcome(a) = <<>>
Unresolved(a) == Outcome(a) = <<"RECONCILIATION_REQUIRED">>

AllowedOutcomes ==
    {<<>>, <<"SUCCEEDED">>, <<"FAILED">>, <<"FAILED", "ROLLED_BACK">>, <<"FAILED", "ROLLBACK_FAILED">>,
     <<"RECONCILIATION_REQUIRED">>, <<"RECONCILIATION_REQUIRED", "RECONCILIATION_RESOLVED">>}

(* An event names a migration of the registry, by its reviewed digests. *)
PairedProvenance(a) == a.version \in Versions

(* _verify_migration_ledger_rows: known versions, contiguous sequences     *)
(* that begin with STARTED, allowed outcomes.                              *)
LedgerTrusted == \A i \in DOMAIN ledger : PairedProvenance(ledger[i]) /\ Outcome(ledger[i]) \in AllowedOutcomes

Extend(l, i, es) == [l EXCEPT ![i].events = @ \o es]

(* _reconcile_orphaned_attempts: a crash left these attempts open. *)
Reconciled(l) ==
    [i \in DOMAIN l |-> IF Orphaned(l[i]) THEN [l[i] EXCEPT !.events = Append(@, "RECONCILIATION_REQUIRED")] ELSE l[i]]

Completed == {ledger[i].version : i \in {j \in DOMAIN ledger : Outcome(ledger[j]) = <<"SUCCEEDED">>}}

(* Mutant: only attempts with a failure on record block a startup. *)
HistoryAcceptedUnresolved ==
    /\ db.applied \subseteq Versions
    /\ db.applied = 1 .. Cardinality(db.applied)

(* The checks before any schema work: nothing unresolved, known and        *)
(* contiguous versions, each with its SUCCEEDED event.                     *)
HistoryAccepted ==
    /\ \A i \in DOMAIN ledger : ~Unresolved(ledger[i])
    /\ db.applied \subseteq Versions
    /\ db.applied = 1 .. Cardinality(db.applied)
    /\ db.applied \subseteq Completed
-----------------------------------------------------------------------------
At(p, ph) == phase[p] = ph
Goto(p, ph) == phase' = [phase EXCEPT ![p] = ph]
View == IF tx = NoTx THEN db ELSE tx

(* Mutant: the lock file is left behind when a startup is refused. *)
RaisedLocked(p) ==
    /\ Goto(p, "raised") /\ tx' = NoTx
    /\ durable' = [durable EXCEPT ![p] = FALSE]
    /\ prog' = [prog EXCEPT ![p] = <<>>]
    /\ UNCHANGED <<backend, db, ledger, table, lock, todo, first, attempt, sound, boots, faults, kept>>

(* The finally of _run_migration_coordinator clears the flag before the    *)
(* handler in __init__ reads it; leaving the with block frees the lock; an *)
(* exception inside a connection scope rolls it back.                      *)
Raised(p) ==
    /\ Goto(p, "raised") /\ lock' = Nobody /\ tx' = NoTx
    /\ durable' = [durable EXCEPT ![p] = FALSE]
    /\ prog' = [prog EXCEPT ![p] = <<>>]
    /\ UNCHANGED <<backend, db, ledger, table, todo, first, attempt, sound, boots, faults, kept>>

(* __init__: a normal startup, or the maintenance manager of an operator,  *)
(* of a binary that was reviewed (ok) or has drifted from its review.      *)
Boot(p, mode, ok) ==
    /\ At(p, "down") /\ boots < MaxBoots /\ (ok \/ faults < MaxFaults)
    /\ boots' = boots + 1 /\ faults' = IF ok THEN faults ELSE faults + 1
    /\ sound' = [sound EXCEPT ![p] = ok]
    /\ Goto(p, mode)
    /\ todo' = [todo EXCEPT ![p] = 0] /\ first' = [first EXCEPT ![p] = TRUE]
    /\ attempt' = [attempt EXCEPT ![p] = 0]
    /\ UNCHANGED <<backend, db, tx, ledger, table, lock, prog, durable, kept>>

(* _migration_lock: pg_advisory_lock, or flock on the lock file. *)
AcquireLock(p) ==
    /\ phase[p] \in {"starting", "maintaining"} /\ lock = Nobody
    /\ lock' = p
    /\ Goto(p, IF At(p, "starting") THEN "ledger" ELSE "ledger_only")
    /\ UNCHANGED <<backend, db, tx, ledger, table, todo, prog, first, durable, attempt, sound, boots, faults, kept>>

(* _ensure_migration_ledger on a database without one.  PostgreSQL creates *)
(* the table and its triggers in one transaction; SQLite commits the table *)
(* before the script that protects it.                                     *)
InLedgerScope(p) == phase[p] \in {"ledger", "ledger_only"}
LedgerDone(p) ==
    /\ Goto(p, IF phase[p] \in {"ledger", "protect"} THEN "history" ELSE "maintenance")
    /\ lock' = IF phase[p] \in {"ledger", "protect"} THEN lock ELSE Nobody

CreateLedger(p) ==
    /\ InLedgerScope(p) /\ table = "none"
    /\ IF backend = "sqlite"
       THEN /\ table' = "bare" /\ UNCHANGED lock
            /\ Goto(p, IF At(p, "ledger") THEN "protect" ELSE "protect_only")
       ELSE table' = "sound" /\ LedgerDone(p)
    /\ UNCHANGED <<backend, db, tx, ledger, todo, prog, first, durable, attempt, sound, boots, faults, kept>>

ProtectLedger(p) ==
    /\ phase[p] \in {"protect", "protect_only"}
    /\ table' = "sound" /\ LedgerDone(p)
    /\ UNCHANGED <<backend, db, tx, ledger, todo, prog, first, durable, attempt, sound, boots, faults, kept>>

(* On an existing ledger, in one transaction: the identity upgrade of a    *)
(* legacy table, the trust checks, the orphaned attempts.  The maintenance *)
(* manager stops there and frees the lock.                                 *)
EnsureMigrationLedger(p) ==
    /\ InLedgerScope(p) /\ table \in {"legacy", "sound"} /\ LedgerTrusted
    /\ table' = "sound"
    /\ ledger' = Reconciled(ledger)
    /\ LedgerDone(p)
    /\ UNCHANGED <<backend, db, tx, todo, prog, first, durable, attempt, sound, boots, faults, kept>>

LedgerRefused(p) == InLedgerScope(p) /\ table # "none" /\ (table = "bare" \/ ~LedgerTrusted) /\ Raised(p)

CheckHistory(p) ==
    /\ At(p, "history") /\ HistoryAccepted
    /\ Goto(p, "next")
    /\ UNCHANGED <<backend, db, tx, ledger, table, lock, todo, prog, first, durable, attempt, sound, boots, faults, kept>>

HistoryRefused(p) == At(p, "history") /\ ~HistoryAccepted /\ Raised(p)

(* The digests over the sources of the migrations and of the guarded       *)
(* connection are the reviewed ones.                                       *)
ArtifactReviewed(p) == sound[p]

(* _verify_forward_apply_artifact: sources that drifted are not executed.  *)
ForwardApply(p, v) == IF ArtifactReviewed(p) THEN InitDb(v, backend, db, first[p]) ELSE Raise

(* The next version that is not applied: STARTED is recorded in a          *)
(* transaction of its own, then the apply function begins.                 *)
BeginAttempt(p) ==
    /\ At(p, "next")
    /\ \E v \in Versions :
         /\ v \notin db.applied /\ \A w \in 1 .. v - 1 : w \in db.applied
         /\ ledger' = Append(ledger, [version |-> v, events |-> <<"STARTED">>])
         /\ todo' = [todo EXCEPT ![p] = v]
         /\ prog' = [prog EXCEPT ![p] = ForwardApply(p, v)]
    /\ attempt' = [attempt EXCEPT ![p] = Len(ledger) + 1]
    /\ durable' = [durable EXCEPT ![p] = TRUE]
    /\ first' = [first EXCEPT ![p] = FALSE]
    /\ Goto(p, "apply")
    /\ UNCHANGED <<backend, table, db, tx, lock, sound, boots, faults, kept>>

(* One statement.  On PostgreSQL, and on SQLite once a transaction is      *)
(* open, it belongs to the transaction; DDL on SQLite outside one is       *)
(* committed, and executescript commits what was open first.               *)
Step(p) ==
    /\ At(p, "apply") /\ prog[p] # <<>>
    /\ LET s == Head(prog[p])
           after == Effect(View, s)
           commits == backend = "sqlite" /\ (s.mode = "script" \/ (s.mode = "ddl" /\ tx = NoTx))
       IN /\ s.mode # "raise"
          /\ db' = IF commits THEN after ELSE db
          /\ tx' = IF commits THEN NoTx ELSE after
    /\ prog' = [prog EXCEPT ![p] = Tail(@)]
    /\ UNCHANGED <<backend, ledger, table, lock, phase, todo, first, durable, attempt, sound, boots, faults, kept>>

StepRaises(p) ==
    /\ At(p, "apply") /\ prog[p] # <<>> /\ Head(prog[p]).mode = "raise"
    /\ Raised(p)

(* The connection scope of the apply function ends.  Versions 11 and 12    *)
(* are verified inside it, before the commit.                              *)
CommitOk(p) == todo[p] \in {11, 12} => Postcondition(todo[p], backend, View)

Commit(p) ==
    /\ At(p, "apply") /\ prog[p] = <<>> /\ CommitOk(p)
    /\ db' = View /\ tx' = NoTx
    /\ Goto(p, "verify")
    /\ UNCHANGED <<backend, ledger, table, lock, todo, prog, first, durable, attempt, sound, boots, faults, kept>>

CommitRefused(p) == At(p, "apply") /\ prog[p] = <<>> /\ ~CommitOk(p) /\ Raised(p)

(* spec.verify in a new scope, then SUCCEEDED. *)
VerifyVersion(p) ==
    /\ At(p, "verify") /\ Postcondition(todo[p], backend, db)
    /\ ledger' = Extend(ledger, attempt[p], <<"SUCCEEDED">>)
    /\ durable' = [durable EXCEPT ![p] = FALSE]
    /\ Goto(p, "next")
    /\ UNCHANGED <<backend, table, db, tx, lock, todo, prog, first, attempt, sound, boots, faults, kept>>

VerifyRefused(p) == At(p, "verify") /\ ~Postcondition(todo[p], backend, db) /\ Raised(p)

(* Mutant: a recorded history is taken for the schema itself. *)
FinalVerifyHistory(p) ==
    /\ At(p, "next") /\ Versions \subseteq db.applied
    /\ Goto(p, "serving") /\ lock' = Nobody
    /\ UNCHANGED <<backend, db, tx, ledger, table, todo, prog, first, durable, attempt, sound, boots, faults, kept>>

(* Nothing is left to apply: the current postconditions, then the lock.    *)
FinalVerify(p) ==
    /\ At(p, "next") /\ Versions \subseteq db.applied /\ CurrentPostconditions(backend, db)
    /\ Goto(p, "serving") /\ lock' = Nobody
    /\ UNCHANGED <<backend, db, tx, ledger, table, todo, prog, first, durable, attempt, sound, boots, faults, kept>>

FinalRefused(p) ==
    /\ At(p, "next") /\ Versions \subseteq db.applied /\ ~CurrentPostconditions(backend, db)
    /\ Raised(p)

(* _record_migration_failure, after the lock was freed: two events, whose  *)
(* sequence numbers must still be free.                                    *)
RecordMigrationFailure(p) ==
    /\ At(p, "raised") /\ Goto(p, "refused")
    /\ ledger' = IF attempt[p] # 0 /\ durable[p] /\ Orphaned(ledger[attempt[p]])
                 THEN Extend(ledger, attempt[p], <<"FAILED", "ROLLBACK_FAILED">>) ELSE ledger
    /\ UNCHANGED <<backend, table, db, tx, lock, todo, prog, first, durable, attempt, sound, boots, faults, kept>>

(* resolve_migration_reconciliation: all versions applied, and every       *)
(* registered verifier accepts the live schema.                            *)
ResolveOk(i) ==
    /\ Unresolved(ledger[i]) /\ table = "sound"
    /\ db.applied = Versions
    /\ LedgerTrusted
    /\ \A v \in Versions : Postcondition(v, backend, db)

ResolveMigrationReconciliation(p) ==
    /\ At(p, "maintenance") /\ Goto(p, "down")
    /\ \E i \in DOMAIN ledger :
         ledger' = IF ArtifactReviewed(p) /\ ResolveOk(i) THEN Extend(ledger, i, <<"RECONCILIATION_RESOLVED">>) ELSE ledger
    /\ UNCHANGED <<backend, table, db, tx, lock, todo, prog, first, durable, attempt, sound, boots, faults, kept>>

(* A process that serves, or was refused, ends. *)
Exit(p) ==
    /\ phase[p] \in {"serving", "refused", "maintenance"} /\ Goto(p, "down")
    /\ UNCHANGED <<backend, db, tx, ledger, table, lock, todo, prog, first, durable, attempt, sound, boots, faults, kept>>
-----------------------------------------------------------------------------
(* Faults.  The server or the kernel rolls back the transaction of a       *)
(* process that dies and frees its lock.                                   *)
Crash(p) ==
    /\ phase[p] # "down" /\ faults < MaxFaults
    /\ faults' = faults + 1
    /\ Goto(p, "down")
    /\ prog' = [prog EXCEPT ![p] = <<>>] /\ durable' = [durable EXCEPT ![p] = FALSE]
    /\ lock' = IF lock = p THEN Nobody ELSE lock
    /\ tx' = IF lock = p THEN NoTx ELSE tx
    /\ UNCHANGED <<backend, db, ledger, table, todo, first, attempt, sound, boots, kept>>

(* A statement fails (disk, connection, lock timeout): it raises. *)
StatementFails(p) ==
    /\ phase[p] \in {"apply", "verify"} /\ faults < MaxFaults
    /\ faults' = faults + 1
    /\ Goto(p, "raised") /\ lock' = Nobody /\ tx' = NoTx
    /\ durable' = [durable EXCEPT ![p] = FALSE] /\ prog' = [prog EXCEPT ![p] = <<>>]
    /\ UNCHANGED <<backend, db, ledger, table, todo, first, attempt, sound, boots, kept>>

(* DDL from outside the program, which does not ask for the lock. *)
Drift(o) ==
    /\ o \in db.obj /\ tx = NoTx /\ faults < MaxFaults
    /\ faults' = faults + 1 /\ db' = [db EXCEPT !.obj = @ \ {o}]
    /\ UNCHANGED <<backend, tx, ledger, table, lock, phase, todo, prog, first, durable, attempt, sound, boots, kept>>
-----------------------------------------------------------------------------
ProcStep(p) ==
    \/ AcquireLock(p)
    \/ CreateLedger(p) \/ ProtectLedger(p)
    \/ EnsureMigrationLedger(p) \/ LedgerRefused(p)
    \/ CheckHistory(p) \/ HistoryRefused(p)
    \/ BeginAttempt(p)
    \/ Step(p) \/ StepRaises(p)
    \/ Commit(p) \/ CommitRefused(p)
    \/ VerifyVersion(p) \/ VerifyRefused(p)
    \/ FinalVerify(p) \/ FinalRefused(p)
    \/ RecordMigrationFailure(p)

MigrationNext ==
    \/ \E p \in Procs :
         \/ \E ok \in BOOLEAN : Boot(p, "starting", ok) \/ Boot(p, "maintaining", ok)
         \/ ProcStep(p)
         \/ ResolveMigrationReconciliation(p)
         \/ Exit(p)
         \/ Crash(p) \/ StatementFails(p)
    \/ \E o \in Drifts : Drift(o)

MigrationSpec == MigrationInit /\ [][MigrationNext]_vars
MigrationFairSpec == MigrationSpec /\ \A p \in Procs : WF_vars(ProcStep(p))
-----------------------------------------------------------------------------
Database == [obj : SUBSET Names, rows : SUBSET Names, applied : SUBSET Nat]
Events == {"STARTED", "SUCCEEDED", "FAILED", "ROLLBACK_FAILED", "RECONCILIATION_REQUIRED", "RECONCILIATION_RESOLVED"}
Attempt == [version : Nat, events : Seq(Events)]

(* The phases in which a process holds the migration lock. *)
Holding == {"ledger", "ledger_only", "protect", "protect_only", "history", "next", "apply", "verify"}
Phases == Holding \cup {"down", "starting", "maintaining", "maintenance", "raised", "refused", "serving"}

(* Every variable has its type. *)
MigrationTypeOK ==
    /\ backend \in Backends /\ db \in Database /\ tx \in Database \cup {NoTx}
    /\ ledger \in Seq(Attempt) /\ table \in {"none", "legacy", "bare", "sound"}
    /\ lock \in Procs \cup {Nobody} /\ phase \in [Procs -> Phases]
    /\ todo \in [Procs -> {0} \cup Versions] /\ attempt \in [Procs -> Nat]
    /\ prog = [p \in Procs |-> prog[p]] /\ \A p \in Procs : prog[p] \in Seq(Statements(todo[p]))
    /\ first \in [Procs -> BOOLEAN] /\ durable \in [Procs -> BOOLEAN] /\ sound \in [Procs -> BOOLEAN]

(* The execution and dispatch rows that a database held are never lost:    *)
(* whatever statement a crash or a failure interrupts, the table or the    *)
(* backup it is rebuilt from has them, and a process that serves finds     *)
(* them where it looks for them.                                           *)
RowsKept ==
    /\ "runs" \in kept => {"runs", "runs_legacy", "runs_binding"} \cap db.rows # {}
    /\ "dispatch" \in kept => {"dispatch", "dispatch_v8"} \cap db.rows # {}
    /\ (\E p \in Procs : At(p, "serving")) => kept \subseteq db.rows

(* A process starts to serve only on a schema whose every version was      *)
(* applied, succeeded, and is what the current verifiers describe, also    *)
(* when the schema was changed behind the ledger's back.                   *)
ServesVerifiedSchema ==
    [][\A p \in Procs : ~At(p, "serving") /\ phase'[p] = "serving"
         => /\ db.applied = Versions /\ Versions \subseteq Completed
            /\ CurrentPostconditions(backend, db)]_vars

(* The ledger keeps its promise: the version rises one step at a time,     *)
(* inside an attempt for that step, and never past an attempt that ended   *)
(* without an outcome.                                                     *)
OpenAttempt(p) == phase[p] \in {"apply", "verify"}
History ==
    INSTANCE MigrationHistory WITH
        level <- Cardinality(db.applied),
        open <- IF \E p \in Procs : OpenAttempt(p) THEN todo[CHOOSE p \in Procs : OpenAttempt(p)] ELSE 0,
        blocked <- \E i \in DOMAIN ledger :
                       /\ Orphaned(ledger[i]) \/ Unresolved(ledger[i])
                       /\ \A p \in Procs : ~(OpenAttempt(p) /\ attempt[p] = i)
KeepsHistory == History!Spec

(* Every startup comes to an end: the process serves, is refused or dies,  *)
(* whatever happened to the one that held the lock before it.              *)
StartupEnds == \A p \in Procs : phase[p] \in {"starting", "maintaining"} ~> phase[p] \in {"serving", "refused", "maintenance", "down"}

(* What the operator documentation promises: an attempt that was           *)
(* interrupted on a schema which is now complete can be resolved.          *)
CompleteSchemaResolvable ==
    \A i \in DOMAIN ledger :
        Unresolved(ledger[i]) /\ db.applied = Versions /\ CurrentPostconditions(backend, db) => ResolveOk(i)

-----------------------------------------------------------------------------
(* The inductive invariant behind ServesVerifiedSchema and KeepsHistory.   *)

LockInv == \A p \in Procs : lock = p <=> phase[p] \in Holding

(* A transaction is open only while the holder of the lock applies.        *)
TxInv == tx # NoTx => \E p \in Procs : At(p, "apply")

(* The versions on record are the first ones, and every attempt began.     *)
LedgerInv ==
    /\ \E k \in 0 .. Cardinality(db.applied) : db.applied = 1 .. k
    /\ \A i \in DOMAIN ledger : ledger[i].events # <<>>
    /\ table \in {"none", "bare"} => ledger = <<>>
    /\ \A p \in Procs : phase[p] \in {"protect", "protect_only"} => table = "bare"
    /\ \A p \in Procs : phase[p] \in {"history", "next", "apply", "verify"} => table = "sound"

(* Past the history check the ledger has no attempt without an outcome but *)
(* the process's own, and every version on record but its own succeeded.   *)
HistoryInv(p) ==
    /\ durable[p] <=> OpenAttempt(p)
    /\ At(p, "history") => \A i \in DOMAIN ledger : ~Orphaned(ledger[i])
    /\ phase[p] \in {"next", "apply", "verify"} =>
          \A i \in DOMAIN ledger :
             /\ ~Unresolved(ledger[i])
             /\ Orphaned(ledger[i]) <=> OpenAttempt(p) /\ attempt[p] = i
    /\ At(p, "next") => db.applied \subseteq Versions /\ db.applied \subseteq Completed

(* The attempt is for the next version, which the database or the open     *)
(* transaction has once the program is through: its last statement records *)
(* the version, or raises.                                                 *)
AttemptInv(p) ==
    /\ OpenAttempt(p) =>
          /\ todo[p] \in Versions /\ attempt[p] \in DOMAIN ledger
          /\ ledger[attempt[p]].version = todo[p]
          /\ 1 .. todo[p] - 1 \subseteq Completed
          /\ {db.applied, View.applied} \subseteq {1 .. todo[p] - 1, 1 .. todo[p]}
          /\ db.applied \subseteq View.applied
    /\ At(p, "verify") => db.applied = 1 .. todo[p]
    /\ At(p, "apply") => IF prog[p] = <<>> THEN todo[p] \in View.applied
                         ELSE EndsIn(prog[p], todo[p])
    /\ ~At(p, "apply") => prog[p] = <<>>

MigrationInv ==
    /\ MigrationTypeOK /\ LockInv /\ TxInv /\ LedgerInv
    /\ \A p \in Procs : HistoryInv(p) /\ AttemptInv(p)

-----------------------------------------------------------------------------
(* The inductive invariant behind RowsKept.                                *)

Homes == {"runs", "dispatch"}
Backups == [runs |-> {"runs_legacy", "runs_binding"}, dispatch |-> {"dispatch_v8"}]

(* No statement of a program discards the rows of table h. *)
Spares(s, h) == \A i \in 1 .. Len(s) : h \notin s[i].wipe

(* Statement k copies the rows of h to the backup b and the second after   *)
(* it brings them back; they are discarded in between only.                *)
Moves(s, h, b, k) ==
    /\ k + 2 <= Len(s)
    /\ <<h, b>> \in s[k].copy /\ b \notin s[k + 1].wipe /\ <<b, h>> \in s[k + 2].copy
    /\ \A i \in 1 .. Len(s) : h \in s[i].wipe => i \in {k, k + 1}

Orderly(s, h) == Spares(s, h) \/ \E b \in Backups[h], k \in 1 .. Len(s) : Moves(s, h, b, k)

(* The same program under way: statement n, the next one or the one after  *)
(* it, brings the rows back.                                               *)
Returns(s, h, b, n) ==
    /\ n <= Len(s) /\ <<b, h>> \in s[n].copy
    /\ n = 2 => b \notin s[1].wipe
    /\ \A i \in 1 .. Len(s) : h \in s[i].wipe => i < n

(* A program that starts where r are the tables with rows leaves h its rows. *)
Safe(r, s, h) ==
    \/ h \in r /\ Orderly(s, h)
    \/ \E b \in Backups[h] \cap r, n \in {1, 2} : Returns(s, h, b, n)

(* The rows are at home unless an attempt is open or was interrupted, and  *)
(* such an attempt, once interrupted, is never resolved.                   *)
Unsettled == \E i \in DOMAIN ledger : Orphaned(ledger[i]) \/ Unresolved(ledger[i])

RowsInv ==
    /\ kept \subseteq Homes
    /\ \A h \in kept : ({h} \cup Backups[h]) \cap db.rows # {}
    /\ ~Unsettled => kept \subseteq db.rows
    /\ \A p \in Procs : At(p, "apply") => \A h \in kept : Safe(View.rows, prog[p], h)
    /\ \A p \in Procs : At(p, "verify") => kept \subseteq db.rows
    /\ \A p \in Procs : At(p, "serving") =>
          /\ Versions \subseteq db.applied /\ kept \subseteq db.rows
          /\ \A q \in Procs : ~OpenAttempt(q)
=============================================================================
