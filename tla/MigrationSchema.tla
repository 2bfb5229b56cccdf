-------------------------- MODULE MigrationSchema --------------------------
(***************************************************************************)
(* The schema that the thirteen registered migrations build (core/db.py,   *)
(* core/scan_request_migration_v13.py): a database is the set of schema    *)
(* objects that exist, the set of tables that hold rows, and the versions  *)
(* recorded in schema_migrations.  Every migration is the sequence of      *)
(* statements the code issues on the database it finds; every verifier is  *)
(* a predicate on the database.                                            *)
(***************************************************************************)
EXTENDS Naturals, Sequences

Backends == {"sqlite", "postgresql"}
Versions == 1 .. 13      \* MIGRATION_REGISTRY

(* Objects: a table, or "table.property" for a key, a foreign key or a     *)
(* group of columns that a migration or a verifier looks at.               *)
RunObjects == {"runs", "runs.request_fk", "runs.request_uq", "runs.snapshot",
               "runs.decision_fk", "runs.key", "runs.generation"}

(* The tables, their properties, and the rows that break a reference.      *)
Names == RunObjects \cup
    {"core", "core.plain_columns", "core.zero_columns",
     "decisions", "decisions.key", "decisions.dup_key", "decisions.claim_columns",
     "requests", "requests.key", "requests.dup_key", "requests.claim_columns",
     "runs.dup_decision_fk", "runs_legacy", "runs_binding",
     "dispatch", "dispatch.run_fk", "dispatch.lease", "dispatch_v8",
     "ownership", "attempts", "attempts.append_only", "recovery_state",
     "scan_requests", "scan_requests.key", "scan_requests.manifest", "scan_requests.approver",
     "scan_requests.asset", "operations", "operations.scoped_key", "operations.child",
     "operations_v13", "fleet", "run_orphans", "decision_orphans", "dispatch_orphans"}

(* One SQL statement: how it is executed, the objects it creates and       *)
(* drops, the rows it copies or discards, the version row it inserts.      *)
(* DDL commits by itself outside a transaction (SQLite), DML opens one, a  *)
(* script first commits what is open.                                      *)
Statement(mode, add, del, copy, wipe, version) ==
    [mode |-> mode, add |-> add, del |-> del, copy |-> copy, wipe |-> wipe, version |-> version]

(* The statements of a program for version v record no other version, and  *)
(* the program ends by recording it, or raises.                            *)
Statements(v) ==
    [mode : {"ddl", "dml", "script", "raise"}, add : SUBSET Names, del : SUBSET Names,
     copy : SUBSET (Names \X Names), wipe : SUBSET Names, version : SUBSET {v}]

EndsIn(s, v) == s[Len(s)].version = {v} \/ s[Len(s)].mode = "raise"

Ddl(add, del)    == <<Statement("ddl", add, del, {}, {}, {})>>
Create(obj)      == Ddl(obj, {})
DropTable(t, of) == <<Statement("ddl", {}, {t} \cup of, {}, {t}, {})>>
Copy(from, to)   == <<Statement("dml", {}, {}, {<<from, to>>}, {}, {})>>
Script(obj)      == <<Statement("script", obj, {}, {}, {}, {})>>
Begin            == <<Statement("dml", {}, {}, {}, {}, {})>>
Record(v)        == <<Statement("dml", {}, {}, {}, {}, {v})>>
Raise            == <<Statement("raise", {}, {}, {}, {}, {})>>
When(cond, statements) == IF cond THEN statements ELSE <<>>

(* What the database is after a statement. *)
Effect(d, s) ==
    [obj |-> (d.obj \ s.del) \cup s.add,
     rows |-> (d.rows \ s.wipe) \cup {c[2] : c \in {x \in s.copy : x[1] \in d.rows}},
     applied |-> d.applied \cup s.version]

(* SQLite rewrites the foreign keys of other tables when it renames one:   *)
(* a rebuild of execution_runs leaves execution_dispatch_intents bound to  *)
(* the backup that is dropped at the end.                                  *)
RebuildRuns(backup, shape) ==
    <<Statement("ddl", {backup}, RunObjects \cup {"dispatch.run_fk"}, {<<"runs", backup>>}, {"runs"}, {})>>
    \o Create({"runs"} \cup shape) \o Copy(backup, "runs") \o DropTable(backup, {})

(* The columns of the compatibility manifest: those whose default is 0,    *)
(* and the others.                                                         *)
CompatibilityManifest == <<"core.plain_columns", "core.zero_columns">>

(* The catalog has the column, with the type and default of the manifest.  *)
ColumnExact(d, column) == column \in d.obj

(* The check of a column just added.  On PostgreSQL the expected metadata  *)
(* is built, not read, and a default of 0 is left out of it.               *)
AddedColumnExact(b, column) == ~(b = "postgresql" /\ column = "core.zero_columns")

(* ALTER TABLE ADD COLUMN through the guarded connection: an exact column  *)
(* is left alone, a missing one is added under its savepoint and checked.  *)
GuardedAlter(b, d, column) ==
    IF ColumnExact(d, column) THEN <<>>
    ELSE IF AddedColumnExact(b, column) THEN Create({column})
    ELSE Raise

(* The base script of _init_db: CREATE TABLE IF NOT EXISTS. *)
BaseTables ==
    [core      |-> {"core", "core.plain_columns", "core.zero_columns"},
     decisions |-> {"decisions", "decisions.key", "decisions.claim_columns"},
     requests  |-> {"requests", "requests.key", "requests.claim_columns"},
     runs      |-> {"runs", "runs.request_fk", "runs.snapshot", "runs.decision_fk", "runs.key"},
     dispatch  |-> {"dispatch", "dispatch.run_fk"}]

(* PostgreSQL refuses a foreign key without the unique key it references.  *)
BaseTable(b, d, t) ==
    IF t \in d.obj THEN <<>>
    ELSE IF b = "postgresql" /\ t = "dispatch" /\ "runs" \in d.obj /\ "runs.key" \notin d.obj THEN Raise
    ELSE Script(BaseTables[t])

BaseScript(b, d) ==
    BaseTable(b, d, "core") \o BaseTable(b, d, "decisions") \o BaseTable(b, d, "requests")
        \o BaseTable(b, d, "runs") \o BaseTable(b, d, "dispatch")

(* The database a migration block finds once the base script has run. *)
AfterBase(d) ==
    [d EXCEPT !.obj = @ \cup UNION {BaseTables[t] : t \in {x \in DOMAIN BaseTables : x \notin d.obj}}]

GenericColumns(b, d) ==
    GuardedAlter(b, d, CompatibilityManifest[1]) \o GuardedAlter(b, d, CompatibilityManifest[2])
-----------------------------------------------------------------------------
(* The verifiers.  *)
ExecutionRunTenantBinding(d) ==     \* v1, v2, v5, v9
    /\ {"core", "requests", "requests.key", "runs", "runs.request_fk", "runs.request_uq"} \subseteq d.obj
    /\ "requests.dup_key" \notin d.obj

ExecutionSnapshot(d) == {"runs", "runs.snapshot"} \subseteq d.obj                          \* v3

ExecutionAuthorityBinding(d) ==     \* v4
    /\ {"decisions.key", "runs.decision_fk"} \subseteq d.obj
    /\ {"decisions.dup_key", "runs.dup_decision_fk"} \cap d.obj = {}

ExecutionCompatibility(d) == {"decisions.claim_columns", "requests.claim_columns"} \subseteq d.obj   \* v6

ExecutionDispatchConstraints(d) == {"dispatch", "dispatch.run_fk"} \subseteq d.obj         \* v7, v8
ExecutionDispatchBase(d) == ExecutionDispatchConstraints(d) /\ "dispatch.lease" \notin d.obj   \* v7
ExecutionDispatch(d) == ExecutionDispatchConstraints(d) /\ {"dispatch.lease", "runs.key"} \subseteq d.obj   \* v8

(* The trigger that makes recovery attempts append-only is looked for on   *)
(* SQLite only.                                                            *)
LifecycleTables == {"ownership", "attempts", "recovery_state"}
ProcessLifecycle(b, d) ==           \* v10
    LifecycleTables \cup (IF b = "sqlite" THEN {"attempts.append_only"} ELSE {}) \subseteq d.obj

ScanTables == {"scan_requests", "operations", "fleet"}
ScanAuthorization(b, d) ==          \* v11
    ScanTables \cup (IF b = "postgresql" THEN {"scan_requests.key"} ELSE {}) \subseteq d.obj

ApprovalColumns == {"scan_requests.approver", "scan_requests.asset", "operations.child", "runs.generation"}
ApprovalBinding(d) == ApprovalColumns \subseteq d.obj                                       \* v12

RequiredIdentity ==
    {"scan_requests.manifest", "scan_requests.key", "operations.scoped_key", "operations.child"}
ScanRequestIdentity(d) == RequiredIdentity \subseteq d.obj                                 \* v13

Postcondition(v, b, d) ==
    CASE v \in {1, 2, 5, 9} -> ExecutionRunTenantBinding(d)
      [] v = 3  -> ExecutionSnapshot(d)
      [] v = 4  -> ExecutionAuthorityBinding(d)
      [] v = 6  -> ExecutionCompatibility(d)
      [] v = 7  -> ExecutionDispatchBase(d)
      [] v = 8  -> ExecutionDispatch(d)
      [] v = 10 -> ProcessLifecycle(b, d)
      [] v = 11 -> ScanAuthorization(b, d)
      [] v = 12 -> ApprovalBinding(d)
      [] v = 13 -> ScanRequestIdentity(d)

(* The latest compatible set, re-checked at every startup. *)
CurrentPostconditions(b, d) == \A v \in {3, 4, 6, 8, 9, 10, 11, 12, 13} : Postcondition(v, b, d)

(* The health checks that a pass of _init_db beyond version 10 repeats.    *)
SchemaHealthy(b, d) ==
    /\ \A v \in {3, 4, 6, 8, 10} : Postcondition(v, b, d)
    /\ {"runs.request_uq", "requests.key", "runs.request_fk"} \subseteq d.obj
-----------------------------------------------------------------------------
(* The migrations. *)
V1(b, d) ==
    IF "run_orphans" \in d.rows THEN Raise
    ELSE When("runs.request_fk" \notin d.obj,
              IF b = "sqlite" THEN RebuildRuns("runs_legacy", {"runs.request_fk", "runs.snapshot"})
              ELSE Create({"runs.request_fk"}))
         \o Create({"runs.request_uq"}) \o Record(1)

V2(b, d) ==
    IF b = "postgresql" THEN When("runs.request_fk" \notin d.obj, Create({"runs.request_fk"})) \o Record(2)
    ELSE IF {"runs.request_fk", "requests.key"} \subseteq d.obj THEN Record(2) ELSE Raise

V3(b, d) == GuardedAlter(b, d, "runs.snapshot") \o Record(3)

(* A backup left by an interrupted run is dropped only if its rows are     *)
(* those of the table that replaced it.                                    *)
V4Recovery(d) ==
    IF "runs_binding" \notin d.obj THEN <<>>
    ELSE IF ExecutionSnapshot(d) /\ ("runs" \in d.rows <=> "runs_binding" \in d.rows)
         THEN Ddl({}, {"runs.request_uq"}) \o DropTable("runs_binding", {})
         ELSE Raise

V4(b, d) ==
    IF "decision_orphans" \in d.rows \/ (b = "postgresql" /\ "decisions.dup_key" \in d.obj) THEN Raise
    ELSE When(b = "sqlite", V4Recovery(d) \o When("decisions.dup_key" \in d.obj, Ddl({}, {"decisions.dup_key"})))
         \o When("decisions.key" \notin d.obj, Create({"decisions.key"}))
         \o Create({"runs.request_uq"})
         \o When("runs.decision_fk" \notin d.obj,
                 IF b = "postgresql" THEN Create({"runs.decision_fk"})
                 ELSE RebuildRuns("runs_binding", {"runs.request_fk", "runs.snapshot", "runs.decision_fk"})
                      \o Create({"runs.request_uq"}))
         \o Record(4)

V5(b, d) ==
    When("decisions.dup_key" \in d.obj,
         Ddl({}, {"decisions.dup_key"}) \o When(b = "postgresql", Ddl({}, {"runs.dup_decision_fk"})))
    \o When(b = "sqlite" /\ "decisions.key" \notin d.obj, Create({"decisions.key"}))
    \o Record(5)

V6(d) ==
    When("decisions.claim_columns" \notin d.obj, Create({"decisions.claim_columns"}))
    \o When("requests.claim_columns" \notin d.obj, Create({"requests.claim_columns"}))
    \o Record(6)

V7(d) == When("dispatch" \notin d.obj, Create({"dispatch", "dispatch.run_fk"})) \o Record(7)

(* Mutant: the old table is dropped before its rows are copied. *)
V8DropFirst(b, d) ==
    When("runs.key" \notin d.obj, Create({"runs.key"}))
    \o Create({"dispatch_v8"}) \o DropTable("dispatch", {"dispatch.run_fk"}) \o Copy("dispatch", "dispatch_v8")
    \o <<Statement("ddl", {"dispatch", "dispatch.run_fk", "dispatch.lease"}, {"dispatch_v8"},
                   {<<"dispatch_v8", "dispatch">>}, {"dispatch_v8"}, {})>>
    \o Record(8)

V8(b, d) ==
    When("runs.key" \notin d.obj, Create({"runs.key"}))
    \o IF "dispatch_orphans" \in d.rows THEN Raise
       ELSE IF b = "postgresql"
       THEN When("dispatch.lease" \notin d.obj, Create({"dispatch.lease"}))
            \o When("dispatch.run_fk" \notin d.obj, Create({"dispatch.run_fk"})) \o Record(8)
       ELSE IF {"dispatch_v8", "dispatch.lease"} \cap d.obj # {} THEN Raise
       ELSE Create({"dispatch_v8"}) \o Copy("dispatch", "dispatch_v8") \o DropTable("dispatch", {"dispatch.run_fk"})
            \o <<Statement("ddl", {"dispatch", "dispatch.run_fk", "dispatch.lease"}, {"dispatch_v8"},
                           {<<"dispatch_v8", "dispatch">>}, {"dispatch_v8"}, {})>>
            \o Record(8)

V9(d) == When("requests.dup_key" \in d.obj, Ddl({}, {"requests.dup_key"})) \o Record(9)

V10(b, d) ==
    IF LifecycleTables \cap d.obj # {} THEN Raise
    ELSE Create({"ownership"}) \o Create({"attempts"}) \o Create({"recovery_state"})
         \o Copy("runs", "ownership") \o Copy("runs", "recovery_state")
         \o (IF b = "sqlite" THEN Script({"attempts.append_only"}) ELSE Create({"attempts.append_only"}))
         \o Record(10)

V11(d) ==
    IF ScanTables \cap d.obj # {} THEN Raise
    ELSE Create({"scan_requests"}) \o Create({"scan_requests.key"}) \o Create({"operations"})
         \o Create({"fleet"}) \o Record(11)

(* A table with some of its columns only is refused. *)
V12(d) ==
    LET ofRequests == {"scan_requests.approver", "scan_requests.asset"} IN
    IF ofRequests \cap d.obj \notin {{}, ofRequests} THEN Raise
    ELSE When("scan_requests.approver" \notin d.obj,
              Create({"scan_requests.approver"}) \o Create({"scan_requests.asset"}))
         \o When("operations.child" \notin d.obj, Create({"operations.child"}))
         \o When("runs.generation" \notin d.obj, Create({"runs.generation"}))
         \o Record(12)

(* One transaction on both backends; requests written before version 13    *)
(* cannot be given the identity it needs.                                  *)
V13(d) ==
    Begin \o
    IF {"scan_requests.manifest", "operations.scoped_key"} \subseteq d.obj
    THEN IF ScanRequestIdentity(d) THEN Record(13) ELSE Raise
    ELSE IF "scan_requests" \in d.rows THEN Raise
    ELSE Create({"operations_v13"}) \o Copy("operations", "operations_v13") \o DropTable("operations", {"operations.child"})
         \o <<Statement("ddl", {"operations", "operations.child", "operations.scoped_key"}, {"operations_v13"},
                        {<<"operations_v13", "operations">>}, {"operations_v13"}, {})>>
         \o Create({"scan_requests.manifest"}) \o Record(13)

Migration(v, b, d) ==
    CASE v = 1  -> V1(b, d)
      [] v = 2  -> V2(b, d)
      [] v = 3  -> V3(b, d)
      [] v = 4  -> V4(b, d)
      [] v = 5  -> V5(b, d)
      [] v = 6  -> V6(d)
      [] v = 7  -> V7(d)
      [] v = 8  -> V8(b, d)
      [] v = 9  -> V9(d)
      [] v = 10 -> V10(b, d)
      [] v = 11 -> V11(d)
      [] v = 12 -> V12(d)
      [] v = 13 -> V13(d)

(* The statements that apply version v to the database d: _init_db up to   *)
(* version v, all earlier ones being recorded, or the separate version 13. *)
(* The generic columns are reconciled by the first pass of a startup only. *)
InitDb(v, b, d, first) ==
    IF v = 13 THEN Migration(v, b, d)
    ELSE BaseScript(b, d) \o When(first, GenericColumns(b, AfterBase(d)))
         \o IF \/ v > 10 /\ ~SchemaHealthy(b, AfterBase(d))
               \/ v > 11 /\ ~ScanAuthorization(b, AfterBase(d))
            THEN Raise
            ELSE Migration(v, b, AfterBase(d))
=============================================================================
