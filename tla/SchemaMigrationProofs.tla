----------------------- MODULE SchemaMigrationProofs -----------------------
(***************************************************************************)
(* Proofs about SchemaMigration.                                           *)
(***************************************************************************)
EXTENDS SchemaMigration, SequenceTheorems, FiniteSetTheorems, TLAPS

-----------------------------------------------------------------------------
(* The programs of the migrations.                                         *)

Quiet(v) == {x \in Statements(v) : x.wipe \cap Homes = {}}

(* A program that takes the rows it discards to safety first. *)
Body(s, v) == s \in Seq(Statements(v)) /\ \A h \in Homes : Orderly(s, h)
Program(s, v) == Body(s, v) /\ s # <<>> /\ EndsIn(s, v)

LEMMA Join ==
    ASSUME NEW v, NEW s \in Seq(Quiet(v)), NEW t \in Seq(Quiet(v))
    PROVE  s \o t \in Seq(Quiet(v))
BY ConcatProperties

LEMMA QuietSeq ==
    ASSUME NEW v, NEW s \in Seq(Quiet(v))
    PROVE  /\ s \in Seq(Statements(v)) /\ Len(s) \in Nat
           /\ \A h \in Homes : Spares(s, h)
<1>1. Len(s) \in Nat /\ s \in [1 .. Len(s) -> Quiet(v)]
  BY LenProperties
<1>2. \A i \in 1 .. Len(s) : s[i] \in Statements(v) /\ s[i].wipe \cap Homes = {}
  BY <1>1 DEF Quiet
<1>3. s \in Seq(Statements(v))
  <2>1. s = [i \in 1 .. Len(s) |-> s[i]]
    BY <1>1
  <2> HIDE DEF Statements
  <2> QED BY <1>1, <1>2, <2>1, IsASeq
<1>4. \A h \in Homes : Spares(s, h)
  BY <1>2 DEF Spares
<1> QED BY <1>1, <1>3, <1>4

LEMMA QuietBody == ASSUME NEW v, NEW s \in Seq(Quiet(v)) PROVE Body(s, v)
BY QuietSeq DEF Body, Orderly

(* The places of a joined program. *)
LEMMA Places ==
    ASSUME NEW v, NEW s \in Seq(Statements(v)), NEW t \in Seq(Statements(v))
    PROVE  /\ s \o t \in Seq(Statements(v)) /\ Len(s) \in Nat /\ Len(t) \in Nat
           /\ Len(s \o t) = Len(s) + Len(t)
           /\ \A i \in 1 .. Len(s) : (s \o t)[i] = s[i]
           /\ \A i \in 1 .. Len(t) : (s \o t)[Len(s) + i] = t[i]
           /\ \A i \in 1 .. Len(s \o t) : i \in 1 .. Len(s) \/ i - Len(s) \in 1 .. Len(t)
<1> HIDE DEF Statements
<1>1. Len(s) \in Nat /\ Len(t) \in Nat
  BY LenProperties
<1>2. /\ s \o t \in Seq(Statements(v)) /\ Len(s \o t) = Len(s) + Len(t)
      /\ \A i \in 1 .. Len(s) + Len(t) : (s \o t)[i] = IF i <= Len(s) THEN s[i] ELSE t[i - Len(s)]
  BY ConcatProperties
<1>3. \A i \in 1 .. Len(s) : (s \o t)[i] = s[i]
  BY <1>1, <1>2
<1>4. ASSUME NEW i \in 1 .. Len(t) PROVE (s \o t)[Len(s) + i] = t[i]
  <2>1. Len(s) + i \in 1 .. Len(s) + Len(t) /\ ~(Len(s) + i <= Len(s)) /\ (Len(s) + i) - Len(s) = i
    BY <1>1
  <2> QED BY <1>2, <2>1
<1>5. \A i \in 1 .. Len(s \o t) : i \in 1 .. Len(s) \/ i - Len(s) \in 1 .. Len(t)
  BY <1>1, <1>2
<1> QED BY <1>1, <1>2, <1>3, <1>4, <1>5

(* Statements that discard nothing may come before or after. *)
LEMMA JoinBefore ==
    ASSUME NEW v, NEW s \in Seq(Quiet(v)), NEW t, Body(t, v)
    PROVE  Body(s \o t, v)
<1>1. s \in Seq(Statements(v)) /\ t \in Seq(Statements(v)) /\ \A h \in Homes : Spares(s, h) /\ Orderly(t, h)
  BY QuietSeq DEF Body
<1> DEFINE u == s \o t
           n == Len(s)
<1>2. /\ u \in Seq(Statements(v)) /\ n \in Nat /\ Len(t) \in Nat /\ Len(u) = n + Len(t)
      /\ \A i \in 1 .. n : u[i] = s[i]
      /\ \A i \in 1 .. Len(t) : u[n + i] = t[i]
      /\ \A i \in 1 .. Len(u) : i \in 1 .. n \/ i - n \in 1 .. Len(t)
  BY <1>1, Places
<1> HIDE DEF u, n
<1>3. ASSUME NEW h \in Homes, NEW i \in 1 .. Len(u), h \in u[i].wipe
      PROVE  i - n \in 1 .. Len(t) /\ h \in t[i - n].wipe
  <2>1. i \in Int /\ i = n + (i - n)
    BY <1>2
  <2>2. i \notin 1 .. n
    BY <1>1, <1>2, <1>3 DEF Spares, n
  <2> QED BY <1>2, <1>3, <2>1, <2>2
<1>4. ASSUME NEW h \in Homes PROVE Orderly(u, h)
  <2>1. CASE Spares(t, h)
    BY <1>3, <2>1 DEF Spares, Orderly
  <2>2. ASSUME NEW b \in Backups[h], NEW k \in 1 .. Len(t), Moves(t, h, b, k) PROVE Orderly(u, h)
    <3>1. k + 1 \in 1 .. Len(t) /\ k + 2 \in 1 .. Len(t) /\ n + k \in 1 .. Len(u)
      BY <1>2, <2>2 DEF Moves
    <3>2. (n + k) + 1 = n + (k + 1) /\ (n + k) + 2 = n + (k + 2) /\ (n + k) + 2 <= Len(u)
      BY <1>2, <3>1
    <3>3. u[n + k] = t[k] /\ u[(n + k) + 1] = t[k + 1] /\ u[(n + k) + 2] = t[k + 2]
      BY <1>2, <3>1, <3>2
    <3>4. ASSUME NEW i \in 1 .. Len(u), h \in u[i].wipe PROVE i \in {n + k, (n + k) + 1}
      <4>1. i - n \in {k, k + 1}
        BY <1>3, <2>2, <3>4 DEF Moves
      <4> QED BY <1>2, <4>1
    <3>5. Moves(u, h, b, n + k)
      BY <2>2, <3>2, <3>3, <3>4 DEF Moves
    <3> QED BY <3>1, <3>5 DEF Orderly
  <2> QED BY <1>1, <2>1, <2>2 DEF Orderly
<1> QED BY <1>2, <1>4 DEF Body, u

LEMMA JoinAfter ==
    ASSUME NEW v, NEW s, Body(s, v), NEW t \in Seq(Quiet(v))
    PROVE  Body(s \o t, v)
<1>1. s \in Seq(Statements(v)) /\ t \in Seq(Statements(v)) /\ \A h \in Homes : Orderly(s, h) /\ Spares(t, h)
  BY QuietSeq DEF Body
<1> DEFINE u == s \o t
           n == Len(s)
<1>2. /\ u \in Seq(Statements(v)) /\ n \in Nat /\ Len(t) \in Nat /\ Len(u) = n + Len(t)
      /\ \A i \in 1 .. n : u[i] = s[i]
      /\ \A i \in 1 .. Len(t) : u[n + i] = t[i]
      /\ \A i \in 1 .. Len(u) : i \in 1 .. n \/ i - n \in 1 .. Len(t)
  BY <1>1, Places
<1> HIDE DEF u, n
<1>3. ASSUME NEW h \in Homes, NEW i \in 1 .. Len(u), h \in u[i].wipe
      PROVE  i \in 1 .. n /\ h \in s[i].wipe
  <2>1. i \in Int /\ i = n + (i - n)
    BY <1>2
  <2>2. i - n \notin 1 .. Len(t)
    BY <1>1, <1>2, <1>3, <2>1 DEF Spares
  <2> QED BY <1>2, <1>3, <2>2
<1>4. ASSUME NEW h \in Homes PROVE Orderly(u, h)
  <2>1. CASE Spares(s, h)
    BY <1>3, <2>1 DEF Spares, Orderly, n
  <2>2. ASSUME NEW b \in Backups[h], NEW k \in 1 .. n, Moves(s, h, b, k) PROVE Orderly(u, h)
    <3>1. k + 1 \in 1 .. n /\ k + 2 \in 1 .. n /\ k \in 1 .. Len(u) /\ k + 2 <= Len(u)
      BY <1>2, <2>2 DEF Moves, n
    <3>2. u[k] = s[k] /\ u[k + 1] = s[k + 1] /\ u[k + 2] = s[k + 2]
      BY <1>2, <3>1
    <3>3. ASSUME NEW i \in 1 .. Len(u), h \in u[i].wipe PROVE i \in {k, k + 1}
      BY <1>3, <2>2, <3>3 DEF Moves, n
    <3>4. Moves(u, h, b, k)
      BY <2>2, <3>1, <3>2, <3>3 DEF Moves
    <3> QED BY <3>1, <3>4 DEF Orderly
  <2> QED BY <1>1, <2>1, <2>2 DEF Orderly, n
<1> QED BY <1>2, <1>4 DEF Body, u

LEMMA JoinProgram ==
    ASSUME NEW v, NEW s, NEW t, Program(t, v),
           \/ s \in Seq(Quiet(v))
           \/ Body(s, v) /\ t \in Seq(Quiet(v))
    PROVE  Program(s \o t, v)
<1>1. Body(s \o t, v)
  BY JoinBefore, JoinAfter DEF Program
<1>2. s \in Seq(Statements(v)) /\ t \in Seq(Statements(v)) /\ t # <<>> /\ Len(t) \in Nat /\ Len(t) > 0
  BY QuietSeq, EmptySeq, LenProperties DEF Program, Body
<1>3. Len(s \o t) = Len(s) + Len(t) /\ (s \o t)[Len(s) + Len(t)] = t[Len(t)] /\ Len(s) \in Nat
  BY <1>2, Places
<1>4. s \o t # <<>>
  BY <1>2, <1>3
<1> QED BY <1>1, <1>3, <1>4 DEF Program, Body, EndsIn

LEMMA One ==
    ASSUME NEW v, NEW x \in Quiet(v)
    PROVE  <<x>> \in Seq(Quiet(v)) /\ <<x>> # <<>> /\ Len(<<x>>) = 1 /\ <<x>>[1] = x
OBVIOUS

LEMMA Part ==
    ASSUME NEW v, NEW m \in {"ddl", "dml", "script"}, NEW a \in SUBSET Names, NEW d \in SUBSET Names,
           NEW c \in SUBSET (Names \X Names), NEW w \in SUBSET Names, w \cap Homes = {}
    PROVE  <<Statement(m, a, d, c, w, {})>> \in Seq(Quiet(v))
BY One DEF Statement, Statements, Quiet

LEMMA Literals ==
    /\ "attempts" \in Names /\ "attempts.append_only" \in Names /\ "core" \in Names
    /\ "core.plain_columns" \in Names /\ "core.zero_columns" \in Names /\ "decision_orphans" \in Names
    /\ "decisions" \in Names /\ "decisions.claim_columns" \in Names /\ "decisions.dup_key" \in Names
    /\ "decisions.key" \in Names /\ "dispatch" \in Names /\ "dispatch.lease" \in Names
    /\ "dispatch.run_fk" \in Names /\ "dispatch_orphans" \in Names /\ "dispatch_v8" \in Names
    /\ "fleet" \in Names /\ "operations" \in Names /\ "operations.child" \in Names
    /\ "operations.scoped_key" \in Names /\ "operations_v13" \in Names /\ "ownership" \in Names
    /\ "recovery_state" \in Names /\ "requests" \in Names /\ "requests.claim_columns" \in Names
    /\ "requests.dup_key" \in Names /\ "requests.key" \in Names /\ "run_orphans" \in Names
    /\ "runs" \in Names /\ "runs.decision_fk" \in Names /\ "runs.dup_decision_fk" \in Names
    /\ "runs.generation" \in Names /\ "runs.key" \in Names /\ "runs.request_fk" \in Names
    /\ "runs.request_uq" \in Names /\ "runs.snapshot" \in Names /\ "runs_binding" \in Names
    /\ "runs_legacy" \in Names /\ "scan_requests" \in Names /\ "scan_requests.approver" \in Names
    /\ "scan_requests.asset" \in Names /\ "scan_requests.key" \in Names /\ "scan_requests.manifest" \in Names
BY DEF Names, RunObjects

LEMMA Pair ==
    ASSUME NEW t \in Names, NEW u \in Names
    PROVE  {<<t, u>>} \in SUBSET (Names \X Names) /\ {t} \in SUBSET Names
<1>1. <<t, u>> \in Names \X Names
  OBVIOUS
<1> QED BY <1>1

LEMMA DdlPart ==
    ASSUME NEW v, NEW add \in SUBSET Names, NEW del \in SUBSET Names
    PROVE  Ddl(add, del) \in Seq(Quiet(v))
BY Part DEF Ddl

LEMMA CreatePart ==
    ASSUME NEW v, NEW add \in SUBSET Names
    PROVE  Create(add) \in Seq(Quiet(v)) /\ Script(add) \in Seq(Quiet(v))
BY Part DEF Create, Ddl, Script

LEMMA DropPart ==
    ASSUME NEW v, NEW t \in Names \ Homes, NEW del \in SUBSET Names
    PROVE  DropTable(t, del) \in Seq(Quiet(v))
<1>1. {t} \cup del \in SUBSET Names /\ {t} \in SUBSET Names /\ {t} \cap Homes = {}
  OBVIOUS
<1> QED BY <1>1, Part DEF DropTable

LEMMA CopyPart ==
    ASSUME NEW v, NEW t \in Names, NEW u \in Names
    PROVE  Copy(t, u) \in Seq(Quiet(v))
BY Pair, Part DEF Copy

LEMMA BeginPart == ASSUME NEW v PROVE Begin \in Seq(Quiet(v))
BY Part DEF Begin

LEMMA RenamePart ==
    ASSUME NEW v, NEW add \in SUBSET Names, NEW del \in SUBSET Names, NEW t \in Names \ Homes, NEW u \in Names
    PROVE  <<Statement("ddl", add, del, {<<t, u>>}, {t}, {})>> \in Seq(Quiet(v))
BY Pair, Part

LEMMA Ends ==
    ASSUME NEW v
    PROVE  /\ Program(Record(v), v) /\ Program(Raise, v)
           /\ Record(v) \in Seq(Quiet(v)) /\ Raise \in Seq(Quiet(v))
<1>1. Statement("dml", {}, {}, {}, {}, {v}) \in Quiet(v)
      /\ Statement("raise", {}, {}, {}, {}, {}) \in Quiet(v)
  BY DEF Statement, Statements, Quiet
<1>2. Statement("dml", {}, {}, {}, {}, {v}).version = {v}
      /\ Statement("raise", {}, {}, {}, {}, {}).mode = "raise"
  BY DEF Statement
<1>3. Record(v) \in Seq(Quiet(v)) /\ Raise \in Seq(Quiet(v))
  BY <1>1, One DEF Record, Raise
<1> QED BY <1>1, <1>2, <1>3, One, QuietBody DEF Program, EndsIn, Record, Raise

LEMMA Optional ==
    ASSUME NEW v, NEW c, NEW s, c => s \in Seq(Quiet(v))
    PROVE  When(c, s) \in Seq(Quiet(v))
BY DEF When

(* Rows that go to a backup and come back. *)
LEMMA Relay ==
    ASSUME NEW v, NEW h \in Homes, NEW b \in Backups[h],
           NEW x \in Statements(v), NEW y \in Statements(v), NEW z \in Statements(v),
           <<h, b>> \in x.copy, b \notin y.wipe, <<b, h>> \in z.copy, h \notin z.wipe,
           \A g \in Homes : g # h => g \notin x.wipe \cup y.wipe \cup z.wipe
    PROVE  Body(<<x>> \o <<y>> \o <<z>>, v)
<1> DEFINE u == <<x>> \o <<y>> \o <<z>>
<1>1. u \in Seq(Statements(v)) /\ Len(u) = 3 /\ u[1] = x /\ u[2] = y /\ u[3] = z
  <2> HIDE DEF Statements
  <2> QED OBVIOUS
<1> HIDE DEF u, Statements
<1>2. 1 .. Len(u) = {1, 2, 3}
  BY <1>1
<1>3. Moves(u, h, b, 1)
  BY <1>1, <1>2 DEF Moves
<1>4. \A g \in Homes : g # h => Spares(u, g)
  BY <1>1, <1>2 DEF Spares
<1>5. \A g \in Homes : Orderly(u, g)
  BY <1>2, <1>3, <1>4 DEF Orderly
<1> QED BY <1>1, <1>5 DEF Body, u

LEMMA Rebuild ==
    ASSUME NEW v, NEW backup \in Backups["runs"], NEW shape \in SUBSET Names
    PROVE  Body(RebuildRuns(backup, shape), v)
<1> DEFINE x == Statement("ddl", {backup}, RunObjects \cup {"dispatch.run_fk"}, {<<"runs", backup>>}, {"runs"}, {})
           y == Statement("ddl", {"runs"} \cup shape, {}, {}, {}, {})
           z == Statement("dml", {}, {}, {<<backup, "runs">>}, {}, {})
<1>1. backup \in Names /\ backup \notin Homes
  BY Literals DEF Backups, Homes
<1>2. x \in Statements(v)
  <2>1. {backup} \in SUBSET Names /\ {"runs"} \in SUBSET Names /\ "runs" \in Names
    BY <1>1, Literals
  <2>2. RunObjects \cup {"dispatch.run_fk"} \in SUBSET Names
    BY DEF RunObjects, Names
  <2>3. {<<"runs", backup>>} \in SUBSET (Names \X Names)
    BY <1>1, <2>1, Pair
  <2> QED BY <2>1, <2>2, <2>3 DEF Statement, Statements
<1>3. y \in Statements(v)
  <2>1. {"runs"} \cup shape \in SUBSET Names
    BY Literals
  <2> QED BY <2>1 DEF Statement, Statements
<1>4. z \in Statements(v)
  <2>1. {<<backup, "runs">>} \in SUBSET (Names \X Names)
    BY <1>1, Literals, Pair
  <2> QED BY <2>1 DEF Statement, Statements
<1>5. /\ x.copy = {<<"runs", backup>>} /\ x.wipe = {"runs"} /\ y.wipe = {}
      /\ z.copy = {<<backup, "runs">>} /\ z.wipe = {}
  BY DEF Statement
<1>6. "runs" \in Homes /\ \A g \in Homes : g # "runs" => g \notin {"runs"}
  BY DEF Homes
<1> HIDE DEF x, y, z
<1>7. Body(<<x>> \o <<y>> \o <<z>>, v)
  BY <1>2, <1>3, <1>4, <1>5, <1>6, Relay
<1>8. DropTable(backup, {}) \in Seq(Quiet(v))
  BY <1>1, DropPart
<1>9. RebuildRuns(backup, shape) = (<<x>> \o <<y>> \o <<z>>) \o DropTable(backup, {})
  BY DEF RebuildRuns, Create, Ddl, Copy, x, y, z
<1> QED BY <1>7, <1>8, <1>9, JoinAfter

LEMMA AlterPart ==
    ASSUME NEW v, NEW b, NEW d, NEW column \in Names
    PROVE  GuardedAlter(b, d, column) \in Seq(Quiet(v))
<1>1. {column} \in SUBSET Names
  OBVIOUS
<1>2. Create({column}) \in Seq(Quiet(v)) /\ Raise \in Seq(Quiet(v))
  BY <1>1, CreatePart, Ends DEF Program
<1>3. <<>> \in Seq(Quiet(v))
  OBVIOUS
<1> QED BY <1>2, <1>3 DEF GuardedAlter

LEMMA BasePart ==
    ASSUME NEW v, NEW b, NEW d
    PROVE  BaseScript(b, d) \in Seq(Quiet(v)) /\ GenericColumns(b, d) \in Seq(Quiet(v))
<1>1. ASSUME NEW t \in {"core", "decisions", "requests", "runs", "dispatch"}
      PROVE  BaseTable(b, d, t) \in Seq(Quiet(v))
  <2>1. BaseTables[t] \in SUBSET Names
    BY DEF BaseTables, Names, RunObjects
  <2>2. Script(BaseTables[t]) \in Seq(Quiet(v)) /\ Raise \in Seq(Quiet(v)) /\ <<>> \in Seq(Quiet(v))
    BY <2>1, CreatePart, Ends DEF Program
  <2> QED BY <2>2 DEF BaseTable
<1>2. BaseScript(b, d) \in Seq(Quiet(v))
  BY <1>1, Join DEF BaseScript
<1>3. GenericColumns(b, d) \in Seq(Quiet(v))
  <2>1. CompatibilityManifest[1] \in Names /\ CompatibilityManifest[2] \in Names
    BY Literals DEF CompatibilityManifest
  <2> QED BY <2>1, AlterPart, Join DEF GenericColumns
<1> QED BY <1>2, <1>3

LEMMA CreateOne ==
    ASSUME NEW v, NEW t \in Names
    PROVE  Create({t}) \in Seq(Quiet(v)) /\ Script({t}) \in Seq(Quiet(v)) /\ Ddl({}, {t}) \in Seq(Quiet(v))
<1>1. {t} \in SUBSET Names /\ {} \in SUBSET Names
  OBVIOUS
<1> QED BY <1>1, CreatePart, DdlPart

LEMMA Empty == ASSUME NEW v PROVE <<>> \in Seq(Quiet(v)) /\ <<>> \in Seq(Statements(v))
OBVIOUS

LEMMA ProgramV1 == ASSUME NEW b, NEW d PROVE Program(V1(b, d), 1)
<1>1. Program(Raise, 1) /\ Program(Record(1), 1)
  BY Ends
<1>2. {"runs.request_fk", "runs.snapshot"} \in SUBSET Names
  BY Literals
<1>3. Body(RebuildRuns("runs_legacy", {"runs.request_fk", "runs.snapshot"}), 1)
  BY <1>2, Rebuild DEF Backups
<1>4. Create({"runs.request_fk"}) \in Seq(Quiet(1)) /\ Create({"runs.request_uq"}) \in Seq(Quiet(1))
  BY Literals, CreateOne
<1> DEFINE w == When("runs.request_fk" \notin d.obj,
                     IF b = "sqlite" THEN RebuildRuns("runs_legacy", {"runs.request_fk", "runs.snapshot"})
                     ELSE Create({"runs.request_fk"}))
<1>5. Body(w, 1)
  BY <1>3, <1>4, Empty, QuietBody DEF When
<1>6. Body(w \o Create({"runs.request_uq"}), 1)
  BY <1>4, <1>5, JoinAfter
<1>7. Program(w \o Create({"runs.request_uq"}) \o Record(1), 1)
  BY <1>1, <1>6, Ends, JoinProgram
<1> HIDE DEF w
<1> QED BY <1>1, <1>7 DEF V1, w

LEMMA ProgramV2 == ASSUME NEW b, NEW d PROVE Program(V2(b, d), 2)
<1>1. Program(Raise, 2) /\ Program(Record(2), 2)
  BY Ends
<1>2. When("runs.request_fk" \notin d.obj, Create({"runs.request_fk"})) \in Seq(Quiet(2))
  BY Literals, CreateOne, Empty DEF When
<1> QED BY <1>1, <1>2, JoinProgram DEF V2

LEMMA ProgramV3 == ASSUME NEW b, NEW d PROVE Program(V3(b, d), 3)
BY Ends, Literals, AlterPart, JoinProgram DEF V3

LEMMA OptionalOne ==
    ASSUME NEW v, NEW c, NEW t \in Names
    PROVE  When(c, Create({t})) \in Seq(Quiet(v)) /\ When(c, Ddl({}, {t})) \in Seq(Quiet(v))
BY CreateOne, Empty DEF When

LEMMA ProgramV4 == ASSUME NEW b, NEW d PROVE Program(V4(b, d), 4)
<1>1. Program(Raise, 4) /\ Program(Record(4), 4) /\ Raise \in Seq(Quiet(4))
  BY Ends DEF Program
<1>2. V4Recovery(d) \in Seq(Quiet(4))
  <2>1. Ddl({}, {"runs.request_uq"}) \in Seq(Quiet(4))
    BY Literals, CreateOne
  <2>2. DropTable("runs_binding", {}) \in Seq(Quiet(4))
    BY Literals, DropPart DEF Homes
  <2> QED BY <1>1, <2>1, <2>2, Join, Empty DEF V4Recovery
<1> DEFINE x == When(b = "sqlite", V4Recovery(d) \o When("decisions.dup_key" \in d.obj, Ddl({}, {"decisions.dup_key"})))
           y == When("decisions.key" \notin d.obj, Create({"decisions.key"}))
           z == When("runs.decision_fk" \notin d.obj,
                     IF b = "postgresql" THEN Create({"runs.decision_fk"})
                     ELSE RebuildRuns("runs_binding", {"runs.request_fk", "runs.snapshot", "runs.decision_fk"})
                          \o Create({"runs.request_uq"}))
<1>3. x \in Seq(Quiet(4))
  <2>1. When("decisions.dup_key" \in d.obj, Ddl({}, {"decisions.dup_key"})) \in Seq(Quiet(4))
    BY Literals, OptionalOne
  <2> QED BY <1>2, <2>1, Join, Optional
<1>4. y \in Seq(Quiet(4)) /\ Create({"runs.request_uq"}) \in Seq(Quiet(4))
  BY Literals, OptionalOne, CreateOne
<1>5. Body(z, 4)
  <2>1. {"runs.request_fk", "runs.snapshot", "runs.decision_fk"} \in SUBSET Names
    BY Literals
  <2>2. Body(RebuildRuns("runs_binding", {"runs.request_fk", "runs.snapshot", "runs.decision_fk"}), 4)
    BY <2>1, Rebuild DEF Backups
  <2>3. Create({"runs.decision_fk"}) \in Seq(Quiet(4))
    BY Literals, CreateOne
  <2> QED BY <1>4, <2>2, <2>3, JoinAfter, QuietBody, Empty DEF When
<1> HIDE DEF x, y, z
<1>6. Body(x \o y \o Create({"runs.request_uq"}) \o z, 4)
  BY <1>3, <1>4, <1>5, Join, JoinBefore
<1>7. Program(x \o y \o Create({"runs.request_uq"}) \o z \o Record(4), 4)
  BY <1>1, <1>6, Ends, JoinProgram
<1> QED BY <1>1, <1>7 DEF V4, x, y, z

LEMMA ProgramV5 == ASSUME NEW b, NEW d PROVE Program(V5(b, d), 5)
<1> DEFINE x == When("decisions.dup_key" \in d.obj,
                     Ddl({}, {"decisions.dup_key"}) \o When(b = "postgresql", Ddl({}, {"runs.dup_decision_fk"})))
           y == When(b = "sqlite" /\ "decisions.key" \notin d.obj, Create({"decisions.key"}))
<1>1. x \in Seq(Quiet(5))
  BY Literals, CreateOne, OptionalOne, Join, Optional
<1>2. y \in Seq(Quiet(5))
  BY Literals, OptionalOne
<1> HIDE DEF x, y
<1>3. Program(x \o y \o Record(5), 5)
  BY <1>1, <1>2, Join, Ends, JoinProgram
<1> QED BY <1>3 DEF V5, x, y

LEMMA ProgramV6 == ASSUME NEW d PROVE Program(V6(d), 6)
<1> DEFINE x == When("decisions.claim_columns" \notin d.obj, Create({"decisions.claim_columns"}))
           y == When("requests.claim_columns" \notin d.obj, Create({"requests.claim_columns"}))
<1>1. x \in Seq(Quiet(6)) /\ y \in Seq(Quiet(6))
  BY Literals, OptionalOne
<1> HIDE DEF x, y
<1>2. Program(x \o y \o Record(6), 6)
  BY <1>1, Join, Ends, JoinProgram
<1> QED BY <1>2 DEF V6, x, y

LEMMA ProgramV7 == ASSUME NEW d PROVE Program(V7(d), 7)
<1>1. {"dispatch", "dispatch.run_fk"} \in SUBSET Names
  BY Literals
<1>2. When("dispatch" \notin d.obj, Create({"dispatch", "dispatch.run_fk"})) \in Seq(Quiet(7))
  BY <1>1, CreatePart, Optional
<1> QED BY <1>2, Ends, JoinProgram DEF V7

LEMMA ProgramV8 == ASSUME NEW b, NEW d PROVE Program(V8(b, d), 8)
<1> DEFINE key == When("runs.key" \notin d.obj, Create({"runs.key"}))
           lease == When("dispatch.lease" \notin d.obj, Create({"dispatch.lease"}))
           fk == When("dispatch.run_fk" \notin d.obj, Create({"dispatch.run_fk"}))
           rename == <<Statement("ddl", {"dispatch", "dispatch.run_fk", "dispatch.lease"}, {"dispatch_v8"},
                                 {<<"dispatch_v8", "dispatch">>}, {"dispatch_v8"}, {})>>
           move == Create({"dispatch_v8"}) \o Copy("dispatch", "dispatch_v8")
                   \o DropTable("dispatch", {"dispatch.run_fk"}) \o rename
<1>1. Program(Raise, 8) /\ Program(Record(8), 8)
  BY Ends
<1>2. key \in Seq(Quiet(8)) /\ lease \in Seq(Quiet(8)) /\ fk \in Seq(Quiet(8))
  BY Literals, OptionalOne
<1>3. Body(move, 8)
  <2> DEFINE x == Statement("dml", {}, {}, {<<"dispatch", "dispatch_v8">>}, {}, {})
             y == Statement("ddl", {}, {"dispatch"} \cup {"dispatch.run_fk"}, {}, {"dispatch"}, {})
             z == Statement("ddl", {"dispatch", "dispatch.run_fk", "dispatch.lease"}, {"dispatch_v8"},
                            {<<"dispatch_v8", "dispatch">>}, {"dispatch_v8"}, {})
  <2>1. x \in Statements(8)
    <3>1. {<<"dispatch", "dispatch_v8">>} \in SUBSET (Names \X Names)
      BY Literals, Pair
    <3> QED BY <3>1 DEF Statement, Statements
  <2>2. y \in Statements(8)
    <3>1. {"dispatch"} \cup {"dispatch.run_fk"} \in SUBSET Names /\ {"dispatch"} \in SUBSET Names
      BY Literals
    <3> QED BY <3>1 DEF Statement, Statements
  <2>3. z \in Statements(8)
    <3>1. {"dispatch", "dispatch.run_fk", "dispatch.lease"} \in SUBSET Names /\ {"dispatch_v8"} \in SUBSET Names
      BY Literals
    <3>2. {<<"dispatch_v8", "dispatch">>} \in SUBSET (Names \X Names)
      BY Literals, Pair
    <3> QED BY <3>1, <3>2 DEF Statement, Statements
  <2>4. /\ x.copy = {<<"dispatch", "dispatch_v8">>} /\ x.wipe = {} /\ y.wipe = {"dispatch"}
        /\ z.copy = {<<"dispatch_v8", "dispatch">>} /\ z.wipe = {"dispatch_v8"}
    BY DEF Statement
  <2>5. /\ "dispatch" \in Homes /\ "dispatch_v8" \in Backups["dispatch"] /\ "dispatch_v8" # "dispatch"
        /\ \A g \in Homes : g # "dispatch" => g \notin {"dispatch"} \cup {"dispatch_v8"}
    BY DEF Homes, Backups
  <2>6. move = ((Create({"dispatch_v8"}) \o <<x>>) \o <<y>>) \o <<z>>
    BY DEF Copy, DropTable
  <2> HIDE DEF x, y, z, move, rename
  <2>7. Body((<<x>> \o <<y>>) \o <<z>>, 8)
    BY <2>1, <2>2, <2>3, <2>4, <2>5, Relay
  <2>8. Create({"dispatch_v8"}) \in Seq(Quiet(8))
    BY Literals, CreateOne
  <2>9. move = Create({"dispatch_v8"}) \o ((<<x>> \o <<y>>) \o <<z>>)
    <3>1. /\ Create({"dispatch_v8"}) \in Seq(Statements(8)) /\ <<x>> \in Seq(Statements(8))
          /\ <<y>> \in Seq(Statements(8)) /\ <<z>> \in Seq(Statements(8))
      <4>1. Create({"dispatch_v8"}) \in Seq(Statements(8))
        BY <2>8, QuietSeq
      <4> HIDE DEF Statements
      <4> QED BY <2>1, <2>2, <2>3, <4>1
    <3>2. ASSUME NEW S, NEW c \in Seq(S), NEW d1 \in Seq(S), NEW d2 \in Seq(S), NEW d3 \in Seq(S)
          PROVE  ((c \o d1) \o d2) \o d3 = c \o ((d1 \o d2) \o d3)
      <4>1. d1 \o d2 \in Seq(S)
        BY ConcatProperties
      <4>2. (c \o d1) \o d2 = c \o (d1 \o d2)
        BY ConcatAssociative
      <4>3. (c \o (d1 \o d2)) \o d3 = c \o ((d1 \o d2) \o d3)
        BY <4>1, ConcatAssociative
      <4> QED BY <4>2, <4>3
    <3> HIDE DEF Statements
    <3> QED BY <2>6, <3>1, <3>2
  <2> QED BY <2>7, <2>8, <2>9, JoinBefore
<1> DEFINE rest == IF "dispatch_orphans" \in d.rows THEN Raise
                   ELSE IF b = "postgresql" THEN lease \o fk \o Record(8)
                   ELSE IF {"dispatch_v8", "dispatch.lease"} \cap d.obj # {} THEN Raise
                   ELSE move \o Record(8)
<1>4. Program(rest, 8)
  <2> HIDE DEF lease, fk, move
  <2>1. Program(lease \o fk \o Record(8), 8)
    BY <1>1, <1>2, Join, JoinProgram
  <2>2. Program(move \o Record(8), 8)
    BY <1>1, <1>3, Ends, JoinProgram
  <2> QED BY <1>1, <2>1, <2>2
<1>5. V8(b, d) = key \o rest
  BY DEF V8
<1> HIDE DEF key, rest
<1> QED BY <1>2, <1>4, <1>5, JoinProgram

LEMMA ProgramV9 == ASSUME NEW d PROVE Program(V9(d), 9)
BY Literals, OptionalOne, Ends, JoinProgram DEF V9

LEMMA ProgramV10 == ASSUME NEW b, NEW d PROVE Program(V10(b, d), 10)
<1>1. Program(Raise, 10) /\ Program(Record(10), 10)
  BY Ends
<1>2. /\ Create({"ownership"}) \in Seq(Quiet(10)) /\ Create({"attempts"}) \in Seq(Quiet(10))
      /\ Create({"recovery_state"}) \in Seq(Quiet(10))
      /\ Script({"attempts.append_only"}) \in Seq(Quiet(10))
      /\ Create({"attempts.append_only"}) \in Seq(Quiet(10))
  BY Literals, CreateOne
<1>3. Copy("runs", "ownership") \in Seq(Quiet(10)) /\ Copy("runs", "recovery_state") \in Seq(Quiet(10))
  BY Literals, CopyPart
<1> DEFINE tables == Create({"ownership"}) \o Create({"attempts"}) \o Create({"recovery_state"})
                     \o Copy("runs", "ownership") \o Copy("runs", "recovery_state")
           trigger == IF b = "sqlite" THEN Script({"attempts.append_only"}) ELSE Create({"attempts.append_only"})
<1>4. tables \in Seq(Quiet(10)) /\ trigger \in Seq(Quiet(10))
  BY <1>2, <1>3, Join
<1> HIDE DEF tables, trigger
<1>5. Program(tables \o trigger \o Record(10), 10)
  BY <1>1, <1>4, Join, JoinProgram
<1> QED BY <1>1, <1>5 DEF V10, tables, trigger

LEMMA ProgramV11 == ASSUME NEW d PROVE Program(V11(d), 11)
<1>1. Program(Raise, 11) /\ Program(Record(11), 11)
  BY Ends
<1> DEFINE tables == Create({"scan_requests"}) \o Create({"scan_requests.key"}) \o Create({"operations"})
                     \o Create({"fleet"})
<1>2. tables \in Seq(Quiet(11))
  BY Literals, CreateOne, Join
<1> HIDE DEF tables
<1>3. Program(tables \o Record(11), 11)
  BY <1>1, <1>2, JoinProgram
<1> QED BY <1>1, <1>3 DEF V11, tables

LEMMA ProgramV12 == ASSUME NEW d PROVE Program(V12(d), 12)
<1>1. Program(Raise, 12) /\ Program(Record(12), 12)
  BY Ends
<1> DEFINE x == When("scan_requests.approver" \notin d.obj,
                     Create({"scan_requests.approver"}) \o Create({"scan_requests.asset"}))
           y == When("operations.child" \notin d.obj, Create({"operations.child"}))
           z == When("runs.generation" \notin d.obj, Create({"runs.generation"}))
<1>2. x \in Seq(Quiet(12))
  BY Literals, CreateOne, Join, Optional
<1>3. y \in Seq(Quiet(12)) /\ z \in Seq(Quiet(12))
  BY Literals, OptionalOne
<1> HIDE DEF x, y, z
<1>4. Program(x \o y \o z \o Record(12), 12)
  BY <1>1, <1>2, <1>3, Join, JoinProgram
<1> QED BY <1>1, <1>4 DEF V12, x, y, z

LEMMA ProgramV13 == ASSUME NEW d PROVE Program(V13(d), 13)
<1>1. Program(Raise, 13) /\ Program(Record(13), 13)
  BY Ends
<1> DEFINE rename == <<Statement("ddl", {"operations", "operations.child", "operations.scoped_key"}, {"operations_v13"},
                                 {<<"operations_v13", "operations">>}, {"operations_v13"}, {})>>
           move == Create({"operations_v13"}) \o Copy("operations", "operations_v13")
                   \o DropTable("operations", {"operations.child"}) \o rename \o Create({"scan_requests.manifest"})
           rest == IF {"scan_requests.manifest", "operations.scoped_key"} \subseteq d.obj
                   THEN IF ScanRequestIdentity(d) THEN Record(13) ELSE Raise
                   ELSE IF "scan_requests" \in d.rows THEN Raise
                   ELSE move \o Record(13)
<1>2. rename \in Seq(Quiet(13))
  <2>1. {"operations", "operations.child", "operations.scoped_key"} \in SUBSET Names /\ {"operations_v13"} \in SUBSET Names
    BY Literals
  <2> QED BY <2>1, Literals, RenamePart DEF Homes
<1>3. move \in Seq(Quiet(13))
  <2>1. {"operations.child"} \in SUBSET Names
    BY Literals
  <2>2. DropTable("operations", {"operations.child"}) \in Seq(Quiet(13))
    BY <2>1, Literals, DropPart DEF Homes
  <2>3. /\ Create({"operations_v13"}) \in Seq(Quiet(13)) /\ Create({"scan_requests.manifest"}) \in Seq(Quiet(13))
        /\ Copy("operations", "operations_v13") \in Seq(Quiet(13))
    BY Literals, CreateOne, CopyPart
  <2> QED BY <1>2, <2>2, <2>3, Join
<1>4. Program(rest, 13)
  <2> HIDE DEF move
  <2>1. Program(move \o Record(13), 13)
    BY <1>1, <1>3, JoinProgram
  <2> QED BY <1>1, <2>1
<1>5. V13(d) = Begin \o rest
  BY DEF V13
<1> HIDE DEF rest
<1> QED BY <1>4, <1>5, BeginPart, JoinProgram

(* The program of every version records the version in its last statement, *)
(* or raises there, and records no other.                                  *)
LEMMA MigrationProgram ==
    ASSUME NEW v \in Versions, NEW b, NEW d
    PROVE  Program(Migration(v, b, d), v)
<1>1. /\ Migration(1, b, d) = V1(b, d) /\ Migration(2, b, d) = V2(b, d) /\ Migration(3, b, d) = V3(b, d)
      /\ Migration(4, b, d) = V4(b, d) /\ Migration(5, b, d) = V5(b, d) /\ Migration(6, b, d) = V6(d)
      /\ Migration(7, b, d) = V7(d) /\ Migration(8, b, d) = V8(b, d) /\ Migration(9, b, d) = V9(d)
      /\ Migration(10, b, d) = V10(b, d) /\ Migration(11, b, d) = V11(d) /\ Migration(12, b, d) = V12(d)
      /\ Migration(13, b, d) = V13(d)
  BY DEF Migration
<1>2. v \in {1, 2, 3, 4, 5, 6, 7, 8, 9, 10, 11, 12, 13}
  BY DEF Versions
<1> QED BY <1>1, <1>2, ProgramV1, ProgramV2, ProgramV3, ProgramV4, ProgramV5, ProgramV6, ProgramV7,
           ProgramV8, ProgramV9, ProgramV10, ProgramV11, ProgramV12, ProgramV13

LEMMA InitDbProgram ==
    ASSUME NEW v \in Versions, NEW b, NEW d, NEW f
    PROVE  Program(InitDb(v, b, d, f), v)
<1>1. CASE v = 13
  BY <1>1, MigrationProgram DEF InitDb
<1>2. CASE v # 13
  <2> DEFINE base == BaseScript(b, d) \o When(f, GenericColumns(b, AfterBase(d)))
             rest == IF \/ v > 10 /\ ~SchemaHealthy(b, AfterBase(d))
                        \/ v > 11 /\ ~ScanAuthorization(b, AfterBase(d))
                     THEN Raise ELSE Migration(v, b, AfterBase(d))
  <2>1. base \in Seq(Quiet(v))
    BY BasePart, Optional, Join
  <2>2. Program(rest, v)
    BY MigrationProgram, Ends
  <2>3. InitDb(v, b, d, f) = base \o rest
    BY <1>2 DEF InitDb
  <2> HIDE DEF base, rest
  <2> QED BY <2>1, <2>2, <2>3, JoinProgram
<1> QED BY <1>1, <1>2

-----------------------------------------------------------------------------
(* The ledger: what one more event makes of an attempt.                    *)

Done(a) == Outcome(a) = <<"SUCCEEDED">>

LEMMA OutcomeLen ==
    ASSUME NEW a \in Attempt, a.events # <<>>
    PROVE  /\ Outcome(a) \in Seq(Events) /\ Len(Outcome(a)) = Len(a.events) - 1
           /\ Len(a.events) \in Nat /\ Len(a.events) > 0
           /\ \A i \in 1 .. Len(Outcome(a)) : Outcome(a)[i] = a.events[i + 1]
<1>1. a.events \in Seq(Events)
  BY DEF Attempt
<1> QED BY <1>1, HeadTailProperties, EmptySeq, LenProperties DEF Outcome

LEMMA OutcomeKinds ==
    ASSUME NEW a \in Attempt, a.events # <<>>
    PROVE  /\ Orphaned(a) <=> Len(a.events) = 1
           /\ Unresolved(a) <=> Len(a.events) = 2 /\ a.events[2] = "RECONCILIATION_REQUIRED"
           /\ Done(a) <=> Len(a.events) = 2 /\ a.events[2] = "SUCCEEDED"
<1> DEFINE o == Outcome(a)
<1>1. o \in Seq(Events) /\ Len(o) = Len(a.events) - 1 /\ Len(a.events) \in Nat /\ Len(a.events) > 0
      /\ (Len(o) = 1 => o[1] = a.events[2])
  BY OutcomeLen
<1> HIDE DEF o
<1>2. o = <<>> <=> Len(o) = 0
  BY <1>1, EmptySeq
<1>3. ASSUME NEW e \in Events PROVE o = <<e>> <=> Len(o) = 1 /\ o[1] = e
  <2>1. <<e>> \in Seq(Events) /\ Len(<<e>>) = 1 /\ <<e>>[1] = e
    OBVIOUS
  <2> HIDE DEF Events
  <2>2. Len(o) = 1 /\ o[1] = e => o = <<e>>
    BY <1>1, <2>1, SeqEqual
  <2> QED BY <2>1, <2>2
<1>4. "RECONCILIATION_REQUIRED" \in Events /\ "SUCCEEDED" \in Events
  BY DEF Events
<1>5. Orphaned(a) <=> Len(a.events) = 1
  BY <1>1, <1>2 DEF Orphaned, o
<1>6. Unresolved(a) <=> Len(a.events) = 2 /\ a.events[2] = "RECONCILIATION_REQUIRED"
  BY <1>1, <1>3, <1>4 DEF Unresolved, o
<1>7. Done(a) <=> Len(a.events) = 2 /\ a.events[2] = "SUCCEEDED"
  BY <1>1, <1>3, <1>4 DEF Done, o
<1> QED BY <1>5, <1>6, <1>7

LEMMA OneMore ==
    ASSUME NEW a \in Attempt, a.events # <<>>, NEW e \in Events,
           NEW n, n = [a EXCEPT !.events = Append(@, e)] \/ n = [a EXCEPT !.events = @ \o <<e>>]
    PROVE  /\ n \in Attempt /\ n.events # <<>> /\ n.version = a.version
           /\ Len(n.events) = Len(a.events) + 1 /\ n.events[Len(a.events) + 1] = e
<1>1. a.events \in Seq(Events) /\ a.version \in Nat
  BY DEF Attempt
<1>2. Append(a.events, e) = a.events \o <<e>>
  BY <1>1, AppendIsConcat
<1>3. n = [a EXCEPT !.events = Append(a.events, e)]
  BY <1>2
<1>4. n \in Attempt /\ n.version = a.version /\ n.events = Append(a.events, e)
  BY <1>1, <1>3, AppendProperties DEF Attempt
<1>5. Append(a.events, e) # <<>> /\ Len(Append(a.events, e)) = Len(a.events) + 1 /\ Append(a.events, e)[Len(a.events) + 1] = e
  BY <1>1, AppendProperties
<1> QED BY <1>4, <1>5

LEMMA Outcomes ==
    ASSUME NEW a \in Attempt, a.events # <<>>
    PROVE  /\ Done(a) => ~Orphaned(a) /\ ~Unresolved(a)
           /\ Unresolved(a) => ~Orphaned(a)
BY OutcomeKinds

LEMMA Answered ==
    ASSUME NEW a \in Attempt, a.events # <<>>, Orphaned(a), NEW e \in Events,
           NEW n, n = [a EXCEPT !.events = Append(@, e)] \/ n = [a EXCEPT !.events = @ \o <<e>>]
    PROVE  /\ n \in Attempt /\ n.events # <<>> /\ n.version = a.version /\ ~Orphaned(n)
           /\ (Unresolved(n) <=> e = "RECONCILIATION_REQUIRED") /\ (Done(n) <=> e = "SUCCEEDED")
<1>1. /\ n \in Attempt /\ n.events # <<>> /\ n.version = a.version
      /\ Len(n.events) = Len(a.events) + 1 /\ n.events[Len(a.events) + 1] = e
  BY OneMore
<1>2. Len(a.events) = 1
  BY OutcomeKinds
<1>3. Len(n.events) = 2 /\ n.events[2] = e
  BY <1>1, <1>2
<1> HIDE DEF Events
<1> QED BY <1>1, <1>3, OutcomeKinds

LEMMA Settled ==
    ASSUME NEW a \in Attempt, a.events # <<>>, Unresolved(a), NEW e \in Events,
           NEW n, n = [a EXCEPT !.events = @ \o <<e>>]
    PROVE  n \in Attempt /\ n.events # <<>> /\ n.version = a.version /\ ~Orphaned(n) /\ ~Unresolved(n)
<1>1. /\ n \in Attempt /\ n.events # <<>> /\ n.version = a.version
      /\ Len(n.events) = Len(a.events) + 1
  BY OneMore
<1>2. Len(a.events) = 2
  BY OutcomeKinds
<1>3. Len(n.events) = 3
  BY <1>1, <1>2
<1>4. (Orphaned(n) <=> Len(n.events) = 1) /\ (Unresolved(n) => Len(n.events) = 2)
  BY <1>1, OutcomeKinds
<1> QED BY <1>1, <1>3, <1>4

LEMMA Started ==
    ASSUME NEW v \in Nat, NEW n, n = [version |-> v, events |-> <<"STARTED">>]
    PROVE  n \in Attempt /\ n.events # <<>> /\ n.version = v /\ Orphaned(n) /\ ~Unresolved(n) /\ ~Done(n)
<1>1. n \in Attempt /\ n.events = <<"STARTED">> /\ n.version = v
  BY DEF Attempt, Events
<1>2. n.events # <<>> /\ Len(n.events) = 1
  BY <1>1
<1> QED BY <1>1, <1>2, OutcomeKinds

(* Completed versions stay completed. *)
LEMMA CompletedGrows ==
    ASSUME \A i \in DOMAIN ledger : Done(ledger[i]) =>
               i \in DOMAIN ledger' /\ Done(ledger'[i]) /\ ledger'[i].version = ledger[i].version
    PROVE  Completed \subseteq Completed'
BY DEF Completed, Done

LEMMA ReconciledLedger ==
    ASSUME ledger \in Seq(Attempt), \A i \in DOMAIN ledger : ledger[i].events # <<>>,
           ledger' = Reconciled(ledger)
    PROVE  /\ ledger' \in Seq(Attempt) /\ DOMAIN ledger' = DOMAIN ledger
           /\ \A i \in DOMAIN ledger : /\ ledger'[i].events # <<>> /\ ~Orphaned(ledger'[i])
                                       /\ Orphaned(ledger[i]) => Unresolved(ledger'[i])
                                       /\ ~Orphaned(ledger[i]) => ledger'[i] = ledger[i]
<1>1. DOMAIN ledger' = DOMAIN ledger
  BY DEF Reconciled
<1>2. ASSUME NEW i \in DOMAIN ledger
      PROVE  /\ ledger'[i] \in Attempt /\ ledger'[i].events # <<>> /\ ~Orphaned(ledger'[i])
             /\ Orphaned(ledger[i]) => Unresolved(ledger'[i])
             /\ ~Orphaned(ledger[i]) => ledger'[i] = ledger[i]
  <2>1. ledger[i] \in Attempt
    OBVIOUS
  <2>2. CASE Orphaned(ledger[i])
    <3>1. ledger'[i] = [ledger[i] EXCEPT !.events = Append(@, "RECONCILIATION_REQUIRED")]
      BY <2>2 DEF Reconciled
    <3>2. "RECONCILIATION_REQUIRED" \in Events
      BY DEF Events
    <3> QED BY <2>1, <2>2, <3>1, <3>2, Answered
  <2>3. CASE ~Orphaned(ledger[i])
    BY <2>1, <2>3 DEF Reconciled
  <2> QED BY <2>2, <2>3
<1>3. ledger' \in Seq(Attempt)
  <2>1. DOMAIN ledger = 1 .. Len(ledger) /\ Len(ledger) \in Nat
    BY LenProperties
  <2>2. ledger' = [i \in 1 .. Len(ledger) |-> ledger'[i]]
    BY <2>1 DEF Reconciled
  <2> QED BY <1>2, <2>1, <2>2, IsASeq
<1> QED BY <1>1, <1>2, <1>3

LEMMA ExtendedLedger ==
    ASSUME ledger \in Seq(Attempt), NEW i \in DOMAIN ledger, NEW e, NEW n \in Attempt,
           n = [ledger[i] EXCEPT !.events = @ \o <<e>>], ledger' = Extend(ledger, i, <<e>>)
    PROVE  /\ ledger' \in Seq(Attempt) /\ DOMAIN ledger' = DOMAIN ledger /\ ledger'[i] = n
           /\ \A j \in DOMAIN ledger : j # i => ledger'[j] = ledger[j]
<1>1. ledger' = [ledger EXCEPT ![i] = n]
  BY DEF Extend
<1>2. DOMAIN ledger = 1 .. Len(ledger)
  BY LenProperties
<1>3. /\ ledger' \in Seq(Attempt) /\ Len(ledger') = Len(ledger)
      /\ \A j \in 1 .. Len(ledger) : ledger'[j] = IF j = i THEN n ELSE ledger[j]
  <2>1. i \in 1 .. Len(ledger)
    BY <1>2
  <2>2. /\ [ledger EXCEPT ![i] = n] \in Seq(Attempt) /\ Len([ledger EXCEPT ![i] = n]) = Len(ledger)
        /\ \A j \in 1 .. Len(ledger) : [ledger EXCEPT ![i] = n][j] = IF j = i THEN n ELSE ledger[j]
    <3>1. ASSUME NEW S, NEW l \in Seq(S), NEW k \in 1 .. Len(l), NEW x \in S
          PROVE  /\ [l EXCEPT ![k] = x] \in Seq(S) /\ Len([l EXCEPT ![k] = x]) = Len(l)
                 /\ \A j \in 1 .. Len(l) : [l EXCEPT ![k] = x][j] = IF j = k THEN x ELSE l[j]
      BY ExceptSeq
    <3> HIDE DEF Attempt
    <3> QED BY <2>1, <3>1
  <2> QED BY <1>1, <2>2, Zenon
<1>4. DOMAIN ledger' = 1 .. Len(ledger')
  BY <1>3, LenProperties
<1> QED BY <1>2, <1>3, <1>4

LEMMA AppendedLedger ==
    ASSUME ledger \in Seq(Attempt), NEW n \in Attempt, ledger' = Append(ledger, n)
    PROVE  /\ ledger' \in Seq(Attempt) /\ DOMAIN ledger' = DOMAIN ledger \cup {Len(ledger) + 1}
           /\ Len(ledger) + 1 \notin DOMAIN ledger /\ Len(ledger) \in Nat
           /\ ledger'[Len(ledger) + 1] = n
           /\ \A j \in DOMAIN ledger : ledger'[j] = ledger[j]
<1>1. DOMAIN ledger = 1 .. Len(ledger) /\ Len(ledger) \in Nat
  BY LenProperties
<1>2. /\ ledger' \in Seq(Attempt) /\ Len(ledger') = Len(ledger) + 1
      /\ \A j \in 1 .. Len(ledger) : ledger'[j] = ledger[j]
      /\ ledger'[Len(ledger) + 1] = n
  BY AppendProperties
<1>3. DOMAIN ledger' = 1 .. Len(ledger) + 1
  BY <1>2, LenProperties
<1>4. 1 .. Len(ledger) + 1 = 1 .. Len(ledger) \cup {Len(ledger) + 1} /\ Len(ledger) + 1 \notin 1 .. Len(ledger)
  BY <1>1
<1> QED BY <1>1, <1>2, <1>3, <1>4

-----------------------------------------------------------------------------
(* The lock: a process that holds it is the only one with work under way.  *)

LEMMA Alone ==
    ASSUME MigrationInv, NEW p \in Procs, phase[p] \in Holding
    PROVE  /\ lock = p /\ p # Nobody
           /\ \A q \in Procs : q # p => phase[q] \notin Holding /\ ~durable[q] /\ prog[q] = <<>>
<1>1. lock = p /\ p # Nobody
  BY MigrationAssumption DEF MigrationInv, LockInv
<1>2. ASSUME NEW q \in Procs, q # p PROVE phase[q] \notin Holding /\ ~durable[q] /\ prog[q] = <<>>
  <2>1. phase[q] \notin Holding
    BY <1>1, <1>2 DEF MigrationInv, LockInv
  <2> QED BY <2>1 DEF MigrationInv, HistoryInv, AttemptInv, OpenAttempt, At, Holding
<1> QED BY <1>1, <1>2

LEMMA Idle ==
    ASSUME NEW q \in Procs, phase'[q] \notin Holding, ~durable'[q], prog'[q] = <<>>
    PROVE  HistoryInv(q)' /\ AttemptInv(q)'
<1>1. /\ phase'[q] # "history" /\ phase'[q] # "next" /\ phase'[q] # "apply" /\ phase'[q] # "verify"
  BY DEF Holding
<1> QED BY <1>1 DEF HistoryInv, AttemptInv, OpenAttempt, At

LEMMA Frame ==
    ASSUME NEW q \in Procs, HistoryInv(q), AttemptInv(q), db' = db, tx' = tx, ledger' = ledger,
           phase'[q] = phase[q], todo'[q] = todo[q], attempt'[q] = attempt[q],
           durable'[q] = durable[q], prog'[q] = prog[q]
    PROVE  HistoryInv(q)' /\ AttemptInv(q)'
BY DEF HistoryInv, AttemptInv, OpenAttempt, At, Completed, View

(* Where the records of the ledger may be written. *)
SoundLedger ==
    /\ ledger \in Seq(Attempt) /\ \A i \in DOMAIN ledger : ledger[i].events # <<>>
    /\ table \in {"none", "legacy", "bare", "sound"} /\ (table \in {"none", "bare"} => ledger = <<>>)

(* The holder frees the lock. *)
LEMMA Leave ==
    ASSUME MigrationInv, NEW p \in Procs, phase[p] \in Holding, NEW x \in Phases \ Holding,
           phase' = [phase EXCEPT ![p] = x], lock' = Nobody, tx' = NoTx,
           durable' = [durable EXCEPT ![p] = FALSE], prog' = [prog EXCEPT ![p] = <<>>],
           db' = db, SoundLedger', UNCHANGED <<backend, todo, first, attempt, sound>>
    PROVE  MigrationInv'
<1>0. MigrationTypeOK
  BY DEF MigrationInv
<1>1. \A q \in Procs : phase'[q] \notin Holding /\ ~durable'[q] /\ prog'[q] = <<>>
  BY <1>0, Alone DEF MigrationTypeOK
<1>2. MigrationTypeOK'
  <2>1. prog' = [q \in Procs |-> prog'[q]] /\ \A q \in Procs : prog'[q] \in Seq(Statements(todo[q]))
    <3>1. \A q \in Procs : prog'[q] \in Seq(Statements(todo[q]))
      BY <1>1, Empty
    <3> QED BY <1>0, <3>1 DEF MigrationTypeOK
  <2>2. phase' \in [Procs -> Phases] /\ durable' \in [Procs -> BOOLEAN]
    BY <1>0 DEF MigrationTypeOK
  <2> QED BY <1>0, <2>1, <2>2 DEF MigrationTypeOK, SoundLedger
<1>3. LockInv' /\ TxInv'
  BY <1>1, MigrationAssumption DEF LockInv, TxInv
<1>4. LedgerInv'
  <2>1. \E k \in 0 .. Cardinality(db'.applied) : db'.applied = 1 .. k
    BY DEF MigrationInv, LedgerInv
  <2>2. \A q \in Procs : phase'[q] \notin {"protect", "protect_only", "history", "next", "apply", "verify"}
    BY <1>1 DEF Holding
  <2> QED BY <2>1, <2>2 DEF LedgerInv, SoundLedger
<1>5. \A q \in Procs : HistoryInv(q)' /\ AttemptInv(q)'
  BY <1>1, Idle
<1> QED BY <1>2, <1>3, <1>4, <1>5 DEF MigrationInv

(* The holder goes on. *)
LEMMA Hold ==
    ASSUME MigrationInv, NEW p \in Procs, phase[p] \in Holding, NEW x \in Holding,
           phase' = [phase EXCEPT ![p] = x], lock' = lock, MigrationTypeOK',
           \A q \in Procs : q # p => durable'[q] = durable[q] /\ prog'[q] = prog[q],
           tx' = NoTx \/ x = "apply", LedgerInv', HistoryInv(p)', AttemptInv(p)'
    PROVE  MigrationInv'
<1>0. phase \in [Procs -> Phases]
  BY DEF MigrationInv, MigrationTypeOK
<1>1. lock = p /\ p # Nobody
      /\ \A q \in Procs : q # p => phase[q] \notin Holding /\ ~durable[q] /\ prog[q] = <<>>
  BY Alone
<1>2. \A q \in Procs : q # p => phase'[q] \notin Holding /\ ~durable'[q] /\ prog'[q] = <<>>
  BY <1>0, <1>1
<1>3. phase'[p] = x
  BY <1>0
<1>4. LockInv'
  BY <1>1, <1>2, <1>3 DEF LockInv
<1>5. TxInv'
  BY <1>3 DEF TxInv, At
<1>6. \A q \in Procs : HistoryInv(q)' /\ AttemptInv(q)'
  <2>1. ASSUME NEW q \in Procs, q # p PROVE HistoryInv(q)' /\ AttemptInv(q)'
    BY <1>2, <2>1, Idle
  <2> QED BY <2>1
<1> QED BY <1>4, <1>5, <1>6 DEF MigrationInv

(* A process without the lock moves on. *)
LEMMA Outside ==
    ASSUME MigrationInv, NEW p \in Procs, phase[p] \notin Holding, NEW x \in Phases \ Holding,
           phase' = [phase EXCEPT ![p] = x], UNCHANGED <<db, tx, table, lock, prog, durable>>,
           MigrationTypeOK', SoundLedger',
           \A q \in Procs : q # p => HistoryInv(q)' /\ AttemptInv(q)'
    PROVE  MigrationInv'
<1>0. phase \in [Procs -> Phases]
  BY DEF MigrationInv, MigrationTypeOK
<1>1. phase'[p] = x /\ \A q \in Procs : q # p => phase'[q] = phase[q]
  BY <1>0
<1>2. LockInv'
  BY <1>1 DEF MigrationInv, LockInv
<1>3. TxInv'
  <2>1. phase[p] # "apply"
    BY DEF Holding
  <2> QED BY <1>1, <2>1 DEF MigrationInv, TxInv, At
<1>4. LedgerInv'
  <2>1. phase'[p] \notin {"protect", "protect_only", "history", "next", "apply", "verify"}
    BY <1>1 DEF Holding
  <2> QED BY <1>1, <2>1 DEF MigrationInv, LedgerInv, SoundLedger
<1>5. HistoryInv(p)' /\ AttemptInv(p)'
  <2>1. ~durable[p] /\ prog[p] = <<>>
    BY DEF MigrationInv, HistoryInv, AttemptInv, OpenAttempt, At, Holding
  <2> QED BY <1>1, <2>1, Idle
<1> QED BY <1>2, <1>3, <1>4, <1>5 DEF MigrationInv

-----------------------------------------------------------------------------
(* The actions. *)

LEMMA InitInv == MigrationInit => MigrationInv
<1> SUFFICES ASSUME MigrationInit PROVE MigrationInv
  OBVIOUS
<1>1. /\ tx = NoTx /\ lock = Nobody /\ phase = [p \in Procs |-> "down"]
      /\ todo = [p \in Procs |-> 0] /\ prog = [p \in Procs |-> <<>>]
      /\ first = [p \in Procs |-> TRUE] /\ durable = [p \in Procs |-> FALSE]
      /\ attempt = [p \in Procs |-> 0] /\ sound = [p \in Procs |-> TRUE]
  BY DEF MigrationInit
<1>2. /\ db \in Database /\ SoundLedger /\ \E k \in 0 .. Cardinality(db.applied) : db.applied = 1 .. k
  <2>1. CASE db = Fresh /\ ledger = <<>> /\ table = "none"
    <3>1. db.applied = {} /\ {} = 1 .. 0 /\ Cardinality({}) = 0
      BY <2>1, FS_EmptySet DEF Fresh
    <3> QED BY <2>1, <3>1 DEF Fresh, Database, SoundLedger
  <2>2. ASSUME NEW o \in Origins,
               db = [Origin(backend, o) EXCEPT !.obj = @ \cup o.extra],
               ledger = IF o.ledger # "none" THEN Succeeded(o.level) ELSE <<>>,
               table = o.ledger
        PROVE  /\ db \in Database /\ SoundLedger /\ \E k \in 0 .. Cardinality(db.applied) : db.applied = 1 .. k
    <3>1. /\ o.level \in Nat /\ o.ledger \in {"none", "legacy", "sound"}
          /\ o.rows \in SUBSET Names /\ o.extra \in SUBSET Names
      BY MigrationAssumption
    <3>2. Origin(backend, o) \in Database /\ Origin(backend, o).applied = 1 .. o.level
      <4>1. SchemaAt(o.level) \subseteq Names
        <5>1. \A t \in DOMAIN BaseTables : BaseTables[t] \subseteq Names
          BY DEF BaseTables, Names, RunObjects
        <5>2. UNION {BaseTables[t] : t \in DOMAIN BaseTables} \subseteq Names
          BY <5>1
        <5>3. /\ {"runs.request_uq", "dispatch.lease", "attempts.append_only", "scan_requests.key",
                  "scan_requests.manifest", "operations.scoped_key"} \subseteq Names
              /\ LifecycleTables \subseteq Names /\ ScanTables \subseteq Names /\ ApprovalColumns \subseteq Names
          BY DEF LifecycleTables, ScanTables, ApprovalColumns, Names, RunObjects
        <5> QED BY <5>2, <5>3 DEF SchemaAt
      <4>2. {"core", "decisions", "decisions.key", "decisions.claim_columns", "requests", "requests.key",
             "requests.claim_columns", "runs", "runs.key"} \subseteq Names
        BY DEF Names, RunObjects
      <4>3. Origin(backend, o).obj \subseteq Names
        BY <4>1, <4>2 DEF Origin
      <4> QED BY <3>1, <4>3 DEF Origin, Database
    <3>3. db \in Database /\ db.applied = 1 .. o.level
      BY <2>2, <3>1, <3>2 DEF Database
    <3>4. Cardinality(1 .. o.level) = o.level
      BY <3>1, FS_Interval
    <3>5. SoundLedger
      <4>1. CASE o.ledger = "none"
        BY <2>2, <4>1 DEF SoundLedger
      <4>2. CASE o.ledger # "none"
        <5>1. \A v \in 1 .. o.level : [version |-> v, events |-> <<"STARTED", "SUCCEEDED">>] \in Attempt
          BY <3>1 DEF Attempt, Events
        <5>2. ledger = [v \in 1 .. o.level |-> [version |-> v, events |-> <<"STARTED", "SUCCEEDED">>]]
          BY <2>2, <4>2 DEF Succeeded
        <5>3. ledger \in Seq(Attempt)
          BY <3>1, <5>1, <5>2
        <5>4. \A i \in DOMAIN ledger : ledger[i].events # <<>>
          BY <5>2
        <5> QED BY <2>2, <3>1, <4>2, <5>3, <5>4 DEF SoundLedger
      <4> QED BY <4>1, <4>2
    <3> QED BY <3>1, <3>3, <3>4, <3>5
  <2> QED BY <2>1, <2>2 DEF MigrationInit
<1>3. MigrationTypeOK
  <2>1. \A p \in Procs : prog[p] \in Seq(Statements(todo[p]))
    BY <1>1, Empty
  <2>2. backend \in Backends
    BY DEF MigrationInit
  <2>3. phase \in [Procs -> Phases] /\ todo \in [Procs -> {0} \cup Versions]
    BY <1>1 DEF Phases
  <2> QED BY <1>1, <1>2, <2>1, <2>2, <2>3 DEF MigrationTypeOK, SoundLedger
<1>4. \A p \in Procs : phase[p] = "down" /\ ~durable[p] /\ prog[p] = <<>>
  BY <1>1
<1>5. LockInv /\ TxInv /\ LedgerInv
  BY <1>1, <1>2, <1>4, MigrationAssumption DEF LockInv, TxInv, LedgerInv, SoundLedger, Holding
<1>6. \A p \in Procs : HistoryInv(p) /\ AttemptInv(p)
  BY <1>4 DEF HistoryInv, AttemptInv, OpenAttempt, At
<1> QED BY <1>3, <1>5, <1>6 DEF MigrationInv

LEMMA LedgerAsIs == ASSUME MigrationInv PROVE SoundLedger
BY DEF MigrationInv, MigrationTypeOK, LedgerInv, SoundLedger

LEMMA RaisedKeeps ==
    ASSUME MigrationInv, NEW p \in Procs, phase[p] \in Holding, Raised(p)
    PROVE  MigrationInv'
<1>1. "raised" \in Phases \ Holding
  BY DEF Phases, Holding
<1>2. SoundLedger'
  BY LedgerAsIs DEF SoundLedger, Raised
<1> QED BY <1>1, <1>2, Leave DEF Raised, Goto

LEMMA RefusalKeeps ==
    ASSUME MigrationInv, NEW p \in Procs,
           \/ LedgerRefused(p) \/ HistoryRefused(p) \/ StepRaises(p)
           \/ CommitRefused(p) \/ VerifyRefused(p) \/ FinalRefused(p)
    PROVE  MigrationInv'
<1>1. phase[p] \in Holding /\ Raised(p)
  BY DEF LedgerRefused, HistoryRefused, StepRaises, CommitRefused, VerifyRefused, FinalRefused, At, InLedgerScope, Holding
<1> QED BY <1>1, RaisedKeeps

LEMMA StatementFailsKeeps ==
    ASSUME MigrationInv, NEW p \in Procs, StatementFails(p)
    PROVE  MigrationInv'
<1>1. "raised" \in Phases \ Holding /\ phase[p] \in Holding
  BY DEF Phases, Holding, StatementFails
<1>2. SoundLedger'
  BY LedgerAsIs DEF SoundLedger, StatementFails
<1> QED BY <1>1, <1>2, Leave DEF StatementFails, Goto

LEMMA CrashKeeps ==
    ASSUME MigrationInv, NEW p \in Procs, Crash(p)
    PROVE  MigrationInv'
<1>1. "down" \in Phases \ Holding
  BY DEF Phases, Holding
<1>2. SoundLedger'
  BY LedgerAsIs DEF SoundLedger, Crash
<1>3. CASE phase[p] \in Holding
  <2>1. lock = p
    BY <1>3, Alone
  <2> QED BY <1>1, <1>2, <1>3, <2>1, Leave DEF Crash, Goto
<1>4. CASE phase[p] \notin Holding
  <2>0. MigrationTypeOK /\ HistoryInv(p) /\ AttemptInv(p)
    BY DEF MigrationInv
  <2>1. lock # p /\ ~durable[p] /\ prog[p] = <<>>
    BY <1>4 DEF MigrationInv, LockInv, HistoryInv, AttemptInv, OpenAttempt, At, Holding
  <2>2. durable' = durable
    BY <2>0, <2>1 DEF Crash, MigrationTypeOK
  <2>3. prog' = prog
    <3>1. prog = [q \in Procs |-> prog[q]] /\ prog' = [prog EXCEPT ![p] = prog[p]]
      BY <2>0, <2>1 DEF Crash, MigrationTypeOK
    <3> QED BY <3>1
  <2>4. UNCHANGED <<db, tx, table, lock, todo, attempt, ledger>> /\ phase' = [phase EXCEPT ![p] = "down"]
    BY <2>1 DEF Crash, Goto
  <2>5. MigrationTypeOK'
    <3>1. phase' \in [Procs -> Phases]
      BY <1>1, <2>0, <2>4 DEF MigrationTypeOK
    <3> QED BY <2>0, <2>2, <2>3, <2>4, <3>1 DEF Crash, MigrationTypeOK
  <2>6. ASSUME NEW q \in Procs, q # p PROVE HistoryInv(q)' /\ AttemptInv(q)'
    <3>1. phase'[q] = phase[q]
      BY <2>0, <2>4, <2>6 DEF MigrationTypeOK
    <3>2. HistoryInv(q) /\ AttemptInv(q)
      BY DEF MigrationInv
    <3> QED BY <2>2, <2>3, <2>4, <3>1, <3>2, Frame
  <2> QED BY <1>1, <1>2, <1>4, <2>2, <2>3, <2>4, <2>5, <2>6, Outside
<1> QED BY <1>3, <1>4

(* A step outside the lock that writes nothing. *)
LEMMA QuietOutside ==
    ASSUME MigrationInv, NEW p \in Procs, phase[p] \notin Holding, NEW x \in Phases \ Holding,
           phase' = [phase EXCEPT ![p] = x],
           UNCHANGED <<backend, db, tx, ledger, table, lock, prog, durable>>,
           \A q \in Procs : q # p => todo'[q] = todo[q] /\ attempt'[q] = attempt[q],
           todo' \in [Procs -> {0} \cup Versions], attempt' \in [Procs -> Nat],
           first' \in [Procs -> BOOLEAN], sound' \in [Procs -> BOOLEAN]
    PROVE  MigrationInv'
<1>0. MigrationTypeOK /\ HistoryInv(p) /\ AttemptInv(p)
  BY DEF MigrationInv
<1>1. MigrationTypeOK'
  <2>1. phase' \in [Procs -> Phases]
    BY <1>0 DEF MigrationTypeOK
  <2>2. prog[p] = <<>>
    BY <1>0 DEF AttemptInv, At, Holding
  <2>3. \A q \in Procs : prog[q] \in Seq(Statements(todo'[q]))
    BY <1>0, <2>2, Empty DEF MigrationTypeOK
  <2> QED BY <1>0, <2>1, <2>3 DEF MigrationTypeOK
<1>2. ASSUME NEW q \in Procs, q # p PROVE HistoryInv(q)' /\ AttemptInv(q)'
  <2>1. phase'[q] = phase[q]
    BY <1>0, <1>2 DEF MigrationTypeOK
  <2>2. HistoryInv(q) /\ AttemptInv(q)
    BY DEF MigrationInv
  <2> QED BY <1>2, <2>1, <2>2, Frame
<1>3. SoundLedger'
  BY LedgerAsIs DEF SoundLedger
<1> QED BY <1>1, <1>2, <1>3, Outside

LEMMA BootKeeps ==
    ASSUME MigrationInv, NEW p \in Procs, NEW mode \in {"starting", "maintaining"}, NEW ok \in BOOLEAN,
           Boot(p, mode, ok)
    PROVE  MigrationInv'
<1>0. MigrationTypeOK
  BY DEF MigrationInv
<1>1. phase[p] \notin Holding /\ mode \in Phases \ Holding
  BY DEF Boot, At, Phases, Holding
<1>2. /\ \A q \in Procs : q # p => todo'[q] = todo[q] /\ attempt'[q] = attempt[q]
      /\ todo' \in [Procs -> {0} \cup Versions] /\ attempt' \in [Procs -> Nat]
      /\ first' \in [Procs -> BOOLEAN] /\ sound' \in [Procs -> BOOLEAN]
  BY <1>0 DEF Boot, MigrationTypeOK
<1> QED BY <1>1, <1>2, QuietOutside DEF Boot, Goto

LEMMA ExitKeeps ==
    ASSUME MigrationInv, NEW p \in Procs, Exit(p)
    PROVE  MigrationInv'
<1>0. MigrationTypeOK
  BY DEF MigrationInv
<1>1. phase[p] \notin Holding /\ "down" \in Phases \ Holding
  BY DEF Exit, Phases, Holding
<1>2. UNCHANGED <<todo, attempt, first, sound>>
  BY DEF Exit
<1> QED BY <1>0, <1>1, <1>2, QuietOutside DEF Exit, Goto, MigrationTypeOK

(* The flag is down before the failure could be recorded. *)
LEMMA RecordFailureKeeps ==
    ASSUME MigrationInv, NEW p \in Procs, RecordMigrationFailure(p)
    PROVE  MigrationInv'
<1>0. MigrationTypeOK /\ HistoryInv(p)
  BY DEF MigrationInv
<1>1. phase[p] \notin Holding /\ "refused" \in Phases \ Holding
  BY DEF RecordMigrationFailure, At, Phases, Holding
<1>2. ledger' = ledger
  BY <1>0 DEF RecordMigrationFailure, HistoryInv, OpenAttempt, At
<1>3. UNCHANGED <<todo, attempt, first, sound>>
  BY DEF RecordMigrationFailure
<1> QED BY <1>0, <1>1, <1>2, <1>3, QuietOutside DEF RecordMigrationFailure, Goto, MigrationTypeOK

LEMMA AcquireLockKeeps ==
    ASSUME MigrationInv, NEW p \in Procs, AcquireLock(p)
    PROVE  MigrationInv'
<1>0. MigrationTypeOK
  BY DEF MigrationInv
<1>1. PICK x \in {"ledger", "ledger_only"} : phase' = [phase EXCEPT ![p] = x]
  BY DEF AcquireLock, Goto
<1>2. phase'[p] = x /\ x \in Holding /\ phase' \in [Procs -> Phases]
      /\ \A q \in Procs : q # p => phase'[q] = phase[q]
  BY <1>0, <1>1 DEF MigrationTypeOK, Phases, Holding
<1>3. \A q \in Procs : phase[q] \notin Holding
  BY MigrationAssumption DEF AcquireLock, MigrationInv, LockInv
<1>4. \A q \in Procs : ~durable[q] /\ prog[q] = <<>>
  BY <1>3 DEF MigrationInv, HistoryInv, AttemptInv, OpenAttempt, At, Holding
<1>5. UNCHANGED <<backend, db, tx, ledger, table, todo, prog, first, durable, attempt, sound>> /\ lock' = p
  BY DEF AcquireLock
<1>6. MigrationTypeOK'
  BY <1>0, <1>2, <1>5 DEF MigrationTypeOK
<1>7. LockInv'
  BY <1>2, <1>3, <1>5 DEF LockInv
<1>8. TxInv'
  BY <1>2, <1>3, <1>5 DEF MigrationInv, TxInv, At, Holding
<1>9. \A q \in Procs : phase'[q] \notin {"protect", "protect_only", "history", "next", "apply", "verify"}
  BY <1>1, <1>2, <1>3 DEF Holding
<1>10. LedgerInv'
  BY <1>5, <1>9 DEF MigrationInv, LedgerInv
<1>11. \A q \in Procs : HistoryInv(q)' /\ AttemptInv(q)'
  BY <1>4, <1>5, <1>9 DEF HistoryInv, AttemptInv, OpenAttempt, At
<1> QED BY <1>6, <1>7, <1>8, <1>10, <1>11 DEF MigrationInv

(* No transaction is open until a migration applies. *)
LEMMA NoTransaction ==
    ASSUME MigrationInv, NEW p \in Procs, phase[p] \in Holding, phase[p] # "apply"
    PROVE  tx = NoTx
<1>1. \A q \in Procs : q # p => phase[q] # "apply"
  BY Alone DEF Holding
<1> QED BY <1>1 DEF MigrationInv, TxInv, At

LEMMA Unarmed ==
    ASSUME MigrationInv, NEW p \in Procs, phase[p] \notin {"apply", "verify"}
    PROVE  /\ ~durable[p] /\ prog[p] = <<>> /\ durable = [durable EXCEPT ![p] = FALSE]
           /\ prog = [prog EXCEPT ![p] = <<>>]
<1>0. MigrationTypeOK
  BY DEF MigrationInv
<1>1. ~durable[p] /\ prog[p] = <<>>
  BY DEF MigrationInv, HistoryInv, AttemptInv, OpenAttempt, At
<1>2. durable = [durable EXCEPT ![p] = FALSE]
  BY <1>0, <1>1 DEF MigrationTypeOK
<1>3. prog = [prog EXCEPT ![p] = prog[p]]
  <2>1. prog = [q \in Procs |-> prog[q]]
    BY <1>0 DEF MigrationTypeOK
  <2> QED BY <2>1
<1> QED BY <1>1, <1>2, <1>3

LEMMA FinalVerifyKeeps ==
    ASSUME MigrationInv, NEW p \in Procs, FinalVerify(p)
    PROVE  MigrationInv'
<1>1. phase[p] \in Holding /\ phase[p] # "apply" /\ phase[p] # "verify" /\ "serving" \in Phases \ Holding
  BY DEF FinalVerify, At, Phases, Holding
<1>2. tx' = NoTx /\ durable' = [durable EXCEPT ![p] = FALSE] /\ prog' = [prog EXCEPT ![p] = <<>>]
  BY <1>1, NoTransaction, Unarmed DEF FinalVerify
<1>3. SoundLedger'
  BY LedgerAsIs DEF SoundLedger, FinalVerify
<1> QED BY <1>1, <1>2, <1>3, Leave DEF FinalVerify, Goto

LEMMA LedgerScopeEnds ==
    ASSUME MigrationInv, NEW p \in Procs, phase[p] \in {"ledger", "ledger_only", "protect", "protect_only"},
           LedgerDone(p), table' = "sound", ledger' \in Seq(Attempt),
           \A i \in DOMAIN ledger' : ledger'[i].events # <<>> /\ ~Orphaned(ledger'[i]),
           UNCHANGED <<backend, db, tx, todo, prog, first, durable, attempt, sound>>
    PROVE  MigrationInv'
<1>0. MigrationTypeOK
  BY DEF MigrationInv
<1>1. phase[p] \in Holding /\ phase[p] \notin {"apply", "verify"}
  BY DEF Holding
<1>2. tx = NoTx /\ ~durable[p] /\ prog[p] = <<>>
      /\ durable = [durable EXCEPT ![p] = FALSE] /\ prog = [prog EXCEPT ![p] = <<>>]
  BY <1>1, NoTransaction, Unarmed
<1>3. SoundLedger'
  BY DEF SoundLedger
<1>4. CASE phase[p] \in {"ledger", "protect"}
  <2>1. phase' = [phase EXCEPT ![p] = "history"] /\ lock' = lock
    BY <1>4 DEF LedgerDone, Goto
  <2>2. phase' \in [Procs -> Phases] /\ phase'[p] = "history" /\ "history" \in Holding
        /\ \A q \in Procs : q # p => phase'[q] = phase[q]
    BY <1>0, <2>1 DEF MigrationTypeOK, Phases, Holding
  <2>3. MigrationTypeOK'
    BY <1>0, <1>3, <2>1, <2>2 DEF MigrationTypeOK, SoundLedger
  <2>4. LedgerInv'
    <3>1. \A q \in Procs : phase'[q] \notin {"protect", "protect_only"}
      BY <1>1, <2>2, Alone DEF Holding
    <3> QED BY <3>1 DEF MigrationInv, LedgerInv
  <2>5. HistoryInv(p)' /\ AttemptInv(p)'
    BY <1>2, <2>2 DEF HistoryInv, AttemptInv, OpenAttempt, At
  <2> QED BY <1>1, <1>2, <2>1, <2>2, <2>3, <2>4, <2>5, Hold
<1>5. CASE phase[p] \notin {"ledger", "protect"}
  <2>1. phase' = [phase EXCEPT ![p] = "maintenance"] /\ lock' = Nobody
    BY <1>5 DEF LedgerDone, Goto
  <2>2. "maintenance" \in Phases \ Holding
    BY DEF Phases, Holding
  <2> QED BY <1>1, <1>2, <1>3, <2>1, <2>2, Leave
<1> QED BY <1>4, <1>5

LEMMA CreateLedgerKeeps ==
    ASSUME MigrationInv, NEW p \in Procs, CreateLedger(p)
    PROVE  MigrationInv'
<1>0. MigrationTypeOK /\ ledger = <<>> /\ ledger' = ledger
  BY DEF MigrationInv, LedgerInv, CreateLedger
<1>1. phase[p] \in {"ledger", "ledger_only"}
      /\ UNCHANGED <<backend, db, tx, todo, prog, first, durable, attempt, sound>>
  BY DEF CreateLedger, InLedgerScope
<1>2. ledger' \in Seq(Attempt) /\ DOMAIN ledger' = {}
  BY <1>0 DEF MigrationTypeOK
<1>3. CASE backend = "sqlite"
  <2>1. PICK x \in {"protect", "protect_only"} : phase' = [phase EXCEPT ![p] = x]
    BY <1>3 DEF CreateLedger, Goto
  <2>2. table' = "bare" /\ lock' = lock
    BY <1>3 DEF CreateLedger
  <2>3. phase' \in [Procs -> Phases] /\ phase'[p] = x /\ x \in Holding
        /\ \A q \in Procs : q # p => phase'[q] = phase[q]
    BY <1>0, <2>1 DEF MigrationTypeOK, Phases, Holding
  <2>4. MigrationTypeOK'
    BY <1>0, <1>1, <1>2, <2>2, <2>3 DEF MigrationTypeOK
  <2>5. phase[p] \in Holding /\ phase[p] \notin {"apply", "verify"}
    BY <1>1 DEF Holding
  <2>6. LedgerInv'
    <3>1. \A q \in Procs : phase'[q] \notin {"history", "next", "apply", "verify"}
      BY <2>3, <2>5, Alone DEF Holding
    <3> QED BY <1>0, <1>1, <1>2, <2>2, <3>1 DEF MigrationInv, LedgerInv
  <2>7. tx = NoTx /\ ~durable[p] /\ prog[p] = <<>>
    BY <2>5, NoTransaction, Unarmed
  <2>8. HistoryInv(p)' /\ AttemptInv(p)'
    BY <1>1, <2>3, <2>7 DEF HistoryInv, AttemptInv, OpenAttempt, At
  <2> QED BY <1>1, <2>1, <2>2, <2>3, <2>4, <2>5, <2>6, <2>7, <2>8, Hold
<1>4. CASE backend # "sqlite"
  <2>1. table' = "sound" /\ LedgerDone(p)
    BY <1>4 DEF CreateLedger
  <2> QED BY <1>1, <1>2, <2>1, LedgerScopeEnds
<1> QED BY <1>3, <1>4

LEMMA ProtectLedgerKeeps ==
    ASSUME MigrationInv, NEW p \in Procs, ProtectLedger(p)
    PROVE  MigrationInv'
<1>1. phase[p] \in {"protect", "protect_only"}
  BY DEF ProtectLedger
<1>2. ledger = <<>> /\ ledger \in Seq(Attempt)
  BY <1>1 DEF MigrationInv, LedgerInv, MigrationTypeOK
<1>3. ledger' \in Seq(Attempt) /\ DOMAIN ledger' = {}
  BY <1>2 DEF ProtectLedger
<1> QED BY <1>1, <1>3, LedgerScopeEnds DEF ProtectLedger

LEMMA EnsureLedgerKeeps ==
    ASSUME MigrationInv, NEW p \in Procs, EnsureMigrationLedger(p)
    PROVE  MigrationInv'
<1>1. phase[p] \in {"ledger", "ledger_only"}
  BY DEF EnsureMigrationLedger, InLedgerScope
<1>2. /\ ledger' \in Seq(Attempt)
      /\ \A i \in DOMAIN ledger' : ledger'[i].events # <<>> /\ ~Orphaned(ledger'[i])
  BY LedgerAsIs, ReconciledLedger DEF SoundLedger, EnsureMigrationLedger
<1> QED BY <1>1, <1>2, LedgerScopeEnds DEF EnsureMigrationLedger

LEMMA CheckHistoryKeeps ==
    ASSUME MigrationInv, NEW p \in Procs, CheckHistory(p)
    PROVE  MigrationInv'
<1>0. MigrationTypeOK /\ HistoryInv(p)
  BY DEF MigrationInv
<1>1. phase[p] = "history" /\ phase[p] \in Holding /\ phase' = [phase EXCEPT ![p] = "next"]
      /\ UNCHANGED <<backend, db, tx, ledger, table, lock, todo, prog, first, durable, attempt, sound>>
  BY DEF CheckHistory, At, Goto, Holding
<1>2. phase' \in [Procs -> Phases] /\ phase'[p] = "next" /\ "next" \in Holding
      /\ \A q \in Procs : q # p => phase'[q] = phase[q]
  BY <1>0, <1>1 DEF MigrationTypeOK, Phases, Holding
<1>3. MigrationTypeOK'
  BY <1>0, <1>1, <1>2 DEF MigrationTypeOK
<1>4. LedgerInv'
  <2>1. table = "sound"
    BY <1>1 DEF MigrationInv, LedgerInv
  <2>2. \A q \in Procs : phase'[q] \notin {"protect", "protect_only"}
    BY <1>1, <1>2, Alone DEF Holding
  <2> QED BY <1>1, <2>1, <2>2 DEF MigrationInv, LedgerInv
<1>5. tx = NoTx /\ ~durable[p] /\ prog[p] = <<>>
  BY <1>1, NoTransaction, Unarmed
<1>6. HistoryInv(p)'
  BY <1>0, <1>1, <1>2, <1>5 DEF CheckHistory, HistoryAccepted, HistoryInv, OpenAttempt, At, Completed
<1>7. AttemptInv(p)'
  BY <1>1, <1>2, <1>5 DEF AttemptInv, OpenAttempt, At
<1> QED BY <1>1, <1>2, <1>3, <1>4, <1>5, <1>6, <1>7, Hold

LEMMA UpTo ==
    ASSUME NEW k \in Nat, NEW a, a = 1 .. k
    PROVE  \E j \in 0 .. Cardinality(a) : a = 1 .. j
<1>1. Cardinality(1 .. k) = k
  BY FS_Interval
<1> QED BY <1>1

(* The next version is the one after those on record. *)
LEMMA NextVersion ==
    ASSUME MigrationInv, NEW v \in Versions, v \notin db.applied, \A w \in 1 .. v - 1 : w \in db.applied
    PROVE  db.applied = 1 .. v - 1
<1>1. PICK k \in 0 .. Cardinality(db.applied) : db.applied = 1 .. k
  BY DEF MigrationInv, LedgerInv
<1>2. k \in Nat /\ v \in Nat /\ v >= 1
  BY <1>1 DEF Versions
<1>3. v > k
  BY <1>1, <1>2
<1>4. v - 1 > k => v - 1 \in 1 .. v - 1
  BY <1>2
<1>5. v - 1 <= k
  BY <1>1, <1>2, <1>4
<1>6. v - 1 = k
  BY <1>2, <1>3, <1>5
<1> QED BY <1>1, <1>6

LEMMA BeginAttemptKeeps ==
    ASSUME MigrationInv, NEW p \in Procs, BeginAttempt(p)
    PROVE  MigrationInv'
<1>0. MigrationTypeOK /\ HistoryInv(p) /\ SoundLedger
  BY LedgerAsIs DEF MigrationInv
<1>1. phase[p] = "next" /\ phase[p] \in Holding /\ phase' = [phase EXCEPT ![p] = "apply"]
      /\ UNCHANGED <<backend, db, tx, table, lock, sound>>
  BY DEF BeginAttempt, At, Goto, Holding
<1>2. PICK v \in Versions :
         /\ v \notin db.applied /\ \A w \in 1 .. v - 1 : w \in db.applied
         /\ ledger' = Append(ledger, [version |-> v, events |-> <<"STARTED">>])
         /\ todo' = [todo EXCEPT ![p] = v]
         /\ prog' = [prog EXCEPT ![p] = ForwardApply(p, v)]
  BY DEF BeginAttempt
<1>3. /\ attempt' = [attempt EXCEPT ![p] = Len(ledger) + 1]
      /\ durable' = [durable EXCEPT ![p] = TRUE] /\ first' = [first EXCEPT ![p] = FALSE]
  BY DEF BeginAttempt
<1>4. db.applied = 1 .. v - 1 /\ v \in Nat
  <2>1. db.applied = 1 .. v - 1
    BY <1>2, NextVersion
  <2> QED BY <2>1 DEF Versions
<1> DEFINE n == [version |-> v, events |-> <<"STARTED">>]
<1>5. n \in Attempt /\ n.events # <<>> /\ n.version = v /\ Orphaned(n) /\ ~Unresolved(n) /\ ~Done(n)
  BY <1>4, Started
<1> HIDE DEF n
<1>6. /\ ledger' \in Seq(Attempt) /\ DOMAIN ledger' = DOMAIN ledger \cup {Len(ledger) + 1}
      /\ Len(ledger) + 1 \notin DOMAIN ledger /\ Len(ledger) \in Nat
      /\ ledger'[Len(ledger) + 1] = n
      /\ \A j \in DOMAIN ledger : ledger'[j] = ledger[j]
  BY <1>0, <1>2, <1>5, AppendedLedger DEF n, SoundLedger
<1>7. Program(ForwardApply(p, v), v)
  BY InitDbProgram, Ends DEF ForwardApply
<1>8. /\ phase'[p] = "apply" /\ todo'[p] = v /\ attempt'[p] = Len(ledger) + 1 /\ durable'[p]
      /\ "apply" \in Holding /\ phase' \in [Procs -> Phases] /\ todo' \in [Procs -> {0} \cup Versions]
      /\ attempt' \in [Procs -> Nat] /\ durable' \in [Procs -> BOOLEAN] /\ first' \in [Procs -> BOOLEAN]
      /\ \A q \in Procs : q # p => durable'[q] = durable[q] /\ todo'[q] = todo[q]
  BY <1>0, <1>1, <1>2, <1>3, <1>6 DEF MigrationTypeOK, Phases, Holding
<1>9. /\ prog'[p] = ForwardApply(p, v) /\ \A q \in Procs : q # p => prog'[q] = prog[q]
      /\ prog' = [q \in Procs |-> prog'[q]]
  BY <1>0, <1>2 DEF MigrationTypeOK
<1>10. \A q \in Procs : prog'[q] \in Seq(Statements(todo'[q]))
  BY <1>0, <1>7, <1>8, <1>9 DEF MigrationTypeOK, Program, Body
<1>11. MigrationTypeOK'
  BY <1>0, <1>1, <1>6, <1>8, <1>9, <1>10 DEF MigrationTypeOK
<1>12. LedgerInv'
  <2>1. table = "sound"
    BY <1>1 DEF MigrationInv, LedgerInv
  <2>2. \A q \in Procs : phase'[q] \notin {"protect", "protect_only"}
    BY <1>0, <1>1, <1>8, Alone DEF MigrationTypeOK, Holding
  <2>3. \A i \in DOMAIN ledger' : ledger'[i].events # <<>>
    BY <1>0, <1>5, <1>6 DEF SoundLedger
  <2> QED BY <1>1, <2>1, <2>2, <2>3 DEF MigrationInv, LedgerInv
<1>13. \A i \in DOMAIN ledger : ~Unresolved(ledger[i]) /\ ~Orphaned(ledger[i])
  BY <1>0, <1>1 DEF HistoryInv, OpenAttempt, At
<1>14. HistoryInv(p)'
  <2>1. ASSUME NEW i \in DOMAIN ledger'
        PROVE  ~Unresolved(ledger'[i]) /\ (Orphaned(ledger'[i]) <=> attempt'[p] = i)
    BY <1>5, <1>6, <1>8, <1>13
  <2> QED BY <1>8, <2>1 DEF HistoryInv, OpenAttempt, At
<1>15. Completed \subseteq Completed' /\ db.applied \subseteq Completed
  <2>1. Completed \subseteq Completed'
    BY <1>6, CompletedGrows
  <2> QED BY <1>0, <1>1, <2>1 DEF HistoryInv, At
<1>16. tx = NoTx
  BY <1>1, NoTransaction
<1>17. AttemptInv(p)'
  <2>1. prog'[p] # <<>> /\ EndsIn(prog'[p], v)
    BY <1>7, <1>9 DEF Program
  <2>2. db'.applied = 1 .. v - 1 /\ View' = db'
    BY <1>1, <1>4, <1>16 DEF View
  <2>3. attempt'[p] \in DOMAIN ledger' /\ ledger'[attempt'[p]].version = v
    BY <1>5, <1>6, <1>8
  <2>4. 1 .. v - 1 \subseteq Completed'
    BY <1>4, <1>15
  <2> QED BY <1>8, <2>1, <2>2, <2>3, <2>4 DEF AttemptInv, OpenAttempt, At
<1> QED BY <1>1, <1>8, <1>9, <1>11, <1>12, <1>14, <1>17, Hold

(* A statement: the transaction, or the database, sees the version once it *)
(* is recorded.                                                            *)
LEMMA ViewType ==
    ASSUME MigrationTypeOK
    PROVE  View \in Database
BY DEF MigrationTypeOK, View

LEMMA EffectType ==
    ASSUME NEW d \in Database, NEW v \in Nat, NEW s \in Statements(v)
    PROVE  /\ Effect(d, s) \in Database /\ Effect(d, s) # NoTx
           /\ Effect(d, s).applied = d.applied \cup s.version /\ s.version \subseteq {v}
<1>1. /\ d.obj \subseteq Names /\ d.rows \subseteq Names /\ d.applied \subseteq Nat
      /\ s.add \subseteq Names /\ s.copy \subseteq Names \X Names /\ s.version \subseteq {v}
  BY DEF Database, Statements
<1>2. {c[2] : c \in {x \in s.copy : x[1] \in d.rows}} \subseteq Names
  BY <1>1
<1>3. Effect(d, s) \in Database /\ Effect(d, s).applied = d.applied \cup s.version
  BY <1>1, <1>2 DEF Effect, Database
<1>4. "none" \notin Names
  BY DEF Names, RunObjects
<1>5. NoTx.obj = {"none"}
  BY DEF NoTx
<1>6. Effect(d, s).obj \subseteq Names
  BY <1>3 DEF Database
<1> HIDE DEF NoTx, Names
<1> QED BY <1>1, <1>3, <1>4, <1>5, <1>6

LEMMA RestOfProgram ==
    ASSUME NEW v, NEW s \in Seq(Statements(v)), s # <<>>, EndsIn(s, v), Head(s).mode # "raise"
    PROVE  /\ Head(s) \in Statements(v) /\ Tail(s) \in Seq(Statements(v))
           /\ IF Tail(s) = <<>> THEN Head(s).version = {v} ELSE EndsIn(Tail(s), v)
<1>1. /\ Head(s) \in Statements(v) /\ Tail(s) \in Seq(Statements(v)) /\ Head(s) = s[1]
      /\ Len(s) \in Nat /\ Len(s) > 0 /\ Len(Tail(s)) = Len(s) - 1
      /\ \A i \in 1 .. Len(Tail(s)) : Tail(s)[i] = s[i + 1]
  BY HeadTailProperties, EmptySeq, LenProperties
<1>2. CASE Tail(s) = <<>>
  <2>1. Len(s) = 1
    <3>1. Len(<<>>) = 0
      OBVIOUS
    <3>2. Len(Tail(s)) = 0
      BY <1>2, <3>1, Zenon
    <3> QED BY <1>1, <3>2
  <2> QED BY <1>1, <1>2, <2>1 DEF EndsIn
<1>3. CASE Tail(s) # <<>>
  <2>1. Len(Tail(s)) > 0 /\ Tail(s)[Len(Tail(s))] = s[Len(s)]
    BY <1>1, <1>3, EmptySeq
  <2> QED BY <1>1, <1>3, <2>1 DEF EndsIn
<1> QED BY <1>2, <1>3

LEMMA ApplyFacts ==
    ASSUME MigrationInv, NEW p \in Procs, phase[p] \in {"apply", "verify"}
    PROVE  /\ MigrationTypeOK /\ HistoryInv(p) /\ SoundLedger /\ phase[p] \in Holding /\ table = "sound"
           /\ todo[p] \in Versions /\ todo[p] \in Nat /\ todo[p] - 1 \in Nat
           /\ attempt[p] \in DOMAIN ledger /\ ledger[attempt[p]].version = todo[p]
           /\ Orphaned(ledger[attempt[p]])
           /\ 1 .. todo[p] - 1 \subseteq Completed
           /\ db.applied \in {1 .. todo[p] - 1, 1 .. todo[p]} /\ View.applied \in {1 .. todo[p] - 1, 1 .. todo[p]}
           /\ db.applied \subseteq View.applied /\ durable[p]
<1>1. MigrationTypeOK /\ HistoryInv(p) /\ AttemptInv(p) /\ LedgerInv /\ SoundLedger
  BY LedgerAsIs DEF MigrationInv
<1>2. /\ todo[p] \in Versions /\ attempt[p] \in DOMAIN ledger /\ ledger[attempt[p]].version = todo[p]
      /\ 1 .. todo[p] - 1 \subseteq Completed
      /\ db.applied \in {1 .. todo[p] - 1, 1 .. todo[p]} /\ View.applied \in {1 .. todo[p] - 1, 1 .. todo[p]}
      /\ db.applied \subseteq View.applied
  BY <1>1 DEF AttemptInv, OpenAttempt
<1>3. Orphaned(ledger[attempt[p]]) /\ durable[p]
  BY <1>1, <1>2 DEF HistoryInv, OpenAttempt
<1>4. phase[p] \in Holding /\ table = "sound"
  BY <1>1 DEF Holding, LedgerInv
<1>5. todo[p] \in Nat /\ todo[p] - 1 \in Nat
  BY <1>2 DEF Versions
<1> QED BY <1>1, <1>2, <1>3, <1>4, <1>5

LEMMA StepKeeps ==
    ASSUME MigrationInv, NEW p \in Procs, Step(p)
    PROVE  MigrationInv'
<1> DEFINE s == Head(prog[p])
           v == todo[p]
           after == Effect(View, s)
<1>0. phase[p] = "apply" /\ prog[p] # <<>> /\ s.mode # "raise" /\ prog' = [prog EXCEPT ![p] = Tail(@)]
      /\ UNCHANGED <<backend, ledger, table, lock, phase, todo, first, durable, attempt, sound>>
  BY DEF Step, At
<1>1. (db' = after /\ tx' = NoTx) \/ (db' = db /\ tx' = after)
  BY DEF Step
<1>2. /\ MigrationTypeOK /\ HistoryInv(p) /\ SoundLedger /\ phase[p] \in Holding /\ table = "sound"
      /\ v \in Versions /\ v \in Nat /\ v - 1 \in Nat
      /\ attempt[p] \in DOMAIN ledger /\ ledger[attempt[p]].version = v
      /\ 1 .. v - 1 \subseteq Completed
      /\ db.applied \in {1 .. v - 1, 1 .. v} /\ View.applied \in {1 .. v - 1, 1 .. v}
      /\ db.applied \subseteq View.applied /\ durable[p]
  BY <1>0, ApplyFacts
<1>3. prog[p] \in Seq(Statements(v)) /\ EndsIn(prog[p], v)
  BY <1>0, <1>2 DEF MigrationTypeOK, MigrationInv, AttemptInv, At
<1>4. /\ s \in Statements(v) /\ Tail(prog[p]) \in Seq(Statements(v))
      /\ IF Tail(prog[p]) = <<>> THEN s.version = {v} ELSE EndsIn(Tail(prog[p]), v)
  BY <1>0, <1>3, RestOfProgram
<1>5. View \in Database
  BY <1>2, ViewType
<1>6. after \in Database /\ after # NoTx /\ after.applied = View.applied \cup s.version /\ s.version \subseteq {v}
  BY <1>2, <1>4, <1>5, EffectType
<1> HIDE DEF s, v, after
<1>7. after.applied \in {1 .. v - 1, 1 .. v} /\ View.applied \subseteq after.applied
  <2>1. 1 .. v - 1 \cup {v} = 1 .. v /\ 1 .. v \cup {v} = 1 .. v
    BY <1>2
  <2>2. s.version = {} \/ s.version = {v}
    BY <1>6
  <2> QED BY <1>2, <1>6, <2>1, <2>2
<1>8. db' \in Database /\ tx' \in Database \cup {NoTx} /\ View' = after
      /\ db'.applied \in {1 .. v - 1, 1 .. v} /\ db'.applied \subseteq after.applied
  BY <1>1, <1>2, <1>6, <1>7 DEF View, MigrationTypeOK
<1>9. /\ prog'[p] = Tail(prog[p]) /\ \A q \in Procs : q # p => prog'[q] = prog[q]
      /\ prog' = [q \in Procs |-> prog'[q]]
  BY <1>0, <1>2 DEF MigrationTypeOK
<1>10. \A q \in Procs : prog'[q] \in Seq(Statements(todo[q]))
  BY <1>2, <1>4, <1>9 DEF MigrationTypeOK, v
<1>11. MigrationTypeOK'
  BY <1>0, <1>2, <1>8, <1>9, <1>10 DEF MigrationTypeOK
<1>12. LedgerInv'
  <2>1. \E k \in 0 .. Cardinality(db'.applied) : db'.applied = 1 .. k
    BY <1>2, <1>8, UpTo
  <2> QED BY <1>0, <2>1 DEF MigrationInv, LedgerInv
<1>13. HistoryInv(p)'
  BY <1>0, <1>2 DEF HistoryInv, OpenAttempt, At
<1>14. AttemptInv(p)'
  <2>1. Completed' = Completed
    BY <1>0 DEF Completed
  <2>2. IF prog'[p] = <<>> THEN v \in after.applied ELSE EndsIn(prog'[p], v)
    BY <1>4, <1>6, <1>9
  <2>3. todo'[p] = v /\ phase'[p] = "apply"
    BY <1>0 DEF v
  <2> QED BY <1>0, <1>2, <1>7, <1>8, <2>1, <2>2, <2>3 DEF AttemptInv, OpenAttempt, At
<1>15. phase' = [phase EXCEPT ![p] = "apply"] /\ "apply" \in Holding
  BY <1>0, <1>2 DEF MigrationTypeOK, Holding
<1> QED BY <1>0, <1>2, <1>9, <1>11, <1>12, <1>13, <1>14, <1>15, Hold

LEMMA CommitKeeps ==
    ASSUME MigrationInv, NEW p \in Procs, Commit(p)
    PROVE  MigrationInv'
<1> DEFINE v == todo[p]
<1>0. phase[p] = "apply" /\ prog[p] = <<>> /\ db' = View /\ tx' = NoTx /\ phase' = [phase EXCEPT ![p] = "verify"]
      /\ UNCHANGED <<backend, ledger, table, lock, todo, prog, first, durable, attempt, sound>>
  BY DEF Commit, At, Goto
<1>1. /\ MigrationTypeOK /\ HistoryInv(p) /\ SoundLedger /\ phase[p] \in Holding /\ table = "sound"
      /\ v \in Versions /\ v \in Nat /\ v - 1 \in Nat
      /\ attempt[p] \in DOMAIN ledger /\ ledger[attempt[p]].version = v
      /\ 1 .. v - 1 \subseteq Completed
      /\ View.applied \in {1 .. v - 1, 1 .. v} /\ durable[p]
  BY <1>0, ApplyFacts
<1>2. db'.applied = 1 .. v
  <2>1. v \in View.applied
    BY <1>0 DEF MigrationInv, AttemptInv, At
  <2> QED BY <1>0, <1>1, <2>1
<1>3. View' = db' /\ db' \in Database
  BY <1>0, <1>1, ViewType DEF View
<1>4. phase' \in [Procs -> Phases] /\ phase'[p] = "verify" /\ "verify" \in Holding
      /\ \A q \in Procs : q # p => phase'[q] = phase[q]
  BY <1>0, <1>1 DEF MigrationTypeOK, Phases, Holding
<1> HIDE DEF v
<1>5. MigrationTypeOK'
  BY <1>0, <1>1, <1>3, <1>4 DEF MigrationTypeOK
<1>6. LedgerInv'
  <2>1. \E k \in 0 .. Cardinality(db'.applied) : db'.applied = 1 .. k
    BY <1>1, <1>2, UpTo
  <2>2. \A q \in Procs : phase'[q] \notin {"protect", "protect_only"}
    BY <1>1, <1>4, Alone DEF Holding
  <2> QED BY <1>0, <1>1, <2>1, <2>2 DEF MigrationInv, LedgerInv
<1>7. HistoryInv(p)'
  BY <1>0, <1>1, <1>4 DEF HistoryInv, OpenAttempt, At
<1>8. AttemptInv(p)'
  <2>1. Completed' = Completed
    BY <1>0 DEF Completed
  <2>2. todo'[p] = v
    BY <1>0 DEF v
  <2> QED BY <1>0, <1>1, <1>2, <1>3, <1>4, <2>1, <2>2 DEF AttemptInv, OpenAttempt, At
<1> QED BY <1>0, <1>1, <1>4, <1>5, <1>6, <1>7, <1>8, Hold

LEMMA VerifyVersionKeeps ==
    ASSUME MigrationInv, NEW p \in Procs, VerifyVersion(p)
    PROVE  MigrationInv'
<1> DEFINE v == todo[p]
           i == attempt[p]
           n == [ledger[i] EXCEPT !.events = @ \o <<"SUCCEEDED">>]
<1>0. phase[p] = "verify" /\ ledger' = Extend(ledger, i, <<"SUCCEEDED">>)
      /\ durable' = [durable EXCEPT ![p] = FALSE] /\ phase' = [phase EXCEPT ![p] = "next"]
      /\ UNCHANGED <<backend, table, db, tx, lock, todo, prog, first, attempt, sound>>
  BY DEF VerifyVersion, At, Goto
<1>1. /\ MigrationTypeOK /\ HistoryInv(p) /\ SoundLedger /\ phase[p] \in Holding /\ table = "sound"
      /\ v \in Versions /\ v \in Nat /\ v - 1 \in Nat
      /\ i \in DOMAIN ledger /\ ledger[i].version = v /\ Orphaned(ledger[i])
      /\ 1 .. v - 1 \subseteq Completed
  BY <1>0, ApplyFacts
<1>2. db.applied = 1 .. v /\ prog[p] = <<>>
  BY <1>0 DEF MigrationInv, AttemptInv, At
<1>3. ledger[i] \in Attempt /\ ledger[i].events # <<>> /\ "SUCCEEDED" \in Events
  BY <1>1 DEF SoundLedger, Events
<1>4. n \in Attempt /\ n.events # <<>> /\ n.version = v /\ ~Orphaned(n) /\ ~Unresolved(n) /\ Done(n)
  BY <1>1, <1>3, Answered
<1>5. /\ ledger' \in Seq(Attempt) /\ DOMAIN ledger' = DOMAIN ledger /\ ledger'[i] = n
      /\ \A j \in DOMAIN ledger : j # i => ledger'[j] = ledger[j]
  BY <1>0, <1>1, <1>4, ExtendedLedger DEF SoundLedger
<1> HIDE DEF v, i, n
<1>6. phase' \in [Procs -> Phases] /\ phase'[p] = "next" /\ "next" \in Holding
      /\ durable' \in [Procs -> BOOLEAN] /\ ~durable'[p]
      /\ \A q \in Procs : q # p => phase'[q] = phase[q] /\ durable'[q] = durable[q]
  BY <1>0, <1>1 DEF MigrationTypeOK, Phases, Holding
<1>7. MigrationTypeOK'
  BY <1>0, <1>1, <1>5, <1>6 DEF MigrationTypeOK
<1>8. LedgerInv'
  <2>1. \A q \in Procs : phase'[q] \notin {"protect", "protect_only"}
    BY <1>1, <1>6, Alone DEF Holding
  <2>2. \A j \in DOMAIN ledger' : ledger'[j].events # <<>>
    BY <1>1, <1>4, <1>5 DEF SoundLedger
  <2> QED BY <1>0, <1>1, <2>1, <2>2 DEF MigrationInv, LedgerInv
<1>9. ASSUME NEW j \in DOMAIN ledger' PROVE ~Unresolved(ledger'[j]) /\ ~Orphaned(ledger'[j])
  <2>1. j # i => ~Unresolved(ledger[j]) /\ ~Orphaned(ledger[j])
    BY <1>0, <1>1, <1>5 DEF HistoryInv, OpenAttempt, i
  <2> QED BY <1>4, <1>5, <2>1
<1>10. db'.applied \subseteq Versions /\ db'.applied \subseteq Completed'
  <2>1. Completed \subseteq Completed'
    <3>1. ~Done(ledger[i])
      BY <1>1, <1>3, Outcomes DEF SoundLedger
    <3> QED BY <1>5, <3>1, CompletedGrows
  <2>2. v \in Completed'
    BY <1>1, <1>4, <1>5 DEF Completed, Done
  <2>3. 1 .. v = 1 .. v - 1 \cup {v} /\ 1 .. v \subseteq Versions
    BY <1>1 DEF Versions
  <2> QED BY <1>0, <1>1, <1>2, <2>1, <2>2, <2>3
<1>11. HistoryInv(p)'
  BY <1>6, <1>9, <1>10 DEF HistoryInv, OpenAttempt, At
<1>12. AttemptInv(p)'
  BY <1>0, <1>2, <1>6 DEF AttemptInv, OpenAttempt, At
<1>13. tx = NoTx
  BY <1>0, <1>1, NoTransaction
<1> QED BY <1>0, <1>1, <1>6, <1>7, <1>8, <1>11, <1>12, <1>13, Hold

LEMMA ResolveKeeps ==
    ASSUME MigrationInv, NEW p \in Procs, ResolveMigrationReconciliation(p)
    PROVE  MigrationInv'
<1>0. MigrationTypeOK /\ SoundLedger
  BY LedgerAsIs DEF MigrationInv
<1>1. phase[p] \notin Holding /\ "down" \in Phases \ Holding /\ phase' = [phase EXCEPT ![p] = "down"]
      /\ UNCHANGED <<backend, table, db, tx, lock, todo, prog, first, durable, attempt, sound>>
  BY DEF ResolveMigrationReconciliation, At, Goto, Phases, Holding
<1>2. PICK i \in DOMAIN ledger :
         ledger' = IF ArtifactReviewed(p) /\ ResolveOk(i)
                   THEN Extend(ledger, i, <<"RECONCILIATION_RESOLVED">>) ELSE ledger
  BY DEF ResolveMigrationReconciliation
<1>3. CASE ledger' = ledger
  BY <1>0, <1>1, <1>3, QuietOutside DEF MigrationTypeOK
<1>4. CASE ResolveOk(i) /\ ledger' = Extend(ledger, i, <<"RECONCILIATION_RESOLVED">>)
  <2> DEFINE n == [ledger[i] EXCEPT !.events = @ \o <<"RECONCILIATION_RESOLVED">>]
  <2>1. ledger[i] \in Attempt /\ ledger[i].events # <<>> /\ Unresolved(ledger[i]) /\ "RECONCILIATION_RESOLVED" \in Events
    BY <1>0, <1>4 DEF SoundLedger, ResolveOk, Events
  <2>2. n \in Attempt /\ n.events # <<>> /\ n.version = ledger[i].version /\ ~Orphaned(n) /\ ~Unresolved(n)
    BY <2>1, Settled
  <2>3. /\ ledger' \in Seq(Attempt) /\ DOMAIN ledger' = DOMAIN ledger /\ ledger'[i] = n
        /\ \A j \in DOMAIN ledger : j # i => ledger'[j] = ledger[j]
    BY <1>0, <1>2, <1>4, <2>2, ExtendedLedger DEF SoundLedger
  <2> HIDE DEF n
  <2>4. MigrationTypeOK'
    <3>1. phase' \in [Procs -> Phases]
      BY <1>0, <1>1 DEF MigrationTypeOK
    <3> QED BY <1>0, <1>1, <2>3, <3>1 DEF MigrationTypeOK
  <2>5. SoundLedger'
    <3>1. table = "sound"
      BY <1>4 DEF ResolveOk
    <3> QED BY <1>0, <1>1, <2>2, <2>3, <3>1 DEF SoundLedger
  <2>6. ASSUME NEW q \in Procs, q # p PROVE HistoryInv(q)' /\ AttemptInv(q)'
    <3>1. phase'[q] = phase[q] /\ HistoryInv(q) /\ AttemptInv(q)
      BY <1>0, <1>1, <2>6 DEF MigrationTypeOK, MigrationInv
    <3>2. phase[q] \notin {"next", "apply", "verify"}
      BY <1>2, <2>1, <3>1 DEF HistoryInv
    <3>3. phase[q] = "history" => \A j \in DOMAIN ledger' : ~Orphaned(ledger'[j])
      BY <2>2, <2>3, <3>1 DEF HistoryInv, At
    <3> QED BY <1>1, <3>1, <3>2, <3>3 DEF HistoryInv, AttemptInv, OpenAttempt, At
  <2> QED BY <1>1, <2>4, <2>5, <2>6, Outside
<1> QED BY <1>2, <1>3, <1>4

LEMMA DriftKeeps ==
    ASSUME MigrationInv, NEW o, Drift(o)
    PROVE  MigrationInv'
<1>0. MigrationTypeOK
  BY DEF MigrationInv
<1>1. tx = NoTx /\ db' = [db EXCEPT !.obj = @ \ {o}]
      /\ UNCHANGED <<backend, tx, ledger, table, lock, phase, todo, prog, first, durable, attempt, sound>>
  BY DEF Drift
<1>2. db' \in Database /\ db'.applied = db.applied
  BY <1>0, <1>1 DEF MigrationTypeOK, Database
<1>3. View'.applied = View.applied
  BY <1>1, <1>2 DEF View
<1>4. MigrationTypeOK'
  BY <1>0, <1>1, <1>2 DEF MigrationTypeOK
<1>5. LockInv' /\ TxInv' /\ LedgerInv'
  BY <1>1, <1>2 DEF MigrationInv, LockInv, TxInv, LedgerInv, At
<1>6. ASSUME NEW q \in Procs PROVE HistoryInv(q)' /\ AttemptInv(q)'
  <2>1. HistoryInv(q) /\ AttemptInv(q) /\ Completed' = Completed
    BY <1>1 DEF MigrationInv, Completed
  <2> QED BY <1>1, <1>2, <1>3, <2>1 DEF HistoryInv, AttemptInv, OpenAttempt, At
<1> QED BY <1>4, <1>5, <1>6 DEF MigrationInv

LEMMA NextKeeps == MigrationInv /\ [MigrationNext]_vars => MigrationInv'
<1> SUFFICES ASSUME MigrationInv, [MigrationNext]_vars PROVE MigrationInv'
  OBVIOUS
<1>1. CASE UNCHANGED vars
  <2>1. \A p \in Procs : HistoryInv(p)' /\ AttemptInv(p)'
    BY <1>1, Frame DEF vars, MigrationInv
  <2>2. MigrationTypeOK' /\ LockInv' /\ TxInv' /\ LedgerInv'
    BY <1>1 DEF vars, MigrationInv, MigrationTypeOK, LockInv, TxInv, LedgerInv, At
  <2> QED BY <2>1, <2>2 DEF MigrationInv
<1>2. ASSUME NEW p \in Procs, NEW ok \in BOOLEAN, Boot(p, "starting", ok) \/ Boot(p, "maintaining", ok)
      PROVE  MigrationInv'
  BY <1>2, BootKeeps
<1>3. ASSUME NEW p \in Procs, ProcStep(p) PROVE MigrationInv'
  BY <1>3, AcquireLockKeeps, CreateLedgerKeeps, ProtectLedgerKeeps, EnsureLedgerKeeps, RefusalKeeps,
     CheckHistoryKeeps, BeginAttemptKeeps, StepKeeps, CommitKeeps, VerifyVersionKeeps, FinalVerifyKeeps,
     RecordFailureKeeps DEF ProcStep
<1>4. ASSUME NEW p \in Procs, ResolveMigrationReconciliation(p) \/ Exit(p) \/ Crash(p) \/ StatementFails(p)
      PROVE  MigrationInv'
  BY <1>4, ResolveKeeps, ExitKeeps, CrashKeeps, StatementFailsKeeps
<1>5. ASSUME NEW o \in Drifts, Drift(o) PROVE MigrationInv'
  BY <1>5, DriftKeeps
<1> QED BY <1>1, <1>2, <1>3, <1>4, <1>5 DEF MigrationNext

(* The inductive invariant of the coordinator: under the lock one process  *)
(* at a time works on one attempt, for the version after those on record,  *)
(* and past the history check the ledger has no other open attempt.        *)
THEOREM MigrationInvariant == MigrationSpec => []MigrationInv
BY InitInv, NextKeeps, PTL DEF MigrationSpec

(* Every variable of the coordinator keeps its type; the program of a      *)
(* version records that version and no other.                              *)
THEOREM MigrationTypes == MigrationSpec => []MigrationTypeOK
<1>1. MigrationInv => MigrationTypeOK
  BY DEF MigrationInv
<1> QED BY <1>1, MigrationInvariant, PTL

(* Only the last step of _run_migration_coordinator starts to serve, and   *)
(* what it has checked holds at that moment: the history is complete, each *)
(* version with its SUCCEEDED event, and the current verifiers accept the  *)
(* schema.                                                                 *)
LEMMA OnlyVerifiedServes ==
    ASSUME MigrationInv, [MigrationNext]_vars, NEW p \in Procs, ~At(p, "serving"), phase'[p] = "serving"
    PROVE  /\ db.applied = Versions /\ Versions \subseteq Completed
           /\ CurrentPostconditions(backend, db)
<1>0. phase \in [Procs -> Phases]
  BY DEF MigrationInv, MigrationTypeOK
<1>1. FinalVerify(p)
  <2>1. CASE UNCHANGED vars
    BY <2>1 DEF vars, At
  <2>2. ASSUME NEW q \in Procs, NEW ok \in BOOLEAN, Boot(q, "starting", ok) \/ Boot(q, "maintaining", ok)
        PROVE  FALSE
    BY <1>0, <2>2 DEF Boot, Goto, At
  <2>3. ASSUME NEW q \in Procs, ResolveMigrationReconciliation(q) \/ Exit(q) \/ Crash(q) \/ StatementFails(q)
        PROVE  FALSE
    BY <1>0, <2>3 DEF ResolveMigrationReconciliation, Exit, Crash, StatementFails, Goto, At
  <2>4. ASSUME NEW o \in Drifts, Drift(o) PROVE FALSE
    BY <2>4 DEF Drift, At
  <2>5. ASSUME NEW q \in Procs, ProcStep(q) PROVE FinalVerify(p)
    <3>1. CASE \/ LedgerRefused(q) \/ HistoryRefused(q) \/ StepRaises(q)
               \/ CommitRefused(q) \/ VerifyRefused(q) \/ FinalRefused(q) \/ RecordMigrationFailure(q)
      BY <1>0, <3>1 DEF LedgerRefused, HistoryRefused, StepRaises, CommitRefused, VerifyRefused, FinalRefused,
                        RecordMigrationFailure, Raised, Goto, At
    <3>2. CASE \/ AcquireLock(q) \/ CreateLedger(q) \/ ProtectLedger(q) \/ EnsureMigrationLedger(q)
      BY <1>0, <3>2 DEF AcquireLock, CreateLedger, ProtectLedger, EnsureMigrationLedger, LedgerDone, Goto, At
    <3>3. CASE \/ CheckHistory(q) \/ BeginAttempt(q) \/ Step(q) \/ Commit(q) \/ VerifyVersion(q)
      BY <1>0, <3>3 DEF CheckHistory, BeginAttempt, Step, Commit, VerifyVersion, Goto, At
    <3>4. CASE FinalVerify(q)
      <4>1. q = p
        BY <1>0, <3>4 DEF FinalVerify, Goto, At
      <4> QED BY <3>4, <4>1
    <3> QED BY <2>5, <3>1, <3>2, <3>3, <3>4 DEF ProcStep
  <2> QED BY <2>1, <2>2, <2>3, <2>4, <2>5 DEF MigrationNext
<1>2. db.applied \subseteq Versions /\ db.applied \subseteq Completed
  BY <1>1 DEF MigrationInv, HistoryInv, FinalVerify, At
<1> QED BY <1>1, <1>2 DEF FinalVerify

(* A process starts to serve only on a schema that was applied and         *)
(* recorded completely and that the current verifiers accept.              *)
THEOREM ServesOnlyVerified == MigrationSpec => ServesVerifiedSchema
<1>1. MigrationInv /\ [MigrationNext]_vars =>
        [\A p \in Procs : ~At(p, "serving") /\ phase'[p] = "serving"
           => /\ db.applied = Versions /\ Versions \subseteq Completed
              /\ CurrentPostconditions(backend, db)]_vars
  BY OnlyVerifiedServes
<1> QED BY <1>1, MigrationInvariant, PTL DEF MigrationSpec, ServesVerifiedSchema

-----------------------------------------------------------------------------
(* The refinement.  The abstract state, as a function of the concrete one. *)

OpenIn(ph) == \E p \in Procs : ph[p] \in {"apply", "verify"}
OpenOf(ph, td) == IF OpenIn(ph) THEN td[CHOOSE p \in Procs : ph[p] \in {"apply", "verify"}] ELSE 0

BlockedBy(l, ph, at, i) ==
    /\ Orphaned(l[i]) \/ Unresolved(l[i])
    /\ \A p \in Procs : ~(ph[p] \in {"apply", "verify"} /\ at[p] = i)
BlockedOf(l, ph, at) == \E i \in DOMAIN l : BlockedBy(l, ph, at, i)

Level == Cardinality(db.applied)
Open == OpenOf(phase, todo)
Blocked == BlockedOf(ledger, phase, attempt)

HistoryStep ==
    \/ UNCHANGED <<Level, Open, Blocked>>
    \/ Open = 0 /\ ~Blocked /\ Open' = Level + 1 /\ UNCHANGED <<Level, Blocked>>
    \/ Open = Level + 1 /\ Level' = Open /\ UNCHANGED <<Open, Blocked>>
    \/ Open # 0 /\ Open = Level /\ Open' = 0 /\ UNCHANGED <<Level, Blocked>>
    \/ Open # 0 /\ Open' = 0 /\ Blocked' = TRUE /\ UNCHANGED Level
    \/ Blocked /\ Open = 0 /\ Blocked' = FALSE /\ UNCHANGED <<Level, Open>>

LEMMA MappedStep == HistoryStep => [History!Next]_(History!history)
BY DEF HistoryStep, Level, Open, Blocked, OpenOf, OpenIn, BlockedOf, BlockedBy, OpenAttempt,
       History!Next, History!Start, History!Advance, History!Succeed, History!Abandon, History!Resolve,
       History!history

LEMMA MappedInit ==
    ASSUME Level \in Nat, Open = 0, Blocked = FALSE
    PROVE  History!Init
BY DEF Level, Open, Blocked, OpenOf, OpenIn, BlockedOf, BlockedBy, OpenAttempt, History!Init

LEMMA OpenOne ==
    ASSUME NEW ph, NEW td, NEW p \in Procs, ph[p] \in {"apply", "verify"},
           \A q \in Procs : q # p => ph[q] \notin {"apply", "verify"}
    PROVE  OpenOf(ph, td) = td[p]
<1>1. \A q \in Procs : ph[q] \in {"apply", "verify"} => q = p
  OBVIOUS
<1>2. (CHOOSE q \in Procs : ph[q] \in {"apply", "verify"}) = p
  BY <1>1
<1> QED BY <1>2 DEF OpenOf, OpenIn

LEMMA OpenNone ==
    ASSUME NEW ph, NEW td, \A q \in Procs : ph[q] \notin {"apply", "verify"}
    PROVE  OpenOf(ph, td) = 0
BY DEF OpenOf, OpenIn

LEMMA LevelIs ==
    ASSUME NEW a, NEW k \in Nat, a = 1 .. k
    PROVE  Cardinality(a) = k
BY FS_Interval

(* While a process is open, nothing else is, and the ledger is not blocked. *)
LEMMA WhileOpen ==
    ASSUME MigrationInv, NEW p \in Procs, phase[p] \in {"apply", "verify"}
    PROVE  /\ \A q \in Procs : q # p => phase[q] \notin {"apply", "verify"}
           /\ Open = todo[p] /\ Open # 0 /\ Blocked = FALSE
<1>1. \A q \in Procs : q # p => phase[q] \notin {"apply", "verify"}
  BY ApplyFacts, Alone DEF Holding
<1>2. Open = todo[p]
  BY <1>1, OpenOne DEF Open
<1>3. todo[p] # 0
  BY ApplyFacts DEF Versions
<1>4. \A i \in DOMAIN ledger : ~Unresolved(ledger[i]) /\ (Orphaned(ledger[i]) => attempt[p] = i)
  BY DEF MigrationInv, HistoryInv
<1>5. Blocked = FALSE
  BY <1>4 DEF Blocked, BlockedOf, BlockedBy
<1> QED BY <1>1, <1>2, <1>3, <1>5

(* Steps that the history does not see. *)
LEMMA Unseen ==
    ASSUME db'.applied = db.applied, ledger' = ledger,
           \A q \in Procs : /\ phase'[q] \in {"apply", "verify"} <=> phase[q] \in {"apply", "verify"}
                            /\ phase[q] \in {"apply", "verify"} => todo'[q] = todo[q] /\ attempt'[q] = attempt[q]
    PROVE  HistoryStep
<1>1. Level' = Level
  BY DEF Level
<1>2. Blocked' = Blocked
  BY DEF Blocked, BlockedOf, BlockedBy
<1>3. Open' = Open
  <2>1. CASE OpenIn(phase)
    <3> DEFINE p == CHOOSE q \in Procs : phase[q] \in {"apply", "verify"}
    <3>1. p \in Procs /\ phase[p] \in {"apply", "verify"}
      BY <2>1 DEF OpenIn
    <3>2. (CHOOSE q \in Procs : phase'[q] \in {"apply", "verify"}) = p
      OBVIOUS
    <3>3. OpenIn(phase')
      BY <3>1 DEF OpenIn
    <3>4. Open = todo[p] /\ Open' = todo'[p]
      BY <2>1, <3>2, <3>3 DEF Open, OpenOf
    <3> QED BY <3>1, <3>4
  <2>2. CASE ~OpenIn(phase)
    BY <2>2 DEF Open, OpenOf, OpenIn
  <2> QED BY <2>1, <2>2
<1> QED BY <1>1, <1>2, <1>3 DEF HistoryStep

LEMMA UnseenMove ==
    ASSUME MigrationInv, NEW p \in Procs, NEW x, phase' = [phase EXCEPT ![p] = x],
           phase[p] \notin {"apply", "verify"}, x \notin {"apply", "verify"},
           db'.applied = db.applied, ledger' = ledger,
           \A q \in Procs : q # p => todo'[q] = todo[q] /\ attempt'[q] = attempt[q]
    PROVE  HistoryStep
<1>1. phase \in [Procs -> Phases]
  BY DEF MigrationInv, MigrationTypeOK
<1>2. phase'[p] = x /\ \A q \in Procs : q # p => phase'[q] = phase[q]
  BY <1>1
<1> QED BY <1>2, Unseen

(* An attempt that ends without an outcome. *)
LEMMA Abandoned ==
    ASSUME MigrationInv, NEW p \in Procs, phase[p] \in {"apply", "verify"}, NEW x,
           x \notin {"apply", "verify"}, phase' = [phase EXCEPT ![p] = x], db' = db, ledger' = ledger
    PROVE  HistoryStep
<1>1. phase \in [Procs -> Phases]
  BY DEF MigrationInv, MigrationTypeOK
<1>2. /\ \A q \in Procs : q # p => phase[q] \notin {"apply", "verify"}
      /\ Open # 0
  BY WhileOpen
<1>3. \A q \in Procs : phase'[q] \notin {"apply", "verify"}
  BY <1>1, <1>2
<1>4. Open' = 0
  BY <1>3, OpenNone DEF Open
<1>5. attempt[p] \in DOMAIN ledger /\ Orphaned(ledger[attempt[p]])
  BY ApplyFacts
<1>6. Blocked' = TRUE
  BY <1>3, <1>5 DEF Blocked, BlockedOf, BlockedBy
<1>7. Level' = Level
  BY DEF Level
<1> QED BY <1>2, <1>4, <1>6, <1>7 DEF HistoryStep

(* The transaction, or the database, gets further within an attempt. *)
LEMMA Within ==
    ASSUME MigrationInv, MigrationInv', NEW p \in Procs, phase[p] \in {"apply", "verify"},
           phase'[p] \in {"apply", "verify"}, \A q \in Procs : q # p => phase'[q] = phase[q],
           UNCHANGED <<ledger, todo, attempt>>, db.applied \subseteq db'.applied
    PROVE  HistoryStep
<1> DEFINE v == todo[p]
<1>1. \A q \in Procs : q # p => phase[q] \notin {"apply", "verify"}
  BY WhileOpen
<1>2. Open = v
  BY WhileOpen
<1>3. Open' = v
  <2>1. Open' = todo'[p]
    BY <1>1, OpenOne DEF Open
  <2> QED BY <2>1
<1>4. Blocked' = Blocked
  BY <1>1 DEF Blocked, BlockedOf, BlockedBy
<1>5. v \in Nat /\ v - 1 \in Nat /\ db.applied \in {1 .. v - 1, 1 .. v}
  BY ApplyFacts
<1>6. db'.applied \in {1 .. v - 1, 1 .. v}
  BY DEF MigrationInv, AttemptInv, OpenAttempt
<1> HIDE DEF v
<1>7. CASE db'.applied = db.applied
  BY <1>2, <1>3, <1>4, <1>7 DEF HistoryStep, Level
<1>8. CASE db'.applied # db.applied
  <2>1. db.applied = 1 .. v - 1 /\ db'.applied = 1 .. v
    <3>1. v \in 1 .. v /\ v \notin 1 .. v - 1
      BY <1>5
    <3>2. ~(db.applied = 1 .. v /\ db'.applied = 1 .. v - 1)
      BY <3>1
    <3> QED BY <1>5, <1>6, <1>8, <3>2
  <2>2. Level = v - 1 /\ Level' = v
    BY <1>5, <2>1, LevelIs DEF Level
  <2>3. Open = Level + 1
    BY <1>2, <1>5, <2>2
  <2> QED BY <1>2, <1>3, <1>4, <2>2, <2>3 DEF HistoryStep
<1> QED BY <1>7, <1>8

LEMMA BeginsAttempt ==
    ASSUME MigrationInv, MigrationInv', NEW p \in Procs, BeginAttempt(p)
    PROVE  HistoryStep
<1>1. phase[p] = "next" /\ phase[p] \in Holding /\ phase' = [phase EXCEPT ![p] = "apply"] /\ db' = db
  BY DEF BeginAttempt, At, Goto, Holding
<1>2. PICK v \in Versions :
         /\ v \notin db.applied /\ \A w \in 1 .. v - 1 : w \in db.applied
         /\ todo' = [todo EXCEPT ![p] = v]
  BY DEF BeginAttempt
<1>3. db.applied = 1 .. v - 1
  BY <1>2, NextVersion
<1>4. v \in Nat /\ v - 1 \in Nat
  BY DEF Versions
<1>5. Level = v - 1 /\ Level' = Level
  BY <1>1, <1>3, <1>4, LevelIs DEF Level
<1>6. \A q \in Procs : phase[q] \notin {"apply", "verify"}
  BY <1>1, Alone DEF Holding
<1>7. Open = 0
  BY <1>6, OpenNone DEF Open
<1>8. Blocked = FALSE
  <2>1. \A i \in DOMAIN ledger : ~Unresolved(ledger[i]) /\ ~Orphaned(ledger[i])
    BY <1>1 DEF MigrationInv, HistoryInv, OpenAttempt
  <2> QED BY <2>1 DEF Blocked, BlockedOf, BlockedBy
<1>9. phase'[p] = "apply" /\ todo'[p] = v /\ \A q \in Procs : q # p => phase'[q] = phase[q]
  BY <1>1, <1>2 DEF MigrationInv, MigrationTypeOK
<1>10. Open' = v
  <2>1. Open' = todo'[p]
    BY <1>6, <1>9, OpenOne DEF Open
  <2> QED BY <1>9, <2>1
<1>11. Blocked' = FALSE
  <2>1. \A i \in DOMAIN ledger' : ~Unresolved(ledger'[i]) /\ (Orphaned(ledger'[i]) => attempt'[p] = i)
    BY <1>9 DEF MigrationInv, HistoryInv
  <2> QED BY <1>9, <2>1 DEF Blocked, BlockedOf, BlockedBy
<1>12. Open' = Level + 1
  BY <1>4, <1>5, <1>10
<1> QED BY <1>5, <1>7, <1>8, <1>11, <1>12 DEF HistoryStep

LEMMA Succeeds ==
    ASSUME MigrationInv, MigrationInv', NEW p \in Procs, VerifyVersion(p)
    PROVE  HistoryStep
<1>1. phase[p] = "verify" /\ phase' = [phase EXCEPT ![p] = "next"] /\ db' = db
  BY DEF VerifyVersion, At, Goto
<1>2. /\ \A q \in Procs : q # p => phase[q] \notin {"apply", "verify"}
      /\ Open = todo[p] /\ Open # 0 /\ Blocked = FALSE
  BY <1>1, WhileOpen
<1>3. todo[p] \in Nat /\ db.applied = 1 .. todo[p]
  BY <1>1, ApplyFacts DEF MigrationInv, AttemptInv, At
<1>4. Level = todo[p] /\ Level' = Level
  BY <1>1, <1>3, LevelIs DEF Level
<1>5. phase'[p] = "next" /\ \A q \in Procs : phase'[q] \notin {"apply", "verify"}
  BY <1>1, <1>2 DEF MigrationInv, MigrationTypeOK
<1>6. Open' = 0
  BY <1>5, OpenNone DEF Open
<1>7. Blocked' = FALSE
  <2>1. \A i \in DOMAIN ledger' : ~Unresolved(ledger'[i]) /\ ~Orphaned(ledger'[i])
    BY <1>5 DEF MigrationInv, HistoryInv, OpenAttempt
  <2> QED BY <2>1 DEF Blocked, BlockedOf, BlockedBy
<1> QED BY <1>2, <1>4, <1>6, <1>7 DEF HistoryStep

LEMMA LedgerReread ==
    ASSUME MigrationInv, NEW p \in Procs, EnsureMigrationLedger(p)
    PROVE  HistoryStep
<1>0. phase \in [Procs -> Phases] /\ SoundLedger
  BY LedgerAsIs DEF MigrationInv, MigrationTypeOK
<1>1. phase[p] \in Holding /\ phase[p] \notin {"apply", "verify"} /\ db' = db
  BY DEF EnsureMigrationLedger, InLedgerScope, Holding
<1>2. \A q \in Procs : phase[q] \notin {"apply", "verify"}
  BY <1>1, Alone DEF Holding
<1>3. \A q \in Procs : phase'[q] \notin {"apply", "verify"}
  BY <1>0, <1>2 DEF EnsureMigrationLedger, LedgerDone, Goto
<1>4. Open = 0 /\ Open' = 0
  BY <1>2, <1>3, OpenNone DEF Open
<1>5. /\ DOMAIN ledger' = DOMAIN ledger
      /\ \A i \in DOMAIN ledger : /\ Orphaned(ledger[i]) => Unresolved(ledger'[i])
                                  /\ ~Orphaned(ledger'[i])
                                  /\ ~Orphaned(ledger[i]) => ledger'[i] = ledger[i]
  BY <1>0, ReconciledLedger DEF SoundLedger, EnsureMigrationLedger
<1>6. \A i \in DOMAIN ledger : BlockedBy(ledger', phase', attempt', i) <=> BlockedBy(ledger, phase, attempt, i)
  BY <1>2, <1>3, <1>5 DEF BlockedBy
<1>7. Blocked' = Blocked
  BY <1>5, <1>6 DEF Blocked, BlockedOf
<1>8. Level' = Level
  BY <1>1 DEF Level
<1> QED BY <1>4, <1>7, <1>8 DEF HistoryStep

LEMMA Resolves ==
    ASSUME MigrationInv, MigrationInv', NEW p \in Procs, ResolveMigrationReconciliation(p)
    PROVE  HistoryStep
<1>0. phase \in [Procs -> Phases] /\ SoundLedger
  BY LedgerAsIs DEF MigrationInv, MigrationTypeOK
<1>1. phase[p] = "maintenance" /\ phase' = [phase EXCEPT ![p] = "down"]
      /\ UNCHANGED <<db, todo, attempt>>
  BY DEF ResolveMigrationReconciliation, At, Goto
<1>2. PICK i \in DOMAIN ledger :
         ledger' = IF ArtifactReviewed(p) /\ ResolveOk(i)
                   THEN Extend(ledger, i, <<"RECONCILIATION_RESOLVED">>) ELSE ledger
  BY DEF ResolveMigrationReconciliation
<1>3. CASE ledger' = ledger
  BY <1>1, <1>3, UnseenMove
<1>4. CASE ResolveOk(i)
  <2>1. Unresolved(ledger[i])
    BY <1>4 DEF ResolveOk
  <2>2. \A q \in Procs : phase[q] \notin {"apply", "verify"}
    BY <2>1 DEF MigrationInv, HistoryInv
  <2>3. \A q \in Procs : phase'[q] \notin {"apply", "verify"}
    BY <1>0, <1>1, <2>2
  <2>4. Open = 0 /\ Open' = 0
    BY <2>2, <2>3, OpenNone DEF Open
  <2>5. Blocked = TRUE
    BY <2>1, <2>2 DEF Blocked, BlockedOf, BlockedBy
  <2>6. Blocked' \in BOOLEAN
    BY DEF Blocked, BlockedOf
  <2>7. Level' = Level
    BY <1>1 DEF Level
  <2> QED BY <2>4, <2>5, <2>6, <2>7 DEF HistoryStep
<1> QED BY <1>2, <1>3, <1>4

LEMMA Raises ==
    ASSUME MigrationInv, NEW p \in Procs, Raised(p)
    PROVE  HistoryStep
<1>1. phase' = [phase EXCEPT ![p] = "raised"] /\ UNCHANGED <<db, ledger, todo, attempt>>
  BY DEF Raised, Goto
<1> QED BY <1>1, UnseenMove, Abandoned

LEMMA RefusalRaises ==
    ASSUME NEW p \in Procs,
           \/ LedgerRefused(p) \/ HistoryRefused(p) \/ StepRaises(p)
           \/ CommitRefused(p) \/ VerifyRefused(p) \/ FinalRefused(p)
    PROVE  Raised(p)
BY DEF LedgerRefused, HistoryRefused, StepRaises, CommitRefused, VerifyRefused, FinalRefused

LEMMA ProcStepMaps ==
    ASSUME MigrationInv, MigrationInv', NEW p \in Procs, ProcStep(p)
    PROVE  HistoryStep
<1>0. phase \in [Procs -> Phases] /\ HistoryInv(p)
  BY DEF MigrationInv, MigrationTypeOK
<1>1. CASE \/ LedgerRefused(p) \/ HistoryRefused(p) \/ StepRaises(p)
           \/ CommitRefused(p) \/ VerifyRefused(p) \/ FinalRefused(p)
  BY <1>1, RefusalRaises, Raises
<1>2. CASE AcquireLock(p) \/ CheckHistory(p) \/ FinalVerify(p)
  <2>1. PICK x : x \notin {"apply", "verify"} /\ phase' = [phase EXCEPT ![p] = x]
    BY <1>2 DEF AcquireLock, CheckHistory, FinalVerify, Goto
  <2>2. phase[p] \notin {"apply", "verify"} /\ UNCHANGED <<db, ledger, todo, attempt>>
    BY <1>2 DEF AcquireLock, CheckHistory, FinalVerify, At
  <2> QED BY <2>1, <2>2, UnseenMove
<1>3. CASE CreateLedger(p) \/ ProtectLedger(p)
  <2>1. PICK x : x \notin {"apply", "verify"} /\ phase' = [phase EXCEPT ![p] = x]
    BY <1>3 DEF CreateLedger, ProtectLedger, LedgerDone, Goto
  <2>2. phase[p] \notin {"apply", "verify"} /\ UNCHANGED <<db, ledger, todo, attempt>>
    BY <1>3 DEF CreateLedger, ProtectLedger, InLedgerScope
  <2> QED BY <2>1, <2>2, UnseenMove
<1>4. CASE RecordMigrationFailure(p)
  <2>1. phase[p] = "raised" /\ ledger' = ledger
    BY <1>0, <1>4 DEF RecordMigrationFailure, HistoryInv, OpenAttempt, At
  <2>2. phase' = [phase EXCEPT ![p] = "refused"] /\ UNCHANGED <<db, todo, attempt>>
    BY <1>4 DEF RecordMigrationFailure, Goto
  <2> QED BY <2>1, <2>2, UnseenMove
<1>5. CASE Step(p)
  <2>1. phase[p] = "apply" /\ UNCHANGED <<ledger, todo, attempt, phase>>
    BY <1>5 DEF Step, At
  <2>2. db.applied \subseteq db'.applied
    <3>1. db' = db \/ db' = Effect(View, Head(prog[p]))
      BY <1>5 DEF Step
    <3>2. db.applied \subseteq View.applied
      BY <2>1, ApplyFacts
    <3>3. View.applied \subseteq Effect(View, Head(prog[p])).applied
      BY DEF Effect
    <3> QED BY <3>1, <3>2, <3>3
  <2> QED BY <2>1, <2>2, Within
<1>6. CASE Commit(p)
  <2>1. phase[p] = "apply" /\ UNCHANGED <<ledger, todo, attempt>> /\ phase' = [phase EXCEPT ![p] = "verify"] /\ db' = View
    BY <1>6 DEF Commit, At, Goto
  <2>2. db.applied \subseteq db'.applied
    BY <2>1, ApplyFacts
  <2>3. phase'[p] = "verify" /\ \A q \in Procs : q # p => phase'[q] = phase[q]
    BY <1>0, <2>1
  <2> QED BY <2>1, <2>2, <2>3, Within
<1> QED BY <1>1, <1>2, <1>3, <1>4, <1>5, <1>6, BeginsAttempt, Succeeds, LedgerReread DEF ProcStep

LEMMA NextMaps ==
    ASSUME MigrationInv, MigrationInv', [MigrationNext]_vars
    PROVE  HistoryStep
<1>0. MigrationTypeOK
  BY DEF MigrationInv
<1>1. CASE UNCHANGED vars
  BY <1>1, Unseen DEF vars
<1>2. ASSUME NEW p \in Procs, NEW mode \in {"starting", "maintaining"}, NEW ok \in BOOLEAN, Boot(p, mode, ok)
      PROVE  HistoryStep
  <2>1. phase[p] = "down" /\ phase' = [phase EXCEPT ![p] = mode] /\ UNCHANGED <<db, ledger>>
        /\ \A q \in Procs : q # p => todo'[q] = todo[q] /\ attempt'[q] = attempt[q]
    BY <1>0, <1>2 DEF Boot, At, Goto, MigrationTypeOK
  <2> QED BY <2>1, UnseenMove
<1>3. ASSUME NEW p \in Procs, Exit(p) PROVE HistoryStep
  <2>1. phase[p] \in {"serving", "refused", "maintenance"} /\ phase' = [phase EXCEPT ![p] = "down"]
        /\ UNCHANGED <<db, ledger, todo, attempt>>
    BY <1>3 DEF Exit, Goto
  <2> QED BY <2>1, UnseenMove
<1>4. ASSUME NEW p \in Procs, Crash(p) PROVE HistoryStep
  <2>1. phase' = [phase EXCEPT ![p] = "down"] /\ UNCHANGED <<db, ledger, todo, attempt>>
    BY <1>4 DEF Crash, Goto
  <2> QED BY <2>1, UnseenMove, Abandoned
<1>5. ASSUME NEW p \in Procs, StatementFails(p) PROVE HistoryStep
  <2>1. phase[p] \in {"apply", "verify"} /\ phase' = [phase EXCEPT ![p] = "raised"]
        /\ UNCHANGED <<db, ledger, todo, attempt>>
    BY <1>5 DEF StatementFails, Goto
  <2> QED BY <2>1, Abandoned
<1>6. ASSUME NEW o \in Drifts, Drift(o) PROVE HistoryStep
  <2>1. db'.applied = db.applied /\ UNCHANGED <<ledger, phase, todo, attempt>>
    BY <1>0, <1>6 DEF Drift, MigrationTypeOK, Database
  <2> QED BY <2>1, Unseen
<1> QED BY <1>1, <1>2, <1>3, <1>4, <1>5, <1>6, Resolves, ProcStepMaps DEF MigrationNext

LEMMA InitMaps ==
    ASSUME MigrationInit
    PROVE  History!Init
<1>1. MigrationInv
  BY InitInv
<1>2. \A p \in Procs : phase[p] = "down"
  BY DEF MigrationInit
<1>3. Open = 0
  BY <1>2, OpenNone DEF Open
<1>4. Level \in Nat
  <2>1. PICK k \in 0 .. Cardinality(db.applied) : db.applied = 1 .. k
    BY <1>1 DEF MigrationInv, LedgerInv
  <2>2. k \in Nat
    BY <2>1
  <2> QED BY <2>1, <2>2, LevelIs DEF Level
<1>5. Blocked = FALSE
  <2>1. ASSUME NEW i \in DOMAIN ledger PROVE ~Orphaned(ledger[i]) /\ ~Unresolved(ledger[i])
    <3>1. ledger[i] \in Attempt /\ ledger[i].events # <<>>
      BY <1>1, LedgerAsIs DEF SoundLedger
    <3>2. ledger[i].events = <<"STARTED", "SUCCEEDED">>
      <4>1. ledger = <<>> \/ \E o \in Origins : ledger = Succeeded(o.level)
        BY DEF MigrationInit
      <4>2. CASE ledger = <<>>
        BY <4>2
      <4>3. ASSUME NEW o \in Origins, ledger = Succeeded(o.level)
            PROVE  ledger[i].events = <<"STARTED", "SUCCEEDED">>
        <5>1. DOMAIN ledger = 1 .. o.level /\ ledger[i] = [version |-> i, events |-> <<"STARTED", "SUCCEEDED">>]
          BY <4>3 DEF Succeeded
        <5> QED BY <5>1
      <4> QED BY <4>1, <4>2, <4>3
    <3>3. Len(ledger[i].events) = 2 /\ ledger[i].events[2] = "SUCCEEDED"
      BY <3>2
    <3> QED BY <3>1, <3>3, OutcomeKinds
  <2> QED BY <2>1 DEF Blocked, BlockedOf, BlockedBy
<1> QED BY <1>3, <1>4, <1>5, MappedInit

(* The coordinator keeps the promise of MigrationHistory: the version      *)
(* rises one step at a time, inside an attempt announced for that step,    *)
(* and an attempt without an outcome freezes it.                           *)
THEOREM CoordinatorKeepsHistory == MigrationSpec => KeepsHistory
<1>1. MigrationInit => History!Init
  BY InitMaps
<1>2. MigrationInv /\ MigrationInv' /\ [MigrationNext]_vars => [History!Next]_(History!history)
  BY NextMaps, MappedStep
<1> QED BY <1>1, <1>2, MigrationInvariant, PTL DEF MigrationSpec, KeepsHistory, History!Spec

-----------------------------------------------------------------------------
(* The rows.  A statement leaves the rest of its program safe.             *)

RowsAfter(r, x) == (r \ x.wipe) \cup {c[2] : c \in {y \in x.copy : y[1] \in r}}

LEMMA Carried ==
    ASSUME NEW r, NEW x, NEW t
    PROVE  /\ t \in r /\ t \notin x.wipe => t \in RowsAfter(r, x)
           /\ \A u : u \in r /\ <<u, t>> \in x.copy => t \in RowsAfter(r, x)
<1>1. t \in r /\ t \notin x.wipe => t \in RowsAfter(r, x)
  BY DEF RowsAfter
<1>2. ASSUME NEW u, u \in r, <<u, t>> \in x.copy PROVE t \in RowsAfter(r, x)
  <2>1. <<u, t>> \in {y \in x.copy : y[1] \in r} /\ <<u, t>>[2] = t
    BY <1>2
  <2> QED BY <2>1 DEF RowsAfter
<1> QED BY <1>1, <1>2

LEMMA SafeStep ==
    ASSUME NEW v, NEW s \in Seq(Statements(v)), s # <<>>, NEW r, NEW h, Safe(r, s, h)
    PROVE  Safe(RowsAfter(r, Head(s)), Tail(s), h)
<1> DEFINE q == RowsAfter(r, s[1])
           t == Tail(s)
<1>1. /\ Head(s) = s[1] /\ Len(s) \in Nat /\ Len(s) > 0 /\ Len(t) = Len(s) - 1
      /\ \A i \in 1 .. Len(t) : t[i] = s[i + 1]
  <2> HIDE DEF Statements
  <2> QED BY HeadTailProperties, EmptySeq, LenProperties
<1> HIDE DEF q, t
<1>2. ASSUME NEW i \in 1 .. Len(t) PROVE i + 1 \in 1 .. Len(s) /\ t[i] = s[i + 1] /\ i \in Nat
  BY <1>1
<1>3. CASE h \in r /\ Spares(s, h)
  <2>1. h \in q
    BY <1>1, <1>3, Carried DEF Spares, q
  <2>2. Spares(t, h)
    BY <1>2, <1>3 DEF Spares
  <2> QED BY <1>1, <2>1, <2>2 DEF Safe, Orderly, q, t
<1>4. ASSUME NEW b \in Backups[h], NEW k \in 1 .. Len(s), Moves(s, h, b, k), h \in r
      PROVE  Safe(q, t, h)
  <2>0. k \in Nat /\ k >= 1 /\ k + 2 <= Len(s) /\ <<h, b>> \in s[k].copy /\ b \notin s[k + 1].wipe
        /\ <<b, h>> \in s[k + 2].copy /\ \A i \in 1 .. Len(s) : h \in s[i].wipe => i \in {k, k + 1}
    BY <1>1, <1>4 DEF Moves
  <2>1. CASE k = 1
    <3>1. b \in q
      BY <1>4, <2>0, <2>1, Carried DEF q
    <3>2. 1 \in 1 .. Len(t) /\ 2 \in 1 .. Len(t) /\ 2 <= Len(t)
      BY <1>1, <2>0, <2>1
    <3>3. t[1] = s[2] /\ t[2] = s[3]
      BY <1>1, <3>2
    <3>4. b \notin s[2].wipe /\ <<b, h>> \in s[3].copy
      BY <2>0, <2>1
    <3>5. ASSUME NEW i \in 1 .. Len(t), h \in t[i].wipe PROVE i < 2
      <4>1. i + 1 \in {1, 2} /\ i \in Nat
        BY <1>2, <2>0, <2>1, <3>5
      <4> QED BY <4>1
    <3>6. Returns(t, h, b, 2)
      BY <3>2, <3>3, <3>4, <3>5 DEF Returns
    <3> QED BY <1>4, <3>1, <3>6 DEF Safe
  <2>2. CASE k # 1
    <3>1. k - 1 \in 1 .. Len(t) /\ (k - 1) + 2 <= Len(t) /\ (k - 1) + 1 \in 1 .. Len(t) /\ (k - 1) + 2 \in 1 .. Len(t)
      BY <1>1, <2>0, <2>2
    <3>2. (k - 1) + 1 = k /\ ((k - 1) + 1) + 1 = k + 1 /\ ((k - 1) + 2) + 1 = k + 2
      BY <2>0
    <3>3. t[k - 1] = s[k] /\ t[(k - 1) + 1] = s[k + 1] /\ t[(k - 1) + 2] = s[k + 2]
      BY <1>2, <3>1, <3>2
    <3>4. h \in q
      <4>1. 1 \in 1 .. Len(s) /\ 1 \notin {k, k + 1}
        BY <1>1, <2>0, <2>2
      <4> QED BY <1>4, <2>0, <4>1, Carried DEF q
    <3>5. ASSUME NEW i \in 1 .. Len(t), h \in t[i].wipe PROVE i \in {k - 1, (k - 1) + 1}
      <4>1. i + 1 \in {k, k + 1} /\ i \in Nat
        BY <1>2, <2>0, <3>5
      <4> QED BY <2>0, <4>1
    <3>6. Moves(t, h, b, k - 1)
      BY <2>0, <3>1, <3>3, <3>5 DEF Moves
    <3> QED BY <1>4, <3>1, <3>4, <3>6 DEF Safe, Orderly
  <2> QED BY <2>1, <2>2
<1>5. ASSUME NEW b \in Backups[h] \cap r, NEW n \in {1, 2}, Returns(s, h, b, n)
      PROVE  Safe(q, t, h)
  <2>0. n <= Len(s) /\ <<b, h>> \in s[n].copy /\ (n = 2 => b \notin s[1].wipe)
        /\ \A i \in 1 .. Len(s) : h \in s[i].wipe => i < n
    BY <1>5 DEF Returns
  <2>1. CASE n = 1
    <3>1. h \in q
      BY <1>5, <2>0, <2>1, Carried DEF q
    <3>2. Spares(t, h)
      <4>1. ASSUME NEW i \in 1 .. Len(t), h \in t[i].wipe PROVE FALSE
        <5>1. i + 1 < 1 /\ i \in Nat
          BY <1>2, <2>0, <2>1, <4>1
        <5> QED BY <5>1
      <4> QED BY <4>1 DEF Spares
    <3> QED BY <3>1, <3>2 DEF Safe, Orderly
  <2>2. CASE n = 2
    <3>1. b \in q
      BY <1>5, <2>0, <2>2, Carried DEF q
    <3>2. 1 \in 1 .. Len(t) /\ 1 <= Len(t)
      BY <1>1, <2>0, <2>2
    <3>3. t[1] = s[2]
      BY <1>1, <3>2
    <3>4. ASSUME NEW i \in 1 .. Len(t), h \in t[i].wipe PROVE i < 1
      <4>1. i + 1 < 2 /\ i \in Nat
        BY <1>2, <2>0, <2>2, <3>4
      <4> QED BY <4>1
    <3>5. Returns(t, h, b, 1)
      BY <2>0, <2>2, <3>2, <3>3, <3>4 DEF Returns
    <3> QED BY <1>5, <3>1, <3>5 DEF Safe
  <2> QED BY <2>1, <2>2
<1>6. Safe(q, t, h)
  BY <1>3, <1>4, <1>5 DEF Safe, Orderly, q, t
<1> QED BY <1>1, <1>6 DEF q, t

LEMMA SafeEnd ==
    ASSUME NEW r, NEW h, Safe(r, <<>>, h)
    PROVE  h \in r
<1>1. Len(<<>>) = 0
  OBVIOUS
<1>2. ~(1 <= 0) /\ ~(2 <= 0)
  OBVIOUS
<1>3. ASSUME NEW b, NEW n \in {1, 2}, Returns(<<>>, h, b, n) PROVE FALSE
  BY <1>1, <1>2, <1>3 DEF Returns
<1> QED BY <1>3 DEF Safe

LEMMA SafeSomewhere ==
    ASSUME NEW r, NEW s, NEW h, Safe(r, s, h)
    PROVE  ({h} \cup Backups[h]) \cap r # {}
BY DEF Safe

(* A step that neither discards rows nor settles an attempt. *)
Uneventful ==
    /\ kept' = kept /\ db'.rows = db.rows /\ db'.applied = db.applied
    /\ Unsettled => Unsettled'
    /\ \A q \in Procs : /\ phase'[q] \in {"apply", "verify", "serving"} => phase'[q] = phase[q]
                        /\ phase'[q] = "apply" => prog'[q] = prog[q] /\ View'.rows = View.rows

LEMMA QuietRows ==
    ASSUME RowsInv, Uneventful
    PROVE  RowsInv'
<1>1. kept' = kept /\ db'.rows = db.rows /\ db'.applied = db.applied /\ (Unsettled => Unsettled')
  BY DEF Uneventful
<1>2. ASSUME NEW q \in Procs
      PROVE  /\ phase'[q] = "apply" => phase[q] = "apply" /\ prog'[q] = prog[q] /\ View'.rows = View.rows
             /\ phase'[q] = "verify" => phase[q] = "verify"
             /\ phase'[q] = "serving" => phase[q] = "serving"
  BY DEF Uneventful
<1>3. kept' \subseteq Homes /\ \A h \in kept' : ({h} \cup Backups[h]) \cap db'.rows # {}
  BY <1>1 DEF RowsInv
<1>4. ~Unsettled' => kept' \subseteq db'.rows
  BY <1>1 DEF RowsInv
<1>5. ASSUME NEW q \in Procs, phase'[q] = "apply", NEW h \in kept' PROVE Safe(View'.rows, prog'[q], h)
  BY <1>1, <1>2, <1>5 DEF RowsInv, At
<1>6. \A q \in Procs : phase'[q] = "verify" => kept' \subseteq db'.rows
  BY <1>1, <1>2 DEF RowsInv, At
<1>7. ASSUME NEW q \in Procs, phase'[q] = "serving"
      PROVE  /\ Versions \subseteq db'.applied /\ kept' \subseteq db'.rows
             /\ \A o \in Procs : ~OpenAttempt(o)'
  <2>1. Versions \subseteq db.applied /\ kept \subseteq db.rows /\ \A o \in Procs : ~OpenAttempt(o)
    BY <1>2, <1>7 DEF RowsInv, At
  <2> QED BY <1>1, <1>2, <2>1 DEF OpenAttempt
<1> QED BY <1>3, <1>4, <1>5, <1>6, <1>7 DEF RowsInv, At

(* The holder of the lock moves within its startup or leaves it. *)
LEMMA QuietMove ==
    ASSUME MigrationInv, RowsInv, NEW p \in Procs,
           NEW x, x \notin {"apply", "verify", "serving"}, phase' = [phase EXCEPT ![p] = x],
           kept' = kept, db' = db, Unsettled => Unsettled',
           \/ phase[p] \in Holding
           \/ tx' = tx /\ \A q \in Procs : q # p => prog'[q] = prog[q]
    PROVE  RowsInv'
<1>0. phase \in [Procs -> Phases]
  BY DEF MigrationInv, MigrationTypeOK
<1>1. phase'[p] = x /\ \A q \in Procs : q # p => phase'[q] = phase[q]
  BY <1>0
<1>2. ASSUME NEW q \in Procs, phase'[q] = "apply" PROVE prog'[q] = prog[q] /\ View'.rows = View.rows
  <2>1. q # p /\ phase[q] = "apply"
    BY <1>1, <1>2
  <2>2. phase[p] \notin Holding
    BY <2>1, Alone DEF Holding
  <2> QED BY <2>1, <2>2 DEF View
<1>3. Uneventful
  BY <1>1, <1>2 DEF Uneventful
<1> QED BY <1>3, QuietRows

LEMMA RaisedRows ==
    ASSUME MigrationInv, RowsInv, NEW p \in Procs, Raised(p), phase[p] \in Holding
    PROVE  RowsInv'
<1>1. phase' = [phase EXCEPT ![p] = "raised"] /\ kept' = kept /\ db' = db /\ ledger' = ledger
  BY DEF Raised, Goto
<1>2. Unsettled => Unsettled'
  BY <1>1 DEF Unsettled
<1> QED BY <1>1, <1>2, QuietMove

LEMMA RefusalRows ==
    ASSUME MigrationInv, RowsInv, NEW p \in Procs,
           \/ LedgerRefused(p) \/ HistoryRefused(p) \/ StepRaises(p)
           \/ CommitRefused(p) \/ VerifyRefused(p) \/ FinalRefused(p)
    PROVE  RowsInv'
<1>1. phase[p] \in Holding
  BY DEF LedgerRefused, HistoryRefused, StepRaises, CommitRefused, VerifyRefused, FinalRefused, InLedgerScope, At, Holding
<1> QED BY <1>1, RefusalRaises, RaisedRows

(* The steps around the ledger. *)
LEMMA LedgerRows ==
    ASSUME MigrationInv, RowsInv, NEW p \in Procs,
           AcquireLock(p) \/ CreateLedger(p) \/ ProtectLedger(p) \/ EnsureMigrationLedger(p) \/ CheckHistory(p)
    PROVE  RowsInv'
<1>1. PICK x : x \notin {"apply", "verify", "serving"} /\ phase' = [phase EXCEPT ![p] = x]
  BY DEF AcquireLock, CreateLedger, ProtectLedger, EnsureMigrationLedger, CheckHistory, LedgerDone, Goto
<1>2. kept' = kept /\ db' = db /\ tx' = tx /\ prog' = prog
  BY DEF AcquireLock, CreateLedger, ProtectLedger, EnsureMigrationLedger, CheckHistory
<1>3. Unsettled => Unsettled'
  <2>1. CASE ledger' = ledger
    BY <2>1 DEF Unsettled
  <2>2. CASE EnsureMigrationLedger(p)
    <3>1. SoundLedger /\ ledger' = Reconciled(ledger)
      BY <2>2, LedgerAsIs DEF EnsureMigrationLedger
    <3>2. /\ DOMAIN ledger' = DOMAIN ledger
          /\ \A i \in DOMAIN ledger : /\ Orphaned(ledger[i]) => Unresolved(ledger'[i])
                                      /\ ~Orphaned(ledger[i]) => ledger'[i] = ledger[i]
      BY <3>1, ReconciledLedger DEF SoundLedger
    <3> QED BY <3>2 DEF Unsettled
  <2> QED BY <2>1, <2>2 DEF AcquireLock, CreateLedger, ProtectLedger, CheckHistory
<1> QED BY <1>1, <1>2, <1>3, QuietMove

(* No schema satisfies the verifiers of versions 7 and 8 both, so that an  *)
(* interrupted attempt is not resolved.                                    *)
LEMMA NeverResolved == ASSUME NEW i PROVE ~ResolveOk(i)
<1>1. 7 \in Versions /\ 8 \in Versions
  BY DEF Versions
<1>2. Postcondition(7, backend, db) = ExecutionDispatchBase(db) /\ Postcondition(8, backend, db) = ExecutionDispatch(db)
  BY DEF Postcondition
<1>3. ~(ExecutionDispatchBase(db) /\ ExecutionDispatch(db))
  BY DEF ExecutionDispatchBase, ExecutionDispatch
<1> QED BY <1>1, <1>2, <1>3 DEF ResolveOk

LEMMA OutsideRows ==
    ASSUME MigrationInv, RowsInv, NEW p \in Procs,
           \/ \E mode \in {"starting", "maintaining"}, ok \in BOOLEAN : Boot(p, mode, ok)
           \/ RecordMigrationFailure(p) \/ ResolveMigrationReconciliation(p) \/ Exit(p)
    PROVE  RowsInv'
<1>0. HistoryInv(p)
  BY DEF MigrationInv
<1>1. PICK x : x \notin {"apply", "verify", "serving"} /\ phase' = [phase EXCEPT ![p] = x]
  BY DEF Boot, RecordMigrationFailure, ResolveMigrationReconciliation, Exit, Goto
<1>2. kept' = kept /\ db' = db /\ tx' = tx /\ prog' = prog
  BY DEF Boot, RecordMigrationFailure, ResolveMigrationReconciliation, Exit
<1>3. ledger' = ledger
  <2>1. CASE RecordMigrationFailure(p)
    BY <1>0, <2>1 DEF RecordMigrationFailure, HistoryInv, OpenAttempt, At
  <2>2. CASE ResolveMigrationReconciliation(p)
    BY <2>2, NeverResolved DEF ResolveMigrationReconciliation
  <2> QED BY <2>1, <2>2 DEF Boot, Exit
<1>4. Unsettled => Unsettled'
  BY <1>3 DEF Unsettled
<1> QED BY <1>1, <1>2, <1>4, QuietMove

LEMMA FaultRows ==
    ASSUME MigrationInv, RowsInv, NEW p \in Procs, Crash(p) \/ StatementFails(p)
    PROVE  RowsInv'
<1>0. MigrationTypeOK
  BY DEF MigrationInv
<1>1. PICK x : x \notin {"apply", "verify", "serving"} /\ phase' = [phase EXCEPT ![p] = x]
  BY DEF Crash, StatementFails, Goto
<1>2. kept' = kept /\ db' = db /\ ledger' = ledger /\ prog' = [prog EXCEPT ![p] = <<>>]
  BY DEF Crash, StatementFails
<1>3. phase[p] \in Holding \/ tx' = tx
  BY DEF Crash, StatementFails, MigrationInv, LockInv, Holding
<1>4. \A q \in Procs : q # p => prog'[q] = prog[q]
  BY <1>0, <1>2 DEF MigrationTypeOK
<1>5. Unsettled => Unsettled'
  BY <1>2 DEF Unsettled
<1> QED BY <1>1, <1>2, <1>3, <1>4, <1>5, QuietMove

LEMMA DriftRows ==
    ASSUME MigrationInv, RowsInv, NEW o, Drift(o)
    PROVE  RowsInv'
<1>1. db \in Database
  BY DEF MigrationInv, MigrationTypeOK
<1>2. db' = [db EXCEPT !.obj = @ \ {o}] /\ UNCHANGED <<tx, ledger, phase, prog, kept>> /\ tx = NoTx
  BY DEF Drift
<1>3. db'.rows = db.rows /\ db'.applied = db.applied
  BY <1>1, <1>2 DEF Database
<1>4. View'.rows = View.rows
  BY <1>2, <1>3 DEF View
<1>5. Unsettled => Unsettled'
  BY <1>2 DEF Unsettled
<1>6. Uneventful
  BY <1>2, <1>3, <1>4, <1>5 DEF Uneventful
<1> QED BY <1>6, QuietRows

(* The holder of the lock works on an attempt: the others do not. *)
LEMMA HolderRows ==
    ASSUME MigrationInv, RowsInv, NEW p \in Procs, phase[p] \in Holding, NEW x,
           phase' = [phase EXCEPT ![p] = x], kept' = kept,
           \A h \in kept : ({h} \cup Backups[h]) \cap db'.rows # {},
           ~Unsettled' => kept \subseteq db'.rows,
           x = "apply" => \A h \in kept : Safe(View'.rows, prog'[p], h),
           x = "verify" => kept \subseteq db'.rows,
           \A q \in Procs : phase'[q] = "serving" =>
               Versions \subseteq db'.applied /\ kept \subseteq db'.rows /\ x \notin {"apply", "verify"}
    PROVE  RowsInv'
<1>0. phase \in [Procs -> Phases] /\ kept' \subseteq Homes
  BY DEF MigrationInv, MigrationTypeOK, RowsInv
<1>1. phase'[p] = x /\ \A q \in Procs : q # p => phase'[q] = phase[q]
  BY <1>0
<1>2. \A q \in Procs : q # p => phase'[q] \notin {"apply", "verify"}
  BY <1>1, Alone DEF Holding
<1>3. \A q \in Procs : phase'[q] = "apply" => \A h \in kept' : Safe(View'.rows, prog'[q], h)
  BY <1>1, <1>2
<1>4. \A q \in Procs : phase'[q] = "verify" => kept' \subseteq db'.rows
  BY <1>1, <1>2
<1>5. \A q \in Procs : phase'[q] = "serving" =>
          /\ Versions \subseteq db'.applied /\ kept' \subseteq db'.rows
          /\ \A o \in Procs : phase'[o] \notin {"apply", "verify"}
  BY <1>1, <1>2
<1> QED BY <1>0, <1>3, <1>4, <1>5 DEF RowsInv, At, OpenAttempt

(* Past the history check and between attempts the rows are at home. *)
LEMMA NextRowsHome ==
    ASSUME MigrationInv, RowsInv, NEW p \in Procs, phase[p] = "next"
    PROVE  kept \subseteq db.rows
<1>1. \A i \in DOMAIN ledger : ~Unresolved(ledger[i]) /\ ~Orphaned(ledger[i])
  BY DEF MigrationInv, HistoryInv, OpenAttempt
<1> QED BY <1>1 DEF RowsInv, Unsettled

LEMMA BeginAttemptRows ==
    ASSUME MigrationInv, RowsInv, NEW p \in Procs, BeginAttempt(p)
    PROVE  RowsInv'
<1>0. MigrationTypeOK
  BY DEF MigrationInv
<1>1. phase[p] = "next" /\ phase[p] \in Holding /\ phase' = [phase EXCEPT ![p] = "apply"]
      /\ UNCHANGED <<db, tx, kept>>
  BY DEF BeginAttempt, At, Goto, Holding
<1>2. PICK v \in Versions : v \notin db.applied /\ prog' = [prog EXCEPT ![p] = ForwardApply(p, v)]
  BY DEF BeginAttempt
<1>3. prog'[p] = ForwardApply(p, v)
  BY <1>0, <1>2 DEF MigrationTypeOK
<1>4. \A h \in Homes : Orderly(prog'[p], h)
  <2>1. Program(ForwardApply(p, v), v)
    BY InitDbProgram, Ends DEF ForwardApply
  <2> QED BY <1>3, <2>1 DEF Program, Body
<1>5. kept \subseteq db.rows /\ kept \subseteq Homes
  BY <1>1, NextRowsHome DEF RowsInv
<1>6. View' = db
  BY <1>1, NoTransaction DEF View
<1>7. \A h \in kept : Safe(View'.rows, prog'[p], h)
  BY <1>4, <1>5, <1>6 DEF Safe
<1>8. \A q \in Procs : phase'[q] # "serving"
  <2>1. \A q \in Procs : phase'[q] = "serving" => phase[q] = "serving"
    BY <1>0, <1>1 DEF MigrationTypeOK
  <2> QED BY <1>2, <2>1 DEF RowsInv, At
<1>9. \A h \in kept : ({h} \cup Backups[h]) \cap db'.rows # {}
  BY <1>1 DEF RowsInv
<1> QED BY <1>1, <1>5, <1>7, <1>8, <1>9, HolderRows

LEMMA StepRows ==
    ASSUME MigrationInv, RowsInv, NEW p \in Procs, Step(p)
    PROVE  RowsInv'
<1> DEFINE s == Head(prog[p])
           after == Effect(View, s)
<1>0. phase[p] = "apply" /\ prog[p] # <<>> /\ s.mode # "raise" /\ prog' = [prog EXCEPT ![p] = Tail(@)]
      /\ UNCHANGED <<ledger, phase, attempt, kept>>
  BY DEF Step, At
<1>1. (db' = after /\ tx' = NoTx) \/ (db' = db /\ tx' = after)
  BY DEF Step
<1>2. /\ MigrationTypeOK /\ phase[p] \in Holding /\ todo[p] \in Nat
      /\ attempt[p] \in DOMAIN ledger /\ Orphaned(ledger[attempt[p]])
  BY <1>0, ApplyFacts
<1>3. prog[p] \in Seq(Statements(todo[p])) /\ EndsIn(prog[p], todo[p])
  BY <1>0, <1>2 DEF MigrationTypeOK, MigrationInv, AttemptInv, At
<1>4. s \in Statements(todo[p])
  BY <1>0, <1>3, RestOfProgram
<1>5. after # NoTx
  BY <1>2, <1>4, ViewType, EffectType
<1>6. after.rows = RowsAfter(View.rows, s)
  BY DEF Effect, RowsAfter
<1>7. prog'[p] = Tail(prog[p])
  BY <1>0, <1>2 DEF MigrationTypeOK
<1>8. ASSUME NEW h \in kept PROVE Safe(after.rows, prog'[p], h)
  <2>1. Safe(View.rows, prog[p], h)
    BY <1>0 DEF RowsInv, At
  <2>2. Safe(RowsAfter(View.rows, Head(prog[p])), Tail(prog[p]), h)
    BY <1>0, <1>3, <2>1, SafeStep
  <2> QED BY <1>6, <1>7, <2>2
<1> HIDE DEF s, after
<1>9. View' = after
  BY <1>1, <1>5 DEF View
<1>10. \A h \in kept : ({h} \cup Backups[h]) \cap db'.rows # {}
  <2>1. \A h \in kept : ({h} \cup Backups[h]) \cap after.rows # {}
    BY <1>8, SafeSomewhere
  <2>2. \A h \in kept : ({h} \cup Backups[h]) \cap db.rows # {}
    BY DEF RowsInv
  <2> QED BY <1>1, <2>1, <2>2
<1>11. Unsettled'
  BY <1>0, <1>2 DEF Unsettled
<1>12. \A q \in Procs : phase'[q] # "serving"
  BY <1>0 DEF RowsInv, At, OpenAttempt
<1>13. phase' = [phase EXCEPT ![p] = "apply"]
  BY <1>0, <1>2 DEF MigrationTypeOK
<1> QED BY <1>0, <1>2, <1>8, <1>9, <1>10, <1>11, <1>12, <1>13, HolderRows

LEMMA CommitRows ==
    ASSUME MigrationInv, RowsInv, NEW p \in Procs, Commit(p)
    PROVE  RowsInv'
<1>0. phase[p] = "apply" /\ prog[p] = <<>> /\ db' = View /\ phase' = [phase EXCEPT ![p] = "verify"] /\ kept' = kept
  BY DEF Commit, At, Goto
<1>1. MigrationTypeOK /\ phase[p] \in Holding
  BY <1>0, ApplyFacts
<1>2. kept \subseteq db'.rows
  <2>1. ASSUME NEW h \in kept PROVE h \in db'.rows
    <3>1. Safe(View.rows, <<>>, h)
      BY <1>0 DEF RowsInv, At
    <3> QED BY <1>0, <3>1, SafeEnd
  <2> QED BY <2>1
<1>3. \A q \in Procs : phase'[q] # "serving"
  <2>1. \A q \in Procs : phase[q] # "serving"
    BY <1>0 DEF RowsInv, At, OpenAttempt
  <2> QED BY <1>0, <1>1, <2>1 DEF MigrationTypeOK
<1> QED BY <1>0, <1>1, <1>2, <1>3, HolderRows

LEMMA VerifyVersionRows ==
    ASSUME MigrationInv, RowsInv, NEW p \in Procs, VerifyVersion(p)
    PROVE  RowsInv'
<1>0. phase[p] = "verify" /\ phase' = [phase EXCEPT ![p] = "next"] /\ UNCHANGED <<db, kept>>
  BY DEF VerifyVersion, At, Goto
<1>1. MigrationTypeOK /\ phase[p] \in Holding
  BY <1>0, ApplyFacts
<1>2. kept \subseteq db'.rows
  BY <1>0 DEF RowsInv, At
<1>3. \A q \in Procs : phase'[q] # "serving"
  <2>1. \A q \in Procs : phase[q] # "serving"
    BY <1>0 DEF RowsInv, At, OpenAttempt
  <2> QED BY <1>0, <1>1, <2>1 DEF MigrationTypeOK
<1> QED BY <1>0, <1>1, <1>2, <1>3, HolderRows

LEMMA FinalVerifyRows ==
    ASSUME MigrationInv, RowsInv, NEW p \in Procs, FinalVerify(p)
    PROVE  RowsInv'
<1>0. phase[p] = "next" /\ phase[p] \in Holding /\ phase' = [phase EXCEPT ![p] = "serving"]
      /\ Versions \subseteq db.applied /\ UNCHANGED <<db, kept>>
  BY DEF FinalVerify, At, Goto, Holding
<1>1. kept \subseteq db'.rows
  BY <1>0, NextRowsHome
<1> QED BY <1>0, <1>1, HolderRows

LEMMA InitRows == MigrationInit => RowsInv
<1> SUFFICES ASSUME MigrationInit PROVE RowsInv
  OBVIOUS
<1>1. kept = db.rows \cap Homes /\ \A p \in Procs : phase[p] = "down"
  BY DEF MigrationInit, Homes
<1> QED BY <1>1 DEF RowsInv, At

LEMMA NextRows == MigrationInv /\ RowsInv /\ [MigrationNext]_vars => RowsInv'
<1> SUFFICES ASSUME MigrationInv, RowsInv, [MigrationNext]_vars PROVE RowsInv'
  OBVIOUS
<1>1. CASE UNCHANGED vars
  <2>1. Uneventful
    BY <1>1 DEF vars, Uneventful, Unsettled, View
  <2> QED BY <2>1, QuietRows
<1>2. ASSUME NEW p \in Procs, NEW ok \in BOOLEAN, Boot(p, "starting", ok) \/ Boot(p, "maintaining", ok)
      PROVE  RowsInv'
  BY <1>2, OutsideRows
<1>3. ASSUME NEW p \in Procs, ProcStep(p) PROVE RowsInv'
  BY <1>3, LedgerRows, RefusalRows, BeginAttemptRows, StepRows, CommitRows, VerifyVersionRows,
     FinalVerifyRows, OutsideRows DEF ProcStep
<1>4. ASSUME NEW p \in Procs, ResolveMigrationReconciliation(p) \/ Exit(p) \/ Crash(p) \/ StatementFails(p)
      PROVE  RowsInv'
  BY <1>4, OutsideRows, FaultRows
<1>5. ASSUME NEW o \in Drifts, Drift(o) PROVE RowsInv'
  BY <1>5, DriftRows
<1> QED BY <1>1, <1>2, <1>3, <1>4, <1>5 DEF MigrationNext

(* The inductive invariant about the rows: the rest of the program under   *)
(* way brings every row it moves back to its table, and a database whose   *)
(* history has no open and no interrupted attempt has its rows at home.    *)
THEOREM RowsInvariant == MigrationSpec => []RowsInv
BY InitRows, NextRows, MigrationInvariant, PTL DEF MigrationSpec

(* No migration loses the execution or dispatch rows of the database it    *)
(* was started on, at whatever statement it is interrupted, and a process  *)
(* that serves finds them in their own tables.                             *)
THEOREM RowsStayKept == MigrationSpec => []RowsKept
<1>1. ASSUME RowsInv PROVE RowsKept
  <2>1. Backups["runs"] = {"runs_legacy", "runs_binding"} /\ Backups["dispatch"] = {"dispatch_v8"}
    BY DEF Backups
  <2>2. "runs" \in kept => {"runs", "runs_legacy", "runs_binding"} \cap db.rows # {}
    BY <1>1, <2>1 DEF RowsInv
  <2>3. "dispatch" \in kept => {"dispatch", "dispatch_v8"} \cap db.rows # {}
    BY <1>1, <2>1 DEF RowsInv
  <2> QED BY <1>1, <2>2, <2>3 DEF RowsInv, RowsKept
<1> QED BY <1>1, RowsInvariant, PTL
=============================================================================
