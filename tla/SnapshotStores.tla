-------------------------- MODULE SnapshotStores ---------------------------
(***************************************************************************)
(* The snapshots under .vda-cache/ and who writes and compares them: the   *)
(* command line (analyze --signatures-only, impact --breaking, snapshot,   *)
(* schema-snapshot) and the server (GET /api/analysis/breaking-changes).   *)
(*                                                                         *)
(* Both reporters write what they have now under one label, __pending__,   *)
(* and read it again beside the baseline.  They are different processes:   *)
(* each statement of SQLite is atomic, and so is a snapshot, which is a    *)
(* transaction; nothing holds between two of them.                         *)
(*                                                                         *)
(* A graph is known by the project it was built of; the graph the server   *)
(* has before a run has ended is that of NoProject.                        *)
(***************************************************************************)
EXTENDS BreakingChanges

CONSTANTS
    Content,       \* the states the sources may be in: what each of them holds
    NoProject,     \* the one that holds nothing
    Waivers,       \* of .vdaignore: [code, file], the file Missing if for all
    Label,         \* of schema and architecture snapshots
    HubSampleSize, \* opts.hubSampleSize
    MaxEdits       \* bound on the edits of the developer

Project == DOMAIN Content \ {NoProject}

ASSUME ContentAssumption == NoProject \in DOMAIN Content

Baseline == "main"
Pending  == "__pending__"

Server == "server"         \* AnalysisEngine.getBreakingChanges
Impact == "impact"         \* vda impact --breaking
Reporter == {Server, Impact}

VARIABLES
    sources,  \* the project on disk
    edits,
    running,  \* AnalysisEngine.analyzing
    graph,    \* of the server: the project it was built of
    table,    \* signatures: a set of [label, row]
    writer,   \* the project `analyze --signatures-only` parsed, or NoProject
    job,      \* what each reporter has in hand
    using,    \* which of the stores this behaviour is about, if any yet
    schema,   \* schema_tables by label
    arch,     \* snapshots by label
    of        \* history: the project a label was last written for

vars == <<sources, edits, running, graph, table, writer, job, using, schema, arch, of>>

(* What a snapshot of each project writes; a later row of an id replaces   *)
(* an earlier one.                                                         *)
RowsOf == [p \in DOMAIN Content |-> OnePerId(Collect(Parse(Content[p])))]

ASSUME StoresAssumption ==
    /\ RowsOf[NoProject] = {}
    /\ Label \cap {Baseline, Pending} = {}

(* A schema is its tables, each a sequence of columns as SqlColumn          *)
(* (SqlDdlParser.ts) has them; Missing stands for what is not said.         *)
IsColumn(c) == c = [name |-> c.name, type |-> c.type, nullable |-> c.nullable, default |-> c.default]

AreColumns(columns) ==
    /\ columns \in Seq({columns[i] : i \in DOMAIN columns})
    /\ \A i \in DOMAIN columns : IsColumn(columns[i])

IsSchema(tables) ==
    /\ tables = [t \in DOMAIN tables |-> tables[t]]
    /\ \A t \in DOMAIN tables : AreColumns(tables[t])

(* A migration as it is found: a version in parts, and statements of the   *)
(* kinds that the parser looks for.                                        *)
IsMigration(f) ==
    /\ f.version \in Seq(Nat) /\ f.path \in Nat
    /\ f.statements \in Seq(Range(f.statements))
    /\ \A s \in Range(f.statements) : s.op \in {"create-table", "drop-table"} \cup Alterations

ASSUME MigrationsAssumption ==
    \A p \in Project :
        /\ IsSchema(ReadFlywayMigrations(Content[p].migrations))
        /\ IsFiniteSet(Content[p].migrations)
        /\ \A f \in Content[p].migrations : IsMigration(f)
        /\ \A f, g \in Content[p].migrations : f.path = g.path => f = g

Load(label) == {x.row : x \in {x \in table : x.label = label}}

(* Mutation of Snapshot: what was there and is not written again stays.    *)
SnapshotUpsert(t, label, rows) ==
    {x \in t : x.label # label \/ x.row.id \notin Ids(rows)}
    \cup {[label |-> label, row |-> r] : r \in rows}

Snapshot(t, label, rows) ==
    {x \in t : x.label # label} \cup {[label |-> label, row |-> r] : r \in rows}

Idle == [pc |-> "idle", project |-> NoProject, before |-> {}, changes |-> {}, renamed |-> {},
         compared |-> <<NoProject, NoProject>>]

NoTables == [t \in {} |-> <<>>]
NoShape  == ArchSnapshot(EmptyGraph, {})

Init ==
    /\ sources \in Project /\ edits = 0
    /\ running = TRUE /\ graph = NoProject
    /\ table = {}
    /\ writer = NoProject
    /\ job = [r \in Reporter |-> Idle]
    /\ using = "none"
    /\ schema = [l \in Label |-> NoTables]
    /\ arch = [l \in Label |-> NoShape]
    /\ of = [l \in {Baseline, Pending} \cup Label |-> NoProject]

(* The stores are files of their own: one of them at a time is enough.     *)
Use(store) == using \in {"none", store} /\ using' = store

Edit ==
    /\ edits < MaxEdits
    /\ \E p \in Project \ {sources} : sources' = p
    /\ edits' = edits + 1
    /\ UNCHANGED <<running, graph, table, writer, job, using, schema, arch, of>>

---------------------------------------------------------------------------
(* The server.  A request is answered without an await between its first   *)
(* look at the table and its answer: a run starts and ends between them.   *)

StartRun ==
    /\ ~running /\ job[Server].pc \in {"idle", "reported"}
    /\ running' = TRUE /\ graph' = NoProject
    /\ UNCHANGED <<sources, edits, table, writer, job, using, schema, arch, of>>

EndRun ==
    /\ running /\ job[Server].pc \in {"idle", "reported"}
    /\ running' = FALSE /\ graph' = sources
    /\ UNCHANGED <<sources, edits, table, writer, job, using, schema, arch, of>>

---------------------------------------------------------------------------
(* vda analyze --signatures-only --label main.                             *)

ParseBaseline ==
    /\ Use("signatures")
    /\ writer = NoProject /\ writer' = sources
    /\ UNCHANGED <<sources, edits, running, graph, table, job, schema, arch, of>>

WriteBaseline ==
    /\ writer # NoProject
    /\ table' = Snapshot(table, Baseline, RowsOf[writer])
    /\ of' = [of EXCEPT ![Baseline] = writer]
    /\ writer' = NoProject
    /\ UNCHANGED <<sources, edits, running, graph, job, using, schema, arch>>

---------------------------------------------------------------------------
(* A report of what breaks.                                                *)

(* The server takes the graph it has, the command line parses.             *)
Begin(r) ==
    /\ Use("signatures")
    /\ job[r].pc = "idle"
    /\ job' = [job EXCEPT ![r] = [Idle EXCEPT !.pc = "begun",
                                              !.project = IF r = Server THEN graph ELSE sources]]
    /\ UNCHANGED <<sources, edits, running, graph, table, writer, schema, arch, of>>

(* Without rows there is no baseline, and no report.                       *)
Count(r) ==
    /\ job[r].pc = "begun"
    /\ job' = [job EXCEPT ![r] = IF Load(Baseline) = {} THEN Idle ELSE [@ EXCEPT !.pc = "counted"]]
    /\ UNCHANGED <<sources, edits, running, graph, table, writer, using, schema, arch, of>>

WritePending(r) ==
    /\ job[r].pc = "counted"
    /\ table' = Snapshot(table, Pending, RowsOf[job[r].project])
    /\ of' = [of EXCEPT ![Pending] = job[r].project]
    /\ job' = [job EXCEPT ![r].pc = "written"]
    /\ UNCHANGED <<sources, edits, running, graph, writer, using, schema, arch>>

LoadBefore(r) ==
    /\ job[r].pc = "written"
    /\ job' = [job EXCEPT ![r].pc = "loaded", ![r].before = Load(Baseline),
                          ![r].compared = <<of[Baseline], @[2]>>]
    /\ UNCHANGED <<sources, edits, running, graph, table, writer, using, schema, arch, of>>

LoadAfter(r) ==
    /\ job[r].pc = "loaded"
    /\ LET diff == Diff(job[r].before, Load(Pending)) IN
       job' = [job EXCEPT ![r].pc = "reported", ![r].before = {},
                          ![r].changes = Report(diff, Waivers),
                          ![r].renamed = diff.renamed,
                          ![r].compared = <<@[1], of[Pending]>>]
    /\ UNCHANGED <<sources, edits, running, graph, table, writer, using, schema, arch, of>>

(* The answer is out, or the command was killed on the way.                *)
End(r) ==
    /\ job[r].pc = "reported" \/ (r = Impact /\ job[r].pc # "idle")
    /\ job' = [job EXCEPT ![r] = Idle]
    /\ UNCHANGED <<sources, edits, running, graph, table, writer, using, schema, arch, of>>

---------------------------------------------------------------------------
(* vda schema-snapshot and vda snapshot.                                   *)

(* Migrations that leave no table are taken for no migrations.             *)
SchemaSnapshot(l) ==
    /\ Use("schema")
    /\ LET tables == ReadFlywayMigrations(Content[sources].migrations) IN
       /\ DOMAIN tables # {}
       /\ schema' = [schema EXCEPT ![l] = tables]
    /\ of' = [of EXCEPT ![l] = sources]
    /\ UNCHANGED <<sources, edits, running, graph, table, writer, job, arch>>

TakeArchSnapshot(l) ==
    /\ Use("arch")
    /\ \E hubs \in HubSamples(Parse(Content[sources]), HubSampleSize) :
          arch' = [arch EXCEPT ![l] = ArchSnapshot(Parse(Content[sources]), hubs)]
    /\ UNCHANGED <<sources, edits, running, graph, table, writer, job, schema, of>>

Next ==
    \/ Edit \/ StartRun \/ EndRun \/ ParseBaseline \/ WriteBaseline
    \/ \E r \in Reporter : Begin(r) \/ Count(r) \/ WritePending(r) \/ LoadBefore(r)
                           \/ LoadAfter(r) \/ End(r)
    \/ \E l \in Label : SchemaSnapshot(l) \/ TakeArchSnapshot(l)

Spec == Init /\ [][Next]_vars

---------------------------------------------------------------------------
(* What the sources declare, read without parsers, ids, rows or pairs.     *)

Declared(files) == {f \in files : f.declaresClass}

(* An Optional may be absent whatever stands beside it.                    *)
MayBeNull(x) == x.optional \/ ("Nullable" \in x.marks /\ x.marks \cap Required = {})

(* What Java serializes: the components of a record, else private fields.  *)
Fields(p) ==
    LET in(f) == IF f.components # <<>> THEN Range(f.components)
                 ELSE {x \in Range(f.fields) : x.private} IN
    UNION {{[class |-> f.className, package |-> f.package, field |-> x.name, type |-> x.type,
             null |-> MayBeNull(x), file |-> f.path]
            : x \in in(f)} : f \in {f \in Declared(p.java) : f.dtoSuffix}}

Words(path) ==
    LET at == InOrder({i \in DOMAIN path : path[i] # "/"}) IN [k \in DOMAIN at |-> path[at[k]]]

(* Of Kotlin the signature is not read, nor is @RequestMapping.            *)
Handlers(p) ==
    LET handler(f, m, returns, takes) ==
            [verb |-> m.verb, words |-> Words(f.basePath \o m.path), returns |-> returns,
             takes |-> takes, file |-> f.path] IN
    (UNION {{handler(f, m, m.returnType, m.paramTypes) : m \in Range(f.mappings)}
            : f \in {f \in Declared(p.java) : IsController(f)}})
    \cup UNION {{handler(f, m, Missing, Missing) :
                    m \in {m \in Range(f.mappings) : m.annotation # "REQUEST"}}
                : f \in {f \in Declared(p.kotlin) : IsController(f)}}

(* With the mapper that names them.                                        *)
UsedTables(p) ==
    UNION {{[table |-> t, file |-> f.path]
            : t \in UNION {s.tables : s \in {s \in f.statements : s.id # Missing}}}
            : f \in {f \in p.mybatis : f.namespace # Missing}}

SameField(x, y)   == <<x.package, x.class, x.field>> = <<y.package, y.class, y.field>>
Namesakes(x, y)   == <<x.class, x.field>> = <<y.class, y.field>>
SameHandler(x, y) == <<x.verb, x.words>> = <<y.verb, y.words>>

(* x went to another package with its class: of all that went and all that *)
(* came, only one field each has this name in a class of this name.        *)
Moved(b, a, x) ==
    LET Without(s, t) == {y \in s : Namesakes(x, y) /\ \A z \in t : ~SameField(y, z)} IN
    /\ \E y \in Fields(b) : Without(Fields(b), Fields(a)) = {y}
    /\ \E y \in Fields(a) : Without(Fields(a), Fields(b)) = {y}

(* What a consumer of b finds broken in a: [code, key, file].              *)
Broken(b, a) ==
    LET F == Fields(b)
        G == Fields(a)
        H == Handlers(a)
        field(x) == <<x.package, x.class, x.field>> IN
    {[code |-> "B1", key |-> field(x), file |-> x.file] :
        x \in {x \in F : \/ (\A y \in G : ~SameField(x, y)) /\ ~Moved(b, a, x)
                         \/ \E y \in G : SameField(x, y) /\ x.type # y.type}}
    \cup {[code |-> "B2", key |-> field(x), file |-> x.file] :
            x \in {x \in F : x.null /\ \E y \in G : SameField(x, y) /\ ~y.null}}
    \cup {[code |-> "B3", key |-> <<x.verb, x.words>>, file |-> x.file] :
            x \in {x \in Handlers(b) : \A y \in H :
                       ~(SameHandler(x, y) /\ x.returns = y.returns /\ x.takes = y.takes)}}
    \cup {[code |-> "B4", key |-> <<x.table>>, file |-> x.file] :
            x \in {x \in UsedTables(b) : \A y \in UsedTables(a) : x.table # y.table}}

(* The ids of changes in the words of the sources.                         *)
KeyOf(c) == CASE c.code \in {"B1", "B2"} -> <<c.id[2][1], c.id[2][2], c.id[3]>>
              [] c.code = "B3" -> <<c.id[2], Words(c.id[3])>>
              [] OTHER -> <<c.id[2]>>

Lifted(code, file) == \E w \in Waivers : w.code = code /\ w.file \in {Missing, file}

(* What is found in a file: a path is spelled when what stands between two *)
(* slashes is one word of it.                                              *)
Spelled(path) ==
    /\ path \in Seq(Range(path))
    /\ \A i \in 1..(Len(path) - 1) : path[i] = "/" \/ path[i + 1] = "/"

AreMappings(f) ==
    /\ f.mappings \in Seq(Range(f.mappings))
    /\ \A m \in Range(f.mappings) : m.annotation \in Range(Verbs) /\ Spelled(f.basePath \o m.path)

ASSUME FilesAssumption ==
    \A p \in DOMAIN Content :
        /\ \A f \in Content[p].java : AreMappings(f)
        /\ \A f \in Content[p].kotlin : AreMappings(f)
        /\ \A f, g \in Content[p].java : f.path = g.path => f = g

(* What the compiler and Spring would refuse is not there: a field that is *)
(* declared twice, a request that two methods handle.  A table may have    *)
(* many mappers, if what waives it in one of them does in the others.      *)
Unambiguous(p) ==
    /\ \A x, y \in Fields(p) : SameField(x, y) => x = y
    /\ \A x, y \in Handlers(p) : SameHandler(x, y) => x = y
    /\ \A x, y \in UsedTables(p) :
            x.table = y.table => (Lifted("B4", x.file) <=> Lifted("B4", y.file))

ProjectsUnambiguous == \A p \in DOMAIN Content : Unambiguous(Content[p])

---------------------------------------------------------------------------
(* Properties.                                                             *)

(* The rows under a label are those of one project, the one it was last    *)
(* written for: what two snapshots wrote is never mixed, though others     *)
(* write other labels and commands are killed in between (SignatureStore   *)
(* .snapshot deletes and inserts in one transaction).                      *)
RowsWhole ==
    \A l \in {Baseline, Pending} : Load(l) = RowsOf[of[l]]

(* A report says of the two projects it read from the store exactly what   *)
(* their sources say is broken between them: every field, handler and      *)
(* table that is gone or altered under its code, but for what a waiver     *)
(* lifts, and nothing that is not (JavaFileParser, SignatureStore.diff,    *)
(* pairRenamedDtoFields, detectBreakingChanges, WaiverEngine.isWaived).    *)
ReportExact ==
    \A r \in Reporter : job[r].pc = "reported" =>
        LET broken == Broken(Content[job[r].compared[1]], Content[job[r].compared[2]])
            told == {<<c.code, KeyOf(c)>> : c \in job[r].changes} IN
        /\ told = {<<x.code, x.key>> : x \in {x \in broken : ~Lifted(x.code, x.file)}}
        /\ \A c, d \in job[r].changes : <<c.code, KeyOf(c)>> = <<d.code, KeyOf(d)>> => c = d

(* What is different is all that is different: the older snapshot with the *)
(* difference applied is the newer one, so that no change of a column, a   *)
(* table or a count goes unseen (diffSchemas, diffSnapshots).              *)
PatchColumns(columns, d) ==
    [n \in (DOMAIN columns \ {c.name : c \in d.removed}) \cup {c.name : c \in d.added} |->
        IF \E c \in d.added : c.name = n THEN CHOOSE c \in d.added : c.name = n
        ELSE IF \E c \in d.changed : c.name = n
        THEN (CHOOSE c \in d.changed : c.name = n).to ELSE columns[n]]

PatchTables(tables, d) ==
    [t \in (DOMAIN tables \ {x.table : x \in d.removedTables})
           \cup {x.table : x \in d.addedTables} |->
        IF \E x \in d.addedTables : x.table = t
        THEN ByName((CHOOSE x \in d.addedTables : x.table = t).columns)
        ELSE IF \E x \in d.changedTables : x.table = t
        THEN PatchColumns(ByName(tables[t]), CHOOSE x \in d.changedTables : x.table = t)
        ELSE ByName(tables[t])]

PatchCounts(counts, d) ==
    LET now(k) == (CHOOSE x \in d.changed \cup d.added : x.kind = k) IN
    [k \in (DOMAIN counts \ {x.kind : x \in d.removed}) \cup {x.kind : x \in d.added} |->
        IF \E x \in d.added : x.kind = k THEN (CHOOSE x \in d.added : x.kind = k).count
        ELSE IF \E x \in d.changed : x.kind = k THEN (CHOOSE x \in d.changed : x.kind = k).to
        ELSE counts[k]]

DiffsLossless ==
    \A a, b \in Label :
        LET shape == DiffSnapshots(arch[a], arch[b]) IN
        /\ PatchTables(schema[a], DiffSchemas(schema[a], schema[b]))
               = [t \in DOMAIN schema[b] |-> ByName(schema[b][t])]
        /\ PatchCounts(arch[a].nodesByKind, shape.nodes) = arch[b].nodesByKind
        /\ PatchCounts(arch[a].edgesByKind, shape.edges) = arch[b].edgesByKind
        /\ (arch[a].hubs \ shape.goneHubs) \cup shape.newHubs = arch[b].hubs

(* A version as one number: its parts are the digits in the base, the      *)
(* missing ones zero.                                                      *)
Number(v, parts, base) ==
    LET upto[i \in 0..parts] ==
            IF i = 0 THEN 0 ELSE upto[i - 1] * base + (IF i \in DOMAIN v THEN v[i] ELSE 0) IN
    upto[parts]

(* The migrations in the order of their versions as numbers; two of one    *)
(* version in that of their paths.                                         *)
Earlier(f, g) ==
    LET v == f.version
        w == g.version
        parts == Max({Len(v), Len(w)})
        base  == Max({0} \cup Range(v) \cup Range(w)) + 1 IN
    \/ Number(v, parts, base) < Number(w, parts, base)
    \/ Number(v, parts, base) = Number(w, parts, base) /\ f.path < g.path

(* The tables when every statement is executed where its file has it.      *)
Executed(files) ==
    LET order == InTurn(files, Earlier) IN
    ApplyMigrations([k \in DOMAIN order |-> order[k].statements])

(* The tables that a file drops and then names again: parseSqlDdl puts the *)
(* drops of a file last.                                                   *)
Regrouped(files) ==
    UNION {{f.statements[i].table : i \in {i \in DOMAIN f.statements :
                /\ f.statements[i].op = "drop-table"
                /\ \E k \in DOMAIN f.statements : /\ k > i
                                                  /\ f.statements[k].table = f.statements[i].table}}
           : f \in files}

(* What a database would refuse is not there: a table that a file creates  *)
(* after it has altered it, and has not dropped it in between.             *)
Executable(f) ==
    LET s == f.statements IN
    \A i, k \in DOMAIN s :
        i < k /\ s[i].op \in Alterations /\ s[k].op = "create-table" /\ s[k].table = s[i].table
            => \E j \in i..k : s[j].op = "drop-table" /\ s[j].table = s[i].table

ProjectsExecutable == \A p \in Project : \A f \in Content[p].migrations : Executable(f)

(* The tables a snapshot of the schema holds are those that executing      *)
(* the statements gives, in the order of the versions as numbers and of    *)
(* the text in a file; but for tables that a file drops and creates again, *)
(* since the drops of a file are done last (FlywayMigrationParser,         *)
(* parseSqlDdl).  What one statement does is what applyMigrations() makes  *)
(* of it: a column keeps what an alteration does not name.                 *)
SchemaExact ==
    \A l \in Label : schema[l] # NoTables =>
        LET files == Content[of[l]].migrations
            kept(tables) == Restrict(tables, DOMAIN tables \ Regrouped(files)) IN
        kept(schema[l]) = kept(Executed(files))
============================================================================
