-------------------------- MODULE BreakingChanges --------------------------
(***************************************************************************)
(* The surface of a project and what breaks when it changes:               *)
(* SignatureStore.ts (what is collected, and how two sets of rows differ), *)
(* BreakingChangeDetector.ts, and the differences of the two other         *)
(* snapshot stores, SchemaSnapshotStore.ts and ArchSnapshotStore.ts.       *)
(*                                                                         *)
(* A row is [id, kind, file, meta].  Hashes of equal metadata are equal,   *)
(* and 64 bits of SHA-256 are taken to tell unequal ones apart.            *)
(***************************************************************************)
EXTENDS JvmParsers

(* One of each id, as a Map or a table with that key keeps them.           *)
OnePerId(things) == {CHOOSE x \in things : x.id = i : i \in {x.id : x \in things}}

(* The nodes of a project [java, kotlin, mybatis, migrations].  Where two  *)
(* files give the same id (a table, as a rule) they differ in the file.    *)
Parse(project) ==
    LET parsed == {ParseJava(f) : f \in project.java}
                  \cup {ParseKotlin(f) : f \in project.kotlin}
                  \cup {ParseMyBatis(f) : f \in project.mybatis} IN
    [nodes |-> OnePerId(UNION {p.nodes : p \in parsed}),
     edges |-> OnePerId(UNION {p.edges : p \in parsed})]

EmptyGraph == [nodes |-> {}, edges |-> {}]

---------------------------------------------------------------------------
(* Rows.                                                                   *)

DtoRows(n) ==
    {[id |-> <<"dto-field", n.meta.fqn, x.name>>, kind |-> "dto-field", file |-> n.file,
      meta |-> <<x.typeRef, x.nullable, x.jsonName>>] : x \in n.meta.fields}

(* No parser writes controllerFqn: the id is the method and the path.      *)
EndpointRow(n) ==
    [id |-> <<"endpoint", n.meta.httpMethod, n.meta.path>>, kind |-> "endpoint", file |-> n.file,
     meta |-> <<n.meta.httpMethod, n.meta.path, n.meta.returnType, n.meta.paramTypes>>]

(* A table whose columns are not known stands for all of them.             *)
TableRows(n) ==
    IF n.meta.columns = <<>>
    THEN {[id |-> <<"db-column", n.meta.tableName>>, kind |-> "db-column", file |-> n.file,
           meta |-> <<n.meta.tableName>>]}
    ELSE {[id |-> <<"db-column", n.meta.tableName, n.meta.columns[i].name>>, kind |-> "db-column",
           file |-> n.file, meta |-> <<n.meta.columns[i].type>>] : i \in DOMAIN n.meta.columns}

Collect(graph) ==
    UNION {CASE n.kind = "spring-dto" -> DtoRows(n)
             [] n.kind = "spring-endpoint" -> {EndpointRow(n)}
             [] n.kind = "db-table" -> TableRows(n)
             [] OTHER -> {} : n \in graph.nodes}

Ids(rows) == {r.id : r \in rows}
RowOf(rows, id) == CHOOSE r \in rows : r.id = id

---------------------------------------------------------------------------
(* The difference of two sets of rows.                                     *)

(* The name of the class without its package, and the field.               *)
SimpleKey(r) == <<r.id[2][2], r.id[3]>>

(* A field that is gone and a field that is new are the same, renamed with *)
(* its class, if no other one that is gone or new could be either of them. *)
(* Mutation of PairRenamed: the first of several that are new will do.     *)
PairRenamedAny(removed, added) ==
    LET fields(rows) == {r \in rows : r.kind = "dto-field"}
        alike(rows, r) == {q \in fields(rows) : SimpleKey(q) = SimpleKey(r)} IN
    {[before |-> b, after |-> CHOOSE a \in alike(added, b) : TRUE] :
        b \in {r \in fields(removed) : alike(removed, r) = {r} /\ alike(added, r) # {}}}

PairRenamed(removed, added) ==
    LET fields(rows) == {r \in rows : r.kind = "dto-field"}
        alike(rows, r) == {q \in fields(rows) : SimpleKey(q) = SimpleKey(r)} IN
    {p \in [before : fields(removed), after : fields(added)] :
        alike(removed, p.before) = {p.before} /\ alike(added, p.before) = {p.after}}

Diff(before, after) ==
    LET removed == {b \in before : b.id \notin Ids(after)}
        added   == {a \in after : a.id \notin Ids(before)}
        changed == {b \in before \ removed : RowOf(after, b.id).meta # b.meta} IN
    [removed |-> removed, added |-> added,
     modified |-> {[before |-> b, after |-> RowOf(after, b.id)] : b \in changed},
     renamed |-> PairRenamed(removed, added)]

---------------------------------------------------------------------------
(* BreakingChangeDetector: a change is [code, severity, id, file].         *)

Change(code, severity, row) ==
    [code |-> code, severity |-> severity, id |-> row.id, file |-> row.file]

Gone(diff) ==
    LET paired == {p.before.id : p \in diff.renamed} IN
    {Change(CASE r.kind = "dto-field" -> "B1" [] r.kind = "endpoint" -> "B3" [] OTHER -> "B4",
            "error", r)
        : r \in {r \in diff.removed : r.kind # "dto-field" \/ r.id \notin paired}}

(* What was known to be nullable and no longer is known to be.             *)
MadeRequired(m) == m.before.meta[2] = "true" /\ m.after.meta[2] # "true"

Altered(diff) ==
    LET of(kind) == {m \in diff.modified : m.before.kind = kind} IN
    {Change("B2", "warning", m.before) : m \in {m \in of("dto-field") : MadeRequired(m)}}
    \cup {Change("B1", "error", m.before)
            : m \in {m \in of("dto-field") : m.before.meta[1] # m.after.meta[1]}}
    \cup {Change("B3", "error", m.before) : m \in of("endpoint")}
    \cup {Change("B4", "warning", m.before) : m \in of("db-column")}

DetectBreakingChanges(diff) == Gone(diff) \cup Altered(diff)

(* `breaking <code> file=<path>` in .vdaignore, and // vda:ignore, which   *)
(* is for the file it is in.                                               *)
Report(diff, waivers) ==
    {c \in DetectBreakingChanges(diff) :
        \A w \in waivers : w.code # c.code \/ w.file \notin {Missing, c.file}}

---------------------------------------------------------------------------
(* SchemaSnapshotStore: tables to sequences of columns.                    *)

ByName(columns) ==
    [n \in {columns[i].name : i \in DOMAIN columns} |->
        columns[CHOOSE i \in DOMAIN columns :
                    /\ columns[i].name = n
                    /\ \A k \in DOMAIN columns : columns[k].name = n => k <= i]]

(* Mutation of ChangedColumns: a column is its type.                       *)
ChangedColumnsType(a, b) ==
    {n \in DOMAIN a \cap DOMAIN b : a[n].type # b[n].type}

ChangedColumns(a, b) ==
    {n \in DOMAIN a \cap DOMAIN b :
        <<a[n].type, a[n].nullable, a[n].default>> # <<b[n].type, b[n].nullable, b[n].default>>}

DiffSchemas(from, to) ==
    LET columns(t) == [a |-> ByName(from[t]), b |-> ByName(to[t])]
        delta(t) == LET a == columns(t).a
                        b == columns(t).b IN
                    [table |-> t,
                     added |-> {b[n] : n \in DOMAIN b \ DOMAIN a},
                     removed |-> {a[n] : n \in DOMAIN a \ DOMAIN b},
                     changed |-> {[name |-> n, from |-> a[n], to |-> b[n]]
                                     : n \in ChangedColumns(a, b)}] IN
    [addedTables |-> {[table |-> t, columns |-> to[t]] : t \in DOMAIN to \ DOMAIN from},
     removedTables |-> {[table |-> t, was |-> from[t]] : t \in DOMAIN from \ DOMAIN to},
     changedTables |-> {d \in {delta(t) : t \in DOMAIN from \cap DOMAIN to} :
                            d.added \cup d.removed # {} \/ d.changed # {}}]

---------------------------------------------------------------------------
(* ArchSnapshotStore: counts by kind, and the ids of the most used nodes.  *)

CountsByKind(things) ==
    [k \in {x.kind : x \in things} |-> Cardinality({x \in things : x.kind = k})]

(* The ids by the edges into them, the first HubSampleSize of the sort;    *)
(* which of those with the same count comes first is the order of the Map. *)
HubSamples(graph, size) ==
    LET fanIn(n) == Cardinality({e \in graph.edges : e.target = n.id})
        scored == {n \in graph.nodes : fanIn(n) > 0}
        ids(nodes) == {n.id : n \in nodes} IN
    IF Cardinality(scored) <= size THEN {ids(scored)}
    ELSE {ids(s) : s \in {s \in kSubset(size, scored) :
                             \A n \in s, m \in scored \ s : fanIn(n) >= fanIn(m)}}

ArchSnapshot(graph, hubs) ==
    [nodesByKind |-> CountsByKind(graph.nodes), edgesByKind |-> CountsByKind(graph.edges),
     nodes |-> Cardinality(graph.nodes), edges |-> Cardinality(graph.edges), hubs |-> hubs]

BucketDiff(from, to) ==
    [added |-> {[kind |-> k, count |-> to[k]] : k \in DOMAIN to \ DOMAIN from},
     removed |-> {[kind |-> k, was |-> from[k]] : k \in DOMAIN from \ DOMAIN to},
     changed |-> {[kind |-> k, from |-> from[k], to |-> to[k]]
                     : k \in {k \in DOMAIN from \cap DOMAIN to : from[k] # to[k]}}]

DiffSnapshots(from, to) ==
    [nodes |-> BucketDiff(from.nodesByKind, to.nodesByKind),
     edges |-> BucketDiff(from.edgesByKind, to.edgesByKind),
     newHubs |-> to.hubs \ from.hubs, goneHubs |-> from.hubs \ to.hubs]
===========================================================================
