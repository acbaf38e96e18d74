---------------------------- MODULE JvmParsers ----------------------------
(***************************************************************************)
(* What the parsers of the backend make of a file: JavaFileParser,         *)
(* KotlinFileParser, MyBatisXmlParser and the two SQL parsers.             *)
(*                                                                         *)
(* A file is a record of what the regular expressions find in its text, in *)
(* the order of the text.  Ids are tuples where the code joins strings: a  *)
(* node is [id, kind, file, meta] and an edge [id, source, target, kind].  *)
(* A path is the sequence of its words and slashes.                        *)
(***************************************************************************)
EXTENDS SequencesExt

(* Undefined properties of a JavaScript object.                            *)
Missing == "?"

EdgeBetween(s, kind, t) == [id |-> <<s, kind, t>>, source |-> s, target |-> t, kind |-> kind]

---------------------------------------------------------------------------
(* Endpoints.                                                              *)

(* The numbers of a set from the least on.                                 *)
InOrder(S) == [k \in 1..Cardinality(S) |-> CHOOSE i \in S : Cardinality({j \in S : j <= i}) = k]

(* A slash survives when a word is before it and a word comes after it.    *)
NormalizePath(p) ==
    LET word(i) == p[i] # "/"
        kept == InOrder({i \in DOMAIN p : word(i) \/ (i > 1 /\ word(i - 1)
                                              /\ \E k \in DOMAIN p : k > i /\ word(k))}) IN
    <<"/">> \o [k \in DOMAIN kept |-> p[kept[k]]]

(* @RequestMapping with a method is looked for first, then each verb, in   *)
(* the order of the text.                                                  *)
Verbs == <<"REQUEST", "GET", "POST", "PUT", "DELETE", "PATCH">>

FoundBefore(f, k, i) ==
    LET turn(m) == CHOOSE v \in DOMAIN Verbs : Verbs[v] = m.annotation IN
    \/ turn(f.mappings[k]) < turn(f.mappings[i])
    \/ turn(f.mappings[k]) = turn(f.mappings[i]) /\ k < i

EndpointId(f, m) == <<"spring-endpoint", m.verb, NormalizePath(f.basePath \o m.path)>>

EndpointNode(f, m) ==
    [id |-> EndpointId(f, m), kind |-> "spring-endpoint", file |-> f.path,
     meta |-> [httpMethod |-> m.verb, path |-> EndpointId(f, m)[3],
               returnType |-> m.returnType, paramTypes |-> m.paramTypes]]

(* addEndpoint() skips an id the file has already; the alias in the other  *)
(* direction lets a search from the endpoint go on into the controller.    *)
EndpointNodes(f) ==
    {EndpointNode(f, f.mappings[i]) : i \in
        {j \in DOMAIN f.mappings : \A k \in DOMAIN f.mappings : FoundBefore(f, k, j) =>
            EndpointId(f, f.mappings[k]) # EndpointId(f, f.mappings[j])}}

ControllerId(f) == <<"spring-controller", f.path>>
ServiceId(f)    == <<"spring-service", f.path>>
BeanId(type)    == <<"spring-service", type>>    \* until a linker finds the class

EndpointEdges(f) ==
    UNION {{EdgeBetween(ControllerId(f), "api-serves", n.id),
            EdgeBetween(n.id, "api-implements", ControllerId(f))} : n \in EndpointNodes(f)}

---------------------------------------------------------------------------
(* DTO fields.                                                             *)

Required == {"NotNull", "NotBlank", "NotEmpty", "NonNull"}

(* Optional<T> is T that may be null, whatever its annotations say.        *)
BuildDtoField(x) ==
    [name |-> x.name, typeRef |-> x.type, jsonName |-> x.jsonName,
     nullable |-> IF x.optional THEN "true"
                  ELSE IF x.marks \cap Required # {} THEN "false"
                  ELSE IF "Nullable" \in x.marks THEN "true" ELSE Missing]

(* The components of a record, or else what is declared private.           *)
ExtractDtoFields(f) ==
    {BuildDtoField(x) : x \in IF f.components # <<>> THEN Range(f.components)
                             ELSE {y \in Range(f.fields) : y.private}}

Fqn(f) == <<f.package, f.className>>

DtoId(f) == <<"spring-dto", f.path>>

DtoNode(f) ==
    [id |-> DtoId(f), kind |-> "spring-dto", file |-> f.path,
     meta |-> [fqn |-> Fqn(f), className |-> f.className, fields |-> ExtractDtoFields(f)]]

---------------------------------------------------------------------------
(* JavaFileParser.                                                         *)

IsController(f) == f.annotations \cap {"RestController", "Controller"} # {}
IsBean(f) == ~IsController(f) /\ f.annotations \cap
    {"Service", "Repository", "Mapper", "Configuration", "Component"} # {}

ClassNode(f) ==
    [id |-> IF IsController(f) THEN ControllerId(f) ELSE ServiceId(f),
     kind |-> IF IsController(f) THEN "spring-controller" ELSE "spring-service",
     file |-> f.path,
     meta |-> [fqn |-> Fqn(f), className |-> f.className,
               marks |-> IF IsController(f) THEN {} ELSE f.annotations \cap {"Repository", "Mapper"},
               hasScheduled |-> ~IsController(f) /\ f.scheduled]]

(* @Autowired fields, the final fields of a class Lombok writes the        *)
(* constructor of, and the parameters of a constructor that are named for  *)
(* a bean.                                                                 *)
Injections(f) ==
    f.autowired \cup f.constructorBeans
    \cup (IF "RequiredArgsConstructor" \in f.annotations THEN f.finalBeans ELSE {})

(* The source is the service of the file even where the file has none.     *)
SourceId(f) == IF IsController(f) THEN ControllerId(f) ELSE ServiceId(f)

BeanEdges(f) ==
    IF IsBean(f) /\ "Configuration" \in f.annotations
    THEN {[id |-> <<ServiceId(f), "spring-injects", "bean", b.method>>, source |-> ServiceId(f),
           target |-> BeanId(b.type), kind |-> "spring-injects"] : b \in f.beans}
    ELSE {}

EventEdges(f) ==
    {EdgeBetween(SourceId(f), "emits-event", <<"event", e>>) : e \in f.publishes}
    \cup {[id |-> <<SourceId(f), "listens-event", l.event, l.line>>, source |-> <<"event", l.event>>,
           target |-> SourceId(f), kind |-> "listens-event"] : l \in f.listens}

JavaNodes(f) ==
    (IF IsController(f) \/ IsBean(f) THEN {ClassNode(f)} ELSE {})
    \cup (IF IsController(f) THEN EndpointNodes(f) ELSE {})
    \cup (IF f.dtoSuffix THEN {DtoNode(f)} ELSE {})

JavaEdges(f) ==
    (IF IsController(f) THEN EndpointEdges(f) ELSE {})
    \cup BeanEdges(f)
    \cup (IF JavaNodes(f) # {}
          THEN {EdgeBetween(SourceId(f), "spring-injects", BeanId(t)) : t \in Injections(f)}
          ELSE {})
    \cup EventEdges(f)

(* Nothing is looked for in a file without the word class or interface: a  *)
(* Java 17 record is parsed by ExtractDtoFields() and never reaches it.    *)
ParseJava(f) ==
    IF ~f.declaresClass THEN [nodes |-> {}, edges |-> {}]
    ELSE [nodes |-> JavaNodes(f), edges |-> JavaEdges(f)]

---------------------------------------------------------------------------
(* KotlinFileParser: no record of the class on a controller, no signature  *)
(* on an endpoint, no DTO, and the parameters of the class as injections.  *)

IsKotlinBean(f) == ~IsController(f)
                   /\ f.annotations \cap {"Service", "Repository", "Component", "Mapper"} # {}

KotlinEndpoint(f, m) ==
    [EndpointNode(f, m) EXCEPT !.meta = [httpMethod |-> m.verb, path |-> EndpointId(f, m)[3],
                                         returnType |-> Missing, paramTypes |-> Missing]]

KotlinMappings(f) == {f.mappings[i] : i \in
    {j \in DOMAIN f.mappings : f.mappings[j].annotation # "REQUEST"}}

ParseKotlin(f) ==
    LET endpoints == IF IsController(f) THEN {KotlinEndpoint(f, m) : m \in KotlinMappings(f)} ELSE {}
        class == IF IsController(f)
                 THEN {[ClassNode(f) EXCEPT !.meta = [className |-> f.className, marks |-> {}]]}
                 ELSE IF IsKotlinBean(f)
                 THEN {[ClassNode(f) EXCEPT !.meta = [fqn |-> Fqn(f), className |-> f.className,
                               marks |-> f.annotations \cap {"Repository", "Mapper"}]]}
                 ELSE {} IN
    IF ~f.declaresClass THEN [nodes |-> {}, edges |-> {}]
    ELSE [nodes |-> class \cup endpoints,
          edges |-> (UNION {{EdgeBetween(ControllerId(f), "api-serves", n.id),
                             EdgeBetween(n.id, "api-implements", ControllerId(f))} : n \in endpoints})
                    \cup (IF class = {} THEN {}
                          ELSE {EdgeBetween(SourceId(f), "spring-injects", BeanId(t))
                                    : t \in f.constructorBeans})]

---------------------------------------------------------------------------
(* MyBatisXmlParser.                                                       *)

MapperId(f) == <<"mybatis-mapper", f.namespace>>
StatementId(f, s) == <<"mybatis-statement", f.namespace, s.id>>
TableId(t) == <<"db-table", t>>

(* A statement names a <resultMap> of its file, whose type and columns it  *)
(* takes, or a type, for which the columns are read off the projection.    *)
(* A name that no map has leaves it with neither.                          *)
ResultOf(f, s) ==
    LET named == {m \in f.resultMaps : m.id = s.resultMap} IN
    IF s.resultMap # Missing
    THEN IF named = {} THEN [type |-> Missing, mappings |-> {}]
         ELSE LET m == CHOOSE m \in named : TRUE IN [type |-> m.type, mappings |-> m.mappings]
    ELSE [type |-> s.resultType, mappings |-> IF s.resultType = Missing THEN {} ELSE s.projection]

StatementNode(f, s) ==
    [id |-> StatementId(f, s), kind |-> "mybatis-statement", file |-> f.path,
     meta |-> [statementType |-> s.type, resultType |-> ResultOf(f, s).type,
               fieldMappings |-> ResultOf(f, s).mappings,
               parameterType |-> s.parameterType]]

TableNode(f, t) == [id |-> TableId(t), kind |-> "db-table", file |-> f.path,
                    meta |-> [tableName |-> t, columns |-> <<>>]]

TableEdgeKind(s) == IF s.type = "select" THEN "reads-table" ELSE "writes-table"

(* Statements without an id are passed over, their tables with them; a     *)
(* file that is no mapper has nothing.                                     *)
ParseMyBatis(f) ==
    LET named == {s \in f.statements : s.id # Missing}
        tables == UNION {s.tables : s \in named} IN
    IF f.namespace = Missing THEN [nodes |-> {}, edges |-> {}]
    ELSE [nodes |-> {[id |-> MapperId(f), kind |-> "mybatis-mapper", file |-> f.path,
                      meta |-> [fqn |-> f.namespace]]}
                    \cup {StatementNode(f, s) : s \in named}
                    \cup {TableNode(f, t) : t \in tables},
          edges |-> {EdgeBetween(MapperId(f), "mybatis-maps", StatementId(f, s)) : s \in named}
                    \cup UNION {{EdgeBetween(StatementId(f, s), TableEdgeKind(s), TableId(t))
                                    : t \in s.tables} : s \in named}]

---------------------------------------------------------------------------
(* The migrations of a Flyway directory.                                   *)

(* parseSqlDdl() looks through a file three times: for every CREATE TABLE, *)
(* then for every ALTER TABLE, then for every DROP TABLE.                  *)
Alterations == {"add-column", "drop-column", "modify-column", "rename-column"}

ParseSqlDdl(statements) ==
    LET of(ops) == LET at == InOrder({i \in DOMAIN statements : statements[i].op \in ops}) IN
                   [k \in DOMAIN at |-> statements[at[k]]] IN
    of({"create-table"})
    \o of(Alterations)
    \o of({"drop-table"})

(* Mutation of CompareVersion: as text, so that 10 comes before 2.         *)
CompareVersionText(a, b) ==
    LET first(v) == IF v[1] >= 10 THEN v[1] \div 10 ELSE v[1] IN first(a) < first(b)

CompareVersion(a, b) ==
    LET part(v, i) == IF i \in DOMAIN v THEN v[i] ELSE 0
        parts == 1..(IF Len(a) > Len(b) THEN Len(a) ELSE Len(b)) IN
    \E i \in parts : /\ part(a, i) < part(b, i)
                     /\ \A k \in 1..(i - 1) : part(a, k) = part(b, k)

ColumnsOf(tables, t) == IF t \in DOMAIN tables THEN tables[t] ELSE <<>>

With(tables, t, columns) ==
    [u \in DOMAIN tables \cup {t} |-> IF u = t THEN columns ELSE tables[u]]

HasColumn(columns, name) == \E i \in DOMAIN columns : columns[i].name = name

(* What f makes of the first column with the name, in its place.           *)
Replaced(columns, name, f(_)) ==
    [i \in DOMAIN columns |->
        IF columns[i].name = name /\ ~HasColumn(SubSeq(columns, 1, i - 1), name)
        THEN f(columns[i]) ELSE columns[i]]

(* { ...old, ...new }: what the new one does not say, the old one keeps.   *)
Overlay(old, new) ==
    [new EXCEPT !.nullable = IF @ = Missing THEN old.nullable ELSE @,
                !.default  = IF @ = Missing THEN old.default ELSE @]

AlterColumns(columns, op) ==
    CASE op.op = "create-table" -> op.columns
      [] op.op = "add-column" ->
            IF HasColumn(columns, op.column.name) THEN columns ELSE Append(columns, op.column)
      [] op.op = "drop-column" -> SelectSeq(columns, LAMBDA c : c.name # op.name)
      [] op.op = "modify-column" ->
            Replaced(columns, op.column.name, LAMBDA c : Overlay(c, op.column))
      [] op.op = "rename-column" ->
            Replaced(columns, op.name, LAMBDA c : [c EXCEPT !.name = op.to])

(* A column may be added to a table that no file has created.              *)
ApplyOp(tables, op) ==
    CASE op.op = "drop-table" -> Restrict(tables, DOMAIN tables \ {op.table})
      [] op.op \in {"drop-column", "modify-column", "rename-column"}
            /\ op.table \notin DOMAIN tables -> tables
      [] OTHER -> With(tables, op.table, AlterColumns(ColumnsOf(tables, op.table), op))

ApplyOps(tables, ops) ==
    LET after[n \in 0..Len(ops)] ==
            IF n = 0 THEN tables ELSE ApplyOp(after[n - 1], ops[n]) IN
    after[Len(ops)]

ApplyMigrations(scripts) ==
    LET after[n \in 0..Len(scripts)] ==
            IF n = 0 THEN [t \in {} |-> <<>>] ELSE ApplyOps(after[n - 1], scripts[n]) IN
    after[Len(scripts)]

(* Files of the same version go by their paths; no two have both the same. *)
Before(f, g) == \/ CompareVersion(f.version, g.version)
                \/ /\ ~CompareVersion(g.version, f.version)
                   /\ f.path < g.path

InTurn(files, before(_, _)) ==
    [k \in 1..Cardinality(files) |->
        CHOOSE f \in files : Cardinality({g \in files : before(g, f)}) = k - 1]

ReadFlywayMigrations(files) ==
    LET order == InTurn(files, Before) IN
    ApplyMigrations([k \in DOMAIN order |-> ParseSqlDdl(order[k].statements)])
===========================================================================
