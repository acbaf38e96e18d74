------------------------------ MODULE DtoFlow -------------------------------
(***************************************************************************)
(* The way of a DTO through the tiers: DtoFlowLinker links the nodes that  *)
(* have it and describes its fields, and DtoConsistencyChecker reports     *)
(* where the tiers differ; each finds the parts for itself.                *)
(*                                                                         *)
(* A field of a frontend interface is [name, type, optional]; one of the   *)
(* backend is BuildDtoField()'s.                                           *)
(***************************************************************************)
EXTENDS Resolver

CONSTANTS
    DtoSuffixed,    \* the names that end as those of DTOs do
    Argument,       \* of a generic type: what is in its brackets
    Element         \* of a list, a set or an array: what it holds

(* The type or what is in its brackets, if it is the name of a DTO.        *)
ExtractDtoName(type) ==
    Or({type} \cap DtoSuffixed,
       {Argument[t] : t \in {type} \cap DOMAIN Argument} \cap DtoSuffixed)

(* An endpoint of a Kotlin controller says nothing of its types.           *)
DtosOf(endpoint) ==
    IF endpoint.meta.returnType = Missing THEN {}
    ELSE UNION {ExtractDtoName(t) : t \in {endpoint.meta.returnType} \cup endpoint.meta.paramTypes}

BackendDto(g, dto) == LastOf(g, Labelled(g, "spring-dto", dto))

FrontendNodes(g) == OfKind(g, {"ts-module", "vue-component"})

(* The interfaces of a name in a module, and then its exported types: the  *)
(* same again.                                                             *)
InterfacesIn(n, dto) == SelectSeq(n.meta.types, LAMBDA t : t.name = dto)

Declaring(g, dto) == {n \in FrontendNodes(g) : InterfacesIn(n, dto) # <<>>}

StatementsOf(g, dto) ==
    {n \in OfKind(g, {"mybatis-statement"}) :
        dto \in {n.meta.resultType, n.meta.parameterType}}

(* The columns for a property of the DTO, over all its statements: which   *)
(* of several is shown is left out.                                        *)
MappingsOf(g, dto) == UNION {s.meta.fieldMappings : s \in StatementsOf(g, dto)}

JsonName(b) == IF b.jsonName # Missing THEN b.jsonName ELSE b.name

---------------------------------------------------------------------------
(* DtoFlowLinker.                                                          *)

(* buildFieldChains(): the first interface of the name there is, and the   *)
(* fields of both sides, each with what the other tiers say of it.         *)
Frontend(g, dto) == FirstOf(g, Declaring(g, dto))

BackendFields(g, dto) == UNION {n.meta.fields : n \in BackendDto(g, dto)}

FrontendFields(g, dto) ==
    UNION {ToSet(Head(InterfacesIn(n, dto)).fields) : n \in Frontend(g, dto)}

Entries(g, dto) ==
    {[field |-> b.name, tier |-> "backend", backend |-> {b},
      frontend |-> {f \in FrontendFields(g, dto) : f.name = JsonName(b)},
      columns |-> {m.column : m \in {x \in MappingsOf(g, dto) : x.property = b.name}}]
        : b \in BackendFields(g, dto)}
    \cup {[field |-> f.name, tier |-> "frontend", backend |-> {}, frontend |-> {f}, columns |-> {}]
            : f \in {x \in FrontendFields(g, dto) :
                        \A b \in BackendFields(g, dto) : x.name # JsonName(b)}}

Chain(g, dto) ==
    [dto |-> dto, backend |-> BackendDto(g, dto), frontend |-> Frontend(g, dto),
     statements |-> StatementsOf(g, dto), entries |-> Entries(g, dto)]

BuildFieldChains(g) ==
    {Chain(g, dto) : dto \in {Label(n) : n \in OfKind(g, {"spring-dto"})}
                             \cup UNION {{t.name : t \in ToSet(n.meta.types)} \cap DtoSuffixed
                                            : n \in FrontendNodes(g)}}

FlowEdges(from, to) == {EdgeBetween(p[1].id, "dto-flows", p[2].id) : p \in from \X to}

(* An edge that is there stays; the tiers have one direction.              *)
LinkDtoFlows(g) ==
    LET chains == BuildFieldChains(g) IN
    AddEdges(g,
        (UNION {UNION {FlowEdges({n}, BackendDto(g, dto)) : dto \in DtosOf(n)}
                   : n \in OfKind(g, {"spring-endpoint"})})
        \cup UNION {FlowEdges(c.frontend, c.backend)
                    \cup FlowEdges(Or(c.backend, c.frontend), c.statements) : c \in chains})

---------------------------------------------------------------------------
(* DtoConsistencyChecker.                                                  *)

Compatible ==
    [String |-> {"string"}, Boolean |-> {"boolean"}, boolean |-> {"boolean"},
     Long |-> {"number"}, long |-> {"number"}, Integer |-> {"number"}, int |-> {"number"},
     Double |-> {"number"}, double |-> {"number"}, Float |-> {"number"}, float |-> {"number"},
     BigDecimal |-> {"number", "string"}, Instant |-> {"string", "number"},
     LocalDateTime |-> {"string", "Date"}, LocalDate |-> {"string", "Date"},
     Date |-> {"string", "Date"}]

(* Lists and arrays are compared by what they hold, also with a single one.*)
AreTypesCompatible(java, ts) ==
    LET held(type) == IF type \in DOMAIN Element THEN Element[type] ELSE type IN
    IF held(java) \in DOMAIN Compatible THEN held(ts) \in Compatible[held(java)]
    ELSE held(java) = held(ts)

(* The fields are those of the last interface of the name, in the last     *)
(* file that has one; the source that is reported is the first.            *)
ReportedFields(g, dto) ==
    UNION {ToSet(Last(InterfacesIn(n, dto)).fields) : n \in LastOf(g, Declaring(g, dto))}

Optional(f) == IF f.optional THEN "true" ELSE "false"

Details(g, dto) ==
    LET fields   == BackendFields(g, dto)
        declared == ReportedFields(g, dto)
        of(b)    == {f \in declared : f.name = JsonName(b)}
        wrong(b) == \E f \in of(b) : ~AreTypesCompatible(b.typeRef, f.type)
        mapped(b) == \E m \in MappingsOf(g, dto) : m.property = b.name
        issue(name, i) == [name |-> name, issue |-> i] IN
    {issue(b.name, "missing-frontend") : b \in {x \in fields : of(x) = {}}}
    \cup {issue(b.name, "type-mismatch") : b \in {x \in fields : wrong(x)}}
    \cup {issue(b.name, "nullable-mismatch") : b \in {x \in fields :
             /\ ~wrong(x) /\ x.nullable # Missing
             /\ \E f \in of(x) : x.nullable # Optional(f)}}
    \cup {issue(b.name, "missing-db") : b \in {x \in fields :
             StatementsOf(g, dto) # {} /\ ~mapped(x)}}
    \cup {issue(f.name, "missing-backend") : f \in {x \in declared :
             \A b \in fields : x.name # JsonName(b)}}

(* The endpoints that some call of the frontend was linked to.             *)
Called(g) ==
    {n \in OfKind(g, {"spring-endpoint"}) :
        \E e \in g.edges : e.kind = "api-call" /\ e.target = n.id}

(* Mutation of Pairs: what the endpoint returns, not what it takes.        *)
PairsReturned(g) == UNION {{<<n.meta.path, d>> : d \in ExtractDtoName(n.meta.returnType)} : n \in Called(g)}

(* A DTO is compared once for each path, whatever the methods are.         *)
Pairs(g) == UNION {{<<n.meta.path, d>> : d \in DtosOf(n)} : n \in Called(g)}

CheckDtoConsistency(g) ==
    LET mismatch(p) == [path |-> p[1], dto |-> p[2], source |-> Frontend(g, p[2]),
                        details |-> Details(g, p[2])] IN
    {m \in {mismatch(p) : p \in {q \in Pairs(g) : BackendDto(g, q[2]) # {}}} :
        Declaring(g, m.dto) = {} \/ m.details # {}}
=============================================================================
