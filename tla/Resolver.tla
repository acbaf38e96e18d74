------------------------------ MODULE Resolver ------------------------------
(***************************************************************************)
(* How the edges of the parsers find their nodes: ImportResolver,          *)
(* CrossBoundaryResolver and its linkers, ApiCallLinker, MyBatisLinker,    *)
(* NativeBridgeLinker and DtoFlowLinker.  Linkers has the same steps with  *)
(* the outcome of each lookup as a parameter; here are the lookups.        *)
(*                                                                         *)
(* A graph is [nodes, edges, order].  Where several nodes have a name the  *)
(* order of the files in the graph decides: a Map keeps the last node that *)
(* was set, find() returns the first.                                      *)
(***************************************************************************)
EXTENDS FrontParsers

CONSTANTS
    ApiBaseUrl,      \* of the configuration, without slashes at its end; or none
    PathParams,      \* pieces in braces; :param and ${..} are written so, too
    StoreNeedle,     \* of a store's function: its name without use and Store
    LabelIncludes,   \* of a label: the needles it includes
    ComposableLabel, \* of a composable: its name without use, first letter small
    MapperOf,        \* of a class: its name without Repository, and Mapper
    RepositoryName   \* the names that end in Repository

NoFiles == [nodes |-> {}, edges |-> {}, order |-> <<>>]

Present(g, id) == \E n \in g.nodes : n.id = id

(* Map.set(): what had the id before is gone.                              *)
Put(things, x) == {y \in things : y.id # x.id} \cup {x}

AddEdges(g, E) == [g EXCEPT !.edges = FoldSet(LAMBDA e, D : Put(D, e), @, E)]

ParseFile(f) ==
    CASE f.language = "java"   -> ParseJava(f)
      [] f.language = "kotlin" -> ParseKotlin(f)
      [] f.language = "xml"    -> ParseMyBatis(f)
      [] f.language = "vue"    -> ParseVue(f)
      [] f.language = "ts"     -> ParseTs(f)

AddFile(g, f) ==
    LET parsed == ParseFile(f)
        nodes  == FoldSet(LAMBDA n, N : Put(N, n), g.nodes, parsed.nodes) IN
    AddEdges([g EXCEPT !.nodes = nodes, !.order = Append(@, f.path)], parsed.edges)

---------------------------------------------------------------------------
(* Lookups.  A set of one node, or of none.                                *)

Label(n) ==
    IF n.kind = "mybatis-mapper" THEN Last(n.meta.fqn)
    ELSE IF n.kind \in {"spring-service", "spring-controller", "spring-dto"} THEN n.meta.className
    ELSE n.label

Position(g, n) == CHOOSE i \in DOMAIN g.order : g.order[i] = n.file

LastOf(g, N)  == {n \in N : \A m \in N : Position(g, m) <= Position(g, n)}
FirstOf(g, N) == {n \in N : \A m \in N : Position(g, n) <= Position(g, m)}

Or(N, M) == IF N # {} THEN N ELSE M

OfKind(g, kinds) == {n \in g.nodes : n.kind \in kinds}

Labelled(g, kind, label) == {n \in OfKind(g, {kind}) : Label(n) = label}

Exporting(g, kind, name) == {n \in OfKind(g, {kind}) : name \in n.meta.exports}

ComponentNamed(g, name) == LastOf(g, Labelled(g, "vue-component", name))

StoreNamed(g, name) ==
    Or(LastOf(g, Exporting(g, "pinia-store", name)),
       FirstOf(g, {n \in OfKind(g, {"pinia-store"}) : StoreNeedle[name] \in LabelIncludes[n.label]}))

(* The label of a composable begins with use, what it is compared with by  *)
(* default has lost it.                                                    *)
ComposableNamed(g, name) ==
    Or(LastOf(g, Exporting(g, "vue-composable", name)),
       LastOf(g, Labelled(g, "vue-composable", ComposableLabel[name])))

BeanNamed(g, type) ==
    LastOf(g, {n \in OfKind(g, {"spring-service", "spring-controller", "mybatis-mapper"}) :
                  Label(n) = type})

(* The first node of a file is its component or its module.                *)
NodeOfFile(g, path) ==
    {n \in g.nodes : n.file = path /\ n.kind # "api-call-site"
                     /\ n.kind # "vue-event"}

(* The directory of the file an import is in.                              *)
DirOf(path) ==
    LET place == CHOOSE p \in DOMAIN Disk : Disk[p] = path IN SubSeq(place, 1, Len(place) - 2)

Imported(g, e) ==
    UNION {NodeOfFile(g, ResolveImport(e.path, DirOf(n.file))) : n \in {m \in g.nodes : m.id = e.source}}

---------------------------------------------------------------------------
(* Names.                                                                  *)

MovedTo(e, id) == [e EXCEPT !.id = <<e.source, e.kind, id>>, !.target = id]

Move(g, e, id) == [g EXCEPT !.edges = Put(@ \ {e}, MovedTo(e, id))]

Waiting(g, kind, prefix) == {e \in g.edges : e.kind = kind /\ e.target[1] = prefix}

(* Each edge of found goes to the node that was found for it.              *)
MoveAll(g, found) ==
    FoldSet(LAMBDA p, h : Move(h, p[1], p[2].id), g, UNION {{e} \X found[e] : e \in DOMAIN found})

ResolveImports(g) ==
    MoveAll(g, [e \in Waiting(g, "imports", "unresolved") |-> Imported(g, e)])

ResolveComponentReferences(g) ==
    MoveAll(g, [e \in Waiting(g, "uses-component", "component") |-> ComponentNamed(g, e.name)])

ResolveStoreReferences(g) ==
    MoveAll(g, [e \in Waiting(g, "uses-store", "store") |-> StoreNamed(g, e.name)])

ResolveComposableReferences(g) ==
    MoveAll(g, [e \in Waiting(g, "uses-composable", "composable") |-> ComposableNamed(g, e.name)])

ResolveRouteRenders(g) ==
    LET lazy == MoveAll(g, [e \in Waiting(g, "route-renders", "unresolved") |-> Imported(g, e)]) IN
    MoveAll(lazy,
            [e \in Waiting(lazy, "route-renders", "component") |-> ComponentNamed(lazy, e.name)])

ResolveNames(g) ==
    ResolveRouteRenders(ResolveComposableReferences(ResolveStoreReferences(
        ResolveComponentReferences(ResolveImports(g)))))

---------------------------------------------------------------------------
(* ApiCallLinker.                                                          *)

(* The base is compared by characters: of /apidocs and the base /api, docs *)
(* is left.  A query stays.                                                *)
NormalizeUrl(url) ==
    IF IsPrefix(ApiBaseUrl, url) THEN SubSeq(url, Len(ApiBaseUrl) + 1, Len(url)) ELSE url

(* Split at the slashes; empty parts do not count.                         *)
Segments(path) ==
    LET slash(i) == i \notin DOMAIN path \/ path[i] = "/"
        first == InOrder({i \in DOMAIN path : ~slash(i) /\ slash(i - 1)})
        last  == InOrder({i \in DOMAIN path : ~slash(i) /\ slash(i + 1)}) IN
    [k \in DOMAIN first |-> SubSeq(path, first[k], last[k])]

IsPathParam(segment) == {Head(segment), Last(segment)} \subseteq PathParams

(* A parameter, on either side, goes with every segment.                   *)
PathsMatch(call, endpoint) ==
    LET from == Segments(call)
        to   == Segments(endpoint) IN
    /\ Len(from) = Len(to)
    /\ \A i \in DOMAIN from : from[i] = to[i] \/ IsPathParam(from[i]) \/ IsPathParam(to[i])

LinkApiCalls(g) ==
    AddEdges(g, {EdgeBetween(p[1].id, "api-call", p[2].id) : p \in
        {q \in OfKind(g, {"api-call-site"}) \X OfKind(g, {"spring-endpoint"}) :
            /\ q[1].meta.url # <<>>
            /\ q[1].meta.httpMethod = q[2].meta.httpMethod
            /\ PathsMatch(NormalizeUrl(q[1].meta.url), NormalizeUrl(q[2].meta.path))}})

---------------------------------------------------------------------------
(* NativeBridgeLinker, on the metadata of the edge; that the index of the  *)
(* edge's target stays behind is the subject of DependencyGraph.           *)

BridgeNode(m) == [id |-> <<"native-bridge", m[1]>>, kind |-> "native-bridge",
                  file |-> "", meta |-> {}]
MethodNode(m) == [id |-> <<"native-method", m>>, kind |-> "native-method",
                  file |-> "", meta |-> {}]

LinkNatives(g) ==
    LET calls == {e \in g.edges : e.kind = "native-call"}
        new   == {e.method : e \in {d \in calls : ~Present(g, MethodNode(d.method).id)}} IN
    AddEdges([g EXCEPT
        !.nodes = @ \cup UNION {{BridgeNode(e.method), MethodNode(e.method)} : e \in calls},
        !.edges = (@ \ calls) \cup {[e EXCEPT !.target = MethodNode(e.method).id] : e \in calls}],
        {EdgeBetween(BridgeNode(m).id, "api-serves", MethodNode(m).id) : m \in new})

---------------------------------------------------------------------------
(* MyBatisLinker.  Two nodes of a table have one id, so that there are no  *)
(* duplicates for it to merge.                                             *)

InterfaceOf(g, mapper) ==
    LET classes == OfKind(g, {"spring-service", "spring-controller"}) IN
    Or(FirstOf(g, {n \in classes : "fqn" \in DOMAIN n.meta /\ n.meta.fqn = mapper.meta.fqn}),
       FirstOf(g, {n \in classes : n.meta.className = Last(mapper.meta.fqn)}))

LinkMappers(g) ==
    AddEdges(g, UNION {{EdgeBetween(n.id, "spring-injects", m.id) : n \in InterfaceOf(g, m)}
                          : m \in OfKind(g, {"mybatis-mapper"})})

---------------------------------------------------------------------------
(* Events.                                                                 *)

EventId(child, event) == <<"vue-event", child[2], event>>

(* The child a listener of the parent means: the one its use of the        *)
(* component was moved to, which may be of an earlier run.                 *)
ChildOf(g, e) ==
    LET used == {u \in g.edges : /\ u.kind = "uses-component"
                                 /\ u.source = e.source /\ u.name = e.name
                                 /\ u.target[1] # "component"} IN
    IF used # {} THEN {n \in g.nodes : \E u \in used : n.id = u.target}
    ELSE ComponentNamed(g, e.name)

(* Mutation of Emitted: the name as it is written.                         *)
EmittedAsWritten(child, event) == {event.name} \cap child.meta.emits

(* Of the name as it is written and in camelCase, one that is emitted.     *)
Emitted(child, event) ==
    Or({event.name} \cap child.meta.emits, {event.camel} \cap child.meta.emits)

(* A listens-event edge goes to a node for the event of the child.         *)
Listen(g, e, child, event) ==
    LET id == EventId(child.id, event)
        withNode == [g EXCEPT !.nodes = Put(@, [id |-> id, kind |-> "vue-event", label |-> event,
                                                file |-> child.file, meta |-> {}])] IN
    Move(AddEdges(withNode, {EdgeBetween(child.id, "emits-event", id)}), e, id)

ResolveEmitListeners(g) ==
    LET heard(e) == UNION {{<<e, c, v>> : v \in Emitted(c, e.event)} : c \in ChildOf(g, e)} IN
    FoldSet(LAMBDA t, h : Listen(h, t[1], t[2], t[3]), g,
            UNION {heard(e) : e \in Waiting(g, "listens-event", "component")})

CreateSpringEventNodes(g) ==
    LET ends == UNION {{e.source, e.target} : e \in g.edges} IN
    [g EXCEPT !.nodes = @ \cup
        {[id |-> i, kind |-> "spring-event", label |-> i[2], file |-> "", meta |-> {}]
            : i \in {j \in ends : j[1] = "event" /\ ~Present(g, j)}}]

---------------------------------------------------------------------------
(* Beans.                                                                  *)

(* A class is not linked to itself.                                        *)
ResolveSpringInjects(g) ==
    MoveAll(g, [e \in {x \in g.edges : x.kind = "spring-injects" /\ ~Present(g, x.target)} |->
                  {n \in BeanNamed(g, e.target[2]) : n.id # e.source}])

IsRepository(n) ==
    n.kind = "spring-service" /\ ("Repository" \in n.meta.marks \/ Label(n) \in RepositoryName)

(* The @Mapper interface of the same domain, or the XML if there is none.  *)
MapperFor(g, repository) ==
    Or(FirstOf(g, {n \in Labelled(g, "spring-service", MapperOf[Label(repository)]) :
                       "Mapper" \in n.meta.marks}),
       FirstOf(g, Labelled(g, "mybatis-mapper", MapperOf[Label(repository)])))

ResolveRepositoryToMapper(g) ==
    AddEdges(g, UNION {
        {EdgeBetween(r.id, "spring-injects", m.id) : m \in
            {n \in MapperFor(g, r) : \A e \in g.edges : e.source = r.id => e.target # n.id}}
        : r \in {n \in g.nodes : IsRepository(n)}})
=============================================================================
