------------------------------- MODULE Linking -------------------------------
(***************************************************************************)
(* The linking of a project.  A run adds the files one by one, in whatever *)
(* order their parses end, and then CrossBoundaryResolver.resolve() does   *)
(* its nine steps; later the watcher adds single files and resolves again. *)
(***************************************************************************)
EXTENDS DtoFlow

CONSTANTS
    Queries,     \* the pieces of a URL that begin with a question mark
    Projects,    \* sets of files, each a project of its own
    MaxWatched   \* files that are written while the watcher is up

(* A file has finitely many declarations and references.                  *)
ASSUME ProjectsAssumption ==
    \A p \in Projects : \A f \in p :
        IsFiniteSet(ParseFile(f).nodes) /\ IsFiniteSet(ParseFile(f).edges)

VARIABLES
    files,      \* of the project
    added,      \* those that are in the graph
    graph,
    phase,      \* "parsing" or "watching"
    watched     \* how many files the watcher added

linkingVars == <<files, added, graph, phase, watched>>

Resolve(g) ==
    LinkDtoFlows(ResolveRepositoryToMapper(ResolveSpringInjects(CreateSpringEventNodes(
        ResolveEmitListeners(LinkMappers(LinkNatives(LinkApiCalls(ResolveNames(g)))))))))

LinkingInit ==
    /\ files \in Projects
    /\ added = {}
    /\ graph = NoFiles
    /\ phase = "parsing"
    /\ watched = 0

(* The loop of runAnalysis() over the results.                             *)
Add(f) ==
    /\ phase = "parsing"
    /\ graph' = AddFile(graph, f)
    /\ added' = added \cup {f}
    /\ UNCHANGED <<files, phase, watched>>

Finish ==
    /\ phase = "parsing"
    /\ phase' = "watching"
    /\ graph' = Resolve(graph)
    /\ UNCHANGED <<files, added, watched>>

(* handleFileChange() of a file that is new: there is nothing of it to     *)
(* remove.                                                                 *)
Watch(f) ==
    /\ phase = "watching" /\ watched < MaxWatched
    /\ graph' = Resolve(AddFile(graph, f))
    /\ added' = added \cup {f}
    /\ watched' = watched + 1
    /\ UNCHANGED <<files, phase>>

(* The file of the event is gone before it is read: the graph is resolved  *)
(* all the same.                                                           *)
WatchGone ==
    /\ phase = "watching"
    /\ graph' = Resolve(graph)
    /\ UNCHANGED <<files, added, phase, watched>>

LinkingNext ==
    \/ \E f \in files \ added : Add(f) \/ Watch(f)
    \/ Finish
    \/ WatchGone

LinkingSpec == LinkingInit /\ [][LinkingNext]_linkingVars

---------------------------------------------------------------------------
(* What the sources say, whatever the order of the files.                  *)

Written  == UNION {ParseFile(f).edges : f \in added}
Declared == UNION {ParseFile(f).nodes : f \in added}

(* Below, N is Declared.                                                   *)

FilesAt(N, p, source) ==
    {n \in N : /\ n.file = ResolveImport(p, DirOf(source[2]))
               /\ n.kind # "api-call-site"}

Components(N, name) == {n \in N : n.kind = "vue-component" /\ n.label = name}

Beans(N, type) ==
    {n \in N : /\ n.kind \in {"spring-service", "spring-controller", "mybatis-mapper"}
               /\ Label(n) = type}

(* The nodes that an edge may have meant.                                  *)
Meant(N, e) ==
    CASE e.kind = "spring-injects" -> {n \in Beans(N, e.target[2]) : n.id # e.source}
      [] e.target[1] = "unresolved" -> FilesAt(N, e.path, e.source)
      [] e.kind \in {"uses-component", "route-renders"} /\ e.target[1] = "component" ->
            Components(N, e.name)
      [] e.kind = "uses-store" ->
            {n \in N : /\ n.kind = "pinia-store"
                       /\ \/ e.name \in n.meta.exports
                          \/ StoreNeedle[e.name] \in LabelIncludes[n.label]}
      [] e.kind = "uses-composable" ->
            {n \in N : /\ n.kind = "vue-composable"
                       /\ \/ e.name \in n.meta.exports
                          \/ n.label = ComposableLabel[e.name]}
      [] OTHER -> {}

IsListener(e) == e.kind = "listens-event" /\ e.target[1] = "component"

(* A listener goes to what a child of the name emits.                      *)
Heard(N, e) ==
    UNION {{EventId(c.id, v) : v \in {e.event.name, e.event.camel} \cap c.meta.emits}
              : c \in Components(N, e.name)}

Ends(N, e) == IF IsListener(e) THEN Heard(N, e) ELSE {n.id : n \in Meant(N, e)}

Moved(e, id) == <<e.source, e.kind, id>>

(* The URL is of the base of the API, whole segments of it.                *)
UnderBase(url) ==
    LET n == Len(ApiBaseUrl) IN
    IsPrefix(ApiBaseUrl, url) /\ (Len(url) = n \/ url[n + 1] = "/" \/ url[n + 1] \in Queries)

(* What of a URL decides who serves it.                                    *)
PathOf(url) ==
    LET path == SelectInSeq(url, LAMBDA w : w \in Queries)
        base == IF UnderBase(url) THEN Len(ApiBaseUrl) ELSE 0 IN
    Segments(SubSeq(url, base + 1, IF path = 0 THEN Len(url) ELSE path - 1))

(* Some address that a request can have fits the call and the endpoint.    *)
Answers(call, endpoint) ==
    LET from == PathOf(call)
        to   == PathOf(endpoint)
        names == ToSet(from) \cup ToSet(to) \cup {<<"1">>}
        fits(address, p) == \A i \in DOMAIN p : IsPathParam(p[i]) \/ address[i] = p[i] IN
    /\ Len(from) = Len(to)
    /\ \E address \in [DOMAIN from -> {s \in names : ~IsPathParam(s)}] :
          fits(address, from) /\ fits(address, to)

Calls(N) ==
    {q \in {n \in N : n.kind = "api-call-site"} \X {n \in N : n.kind = "spring-endpoint"} :
        q[1].meta.httpMethod = q[2].meta.httpMethod}

Callable(N) == {q \in Calls(N) : Answers(q[1].meta.url, q[2].meta.path)}

(* The URLs the linker does not take as what they are: one with a query,   *)
(* which it compares with the last segment, and one whose first segment    *)
(* only begins with the base of the API, which it cuts in two.             *)
Mistaken(url) ==
    \/ ToSet(url) \cap Queries # {}
    \/ IsPrefix(ApiBaseUrl, url) /\ ~UnderBase(url)

LinkedCalls(N) == {q \in Calls(N) : <<q[1].id, "api-call", q[2].id>> \in {e.id : e \in graph.edges}}

---------------------------------------------------------------------------
(* No link is lost, none is invented.  After every resolve, whatever the   *)
(* order of the files was and whichever came late: an edge to a name that  *)
(* some file of the project has leads to such a file and no longer to the  *)
(* name; one that nothing has is as it was written; a call of the front    *)
(* end reaches the endpoints that could serve it and no other, where no    *)
(* URL is mistaken; a mapper is tied to a class of its name; and to        *)
(* resolve again changes nothing.  Where several files have the name any   *)
(* of them will do: which one it is depends on the order of the files.     *)
LinksExact ==
    phase = "watching" =>
        LET ids == {e.id : e \in graph.edges}
            N == Declared
            written == {[edge |-> e, ends |-> Ends(N, e)] : e \in
                           {x \in Written : x.kind # "native-call"}} IN
        /\ \A w \in written :
              IF w.ends = {} THEN w.edge.id \in ids
              ELSE w.edge.id \notin ids /\ \E t \in w.ends : Moved(w.edge, t) \in ids
        /\ {<<e.source, e.target>> : e \in {x \in graph.edges : x.source[1] = "api-call"}}
               = {<<q[1].id, q[2].id>> : q \in LinkedCalls(N)}
        /\ \A q \in Calls(N) : ~Mistaken(q[1].meta.url) /\ ~Mistaken(q[2].meta.path) =>
              (q \in LinkedCalls(N) <=> q \in Callable(N))
        /\ \A e \in {x \in graph.edges : x.kind \in
                        {"imports", "uses-component", "uses-store", "uses-composable",
                         "route-renders", "listens-event"}} :
              \E w \in written : e = w.edge \/ \E t \in w.ends : Moved(w.edge, t) = e.id
        /\ \A m \in N : m.kind = "mybatis-mapper" =>
              LET own == {n \in N : /\ n.kind \in {"spring-service", "spring-controller"}
                                 /\ n.meta.className = Last(m.meta.fqn)} IN
              own # {} => \E n \in own : <<n.id, "spring-injects", m.id>> \in ids
        /\ Resolve(graph) = graph

---------------------------------------------------------------------------
(* The DTO that is declared once on each side, and what it looks like.     *)

DtoFiles(N, dto) == {n \in N : n.kind = "spring-dto" /\ Label(n) = dto}

Interfaces(N, dto) ==
    UNION {{<<n, i>> : i \in {k \in DOMAIN n.meta.types : n.meta.types[k].name = dto}}
              : n \in {x \in N : x.kind = "ts-module"}}

TheFields(N, dto) == (CHOOSE n \in DtoFiles(N, dto) : TRUE).meta.fields
TheInterface(N, dto) ==
    LET d == CHOOSE d \in Interfaces(N, dto) : TRUE IN ToSet(d[1].meta.types[d[2]].fields)

(* The DTOs of the types of an endpoint, which in Kotlin are not known.    *)
Signature(n) ==
    {d \in DtoSuffixed : /\ n.meta.returnType # Missing
                         /\ \E t \in {n.meta.returnType} \cup n.meta.paramTypes :
                               d \in {t} \cup {Argument[u] : u \in {t} \cap DOMAIN Argument}}

(* A field of one side that the other has not, or has otherwise.           *)
Differs(N, dto) ==
    LET paired(b) == {f \in TheInterface(N, dto) : f.name = JsonName(b)}
        rows == {s \in N : /\ s.kind = "mybatis-statement"
                           /\ dto \in {s.meta.resultType, s.meta.parameterType}} IN
    \/ {f.name : f \in TheInterface(N, dto)} # {JsonName(b) : b \in TheFields(N, dto)}
    \/ \E b \in TheFields(N, dto) : \E f \in paired(b) :
          \/ ~AreTypesCompatible(b.typeRef, f.type)
          \/ b.nullable = "true" /\ ~f.optional
          \/ b.nullable = "false" /\ f.optional
    \/ rows # {} /\ \E b \in TheFields(N, dto) :
                       \A s \in rows : \A m \in s.meta.fieldMappings : m.property # b.name

(* The report of a DTO is what its sources say.  Of a DTO that is declared *)
(* once on each side, a path whose endpoint the front end is linked to is  *)
(* in the report exactly if the two declarations differ or a column is     *)
(* missing; a DTO without an interface always is; no other path is; and    *)
(* the edges of the flow, which are found by other code, connect the same  *)
(* files.                                                                  *)
DtoExact ==
    phase = "watching" =>
        LET N == Declared
            linked == LinkedCalls(N)
            report == CheckDtoConsistency(graph)
            ids    == {e.id : e \in graph.edges}
            called == UNION {{<<q[2].meta.path, d>> : d \in Signature(q[2])} : q \in linked} IN
        /\ {<<m.path, m.dto>> : m \in report} \subseteq called
        /\ \A p \in called :
              LET reported == \E m \in report : m.path = p[1] /\ m.dto = p[2] IN
              Cardinality(DtoFiles(N, p[2])) = 1 =>
                  /\ Interfaces(N, p[2]) = {} => reported
                  /\ Cardinality(Interfaces(N, p[2])) = 1 =>
                        /\ reported <=> Differs(N, p[2])
                        /\ \A i \in Interfaces(N, p[2]) : \A d \in DtoFiles(N, p[2]) :
                              <<i[1].id, "dto-flows", d.id>> \in ids
                  /\ \A q \in linked : p[2] \in Signature(q[2]) =>
                        \A d \in DtoFiles(N, p[2]) : <<q[2].id, "dto-flows", d.id>> \in ids
=============================================================================
