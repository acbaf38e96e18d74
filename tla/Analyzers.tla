----------------------------- MODULE Analyzers -----------------------------
(***************************************************************************)
(* The analyses of a whole project, over every graph its files may give:   *)
(* entry points and dead code (EntrypointCollector.ts,                     *)
(* DeadCodeDetector.ts), the decommissioning of a file (decommission.ts of *)
(* the command line), the impact of a change (ChangeImpactAnalyzer.ts) and *)
(* the graph of the services (MsaServiceGraphBuilder.ts).                  *)
(*                                                                         *)
(* The nodes are there from the start; edges are added one by one, files   *)
(* are removed as the watcher or a developer removes them, and the         *)
(* services are built or built again.  Every graph on the way is asked     *)
(* everything.                                                             *)
(***************************************************************************)
EXTENDS Queries

CONSTANTS
    FileOf,        \* node.filePath of the nodes the parsers emit
    Order,         \* the edges the parsers and the linkers emit, in the order of
                   \* the files: a Map iterates them as they were added
    Scheduled,     \* the services with metadata.hasScheduled
    UnderEntry,    \* the modules whose path is that of an entry: src/main.ts, bin/
    ServiceOf,     \* metadata.serviceId of a node, Absent if it has none
    Declared,      \* the ids of the config's services[]
    ServiceNode,   \* msa-service:<id>
    ServiceEdge,   \* <service>:<kind>:<service>, for each such triple
    Unassigned,    \* the service of the nodes without serviceId
    DtoOf,         \* the dto node an endpoint's return and parameter types name
    MaxRemovals    \* bound on the files removed

Service == DOMAIN ServiceNode
Parsed  == ToSet(Order)

(* Native calls are left out: their targets move (NativeBridgeLinker.ts).  *)
ASSUME AnalyzerAssumption ==
    /\ Native = {} /\ {"api-call", "listens-event"} \subseteq Kinds
    /\ DOMAIN FileOf \subseteq NodeId
    /\ \A n \in DOMAIN FileOf : FileOf[n] \in File
    /\ Order \in Seq(Edge)
    /\ \A n \in DOMAIN FileOf : ServiceOf[n] \in Service \cup {Absent}
    /\ Declared \subseteq Service /\ Unassigned \in Service /\ Absent \notin Service
    /\ \A s \in Service : ServiceNode[s] \in NodeId \ DOMAIN FileOf

(* A service listens to an event, whose node the resolver makes without a  *)
(* file (JavaFileParser.ts:490, CrossBoundaryResolver.ts:280).             *)
ASSUME ListensAssumption ==
    \A e \in Edge :
        Kind[e] = "listens-event" /\ NodeKind[Dst[e]] = "spring-service"
            /\ Src[e] \in DOMAIN FileOf => FileOf[Src[e]] = Virtual

---------------------------------------------------------------------------
(* Entry points and dead code.                                             *)

CollectEntrypoints(g) ==
    LET listens == {g.target[e] : e \in GetEdgesByKind(g, "listens-event")} IN
    {n \in NodesOf(g) :
        \/ NodeKind[n] \in {"spring-controller", "vue-router-route", "native-bridge"}
        \/ NodeKind[n] = "spring-service" /\ n \in Scheduled \cup listens
        \/ NodeKind[n] = "ts-module" /\ n \in UnderEntry}

(* A shared DTO or the reverse of api-serves keeps nothing alive.          *)
Followed(g, n) ==
    {g.target[e] : e \in {o \in GetOutEdges(g, n) : Kind[o] \notin {"dto-flows", "api-implements"}}}

(* What the depth-first search visits from `from` without entering `shut`. *)
Walk(g, from, shut) ==
    LET visited[k \in Nat] ==
            IF k = 0 THEN from
            ELSE LET seen == visited[k - 1] IN
                 seen \cup ((UNION {Followed(g, m) : m \in seen}) \ shut) IN
    visited[Unlimited]

ReachableFromEntrypoints(g, entrypoints) == Walk(g, entrypoints, {})

NeverDead == {"vue-event", "spring-event", "db-table", "mybatis-statement"}

FindDeadNodes(g) ==
    LET alive == ReachableFromEntrypoints(g, CollectEntrypoints(g)) IN
    {n \in NodesOf(g) \ alive : NodeKind[n] \notin NeverDead}

---------------------------------------------------------------------------
(* vda decommission <file>.                                                *)

NodesByFile(g, f) == {n \in NodesOf(g) : g.node[n] = f}

(* Mutation of WouldGoDead: the entry points of the file still count.      *)
WouldGoDeadFromAll(g, f) ==
    LET target == NodesByFile(g, f)
        entrypoints == CollectEntrypoints(g) IN
    (ReachableFromEntrypoints(g, entrypoints) \ target) \ (Walk(g, entrypoints, {}) \ target)

WouldGoDead(g, f) ==
    LET target == NodesByFile(g, f)
        entrypoints == CollectEntrypoints(g) IN
    (ReachableFromEntrypoints(g, entrypoints) \ target)
        \ Walk(g, entrypoints \ target, target)

(* The files that can go with f: every node of theirs would go dead.       *)
SafeToDelete(g, f) ==
    {h \in File \ {f, Virtual} :
        NodesByFile(g, h) # {} /\ NodesByFile(g, h) \subseteq WouldGoDead(g, f)}

(* What f refers to that lives on without it.                              *)
StillUsed(g, f) ==
    LET target == NodesByFile(g, f) IN
    (UNION {Followed(g, n) : n \in target})
        \cap (NodesOf(g) \ target) \cap Walk(g, CollectEntrypoints(g) \ target, target)

---------------------------------------------------------------------------
(* Impact of changed files.  changed is the sequence of their nodes, in    *)
(* the order the files and the index give them.                            *)

ChangedNodes(g, files) == UNION {GetNodesByFile(g, f) : f \in files}

(* Mutation of ChangeImpact: only the last changed node is followed.       *)
ImpactOfLast(g, changed) ==
    LET C == ToSet(changed) IN
    FoldLeft(LAMBDA impact, n :
                LET direct == {Src[e] : e \in GetInEdges(g, n)} \ C IN
                [direct |-> impact.direct \cup direct,
                 transitive |-> ReachableFrom(g, n, "in", Unlimited) \ (C \cup direct)],
             [direct |-> {}, transitive |-> {}], changed)

ChangeImpact(g, changed) ==
    LET C == ToSet(changed) IN
    FoldLeft(LAMBDA impact, n :
                LET direct == impact.direct \cup ({Src[e] : e \in GetInEdges(g, n)} \ C)
                    reachable == ReachableFrom(g, n, "in", Unlimited) IN
                [direct |-> direct,
                 transitive |-> impact.transitive \cup (reachable \ (C \cup direct))],
             [direct |-> {}, transitive |-> {}], changed)

AffectedOf(g, changed, kind) ==
    LET impact == ChangeImpact(g, changed) IN
    NodesOfKind(g, {kind}) \cap (ToSet(changed) \cup impact.direct \cup impact.transitive)

---------------------------------------------------------------------------
(* The graph of the services.                                              *)

HomeOf(n) ==
    IF n \in DOMAIN FileOf /\ ServiceOf[n] # Absent THEN ServiceOf[n] ELSE Unassigned

NodeServiceId(g, n) == IF HasNode(g, n) THEN HomeOf(n) ELSE Unassigned

ServicesSeen(g) == Declared \cup {NodeServiceId(g, n) : n \in NodesOf(g) \cap DOMAIN FileOf}

Accesses(g, e, kind, table) ==
    /\ HasEdge(g, e) /\ Kind[e] = kind /\ g.target[e] = table
    /\ NodeServiceId(g, Src[e]) # Unassigned

(* The first service to write the table, or else the first to read it.     *)
TableOwner(g, table) ==
    LET First(kind) == SelectInSeq(Order, LAMBDA e : Accesses(g, e, kind, table))
        w == First("writes-table")
        r == First("reads-table") IN
    CASE w # 0 -> NodeServiceId(g, Src[Order[w]])
      [] w = 0 /\ r # 0 -> NodeServiceId(g, Src[Order[r]])
      [] OTHER -> Absent

(* Mutation of TableKinds: a reader is no accessor.                        *)
WritingKinds == {"writes-table"}

TableKinds == {"reads-table", "writes-table"}

(* Each link that two services may come to have has an id, made of its     *)
(* ends and its kind.                                                      *)
LinkKinds == {"service-calls", "service-shares-db", "service-shares-dto"}

Named(s, kind, o) == s # o => <<s, kind, o>> \in DOMAIN ServiceEdge

ASSUME ServiceEdgeAssumption ==
    /\ \A t \in DOMAIN ServiceEdge :
          /\ t[1] \in Service /\ t[2] \in LinkKinds /\ t[3] \in Service
          /\ ServiceEdge[t] \in Edge
          /\ Src[ServiceEdge[t]] = ServiceNode[t[1]]
          /\ Kind[ServiceEdge[t]] = t[2]
          /\ Dst[ServiceEdge[t]] = ServiceNode[t[3]]
    /\ \A e \in Edge : Kind[e] = "api-call" =>
          Named(HomeOf(Src[e]), "service-calls", HomeOf(Dst[e]))
    /\ \A e, d \in {a \in Edge : Kind[a] \in TableKinds} : Dst[e] = Dst[d] =>
          Named(HomeOf(Src[e]), "service-shares-db", HomeOf(Src[d]))
    /\ \A n \in DOMAIN DtoOf : Named(HomeOf(n), "service-shares-dto", HomeOf(DtoOf[n]))

ServiceLinks(g) ==
    LET Sid(n) == NodeServiceId(g, n)
        calls == {<<Sid(Src[e]), "service-calls", Sid(g.target[e])>> :
                     e \in {c \in GetEdgesByKind(g, "api-call") :
                               HasNode(g, Src[c]) /\ HasNode(g, g.target[c])
                               /\ NodeKind[g.target[c]] = "spring-endpoint"}}
        tables == {<<Sid(Src[e]), "service-shares-db", TableOwner(g, g.target[e])>> :
                     e \in {a \in EdgesOf(g) : Kind[a] \in TableKinds /\ Sid(Src[a]) # Unassigned}}
        dtos == {<<Sid(n), "service-shares-dto", Sid(DtoOf[n])>> :
                     n \in {m \in NodesOf(g) \cap DOMAIN DtoOf :
                               HasNode(g, DtoOf[m])
                               /\ Unassigned \notin {Sid(m), Sid(DtoOf[m])}}} IN
    {t \in calls \cup tables \cup dtos : t[1] # t[3] /\ t[3] # Absent}

(* Nodes and edges that are there already are left as they are; nothing is *)
(* ever taken away.                                                        *)
BuildServices(g) ==
    LET seen  == {ServiceNode[s] : s \in ServicesSeen(g)}
        nodes == FoldSet(LAMBDA n, h : AddNode(h, n, Virtual), g, seen \ NodesOf(g))
        links == {ServiceEdge[t] : t \in ServiceLinks(g)} IN
    FoldSet(LAMBDA e, h : AddEdge(h, e), nodes, links \ EdgesOf(g))

---------------------------------------------------------------------------
VARIABLES
    graph,
    built,      \* the services were built since a file was removed
    removals

vars == <<graph, built, removals>>

Init ==
    /\ graph = FoldSet(LAMBDA n, g : AddNode(g, n, FileOf[n]), EmptyGraph, DOMAIN FileOf)
    /\ built = FALSE
    /\ removals = 0

(* An edge of a file that is parsed or linked.                             *)
Emit(e) ==
    /\ ~built /\ removals = 0
    /\ HasNode(graph, Src[e]) /\ ~HasEdge(graph, e)
    /\ graph' = AddEdge(graph, e)
    /\ UNCHANGED <<built, removals>>

Build ==
    /\ ~built
    /\ graph' = BuildServices(graph)
    /\ built' = TRUE
    /\ UNCHANGED removals

RemoveFile(f) ==
    /\ built /\ removals < MaxRemovals
    /\ graph' = RemoveByFile(graph, f)
    /\ removals' = removals + 1
    /\ built' = FALSE

Next ==
    \/ \E e \in Parsed : Emit(e)
    \/ Build
    \/ \E f \in File \ {Virtual} : RemoveFile(f)

Spec == Init /\ [][Next]_vars
---------------------------------------------------------------------------
(* When a run has just finished; the run may have emitted any of the edges, *)
(* so that every graph there is comes by here once.                        *)
Asked == built /\ removals = 0

(* A search forward and a search backward go through different indexes and *)
(* answer the same question: within any depth, m can be reached from n iff *)
(* n can be reached back from m, iff findPaths() has a path of that length *)
(* (reachableFrom() counts steps in a queue, findPaths() on its stack),    *)
(* and every path found backward is a path found forward read in the other *)
(* direction.  Native calls would break it: their targets move.            *)
SearchesAgree ==
    \A n \in NodesOf(graph), d \in {1, 3} :
        LET out == ReachableFrom(graph, n, "out", d)
            Forward(m)  == FindPaths(graph, n, m, d, Kinds, "forward")
            Backward(m) == FindPaths(graph, m, n, d, Kinds, "reverse") IN
        \A m \in NodesOf(graph) \ {n} :
            /\ m \in out <=> n \in ReachableFrom(graph, m, "in", d)
            /\ m \in out <=> Forward(m) # {}
            /\ Backward(m) = {Reverse(p) : p \in Forward(m)}

(* Nor is a path cut short by the pictures drawn around its ends: all its  *)
(* edges are in the neighbourhood of its start and in the impact of its    *)
(* end.                                                                    *)
PicturesComplete ==
    \A n, m \in NodesOf(graph) :
        \A p \in FindPaths(graph, n, m, 2, Kinds, "forward") :
            /\ ToSet(p) \subseteq EdgesOf(SubgraphAround(graph, n, 2))
            /\ ToSet(p) \subseteq ImpactOf(graph, m, 2).edges

QueriesAgree == Asked => SearchesAgree /\ PicturesComplete

(* What a change touches does not depend on the order in which its files   *)
(* are listed: nothing that depends on a changed node is left out of the   *)
(* two lists, whichever way the search reaches it and whatever was listed  *)
(* before, nothing else is in them, and the direct ones are one edge away. *)
ImpactComplete ==
    Asked => \A files \in {{f, h} : f, h \in File \ {Virtual}} :
        LET C == ChangedNodes(graph, files)
            reached == (UNION {ReachableFrom(graph, n, "in", Unlimited) : n \in C}) \ C IN
        \A changed \in SetToSeqs(C) :
            LET impact == ChangeImpact(graph, changed) IN
            /\ impact.direct \cup impact.transitive = reached
            /\ impact.direct = (UNION {Neighbours(graph, n, "in") : n \in C}) \ C
            /\ \A kind \in {"vue-component", "spring-endpoint"} :
                  AffectedOf(graph, changed, kind) = NodesOfKind(graph, {kind}) \cap (reached \cup C)

(* The advice of vda decommission can be followed: once the file and all   *)
(* it says can go with it are removed, what is alive is what was alive     *)
(* without the file, nothing alive has lost an edge it is followed along,  *)
(* and what the report calls still in use is still alive.                  *)
DecommissionSafe ==
    LET alive == ReachableFromEntrypoints(graph, CollectEntrypoints(graph)) IN
    Asked => \A f \in File \ {Virtual} :
        LET gone   == {f} \cup SafeToDelete(graph, f)
            left   == FoldSet(LAMBDA h, g : RemoveByFile(g, h), graph, gone)
            living == ReachableFromEntrypoints(left, CollectEntrypoints(left)) IN
        /\ living \cap NodesOf(left) = (alive \cap NodesOf(left)) \ WouldGoDead(graph, f)
        /\ \A n \in living : Followed(graph, n) \cap NodesOf(left) = Followed(left, n) \cap NodesOf(left)
        /\ \A n \in living : \A m \in Followed(graph, n) :
              HasNode(graph, m) /\ graph.node[m] \in gone => graph.node[m] = f
        /\ StillUsed(graph, f) \subseteq living

(* The services that touch a table are tied together: one of them owns it  *)
(* (a writer, if anyone writes) and a build links each of the              *)
(* others to it, also the build after a file of one of them went away.     *)
Touching(table, kinds) ==
    {NodeServiceId(graph, Src[e]) : e \in {a \in EdgesOf(graph) :
        Kind[a] \in kinds /\ graph.target[a] = table}} \ {Unassigned}

TablesTied ==
    built => \A table \in NodesOf(graph) :
        LET writers == Touching(table, {"writes-table"})
            users   == Touching(table, {"reads-table", "writes-table"}) IN
        users # {} => \E owner \in users :
            /\ writers # {} => owner \in writers
            /\ \A s \in users \ {owner} :
                  HasEdge(graph, ServiceEdge[<<s, "service-shares-db", owner>>])
===========================================================================
