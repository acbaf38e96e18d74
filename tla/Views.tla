------------------------------- MODULE Views -------------------------------
(***************************************************************************)
(* What the server shows of a graph, a part or a summary at a time: the    *)
(* read-only methods of packages/server/src/engine.ts.  A path is the      *)
(* sequence of its names.  The summaries are left unsorted, and with all   *)
(* the directories instead of the five largest.                            *)
(***************************************************************************)
EXTENDS LayerDsl

CONSTANTS
    PathOf,        \* the path of a file from the project's root, its name included
    Features       \* the entry files of the config's features

(* A file is not a directory of another.                                   *)
ASSUME ViewsAssumption ==
    /\ \A f \in File \ {Virtual} : PathOf[f] # <<>> /\ PathOf[f] \in Seq(ToSet(PathOf[f]))
    /\ \A f, h \in File \ {Virtual} : IsPrefix(PathOf[f], PathOf[h]) => PathOf[f] = PathOf[h]
    /\ Features \subseteq File \ {Virtual}

CountBy(S, F(_)) == [k \in {F(x) : x \in S} |-> Cardinality({x \in S : F(x) = k})]

---------------------------------------------------------------------------
(* Services and directories.                                               *)

(* metadata.serviceId; the node of a service carries that of the service.  *)
ServiceKey(n) ==
    IF n \notin DOMAIN FileOf THEN CHOOSE s \in Service : ServiceNode[s] = n
    ELSE IF ServiceOf[n] = Absent THEN "__root__" ELSE ServiceOf[n]

OfService(g, s) == {n \in NodesOf(g) : ServiceKey(n) = s}

GetDirectoryAtDepth(f, depth) ==
    IF f = Virtual THEN <<>> ELSE SubSeq(PathOf[f], 1, Min({depth, Len(PathOf[f]) - 1}))

(* Mutation of GetOverview: an edge is counted where it starts.            *)
OverviewBySource(g) ==
    [s \in {ServiceKey(n) : n \in NodesOf(g)} |->
        LET N == OfService(g, s) IN
        [nodeCount |-> Cardinality(N),
         edgeCount |-> Cardinality({e \in EdgesOf(g) : Src[e] \in N}),
         nodesByKind |-> CountBy(N, LAMBDA n : NodeKind[n]),
         directories |-> CountBy({n \in N : GetDirectoryAtDepth(g.node[n], 3) # <<>>},
                                 LAMBDA n : GetDirectoryAtDepth(g.node[n], 3))]]

GetOverview(g) ==
    [s \in {ServiceKey(n) : n \in NodesOf(g)} |->
        LET N == OfService(g, s) IN
        [nodeCount |-> Cardinality(N),
         edgeCount |-> Cardinality({e \in EdgesOf(g) :
                          Src[e] \in NodesOf(g) /\ g.target[e] \in NodesOf(g)
                          /\ ServiceKey(Src[e]) = s /\ ServiceKey(g.target[e]) = s}),
         nodesByKind |-> CountBy(N, LAMBDA n : NodeKind[n]),
         directories |-> CountBy({n \in N : GetDirectoryAtDepth(g.node[n], 3) # <<>>},
                                 LAMBDA n : GetDirectoryAtDepth(g.node[n], 3))]]

SubgraphFromNodes(g, N) ==
    [nodes |-> N, edges |-> EdgesWithin(g, N), fileCount |-> Cardinality({g.node[n] : n \in N})]

GetServiceGraph(g, s) == SubgraphFromNodes(g, OfService(g, s))

GetDirectoryGraph(g, path) ==
    SubgraphFromNodes(g, {n \in NodesOf(g) : g.node[n] # Virtual /\ IsPrefix(path, PathOf[g.node[n]])})

(* The edges counted in each cell; a file at the root is in no module.     *)
GetMatrixData(g, depth) ==
    LET module  == [n \in NodesOf(g) |-> GetDirectoryAtDepth(g.node[n], depth)]
        modules == {module[n] : n \in NodesOf(g)} \ {<<>>}
        within  == EdgesWithin(g, NodesOf(g)) IN
    [cell \in modules \X modules |->
        {e \in within : module[Src[e]] = cell[1] /\ module[g.target[e]] = cell[2]}]

---------------------------------------------------------------------------
(* Features.                                                               *)

GetFeatureSlice(g, entry) ==
    LET reachable == ReachableFromEntrypoints(g, GetNodesByFile(g, entry)) IN
    [nodes |-> reachable \cap NodesOf(g), edges |-> EdgesWithin(g, reachable)]

(* The shared nodes of each two features that have any.                    *)
GetFeatureIntersections(g) ==
    LET shared(p) == GetFeatureSlice(g, p[1]).nodes \cap GetFeatureSlice(g, p[2]).nodes IN
    [p \in {q \in Features \X Features : q[1] # q[2] /\ shared(q) # {}} |-> shared(p)]

---------------------------------------------------------------------------
(* Drilling down from a summary shows what the summary counts: a service's *)
(* graph has the numbers of the overview, an edge is in the graph of no    *)
(* service only if it joins two, a finer matrix splits the cells of a      *)
(* coarser one, and a module's own cell is the graph of its directory.     *)
DrillDownAdds ==
    LET overview == GetOverview(graph)
        matrix   == [depth \in 1..3 |-> GetMatrixData(graph, depth)] IN
    /\ \A s \in DOMAIN overview :
          LET sub == GetServiceGraph(graph, s) IN
          /\ overview[s].nodeCount = Cardinality(sub.nodes)
          /\ overview[s].edgeCount = Cardinality(sub.edges)
    /\ \A e \in EdgesWithin(graph, NodesOf(graph)) :
          (\E s \in DOMAIN overview : e \in GetServiceGraph(graph, s).edges)
              <=> ServiceKey(Src[e]) = ServiceKey(graph.target[e])
    /\ \A depth \in 1..2 : \A cell \in DOMAIN matrix[depth] :
          matrix[depth][cell] = UNION {matrix[depth + 1][finer] :
              finer \in {c \in DOMAIN matrix[depth + 1] :
                            IsPrefix(cell[1], c[1]) /\ IsPrefix(cell[2], c[2])
                            /\ \A i \in 1..2 : Len(cell[i]) < depth => c[i] = cell[i]}}
    /\ \A depth \in 1..3 : \A cell \in DOMAIN matrix[depth] :
          cell[1] = cell[2] /\ Len(cell[1]) = depth =>
              matrix[depth][cell] = GetDirectoryGraph(graph, cell[1]).edges

(* A feature is whole: what would go dead without a file is in the feature *)
(* that starts there, nothing dead is in a feature whose entry is alive,   *)
(* and a feature that starts inside another shares all of itself with it.  *)
FeaturesWhole ==
    LET slice  == [f \in File \ {Virtual} |-> GetFeatureSlice(graph, f).nodes]
        alive  == ReachableFromEntrypoints(graph, CollectEntrypoints(graph))
        shared == GetFeatureIntersections(graph) IN
    /\ \A f \in File \ {Virtual} :
          /\ WouldGoDead(graph, f) \cap NodesOf(graph) \subseteq slice[f]
          /\ NodesByFile(graph, f) \subseteq alive => slice[f] \cap FindDeadNodes(graph) = {}
    /\ \A p \in DOMAIN shared :
          NodesByFile(graph, p[2]) \subseteq slice[p[1]] => shared[p] = slice[p[2]]

ViewsAgree == LayersAgree /\ (Asked => DrillDownAdds /\ FeaturesWhole)
===========================================================================
