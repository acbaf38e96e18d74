------------------------------ MODULE Queries ------------------------------
(***************************************************************************)
(* What is asked of a graph: packages/core/src/graph/query.ts and the      *)
(* analyzers that only count or collect (impact, orphans, complexity).     *)
(*                                                                         *)
(* The searches are written by layers: after k steps a breadth-first       *)
(* search has seen what is at most k edges away, whatever order its queue  *)
(* has.  A path is the sequence of its edges, because two edges between    *)
(* the same nodes give the route twice.                                    *)
(***************************************************************************)
EXTENDS DependencyGraph, SequencesExt

CONSTANT NodeKind    \* node.kind, which is part of the id

ASSUME NodeKindAssumption == DOMAIN NodeKind = NodeId

NodesOfKind(g, K) == {n \in NodesOf(g) : NodeKind[n] \in K}

Unlimited == Cardinality(NodeId)    \* depth Infinity

(* A new graph of nodes N and edges E of g, filled in by addNode() and     *)
(* addEdge().                                                              *)
SubGraph(g, N, E) ==
    [node |-> [n \in NodeId |-> IF n \in N THEN g.node[n] ELSE Absent],
     target |-> [e \in Edge |-> IF e \in E THEN g.target[e] ELSE Absent],
     adjacency |-> [n \in NodeId |-> {e \in E : Src[e] = n}],
     reverseAdjacency |-> [n \in NodeId |-> {e \in E : g.target[e] = n}],
     fileIndex |-> [f \in File |-> {n \in N : g.node[n] = f}],
     edgesByKind |-> [k \in Kinds |-> {e \in E : Kind[e] = k}],
     version |-> Cardinality(N) + Cardinality(E)]

EdgesWithin(g, N) == {e \in EdgesOf(g) : Src[e] \in N /\ g.target[e] \in N}

FilterByKind(g, nodeKinds, edgeKinds) ==
    LET N == NodesOfKind(g, nodeKinds) IN
    SubGraph(g, N, {e \in EdgesWithin(g, N) : Kind[e] \in edgeKinds})

---------------------------------------------------------------------------
(* Reachability.                                                           *)

Neighbours(g, n, direction) ==
    LET out == {g.target[e] : e \in GetOutEdges(g, n)}
        in  == {Src[e] : e \in GetInEdges(g, n)} IN
    CASE direction = "out"  -> out
      [] direction = "in"   -> in
      [] direction = "both" -> out \cup in

(* Mutation of ReachableFrom: the search goes one layer too far.           *)
ReachableTooFar(g, n, direction, maxDepth) ==
    LET visited[k \in Nat] ==
            IF k = 0 THEN {n}
            ELSE LET seen == visited[k - 1] IN
                 seen \cup UNION {Neighbours(g, m, direction) : m \in seen} IN
    visited[maxDepth + 1] \ {n}

ReachableFrom(g, n, direction, maxDepth) ==
    LET visited[k \in Nat] ==
            IF k = 0 THEN {n}
            ELSE LET seen == visited[k - 1] IN
                 seen \cup UNION {Neighbours(g, m, direction) : m \in seen} IN
    visited[maxDepth] \ {n}

ImpactOf(g, n, maxDepth) ==
    LET reachable == ReachableFrom(g, n, "in", maxDepth) IN
    [nodes |-> reachable \cap NodesOf(g), edges |-> EdgesWithin(g, reachable \cup {n})]

SubgraphAround(g, n, depth) ==
    LET all == {n} \cup ReachableFrom(g, n, "out", depth) \cup ReachableFrom(g, n, "in", depth)
    IN  SubGraph(g, all \cap NodesOf(g), EdgesWithin(g, all))

---------------------------------------------------------------------------
(* Paths.                                                                  *)

StepEnd(g, e, direction) == IF direction = "forward" THEN g.target[e] ELSE Src[e]

OnPath(g, from, p, direction) == {from} \cup {StepEnd(g, p[i], direction) : i \in DOMAIN p}

PathEnd(g, from, p, direction) == IF p = <<>> THEN from ELSE StepEnd(g, Last(p), direction)

(* The paths findPaths() finds: no node twice, no step beyond `to`, at     *)
(* most maxDepth edges.  It stops at the first 100 of them.                *)
FindPaths(g, from, to, maxDepth, edgeKinds, direction) ==
    LET Steps(n) == IF direction = "forward" THEN GetOutEdges(g, n) ELSE GetInEdges(g, n)
        Extend(p) ==
            LET n == PathEnd(g, from, p, direction) IN
            IF n = to THEN {}
            ELSE {Append(p, e) : e \in {s \in Steps(n) :
                     Kind[s] \in edgeKinds
                     /\ StepEnd(g, s, direction) \notin OnPath(g, from, p, direction)}}
        tried[k \in Nat] ==
            IF k = 0 THEN {<<>>} ELSE UNION {Extend(p) : p \in tried[k - 1]} IN
    {p \in UNION {tried[k] : k \in 0..maxDepth} : PathEnd(g, from, p, direction) = to}

---------------------------------------------------------------------------
(* Analyzers that count and collect.                                       *)

AnalyzeImpact(g, n) ==
    IF ~HasNode(g, n) THEN [direct |-> {}, transitive |-> {}]
    ELSE [direct |-> Neighbours(g, n, "in") \cap NodesOf(g),
          transitive |-> ReachableFrom(g, n, "in", Unlimited) \cap NodesOf(g)]

FindOrphanNodes(g) ==
    {n \in NodesOf(g) : GetInEdges(g, n) = {} /\ GetOutEdges(g, n) = {}}

NotReferenced(g, kind, edgeKinds) ==
    {n \in NodesOfKind(g, {kind}) : \A e \in GetInEdges(g, n) : Kind[e] \notin edgeKinds}

FindUnusedComponents(g) == NotReferenced(g, "vue-component", {"uses-component", "route-renders"})
FindUnusedEndpoints(g)  == NotReferenced(g, "spring-endpoint", {"api-call"})

FanIn(g, n)  == Cardinality(GetInEdges(g, n))
FanOut(g, n) == Cardinality(GetOutEdges(g, n))

FindHubs(g, threshold) ==
    {n \in NodesOf(g) : FanIn(g, n) >= threshold \/ FanOut(g, n) >= threshold}
===========================================================================
