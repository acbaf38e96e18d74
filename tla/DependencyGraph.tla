-------------------------- MODULE DependencyGraph --------------------------
(***************************************************************************)
(* The in-memory graph of packages/core/src/graph/DependencyGraph.ts: the  *)
(* nodes, the edges and the four indexes that answer its queries, one      *)
(* operator per method.  A graph is a value, so that a module may apply    *)
(* several methods in one atomic step.                                     *)
(*                                                                         *)
(* The id of an edge is built from its source, its kind and a target name, *)
(* so Src, Kind and Dst are functions of the id.  One thing moves an edge  *)
(* afterwards: NativeBridgeLinker.ts assigns edge.target of a native-call  *)
(* edge in place.  The id of a node does not determine its file: every     *)
(* mapper XML that mentions a table emits the same node db-table:<name>.   *)
(***************************************************************************)
EXTENDS Naturals, FiniteSets

CONSTANTS
    NodeId,     \* ids of nodes, and the names of targets that are not nodes
    File,       \* node.filePath
    Virtual,    \* the empty filePath of the nodes the linkers create
    Edge,       \* ids of edges
    Kinds,      \* EdgeKind
    Src, Dst,   \* the ends an edge has when it is added
    Kind,       \* its kind
    Method,     \* the node NativeBridgeLinker points a native call to,
    Bridge,     \* the node of its interface,
    Serves,     \* and the edge between them
    Absent      \* undefined

Native == DOMAIN Method

ASSUME GraphAssumption ==
    /\ Absent \notin NodeId
    /\ Absent \notin File
    /\ Virtual \in File
    /\ Src \in [Edge -> NodeId]
    /\ Dst \in [Edge -> NodeId]
    /\ Kind \in [Edge -> Kinds]
    /\ Native \subseteq Edge
    /\ Method \in [Native -> NodeId]
    /\ Bridge \in [Native -> NodeId]
    /\ Serves \in [Native -> Edge \ Native]

ASSUME FiniteAssumption == IsFiniteSet(NodeId) /\ IsFiniteSet(Edge)

Graph == [node : [NodeId -> File \cup {Absent}],
          target : [Edge -> NodeId \cup {Absent}],
          adjacency : [NodeId -> SUBSET Edge],
          reverseAdjacency : [NodeId -> SUBSET Edge],
          fileIndex : [File -> SUBSET NodeId],
          edgesByKind : [Kinds -> SUBSET Edge],
          version : Nat]

EmptyGraph ==
    [node |-> [n \in NodeId |-> Absent],
     target |-> [e \in Edge |-> Absent],
     adjacency |-> [n \in NodeId |-> {}],
     reverseAdjacency |-> [n \in NodeId |-> {}],
     fileIndex |-> [f \in File |-> {}],
     edgesByKind |-> [k \in Kinds |-> {}],
     version |-> 0]

HasNode(g, n) == g.node[n] # Absent
HasEdge(g, e) == g.target[e] # Absent

NodesOf(g) == {n \in NodeId : HasNode(g, n)}
EdgesOf(g) == {e \in Edge : HasEdge(g, e)}

(* What getGraph() would serialise: the nodes and the edges with their ends. *)
Content(g) == <<NodesOf(g), {<<e, g.target[e]>> : e \in EdgesOf(g)}>>

---------------------------------------------------------------------------
(* Queries.                                                                *)

GetOutEdges(g, n) == {e \in g.adjacency[n] : HasEdge(g, e)}
GetInEdges(g, n)  == {e \in g.reverseAdjacency[n] : HasEdge(g, e)}
GetInDegree(g, n) == Cardinality(g.reverseAdjacency[n])
GetNodesByFile(g, f) == {n \in g.fileIndex[f] : HasNode(g, n)}
GetEdgesByKind(g, k) == {e \in g.edgesByKind[k] : HasEdge(g, e)}

---------------------------------------------------------------------------
(* Changes.                                                                *)

AddNode(g, n, f) ==
    [g EXCEPT !.node[n] = f,
              !.fileIndex[f] = @ \cup {n},
              !.version = @ + 1]

(* Mutation of AddEdge: the reverse index is forgotten.                    *)
AddEdgeForward(g, e) ==
    [g EXCEPT !.target[e] = Dst[e],
              !.adjacency[Src[e]] = @ \cup {e},
              !.edgesByKind[Kind[e]] = @ \cup {e},
              !.version = @ + 1]

AddEdge(g, e) ==
    [g EXCEPT !.target[e] = Dst[e],
              !.adjacency[Src[e]] = @ \cup {e},
              !.reverseAdjacency[Dst[e]] = @ \cup {e},
              !.edgesByKind[Kind[e]] = @ \cup {e},
              !.version = @ + 1]

(* dropEdge() of removeNode() for the edges of S, those of them there are. *)
DropEdges(g, S) ==
    LET D == {e \in S : HasEdge(g, e)} IN
    [g EXCEPT
        !.target = [e \in Edge |-> IF e \in D THEN Absent ELSE g.target[e]],
        !.adjacency = [n \in NodeId |-> g.adjacency[n] \ {e \in D : Src[e] = n}],
        !.reverseAdjacency =
            [n \in NodeId |-> g.reverseAdjacency[n] \ {e \in D : g.target[e] = n}],
        !.edgesByKind = [k \in Kinds |-> g.edgesByKind[k] \ {e \in D : Kind[e] = k}]]

RemoveEdge(g, e) ==
    IF HasEdge(g, e) THEN [DropEdges(g, {e}) EXCEPT !.version = @ + 1] ELSE g

Incident(g, N) == UNION {g.adjacency[n] \cup g.reverseAdjacency[n] : n \in N}

(* Mutation of RemoveNodes: the edges of the nodes stay.                   *)
RemoveNodesKeepingEdges(g, N) ==
    LET P == {n \in N : HasNode(g, n)} IN
    [g EXCEPT
        !.node = [n \in NodeId |-> IF n \in P THEN Absent ELSE g.node[n]],
        !.version = @ + Cardinality(P)]

(* Mutation of RemoveNodes: the version stays.                             *)
RemoveNodesUncounted(g, N) ==
    LET P == {n \in N : HasNode(g, n)} IN
    [DropEdges(g, Incident(g, P)) EXCEPT
        !.node = [n \in NodeId |-> IF n \in P THEN Absent ELSE g.node[n]]]

(* removeNode() for each node of N.  The node leaves the index of the file *)
(* it has now; the empty filePath is skipped.                              *)
RemoveNodes(g, N) ==
    LET P == {n \in N : HasNode(g, n)}
        d == DropEdges(g, Incident(g, P)) IN
    [d EXCEPT
        !.node = [n \in NodeId |-> IF n \in P THEN Absent ELSE g.node[n]],
        !.adjacency = [n \in NodeId |-> IF n \in P THEN {} ELSE d.adjacency[n]],
        !.reverseAdjacency =
            [n \in NodeId |-> IF n \in P THEN {} ELSE d.reverseAdjacency[n]],
        !.fileIndex =
            [f \in File |-> IF f = Virtual THEN g.fileIndex[f]
                            ELSE g.fileIndex[f] \ {n \in P : g.node[n] = f}],
        !.version = @ + Cardinality(P)]

(* removeByFile(f): its graph and the files it returns.                    *)
RemoveByFile(g, f) ==
    [RemoveNodes(g, g.fileIndex[f]) EXCEPT !.fileIndex[f] = {}]

(* Mutation of Dependents: the files the removed nodes depend on.          *)
DependentsByOutEdges(g, f) ==
    {h \in File \ {f, Virtual} :
        \E n \in g.fileIndex[f] : \E e \in g.adjacency[n] :
            HasEdge(g, e) /\ g.node[g.target[e]] = h}

Dependents(g, f) ==
    {h \in File \ {f, Virtual} :
        \E n \in g.fileIndex[f] : \E e \in g.reverseAdjacency[n] :
            HasEdge(g, e) /\ g.node[Src[e]] = h}

(* NativeBridgeLinker.link() for one native-call edge: the nodes of the    *)
(* interface and of the method are created when they are missing, and      *)
(* edge.target is assigned behind the graph's back.                        *)
WithBridge(g, e) ==
    IF HasNode(g, Bridge[e]) THEN g ELSE AddNode(g, Bridge[e], Virtual)

WithMethod(g, e) ==
    IF HasNode(g, Method[e]) THEN g
    ELSE AddEdge(AddNode(g, Method[e], Virtual), Serves[e])

LinkNative(g, e) == [WithMethod(WithBridge(g, e), e) EXCEPT !.target[e] = Method[e]]
---------------------------------------------------------------------------
(* What the indexes mean.                                                  *)

OutIndexed(g) ==
    \A n \in NodeId : g.adjacency[n] = {e \in Edge : HasEdge(g, e) /\ Src[e] = n}

(* Native calls apart, whose target moves without the index.               *)
InIndexed(g) ==
    \A n \in NodeId :
        g.reverseAdjacency[n] \ Native =
            {e \in Edge \ Native : HasEdge(g, e) /\ g.target[e] = n}

KindIndexed(g) ==
    \A k \in Kinds : g.edgesByKind[k] = {e \in Edge : HasEdge(g, e) /\ Kind[e] = k}

FileIndexed(g) == \A n \in NodeId : HasNode(g, n) => n \in g.fileIndex[g.node[n]]

(* Only a native call ever leaves the target it was added with.            *)
Anchored(g) ==
    \A e \in Edge : HasEdge(g, e) =>
        g.target[e] = Dst[e] \/ (e \in Native /\ g.target[e] = Method[e])

(* Both ends of the edge are in the graph.                                 *)
Linked(g, e) == HasEdge(g, e) /\ HasNode(g, Src[e]) /\ HasNode(g, g.target[e])
===========================================================================
