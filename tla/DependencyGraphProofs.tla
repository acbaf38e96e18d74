---------------------- MODULE DependencyGraphProofs ------------------------
(***************************************************************************)
(* Proofs about DependencyGraph.tla for any nodes, files and edges: every  *)
(* method keeps the indexes in sync.  The indexes alone are not inductive: *)
(* that adding an edge a second time leaves no entry behind under another  *)
(* target needs Anchored, that an edge only ever leaves the target it was  *)
(* added with when it is a native call.                                    *)
(*                                                                         *)
(* The last part is for the modules that apply several methods in one      *)
(* step: what each of them does to a sound graph, that what holds at first *)
(* and after every step of a fold holds of its result (FoldHolds), and     *)
(* that two folds in the same order keep what relates their steps          *)
(* (FoldsAgree).                                                           *)
(***************************************************************************)
EXTENDS DependencyGraph, SequencesExt, FiniteSetTheorems, WellFoundedInduction, TLAPS

Sound(g) ==
    /\ g \in Graph
    /\ OutIndexed(g)
    /\ InIndexed(g)
    /\ KindIndexed(g)
    /\ FileIndexed(g)
    /\ Anchored(g)

LEMMA EmptyGraphSound == Sound(EmptyGraph)
  BY GraphAssumption DEF Sound, EmptyGraph, Graph, OutIndexed, InIndexed, KindIndexed,
     FileIndexed, Anchored, HasNode, HasEdge

LEMMA AddNodeSound ==
  ASSUME NEW g, Sound(g), NEW n \in NodeId, NEW f \in File
  PROVE  Sound(AddNode(g, n, f))
<1> DEFINE h == AddNode(g, n, f)
<1>1. h \in Graph
  <2>1. g.node \in [NodeId -> File \cup {Absent}] /\ g.fileIndex \in [File -> SUBSET NodeId]
    BY DEF Graph, Sound
  <2>2. /\ [g.node EXCEPT ![n] = f] \in [NodeId -> File \cup {Absent}]
        /\ [g.fileIndex EXCEPT ![f] = @ \cup {n}] \in [File -> SUBSET NodeId]
        /\ g.version + 1 \in Nat
    BY <2>1 DEF Graph, Sound
  <2>3. h = [g EXCEPT !.node = [g.node EXCEPT ![n] = f],
                      !.fileIndex = [g.fileIndex EXCEPT ![f] = @ \cup {n}],
                      !.version = g.version + 1]
    BY DEF AddNode, Graph, Sound
  <2> QED
    BY <2>2, <2>3 DEF Graph, Sound
<1>2. /\ h \in Graph
      /\ h.node = [g.node EXCEPT ![n] = f]
      /\ h.fileIndex = [g.fileIndex EXCEPT ![f] = @ \cup {n}]
      /\ h.target = g.target
      /\ h.adjacency = g.adjacency
      /\ h.reverseAdjacency = g.reverseAdjacency
      /\ h.edgesByKind = g.edgesByKind
  BY <1>1 DEF AddNode, Graph, Sound
<1> HIDE DEF h
<1>3. OutIndexed(h) /\ InIndexed(h) /\ KindIndexed(h) /\ Anchored(h)
  BY <1>2 DEF Sound, OutIndexed, InIndexed, KindIndexed, Anchored, HasEdge
<1>4. FileIndexed(h)
  BY <1>2, GraphAssumption DEF Sound, Graph, FileIndexed, HasNode
<1>5. Sound(h)
  BY <1>2, <1>3, <1>4 DEF Sound
<1> QED
  BY <1>5 DEF h

LEMMA AddNodeTarget ==
  ASSUME NEW g, Sound(g), NEW n, NEW f
  PROVE  AddNode(g, n, f).target = g.target
<1>1. DOMAIN g = {"node", "target", "adjacency", "reverseAdjacency", "fileIndex",
                  "edgesByKind", "version"}
  BY DEF Sound, Graph
<1> QED
  BY <1>1 DEF AddNode

LEMMA AddEdgeSound ==
  ASSUME NEW g, Sound(g), NEW e \in Edge
  PROVE  Sound(AddEdge(g, e))
<1> DEFINE h == AddEdge(g, e)
<1>1. Src[e] \in NodeId /\ Dst[e] \in NodeId /\ Kind[e] \in Kinds /\ Absent \notin NodeId
  BY GraphAssumption
<1>2. h \in Graph
  <2>1. /\ g.target \in [Edge -> NodeId \cup {Absent}]
        /\ g.adjacency \in [NodeId -> SUBSET Edge]
        /\ g.reverseAdjacency \in [NodeId -> SUBSET Edge]
        /\ g.edgesByKind \in [Kinds -> SUBSET Edge]
    BY DEF Graph, Sound
  <2>2. /\ [g.target EXCEPT ![e] = Dst[e]] \in [Edge -> NodeId \cup {Absent}]
        /\ [g.adjacency EXCEPT ![Src[e]] = @ \cup {e}] \in [NodeId -> SUBSET Edge]
        /\ [g.reverseAdjacency EXCEPT ![Dst[e]] = @ \cup {e}] \in [NodeId -> SUBSET Edge]
        /\ [g.edgesByKind EXCEPT ![Kind[e]] = @ \cup {e}] \in [Kinds -> SUBSET Edge]
        /\ g.version + 1 \in Nat
    BY <1>1, <2>1 DEF Graph, Sound
  <2>3. h = [g EXCEPT !.target = [g.target EXCEPT ![e] = Dst[e]],
                      !.adjacency = [g.adjacency EXCEPT ![Src[e]] = @ \cup {e}],
                      !.reverseAdjacency = [g.reverseAdjacency EXCEPT ![Dst[e]] = @ \cup {e}],
                      !.edgesByKind = [g.edgesByKind EXCEPT ![Kind[e]] = @ \cup {e}],
                      !.version = g.version + 1]
    BY DEF AddEdge, Graph, Sound
  <2> QED
    BY Zenon, <2>2, <2>3 DEF Graph, Sound
<1>3. /\ h \in Graph
      /\ h.node = g.node
      /\ h.fileIndex = g.fileIndex
      /\ h.target = [g.target EXCEPT ![e] = Dst[e]]
      /\ h.adjacency = [g.adjacency EXCEPT ![Src[e]] = @ \cup {e}]
      /\ h.reverseAdjacency = [g.reverseAdjacency EXCEPT ![Dst[e]] = @ \cup {e}]
      /\ h.edgesByKind = [g.edgesByKind EXCEPT ![Kind[e]] = @ \cup {e}]
  BY Zenon, <1>2, <1>1 DEF AddEdge, Graph, Sound
<1>4. /\ \A d \in Edge : h.target[d] = IF d = e THEN Dst[e] ELSE g.target[d]
      /\ \A n \in NodeId : h.adjacency[n] =
            IF n = Src[e] THEN g.adjacency[n] \cup {e} ELSE g.adjacency[n]
      /\ \A n \in NodeId : h.reverseAdjacency[n] =
            IF n = Dst[e] THEN g.reverseAdjacency[n] \cup {e} ELSE g.reverseAdjacency[n]
      /\ \A k \in Kinds : h.edgesByKind[k] =
            IF k = Kind[e] THEN g.edgesByKind[k] \cup {e} ELSE g.edgesByKind[k]
  <2>1. /\ g.target \in [Edge -> NodeId \cup {Absent}]
        /\ g.adjacency \in [NodeId -> SUBSET Edge]
        /\ g.reverseAdjacency \in [NodeId -> SUBSET Edge]
        /\ g.edgesByKind \in [Kinds -> SUBSET Edge]
    BY DEF Graph, Sound
  <2> HIDE DEF h
  <2>2. \A d \in Edge : h.target[d] = IF d = e THEN Dst[e] ELSE g.target[d]
    BY <1>3, <2>1
  <2>3. \A n \in NodeId : h.adjacency[n] =
            IF n = Src[e] THEN g.adjacency[n] \cup {e} ELSE g.adjacency[n]
    BY <1>3, <2>1
  <2>4. \A n \in NodeId : h.reverseAdjacency[n] =
            IF n = Dst[e] THEN g.reverseAdjacency[n] \cup {e} ELSE g.reverseAdjacency[n]
    BY <1>3, <2>1
  <2>5. \A k \in Kinds : h.edgesByKind[k] =
            IF k = Kind[e] THEN g.edgesByKind[k] \cup {e} ELSE g.edgesByKind[k]
    BY <1>3, <2>1
  <2> QED
    BY <2>2, <2>3, <2>4, <2>5
<1> HIDE DEF h
<1>5. \A d \in Edge : HasEdge(h, d) <=> d = e \/ HasEdge(g, d)
  BY <1>1, <1>4 DEF HasEdge
<1>6. OutIndexed(h)
  <2> SUFFICES ASSUME NEW n \in NodeId
               PROVE  h.adjacency[n] = {d \in Edge : HasEdge(h, d) /\ Src[d] = n}
    BY DEF OutIndexed
  <2>1. g.adjacency[n] = {d \in Edge : HasEdge(g, d) /\ Src[d] = n}
    BY DEF Sound, OutIndexed
  <2>2. \A d \in Edge : d \in h.adjacency[n] <=> HasEdge(h, d) /\ Src[d] = n
    <3>1. h.adjacency[n] = IF n = Src[e] THEN g.adjacency[n] \cup {e} ELSE g.adjacency[n]
      BY <1>4
    <3> QED
      BY <1>5, <2>1, <3>1
  <2>3. h.adjacency[n] \subseteq Edge
    BY <1>3 DEF Graph
  <2> QED
    BY <2>2, <2>3
<1>7. InIndexed(h)
  <2> SUFFICES ASSUME NEW n \in NodeId
               PROVE  h.reverseAdjacency[n] \ Native =
                         {d \in Edge \ Native : HasEdge(h, d) /\ h.target[d] = n}
    BY DEF InIndexed
  <2>1. g.reverseAdjacency[n] \ Native =
           {d \in Edge \ Native : HasEdge(g, d) /\ g.target[d] = n}
    BY DEF Sound, InIndexed
  <2>2. e \notin Native /\ HasEdge(g, e) => g.target[e] = Dst[e]
    BY DEF Sound, Anchored
  <2>3. \A d \in Edge \ Native :
           d \in h.reverseAdjacency[n] <=> HasEdge(h, d) /\ h.target[d] = n
    <3>1. h.reverseAdjacency[n] = IF n = Dst[e] THEN g.reverseAdjacency[n] \cup {e}
                                  ELSE g.reverseAdjacency[n]
      BY <1>4
    <3>2. SUFFICES ASSUME NEW d \in Edge \ Native
                   PROVE  d \in h.reverseAdjacency[n] <=> HasEdge(h, d) /\ h.target[d] = n
      OBVIOUS
    <3>3. h.target[d] = IF d = e THEN Dst[e] ELSE g.target[d]
      BY <1>4
    <3>4. d \in g.reverseAdjacency[n] <=> HasEdge(g, d) /\ g.target[d] = n
      BY <2>1
    <3> QED
      BY <1>5, <2>2, <3>1, <3>3, <3>4
  <2>4. h.reverseAdjacency[n] \subseteq Edge
    BY <1>3 DEF Graph
  <2> QED
    BY <2>3, <2>4
<1>8. KindIndexed(h)
  <2> SUFFICES ASSUME NEW k \in Kinds
               PROVE  h.edgesByKind[k] = {d \in Edge : HasEdge(h, d) /\ Kind[d] = k}
    BY DEF KindIndexed
  <2>1. g.edgesByKind[k] = {d \in Edge : HasEdge(g, d) /\ Kind[d] = k}
    BY DEF Sound, KindIndexed
  <2>2. \A d \in Edge : d \in h.edgesByKind[k] <=> HasEdge(h, d) /\ Kind[d] = k
    <3>1. h.edgesByKind[k] = IF k = Kind[e] THEN g.edgesByKind[k] \cup {e}
                             ELSE g.edgesByKind[k]
      BY <1>4
    <3> QED
      BY <1>5, <2>1, <3>1
  <2>3. h.edgesByKind[k] \subseteq Edge
    BY <1>3 DEF Graph
  <2> QED
    BY <2>2, <2>3
<1>9. FileIndexed(h) /\ Anchored(h)
  BY <1>3, <1>4 DEF Sound, FileIndexed, Anchored, HasNode, HasEdge
<1>10. Sound(h)
  BY <1>3, <1>6, <1>7, <1>8, <1>9 DEF Sound
<1> QED
  BY <1>10 DEF h

LEMMA DropEdgesSound ==
  ASSUME NEW g, Sound(g), NEW S \in SUBSET Edge
  PROVE  Sound(DropEdges(g, S))
<1> DEFINE D == {e \in S : HasEdge(g, e)}
           h == DropEdges(g, S)
<1>1. /\ h \in Graph
      /\ h.node = g.node
      /\ h.fileIndex = g.fileIndex
      /\ \A e \in Edge : h.target[e] = IF e \in D THEN Absent ELSE g.target[e]
      /\ \A n \in NodeId : h.adjacency[n] = g.adjacency[n] \ {e \in D : Src[e] = n}
      /\ \A n \in NodeId :
            h.reverseAdjacency[n] = g.reverseAdjacency[n] \ {e \in D : g.target[e] = n}
      /\ \A k \in Kinds : h.edgesByKind[k] = g.edgesByKind[k] \ {e \in D : Kind[e] = k}
  BY Zenon DEF DropEdges, Graph, Sound
<1>2. D \subseteq Edge
  OBVIOUS
<1> HIDE DEF D, h
<1>3. OutIndexed(h)
  BY <1>1, <1>2 DEF Sound, OutIndexed, HasEdge
<1>4. InIndexed(h)
  BY <1>1, <1>2 DEF Sound, InIndexed, HasEdge
<1>5. KindIndexed(h)
  BY <1>1, <1>2 DEF Sound, KindIndexed, HasEdge
<1>6. FileIndexed(h) /\ Anchored(h)
  BY <1>1 DEF Sound, FileIndexed, Anchored, HasNode, HasEdge
<1>7. Sound(h)
  BY <1>1, <1>3, <1>4, <1>5, <1>6 DEF Sound
<1> QED
  BY Zenon, <1>7 DEF h

(* A change of the version alone.                                          *)
LEMMA VersionSound ==
  ASSUME NEW g, Sound(g), NEW v \in Nat
  PROVE  Sound([g EXCEPT !.version = v])
<1> DEFINE h == [g EXCEPT !.version = v]
<1>1. h \in Graph
  BY DEF Sound, Graph
<1>2. /\ h.node = g.node
      /\ h.target = g.target
      /\ h.adjacency = g.adjacency
      /\ h.reverseAdjacency = g.reverseAdjacency
      /\ h.fileIndex = g.fileIndex
      /\ h.edgesByKind = g.edgesByKind
  BY DEF Sound, Graph
<1> HIDE DEF h
<1>3. Sound(h)
  BY <1>1, <1>2 DEF Sound, OutIndexed, InIndexed, KindIndexed, FileIndexed, Anchored,
     HasNode, HasEdge
<1> QED
  BY <1>3 DEF h

LEMMA RemoveEdgeSound ==
  ASSUME NEW g, Sound(g), NEW e \in Edge
  PROVE  Sound(RemoveEdge(g, e))
<1> DEFINE d == DropEdges(g, {e})
<1>1. Sound(d)
  BY DropEdgesSound
<1>2. d.version + 1 \in Nat
  BY <1>1 DEF Sound, Graph
<1>3. Sound([d EXCEPT !.version = d.version + 1])
  BY <1>1, <1>2, VersionSound
<1> QED
  BY <1>3 DEF RemoveEdge

(* dropEdge() removes exactly the edges of S, and only edges.              *)
LEMMA DropEdgesFields ==
  ASSUME NEW g, Sound(g), NEW S \in SUBSET Edge
  PROVE  /\ DropEdges(g, S).node = g.node
         /\ DropEdges(g, S).fileIndex = g.fileIndex
         /\ \A e \in Edge : DropEdges(g, S).target[e] =
                              IF e \in S THEN Absent ELSE g.target[e]
<1>1. \A e \in Edge : DropEdges(g, S).target[e] =
         IF e \in {c \in S : HasEdge(g, c)} THEN Absent ELSE g.target[e]
  BY DEF DropEdges, Graph, Sound
<1>2. \A e \in Edge : DropEdges(g, S).target[e] = IF e \in S THEN Absent ELSE g.target[e]
  BY <1>1 DEF HasEdge
<1> QED
  BY <1>2 DEF DropEdges, Graph, Sound

LEMMA RemoveNodesSound ==
  ASSUME NEW g, Sound(g), NEW N \in SUBSET NodeId
  PROVE  Sound(RemoveNodes(g, N))
<1> DEFINE P == {n \in N : HasNode(g, n)}
           S == Incident(g, P)
           d == DropEdges(g, S)
           nodes == [n \in NodeId |-> IF n \in P THEN Absent ELSE g.node[n]]
           adj == [n \in NodeId |-> IF n \in P THEN {} ELSE d.adjacency[n]]
           rev == [n \in NodeId |-> IF n \in P THEN {} ELSE d.reverseAdjacency[n]]
           idx == [f \in File |-> IF f = Virtual THEN g.fileIndex[f]
                                  ELSE g.fileIndex[f] \ {n \in P : g.node[n] = f}]
           h == RemoveNodes(g, N)
<1>1. P \subseteq NodeId /\ S \in SUBSET Edge
  BY DEF Incident, Graph, Sound
<1>2. Sound(d)
  BY <1>1, DropEdgesSound
<1>3. /\ d.node = g.node
      /\ d.fileIndex = g.fileIndex
      /\ \A e \in Edge : d.target[e] = IF e \in S THEN Absent ELSE g.target[e]
  BY <1>1, DropEdgesFields
<1>4. Cardinality(P) \in Nat
  BY <1>1, FiniteAssumption, FS_Subset, FS_CardinalityType
<1>5. h = [d EXCEPT !.node = nodes, !.adjacency = adj, !.reverseAdjacency = rev,
                    !.fileIndex = idx, !.version = d.version + Cardinality(P)]
  BY DEF RemoveNodes
<1> HIDE DEF d, h
<1>6. /\ nodes \in [NodeId -> File \cup {Absent}]
      /\ adj \in [NodeId -> SUBSET Edge]
      /\ rev \in [NodeId -> SUBSET Edge]
      /\ idx \in [File -> SUBSET NodeId]
      /\ d.version + Cardinality(P) \in Nat
  <2>1. /\ nodes \in [NodeId -> File \cup {Absent}]
        /\ adj \in [NodeId -> SUBSET Edge]
        /\ rev \in [NodeId -> SUBSET Edge]
        /\ idx \in [File -> SUBSET NodeId]
    BY Zenon, <1>2 DEF Sound, Graph
  <2>2. d.version \in Nat
    BY <1>2 DEF Sound, Graph
  <2> QED
    BY <1>4, <2>1, <2>2
<1>7. /\ h \in Graph
      /\ h.node = nodes
      /\ h.adjacency = adj
      /\ h.reverseAdjacency = rev
      /\ h.fileIndex = idx
      /\ h.target = d.target
      /\ h.edgesByKind = d.edgesByKind
  BY Zenon, <1>2, <1>5, <1>6 DEF Sound, Graph
(* An edge that has lost an end in P was incident to P, so it is gone.     *)
<1>8. \A n \in P : \A e \in Edge : Src[e] = n => ~HasEdge(d, e)
  <2> SUFFICES ASSUME NEW n \in P, NEW e \in Edge, Src[e] = n, HasEdge(d, e) PROVE FALSE
    OBVIOUS
  <2>1. HasEdge(g, e) /\ e \notin S
    BY <1>3 DEF HasEdge
  <2>2. e \in g.adjacency[n]
    BY <1>1, <2>1 DEF Sound, OutIndexed
  <2> QED
    BY <2>1, <2>2 DEF Incident
<1>9. \A n \in P : \A e \in Edge \ Native : d.target[e] = n => ~HasEdge(d, e)
  <2> SUFFICES ASSUME NEW n \in P, NEW e \in Edge \ Native, d.target[e] = n, HasEdge(d, e)
               PROVE  FALSE
    OBVIOUS
  <2>1. HasEdge(g, e) /\ e \notin S /\ g.target[e] = n
    BY <1>3 DEF HasEdge
  <2>2. e \in g.reverseAdjacency[n]
    BY <1>1, <2>1 DEF Sound, InIndexed
  <2> QED
    BY <2>1, <2>2 DEF Incident
<1> HIDE DEF P, S
<1>10. OutIndexed(h)
  <2> SUFFICES ASSUME NEW n \in NodeId
               PROVE  adj[n] = {e \in Edge : HasEdge(d, e) /\ Src[e] = n}
    BY <1>7 DEF OutIndexed, HasEdge
  <2>1. d.adjacency[n] = {e \in Edge : HasEdge(d, e) /\ Src[e] = n}
    BY <1>2 DEF Sound, OutIndexed
  <2> QED
    BY <1>8, <2>1
<1>11. InIndexed(h)
  <2> SUFFICES ASSUME NEW n \in NodeId
               PROVE  rev[n] \ Native = {e \in Edge \ Native : HasEdge(d, e) /\ d.target[e] = n}
    BY <1>7 DEF InIndexed, HasEdge
  <2>1. d.reverseAdjacency[n] \ Native =
           {e \in Edge \ Native : HasEdge(d, e) /\ d.target[e] = n}
    BY <1>2 DEF Sound, InIndexed
  <2> QED
    BY <1>9, <2>1
<1>12. KindIndexed(h) /\ Anchored(h)
  BY <1>2, <1>7 DEF Sound, KindIndexed, Anchored, HasEdge
<1>13. FileIndexed(h)
  <2> SUFFICES ASSUME NEW n \in NodeId, nodes[n] # Absent
               PROVE  n \in idx[nodes[n]]
    BY <1>7 DEF FileIndexed, HasNode
  <2>1. n \notin P /\ nodes[n] = g.node[n]
    OBVIOUS
  <2>2. g.node[n] \in File /\ n \in g.fileIndex[g.node[n]]
    BY <2>1 DEF Sound, Graph, FileIndexed, HasNode
  <2> QED
    BY <2>1, <2>2
<1> QED
  BY <1>7, <1>10, <1>11, <1>12, <1>13 DEF Sound, h

LEMMA RemoveByFileSound ==
  ASSUME NEW g, Sound(g), NEW f \in File \ {Virtual}
  PROVE  Sound(RemoveByFile(g, f))
<1> DEFINE N == g.fileIndex[f]
           r == RemoveNodes(g, N)
           idx == [r.fileIndex EXCEPT ![f] = {}]
           h == [r EXCEPT !.fileIndex = idx]
<1>1. N \in SUBSET NodeId
  BY DEF Sound, Graph
<1>2. Sound(r)
  BY <1>1, RemoveNodesSound
<1>3. \A n \in NodeId : r.node[n] = IF n \in N /\ g.node[n] # Absent THEN Absent ELSE g.node[n]
  BY <1>1 DEF RemoveNodes, DropEdges, Sound, Graph, HasNode
(* The nodes of f were all indexed under f, and are gone.                  *)
<1>4. \A n \in NodeId : r.node[n] # f
  BY <1>3, GraphAssumption DEF Sound, FileIndexed, HasNode
<1>5. RemoveByFile(g, f) = h
  BY <1>2 DEF RemoveByFile, Sound, Graph
<1> HIDE DEF r
<1>6. idx \in [File -> SUBSET NodeId]
  BY <1>2 DEF Sound, Graph
<1>7. /\ h \in Graph
      /\ h.node = r.node
      /\ h.target = r.target
      /\ h.adjacency = r.adjacency
      /\ h.reverseAdjacency = r.reverseAdjacency
      /\ h.edgesByKind = r.edgesByKind
      /\ h.fileIndex = idx
  BY <1>2, <1>6 DEF Sound, Graph
<1> HIDE DEF h
<1>8. \A i \in File : i # f => idx[i] = r.fileIndex[i]
  BY <1>2 DEF Sound, Graph
<1>9. FileIndexed(h)
  BY <1>2, <1>4, <1>7, <1>8 DEF Sound, Graph, FileIndexed, HasNode
<1>10. OutIndexed(h) /\ InIndexed(h) /\ KindIndexed(h) /\ Anchored(h)
  BY <1>2, <1>7 DEF Sound, OutIndexed, InIndexed, KindIndexed, Anchored, HasEdge
<1> QED
  BY <1>5, <1>7, <1>9, <1>10 DEF Sound

LEMMA LinkNativeSteps ==
  ASSUME NEW g, Sound(g), NEW e \in Native
  PROVE  /\ Sound(WithMethod(WithBridge(g, e), e))
         /\ WithMethod(WithBridge(g, e), e).target[e] = g.target[e]
<1> DEFINE b == WithBridge(g, e)
           a == AddNode(b, Method[e], Virtual)
           h == WithMethod(b, e)
<1>1. /\ Method[e] \in NodeId
      /\ Bridge[e] \in NodeId
      /\ Serves[e] \in Edge \ Native
      /\ Virtual \in File
      /\ e \in Edge
  BY GraphAssumption
<1>2. Sound(b) /\ b.target = g.target
  BY <1>1, AddNodeSound, AddNodeTarget DEF WithBridge
<1> HIDE DEF b
<1>3. Sound(a) /\ a.target = b.target
  BY <1>1, <1>2, AddNodeSound, AddNodeTarget
<1>4. h = IF HasNode(b, Method[e]) THEN b ELSE AddEdge(a, Serves[e])
  BY Zenon DEF WithMethod
<1> HIDE DEF a, h
<1>5. Sound(AddEdge(a, Serves[e]))
  BY <1>1, <1>3, AddEdgeSound
<1>6. AddEdge(a, Serves[e]).target = [a.target EXCEPT ![Serves[e]] = Dst[Serves[e]]]
  BY <1>3 DEF AddEdge, Sound, Graph
<1>7. a.target \in [Edge -> NodeId \cup {Absent}] /\ Serves[e] # e
  BY <1>1, <1>3 DEF Sound, Graph
<1>8. AddEdge(a, Serves[e]).target[e] = a.target[e]
  BY <1>1, <1>6, <1>7
<1>9. Sound(h) /\ h.target[e] = g.target[e]
  BY <1>2, <1>3, <1>4, <1>5, <1>8
<1> QED
  BY <1>9 DEF h, b

LEMMA LinkNativeSound ==
  ASSUME NEW g, Sound(g), NEW e \in Native, HasEdge(g, e)
  PROVE  Sound(LinkNative(g, e))
<1> DEFINE m == Method[e]
           h == WithMethod(WithBridge(g, e), e)
           tgt == [h.target EXCEPT ![e] = m]
           k == [h EXCEPT !.target = tgt]
<1>1. m \in NodeId /\ m # Absent /\ e \in Edge
  BY GraphAssumption
<1>2. Sound(h) /\ h.target[e] = g.target[e]
  BY LinkNativeSteps
<1>3. LinkNative(g, e) = k
  BY <1>2 DEF LinkNative, Sound, Graph
<1> HIDE DEF h
<1>4. tgt \in [Edge -> NodeId \cup {Absent}] /\ HasEdge(h, e)
  BY <1>1, <1>2 DEF Sound, Graph, HasEdge
<1>5. /\ k \in Graph
      /\ k.target = tgt
      /\ k.node = h.node
      /\ k.adjacency = h.adjacency
      /\ k.reverseAdjacency = h.reverseAdjacency
      /\ k.fileIndex = h.fileIndex
      /\ k.edgesByKind = h.edgesByKind
  BY <1>2, <1>4 DEF Sound, Graph
<1> HIDE DEF k, m
<1>6. \A c \in Edge : tgt[c] = IF c = e THEN m ELSE h.target[c]
  BY <1>2 DEF Sound, Graph
<1> HIDE DEF tgt
<1>7. \A c \in Edge : HasEdge(k, c) <=> HasEdge(h, c)
  BY <1>1, <1>4, <1>5, <1>6 DEF HasEdge
<1>8. OutIndexed(k) /\ KindIndexed(k)
  BY <1>2, <1>5, <1>7 DEF Sound, OutIndexed, KindIndexed
<1>9. InIndexed(k)
  BY <1>2, <1>5, <1>6, <1>7 DEF Sound, InIndexed
<1>10. FileIndexed(k)
  BY <1>2, <1>5 DEF Sound, FileIndexed, HasNode
<1>11. Anchored(k)
  BY <1>2, <1>5, <1>6, <1>7 DEF Sound, Anchored, m
<1> QED
  BY <1>3, <1>5, <1>8, <1>9, <1>10, <1>11 DEF Sound
---------------------------------------------------------------------------
(* A step keeps both ends of an edge or removes the edge.                  *)
Follows(g, h) ==
    \A e \in Edge \ Native : Linked(g, e) => Linked(h, e) \/ ~HasEdge(h, e)

LEMMA AddNodeFollows ==
  ASSUME NEW g, Sound(g), NEW n \in NodeId, NEW f \in File
  PROVE  Follows(g, AddNode(g, n, f))
<1> DEFINE h == AddNode(g, n, f)
<1>1. h.target = g.target /\ h.node = [g.node EXCEPT ![n] = f]
  BY DEF AddNode, Sound, Graph
<1>2. \A m \in NodeId : HasNode(g, m) => HasNode(h, m)
  BY <1>1, GraphAssumption DEF Sound, Graph, HasNode
<1> HIDE DEF h
<1>3. Follows(g, h)
  BY <1>1, <1>2, GraphAssumption DEF Sound, Graph, Follows, Linked, HasEdge
<1> QED
  BY <1>3 DEF h

LEMMA AddEdgeFollows ==
  ASSUME NEW g, Sound(g), NEW e \in Edge
  PROVE  Follows(g, AddEdge(g, e))
<1> DEFINE h == AddEdge(g, e)
<1>1. h.node = g.node /\ h.target = [g.target EXCEPT ![e] = Dst[e]]
  BY DEF AddEdge, Sound, Graph
<1> HIDE DEF h
<1>2. \A d \in Edge \ Native : HasEdge(g, d) => h.target[d] = g.target[d]
  BY <1>1 DEF Sound, Graph, Anchored, HasEdge
<1>3. Follows(g, h)
  BY <1>1, <1>2 DEF Follows, Linked, HasEdge, HasNode
<1> QED
  BY <1>3 DEF h

LEMMA RemoveEdgeFollows ==
  ASSUME NEW g, Sound(g), NEW e \in Edge
  PROVE  Follows(g, RemoveEdge(g, e))
<1> DEFINE d == DropEdges(g, {e})
           h == [d EXCEPT !.version = d.version + 1]
<1>1. /\ d.node = g.node
      /\ \A c \in Edge : d.target[c] = IF c \in {e} THEN Absent ELSE g.target[c]
  BY DropEdgesFields
<1>2. Sound(d)
  BY DropEdgesSound
<1>3. h.node = d.node /\ h.target = d.target
  BY <1>2 DEF Sound, Graph
<1>4. RemoveEdge(g, e) = IF HasEdge(g, e) THEN h ELSE g
  BY DEF RemoveEdge
<1> HIDE DEF d, h
<1>5. Follows(g, h)
  BY <1>1, <1>3 DEF Follows, Linked, HasEdge, HasNode
<1>6. Follows(g, g)
  BY DEF Follows
<1> QED
  BY <1>4, <1>5, <1>6

LEMMA RemoveNodesFollows ==
  ASSUME NEW g, Sound(g), NEW N \in SUBSET NodeId
  PROVE  Follows(g, RemoveNodes(g, N))
<1> DEFINE P == {n \in N : HasNode(g, n)}
           S == Incident(g, P)
           h == RemoveNodes(g, N)
<1>1. P \subseteq NodeId /\ S \in SUBSET Edge
  BY DEF Incident, Graph, Sound
<1>2. /\ h.target = DropEdges(g, S).target
      /\ h.node = [n \in NodeId |-> IF n \in P THEN Absent ELSE g.node[n]]
  BY DEF RemoveNodes, DropEdges, Sound, Graph
<1>3. \A e \in Edge : h.target[e] = IF e \in S THEN Absent ELSE g.target[e]
  BY <1>1, <1>2, DropEdgesFields
<1> HIDE DEF h
<1> SUFFICES ASSUME NEW e \in Edge \ Native, Linked(g, e), HasEdge(h, e) PROVE Linked(h, e)
  BY DEF Follows, h
<1>4. e \notin S /\ h.target[e] = g.target[e]
  BY <1>3 DEF HasEdge
<1>5. Src[e] \in NodeId /\ g.target[e] \in NodeId
  BY GraphAssumption DEF Linked, HasEdge, Sound, Graph
<1>6. e \in g.adjacency[Src[e]] /\ e \in g.reverseAdjacency[g.target[e]]
  BY <1>5 DEF Linked, Sound, OutIndexed, InIndexed
<1>7. Src[e] \notin P /\ g.target[e] \notin P
  BY <1>4, <1>6 DEF Incident
<1> QED
  BY <1>2, <1>4, <1>5, <1>7 DEF Linked, HasNode

LEMMA RemoveByFileFollows ==
  ASSUME NEW g, Sound(g), NEW f \in File
  PROVE  Follows(g, RemoveByFile(g, f))
<1> DEFINE r == RemoveNodes(g, g.fileIndex[f])
           h == RemoveByFile(g, f)
<1>1. g.fileIndex[f] \in SUBSET NodeId
  BY DEF Sound, Graph
<1>2. Follows(g, r) /\ Sound(r)
  BY <1>1, RemoveNodesFollows, RemoveNodesSound
<1>3. h = [r EXCEPT !.fileIndex[f] = {}]
  BY DEF RemoveByFile
<1> HIDE DEF r, h
<1>4. h.node = r.node /\ h.target = r.target
  BY <1>2, <1>3 DEF Sound, Graph
<1>5. Follows(g, h)
  BY <1>2, <1>4 DEF Follows, Linked, HasEdge, HasNode
<1> QED
  BY <1>5 DEF h

LEMMA FollowsTwice ==
  ASSUME NEW g, NEW h, NEW k, Sound(g), Follows(g, h), Follows(h, k),
         \A e \in Edge : ~HasEdge(h, e) /\ HasEdge(k, e) => ~HasEdge(g, e)
  PROVE  Follows(g, k)
  BY DEF Follows, Linked

LEMMA LinkNativeFollows ==
  ASSUME NEW g, Sound(g), NEW e \in Native
  PROVE  Follows(g, LinkNative(g, e))
<1> DEFINE b == WithBridge(g, e)
           a == AddNode(b, Method[e], Virtual)
           h == WithMethod(b, e)
           k == LinkNative(g, e)
<1>1. /\ Method[e] \in NodeId
      /\ Bridge[e] \in NodeId
      /\ Serves[e] \in Edge
      /\ Virtual \in File
      /\ e \in Edge
  BY GraphAssumption
<1>2. Sound(b) /\ Follows(g, b) /\ b.target = g.target
  <2>1. Sound(b)
    BY <1>1, AddNodeSound DEF WithBridge
  <2>2. b.target = g.target
    BY <1>1, AddNodeTarget DEF WithBridge
  <2>3. Follows(g, b)
    <3>1. CASE HasNode(g, Bridge[e])
      BY <3>1 DEF WithBridge, Follows
    <3>2. CASE ~HasNode(g, Bridge[e])
      BY <1>1, <3>2, AddNodeFollows DEF WithBridge
    <3> QED
      BY <3>1, <3>2
  <2> QED
    BY <2>1, <2>2, <2>3
<1>3. k = [h EXCEPT !.target[e] = Method[e]]
  BY DEF LinkNative
<1>4. h = IF HasNode(b, Method[e]) THEN b ELSE AddEdge(a, Serves[e])
  BY DEF WithMethod
<1>5. Sound(h)
  BY LinkNativeSteps
<1> HIDE DEF b, h, k
<1>6. Sound(a) /\ Follows(b, a) /\ a.target = b.target
  <2>1. Sound(a)
    BY <1>1, <1>2, AddNodeSound
  <2>2. Follows(b, a)
    BY <1>1, <1>2, AddNodeFollows
  <2>3. a.target = b.target
    BY <1>2, AddNodeTarget
  <2> QED
    BY <2>1, <2>2, <2>3
<1> HIDE DEF a
<1>7. Follows(g, a)
  BY <1>2, <1>6, FollowsTwice DEF HasEdge
<1>8. Follows(a, AddEdge(a, Serves[e]))
  BY <1>1, <1>6, AddEdgeFollows
<1>9. Follows(g, AddEdge(a, Serves[e]))
  BY <1>2, <1>6, <1>7, <1>8, FollowsTwice DEF HasEdge
<1>10. Follows(g, h)
  BY <1>2, <1>4, <1>9
<1>11. k.node = h.node /\ \A c \in Edge \ {e} : k.target[c] = h.target[c]
  BY <1>3, <1>5 DEF Sound, Graph
<1>12. Follows(g, k)
  BY <1>10, <1>11 DEF Follows, Linked, HasEdge, HasNode
<1> QED
  BY <1>12 DEF k

(* One call of a method that changes the graph, on any node, edge or file. *)
OneCall(g, h) ==
    \/ \E n \in NodeId, f \in File : h = AddNode(g, n, f)
    \/ \E e \in Edge : h = AddEdge(g, e)
    \/ \E e \in Edge : h = RemoveEdge(g, e)
    \/ \E N \in SUBSET NodeId : h = RemoveNodes(g, N)
    \/ \E f \in File \ {Virtual} : h = RemoveByFile(g, f)
    \/ \E e \in Native : HasEdge(g, e) /\ h = LinkNative(g, e)

(* However the methods are called one after the other, the indexes agree   *)
(* with nodes and edges, and no call leaves an edge behind that has just   *)
(* lost one of its ends.                                                   *)
THEOREM MethodsSound ==
  ASSUME NEW g, Sound(g), NEW h, OneCall(g, h)
  PROVE  Sound(h) /\ Follows(g, h)
<1>1. ASSUME NEW n \in NodeId, NEW f \in File, h = AddNode(g, n, f)
      PROVE  Sound(h) /\ Follows(g, h)
  BY <1>1, AddNodeSound, AddNodeFollows
<1>2. ASSUME NEW e \in Edge, h = AddEdge(g, e) PROVE Sound(h) /\ Follows(g, h)
  BY <1>2, AddEdgeSound, AddEdgeFollows
<1>3. ASSUME NEW e \in Edge, h = RemoveEdge(g, e) PROVE Sound(h) /\ Follows(g, h)
  BY <1>3, RemoveEdgeSound, RemoveEdgeFollows
<1>4. ASSUME NEW N \in SUBSET NodeId, h = RemoveNodes(g, N)
      PROVE  Sound(h) /\ Follows(g, h)
  BY <1>4, RemoveNodesSound, RemoveNodesFollows
<1>5. ASSUME NEW f \in File \ {Virtual}, h = RemoveByFile(g, f)
      PROVE  Sound(h) /\ Follows(g, h)
  BY <1>5, RemoveByFileSound, RemoveByFileFollows
<1>6. ASSUME NEW e \in Native, HasEdge(g, e), h = LinkNative(g, e)
      PROVE  Sound(h) /\ Follows(g, h)
  BY <1>6, LinkNativeSound, LinkNativeFollows
<1> QED
  BY <1>1, <1>2, <1>3, <1>4, <1>5, <1>6 DEF OneCall

---------------------------------------------------------------------------
(* What the methods do to a sound graph.                                   *)

SoundGraph == {g \in Graph : Sound(g)}

LEMMA SoundFields ==
  ASSUME NEW g, Sound(g)
  PROVE  /\ g \in SoundGraph
         /\ g.node \in [NodeId -> File \cup {Absent}]
         /\ g.target \in [Edge -> NodeId \cup {Absent}]
         /\ g.fileIndex \in [File -> SUBSET NodeId]
         /\ g.version \in Nat
         /\ \A n \in NodeId : g.node[n] # Absent => n \in g.fileIndex[g.node[n]]
  BY DEF SoundGraph, Sound, Graph, FileIndexed, HasNode

LEMMA AddNodeIs ==
  ASSUME NEW g, Sound(g), NEW n \in NodeId, NEW f \in File, NEW h, h = AddNode(g, n, f)
  PROVE  /\ Sound(h)
         /\ h.target = g.target
         /\ h.version = g.version + 1
         /\ \A m \in NodeId : h.node[m] = IF m = n THEN f ELSE g.node[m]
         /\ h.fileIndex[f] = g.fileIndex[f] \cup {n}
         /\ \A i \in File : i # f => h.fileIndex[i] = g.fileIndex[i]
<1>1. Sound(h)
  BY AddNodeSound
<1>2. /\ h.target = g.target
      /\ h.version = g.version + 1
      /\ h.node = [g.node EXCEPT ![n] = f]
      /\ h.fileIndex = [g.fileIndex EXCEPT ![f] = @ \cup {n}]
  BY DEF AddNode, Sound, Graph
<1>0. /\ g.node \in [NodeId -> File \cup {Absent}]
      /\ g.fileIndex \in [File -> SUBSET NodeId]
  BY SoundFields
<1>3. \A m \in NodeId : h.node[m] = IF m = n THEN f ELSE g.node[m]
  BY <1>2, <1>0
<1>4. /\ h.fileIndex[f] = g.fileIndex[f] \cup {n}
      /\ \A i \in File : i # f => h.fileIndex[i] = g.fileIndex[i]
  BY <1>2, <1>0
<1> QED
  BY <1>1, <1>2, <1>3, <1>4

LEMMA AddEdgeIs ==
  ASSUME NEW g, Sound(g), NEW e \in Edge, NEW h, h = AddEdge(g, e)
  PROVE  /\ Sound(h)
         /\ h.node = g.node
         /\ h.fileIndex = g.fileIndex
         /\ h.version = g.version + 1
         /\ \A d \in Edge : h.target[d] = IF d = e THEN Dst[e] ELSE g.target[d]
<1>1. Sound(h)
  BY AddEdgeSound
<1>2. /\ h.node = g.node
      /\ h.fileIndex = g.fileIndex
      /\ h.version = g.version + 1
      /\ h.target = [g.target EXCEPT ![e] = Dst[e]]
  BY DEF AddEdge, Sound, Graph
<1> QED
  BY <1>1, <1>2, SoundFields

LEMMA RemoveEdgeIs ==
  ASSUME NEW g, Sound(g), NEW e \in Edge, NEW h, h = RemoveEdge(g, e)
  PROVE  /\ Sound(h)
         /\ h.node = g.node
         /\ h.fileIndex = g.fileIndex
         /\ h = g \/ h.version = g.version + 1
         /\ \A d \in Edge : h.target[d] = IF d = e THEN Absent ELSE g.target[d]
<1>1. Sound(h)
  BY RemoveEdgeSound
<1>2. CASE ~HasEdge(g, e)
  BY <1>1, <1>2 DEF RemoveEdge, HasEdge
<1>3. CASE HasEdge(g, e)
  <2> DEFINE d == DropEdges(g, {e})
  <2>1. /\ d.node = g.node
        /\ \A c \in Edge : d.target[c] = IF c \in {e} THEN Absent ELSE g.target[c]
    BY DropEdgesFields
  <2>2. Sound(d)
    BY DropEdgesSound
  <2>3. d.fileIndex = g.fileIndex /\ d.version = g.version
    BY DEF DropEdges, Sound, Graph
  <2>4. h = [d EXCEPT !.version = @ + 1]
    BY <1>3 DEF RemoveEdge
  <2> HIDE DEF d
  <2>5. /\ h.node = d.node /\ h.target = d.target
        /\ h.fileIndex = d.fileIndex /\ h.version = d.version + 1
    BY <2>2, <2>4 DEF Sound, Graph
  <2> QED
    BY <1>1, <2>1, <2>3, <2>5
<1> QED
  BY <1>2, <1>3

LEMMA RemoveByFileIs ==
  ASSUME NEW g, Sound(g), NEW f \in File \ {Virtual}, NEW h, h = RemoveByFile(g, f)
  PROVE  /\ Sound(h)
         /\ \A n \in NodeId : h.node[n] = IF n \in g.fileIndex[f] THEN Absent ELSE g.node[n]
         /\ \A e \in Edge : h.target[e] \in {Absent, g.target[e]}
         /\ \A e \in Edge : h.target[e] =
               IF e \in Incident(g, GetNodesByFile(g, f)) THEN Absent ELSE g.target[e]
         /\ \A i \in File : h.fileIndex[i] \subseteq g.fileIndex[i]
         /\ h.fileIndex[f] = {}
         /\ h.version > g.version \/ (h.version = g.version /\ h.node = g.node
                                      /\ h.target = g.target)
<1> DEFINE N == g.fileIndex[f]
           P == {n \in N : HasNode(g, n)}
           S == Incident(g, P)
           d == DropEdges(g, S)
           r == RemoveNodes(g, N)
<1>1. Sound(h)
  BY RemoveByFileSound
<1>2. N \in SUBSET NodeId /\ P \in SUBSET NodeId /\ S \in SUBSET Edge
  BY DEF Incident, Graph, Sound
<1>3. Sound(d) /\ \A e \in Edge : d.target[e] = IF e \in S THEN Absent ELSE g.target[e]
  BY <1>2, DropEdgesSound, DropEdgesFields
<1>4. Sound(r)
  BY <1>2, RemoveNodesSound
<1>5. d.fileIndex = g.fileIndex /\ d.version = g.version /\ d.node = g.node
  BY DEF DropEdges, Sound, Graph
<1>6. r = [d EXCEPT
             !.node = [n \in NodeId |-> IF n \in P THEN Absent ELSE g.node[n]],
             !.adjacency = [n \in NodeId |-> IF n \in P THEN {} ELSE d.adjacency[n]],
             !.reverseAdjacency =
                 [n \in NodeId |-> IF n \in P THEN {} ELSE d.reverseAdjacency[n]],
             !.fileIndex =
                 [i \in File |-> IF i = Virtual THEN g.fileIndex[i]
                                 ELSE g.fileIndex[i] \ {n \in P : g.node[n] = i}],
             !.version = @ + Cardinality(P)]
  BY DEF RemoveNodes
<1> HIDE DEF d
<1>7. /\ r.target = d.target
      /\ r.node = [n \in NodeId |-> IF n \in P THEN Absent ELSE g.node[n]]
      /\ r.fileIndex = [i \in File |-> IF i = Virtual THEN g.fileIndex[i]
                                       ELSE g.fileIndex[i] \ {n \in P : g.node[n] = i}]
      /\ r.version = g.version + Cardinality(P)
  BY <1>3, <1>5, <1>6 DEF Sound, Graph
<1>8. h = [r EXCEPT !.fileIndex[f] = {}]
  BY DEF RemoveByFile
<1> HIDE DEF r
<1>9. /\ h.target = r.target
      /\ h.node = r.node
      /\ h.version = r.version
      /\ h.fileIndex = [r.fileIndex EXCEPT ![f] = {}]
  BY <1>4, <1>8 DEF Sound, Graph
<1>10. \A n \in NodeId : h.node[n] = IF n \in N THEN Absent ELSE g.node[n]
  <2> SUFFICES ASSUME NEW n \in NodeId
               PROVE  h.node[n] = IF n \in N THEN Absent ELSE g.node[n]
    OBVIOUS
  <2>1. n \in P <=> n \in N /\ g.node[n] # Absent
    BY DEF HasNode
  <2>2. h.node[n] = IF n \in P THEN Absent ELSE g.node[n]
    BY <1>7, <1>9
  <2> HIDE DEF P
  <2> QED
    BY <2>1, <2>2
<1>11. /\ \A e \in Edge : h.target[e] \in {Absent, g.target[e]}
       /\ \A e \in Edge : h.target[e] =
             IF e \in Incident(g, GetNodesByFile(g, f)) THEN Absent ELSE g.target[e]
  <2>1. h.target = d.target
    BY <1>7, <1>9
  <2>2. S = Incident(g, GetNodesByFile(g, f))
    BY DEF GetNodesByFile
  <2> HIDE DEF S
  <2> QED
    BY <1>3, <2>1, <2>2
<1>12. /\ \A i \in File : h.fileIndex[i] \subseteq g.fileIndex[i]
       /\ h.fileIndex[f] = {}
  BY <1>4, <1>7, <1>9, SoundFields
<1>13. Cardinality(P) \in Nat /\ (Cardinality(P) = 0 => P = {})
  BY <1>2, FiniteAssumption, FS_Subset, FS_CardinalityType, FS_EmptySet
<1>14. ASSUME P = {}
       PROVE  h.node = g.node /\ h.target = g.target
  <2>1. S = {}
    BY <1>14 DEF Incident
  <2>2. \A e \in Edge : h.target[e] = g.target[e]
    BY <1>3, <1>7, <1>9, <2>1
  <2>3. \A n \in NodeId : h.node[n] = g.node[n]
    BY <1>7, <1>9, <1>14
  <2> HIDE DEF P, S
  <2>4. /\ h.node \in [NodeId -> File \cup {Absent}] /\ g.node \in [NodeId -> File \cup {Absent}]
        /\ h.target \in [Edge -> NodeId \cup {Absent}]
        /\ g.target \in [Edge -> NodeId \cup {Absent}]
    BY <1>1, SoundFields
  <2> QED
    BY <2>2, <2>3, <2>4
<1>15. g.version \in Nat
  BY SoundFields
<1>16. h.version > g.version \/ (h.version = g.version /\ h.node = g.node
                                      /\ h.target = g.target)
  BY <1>7, <1>9, <1>13, <1>14, <1>15
<1> QED
  BY <1>1, <1>10, <1>11, <1>12, <1>16

---------------------------------------------------------------------------
(* What a fold of the methods comes to: the fold of the community modules  *)
(* is the iteration of its step over a finite set.                         *)

LEMMA LeastNatural ==
  ASSUME NEW S \in SUBSET Nat, S # {}
  PROVE  \E i \in S : \A j \in S : i <= j
<1>1. PICK i \in S : \A j \in S : <<j, i>> \notin OpToRel(<, Nat)
  BY NatLessThanWellFounded, WFMin
<1>2. ASSUME NEW j \in S
      PROVE  i <= j
  <2>1. ~(j < i)
    BY <1>1 DEF OpToRel
  <2> QED
    BY <2>1
<1> QED
  BY <1>2

LEMMA AllNaturals ==
  ASSUME NEW T, 0 \in T, \A n \in Nat : n \in T => n + 1 \in T
  PROVE  Nat \subseteq T
<1>1. SUFFICES ASSUME Nat \ T # {}
               PROVE  FALSE
  OBVIOUS
<1>2. PICK i \in Nat \ T : \A j \in Nat \ T : i <= j
  BY <1>1, LeastNatural
<1>3. i # 0 /\ i - 1 \in Nat
  BY <1>2
<1>4. i - 1 \in T
  BY <1>2, <1>3
<1>5. (i - 1) + 1 \in T
  BY <1>3, <1>4
<1> QED
  BY <1>2, <1>3, <1>5

(* Finite sets, by what holds of those with one element less.              *)
Hereditary(T, S) == \A s \in SUBSET S : (\A x \in s : s \ {x} \in T) => s \in T

LEMMA AllSubsets ==
  ASSUME NEW S, IsFiniteSet(S), NEW T, Hereditary(T, S)
  PROVE  (SUBSET S) \subseteq T
<1> USE DEF Hereditary
<1> DEFINE N == {n \in Nat : \A s \in SUBSET S : Cardinality(s) = n => s \in T}
<1>1. \A s \in SUBSET S : IsFiniteSet(s) /\ Cardinality(s) \in Nat
  BY FS_Subset, FS_CardinalityType
<1>2. 0 \in N
  BY <1>1, FS_EmptySet
<1>3. ASSUME NEW n \in Nat, n \in N
      PROVE  n + 1 \in N
  <2>1. ASSUME NEW s \in SUBSET S, Cardinality(s) = n + 1, NEW x \in s
        PROVE  s \ {x} \in T
    <3>1. Cardinality(s \ {x}) = Cardinality(s) - 1
      BY <1>1, FS_RemoveElement
    <3>2. s \ {x} \in SUBSET S /\ Cardinality(s \ {x}) = n
      BY <1>3, <2>1, <3>1
    <3> QED
      BY <1>3, <3>2
  <2> QED
    BY <2>1
<1>4. Nat \subseteq N
  <2> HIDE DEF N
  <2> QED
    BY <1>2, <1>3, AllNaturals
<1> QED
  BY <1>1, <1>4

(* A fold over S takes one element after the other away, the one pick      *)
(* names, and does o with it and what the fold over the others has come to.*)
Picks(pick, S) == \A s \in SUBSET S : s # {} => pick[s] \in s

Within(o, S, G) == \A x \in S, g \in G : o[<<x, g>>] \in G

Iterates(f, S, base, pick, o) ==
    \A s \in SUBSET S : f[s] = IF s = {} THEN base ELSE o[<<pick[s], f[s \ {pick[s]}]>>]

IsFold(r, S, G, base, pick, o) ==
    \E f \in [SUBSET S -> G] : Iterates(f, S, base, pick, o) /\ r = f[S]

LEMMA IterationExists ==
  ASSUME NEW S, IsFiniteSet(S), NEW G, NEW base \in G, NEW pick, Picks(pick, S),
         NEW o, Within(o, S, G)
  PROVE  \E f \in [SUBSET S -> G] : Iterates(f, S, base, pick, o)
<1> USE DEF Picks, Within, Iterates
<1> DEFINE Upto(n) == {s \in SUBSET S : Cardinality(s) <= n}
           Next1(f, s) == IF s = {} THEN base ELSE o[<<pick[s], f[s \ {pick[s]}]>>]
           Good(f, n) == \A s \in Upto(n) : f[s] \in G /\ f[s] = Next1(f, s)
           N == {n \in Nat : \E f \in [SUBSET S -> G] : Good(f, n)}
<1>1. \A s \in SUBSET S : IsFiniteSet(s) /\ Cardinality(s) \in Nat
  BY FS_Subset, FS_CardinalityType
<1>2. 0 \in N
  <2> DEFINE f == [s \in SUBSET S |-> base]
  <2>1. f \in [SUBSET S -> G]
    OBVIOUS
  <2>2. ASSUME NEW s \in Upto(0)
        PROVE  s = {}
    <3>1. Cardinality(s) = 0
      BY <1>1
    <3> QED
      BY <1>1, <3>1, FS_EmptySet
  <2>3. \A s \in Upto(0) : f[s] = base
    OBVIOUS
  <2>4. Good(f, 0)
    BY <2>2, <2>3
  <2> QED
    BY <2>1, <2>4
<1>3. ASSUME NEW n \in Nat, n \in N
      PROVE  n + 1 \in N
  <2>1. PICK f \in [SUBSET S -> G] : Good(f, n)
    BY <1>3
  <2> DEFINE h == [s \in SUBSET S |-> IF Cardinality(s) <= n THEN f[s] ELSE
                                      IF s = {} THEN base ELSE o[<<pick[s], f[s \ {pick[s]}]>>]]
  <2>2. ASSUME NEW s \in SUBSET S, s # {}, Cardinality(s) <= n + 1
        PROVE  /\ pick[s] \in S /\ s \ {pick[s]} \in SUBSET S
               /\ Cardinality(s \ {pick[s]}) <= n
    BY <1>1, <2>2, FS_RemoveElement
  <2>3. ASSUME NEW s \in SUBSET S
        PROVE  h[s] \in G
    <3>1. (pick[s] \in s /\ s \ {pick[s]} \in SUBSET S) \/ s = {}
      OBVIOUS
    <3> QED
      BY <2>1, <3>1
  <2>4. h \in [SUBSET S -> G]
    BY <2>3
  <2>5. ASSUME NEW s \in Upto(n + 1)
        PROVE  h[s] = Next1(h, s)
    <3>1. CASE s = {}
      <4>1. Cardinality(s) <= n
        BY <3>1, FS_EmptySet
      <4>2. s \in Upto(n)
        BY <4>1
      <4>3. f[s] = base
        BY <2>1, <3>1, <4>2
      <4> QED
        BY <3>1, <4>1, <4>3
    <3>2. CASE s # {}
      <4> DEFINE r == s \ {pick[s]}
      <4>1. r \in SUBSET S /\ Cardinality(r) <= n
        BY <2>2, <3>2
      <4>2. h[r] = f[r]
        BY <4>1
      <4>3. h[s] = o[<<pick[s], f[r]>>]
        <5>1. CASE Cardinality(s) <= n
          BY <2>1, <3>2, <5>1
        <5>2. CASE ~(Cardinality(s) <= n)
          BY <3>2, <5>2
        <5> QED
          BY <5>1, <5>2
      <4> QED
        BY <3>2, <4>2, <4>3
    <3> QED
      BY <3>1, <3>2
  <2>6. Good(h, n + 1)
    BY <2>3, <2>5
  <2>7. \E k \in [SUBSET S -> G] : Good(k, n + 1)
    <3> HIDE DEF h, Good
    <3> QED
      BY <2>4, <2>6
  <2> HIDE DEF h, Good
  <2> QED
    BY <2>7
<1>4. Nat \subseteq N
  <2> HIDE DEF N
  <2> QED
    BY <1>2, <1>3, AllNaturals
<1>5. Cardinality(S) \in N
  BY <1>1, <1>4
<1>6. PICK f \in [SUBSET S -> G] : Good(f, Cardinality(S))
  BY <1>5
<1>7. \A s \in SUBSET S : Cardinality(s) <= Cardinality(S)
  BY FS_Subset
<1>8. \A s \in SUBSET S : f[s] = Next1(f, s)
  BY <1>6, <1>7
<1> QED
  BY <1>8

(* What takes its values from the steps of a fold is that fold.            *)
LEMMA FoldIs ==
  ASSUME NEW S, IsFiniteSet(S), NEW G, NEW base \in G, NEW pick, Picks(pick, S),
         NEW o, Within(o, S, G),
         NEW f, f = [s \in SUBSET S |-> f[s]], f[{}] = base,
         \A s \in SUBSET S : s # {} /\ f[s \ {pick[s]}] \in G =>
            f[s] = o[<<pick[s], f[s \ {pick[s]}]>>]
  PROVE  IsFold(f[S], S, G, base, pick, o)
<1> DEFINE T == {s \in SUBSET S : f[s] \in G}
<1>1. ASSUME NEW s \in SUBSET S, s # {}, f[s \ {pick[s]}] \in G
      PROVE  f[s] \in G
  <2>1. f[s] = o[<<pick[s], f[s \ {pick[s]}]>>] /\ pick[s] \in S
    BY <1>1 DEF Picks
  <2> QED
    BY <1>1, <2>1 DEF Within
<1>2. ASSUME NEW s \in SUBSET S, \A x \in s : s \ {x} \in T
      PROVE  s \in T
  <2>1. CASE s = {}
    BY <2>1
  <2>2. CASE s # {}
    <3>1. s \ {pick[s]} \in T
      BY <1>2, <2>2 DEF Picks
    <3> QED
      BY <1>1, <2>2, <3>1
  <2> QED
    BY <2>1, <2>2
<1>3. (SUBSET S) \subseteq T
  <2> HIDE DEF T
  <2>1. Hereditary(T, S)
    BY <1>2 DEF Hereditary
  <2> QED
    BY Zenon, <2>1, AllSubsets
<1>4. f \in [SUBSET S -> G]
  BY <1>3
<1>5. Iterates(f, S, base, pick, o)
  <2> SUFFICES ASSUME NEW s \in SUBSET S
               PROVE  f[s] = IF s = {} THEN base ELSE o[<<pick[s], f[s \ {pick[s]}]>>]
    BY DEF Iterates
  <2>1. s # {} => f[s \ {pick[s]}] \in G
    BY <1>4 DEF Picks
  <2> QED
    BY <2>1
<1> QED
  BY <1>4, <1>5 DEF IsFold

(* What holds at first and after every step holds of the fold.             *)
Carries(R, S, G, o) ==
    \A s \in SUBSET S : \A x \in s : \A g \in G :
        <<s \ {x}, g>> \in R => <<s, o[<<x, g>>]>> \in R

LEMMA FoldHolds ==
  ASSUME NEW S, IsFiniteSet(S), NEW G, NEW base, NEW pick, Picks(pick, S), NEW o, NEW r,
         IsFold(r, S, G, base, pick, o),
         NEW R, <<{}, base>> \in R, Carries(R, S, G, o)
  PROVE  <<S, r>> \in R /\ r \in G
<1>1. PICK f \in [SUBSET S -> G] : Iterates(f, S, base, pick, o) /\ r = f[S]
  BY DEF IsFold
<1> DEFINE T == {s \in SUBSET S : <<s, f[s]>> \in R}
<1>2. ASSUME NEW s \in SUBSET S, \A x \in s : s \ {x} \in T
      PROVE  s \in T
  <2>1. CASE s = {}
    BY <1>1, <2>1 DEF Iterates
  <2>2. CASE s # {}
    <3> DEFINE x == pick[s]
    <3>1. x \in s /\ s \ {x} \in SUBSET S
      BY <2>2 DEF Picks
    <3>2. f[s] = o[<<x, f[s \ {x}]>>]
      BY <1>1, <2>2 DEF Iterates
    <3> HIDE DEF x
    <3>3. f[s \ {x}] \in G /\ <<s \ {x}, f[s \ {x}]>> \in R
      BY <1>2, <3>1
    <3>4. <<s, o[<<x, f[s \ {x}]>>]>> \in R
      BY <3>1, <3>3 DEF Carries
    <3> QED
      BY <3>2, <3>4
  <2> QED
    BY <2>1, <2>2
<1>3. Hereditary(T, S)
  <2> HIDE DEF T
  <2> QED
    BY <1>2 DEF Hereditary
<1>4. (SUBSET S) \subseteq T
  <2> HIDE DEF T
  <2> QED
    BY Zenon, <1>3, AllSubsets
<1> QED
  BY <1>1, <1>4

(* Two folds that take the elements in the same order end in what relates  *)
(* them at first and after every step.                                     *)
Parallels(R, S, G, H, o, p) ==
    \A x \in S : \A g \in G : \A h \in H :
        <<g, h>> \in R => <<o[<<x, g>>], p[<<x, h>>]>> \in R

LEMMA FoldsAgree ==
  ASSUME NEW S, IsFiniteSet(S), NEW pick, Picks(pick, S),
         NEW G, NEW b, NEW o, NEW r, IsFold(r, S, G, b, pick, o),
         NEW H, NEW c, NEW p, NEW q, IsFold(q, S, H, c, pick, p),
         NEW R, <<b, c>> \in R, Parallels(R, S, G, H, o, p)
  PROVE  <<r, q>> \in R
<1>1. PICK f \in [SUBSET S -> G] : Iterates(f, S, b, pick, o) /\ r = f[S]
  BY DEF IsFold
<1>2. PICK k \in [SUBSET S -> H] : Iterates(k, S, c, pick, p) /\ q = k[S]
  BY DEF IsFold
<1> DEFINE T == {s \in SUBSET S : <<f[s], k[s]>> \in R}
<1>3. ASSUME NEW s \in SUBSET S, \A x \in s : s \ {x} \in T
      PROVE  s \in T
  <2>1. CASE s = {}
    BY <1>1, <1>2, <2>1 DEF Iterates
  <2>2. CASE s # {}
    <3> DEFINE x == pick[s]
               w == s \ {x}
    <3>1. x \in s /\ w \in SUBSET S
      BY <2>2 DEF Picks
    <3>2. f[s] = o[<<x, f[w]>>] /\ k[s] = p[<<x, k[w]>>]
      BY <1>1, <1>2, <2>2 DEF Iterates
    <3>3. w \in T
      BY <1>3, <3>1
    <3> HIDE DEF x, w
    <3>4. f[w] \in G /\ k[w] \in H /\ <<f[w], k[w]>> \in R /\ x \in S
      BY <3>1, <3>3
    <3>5. <<o[<<x, f[w]>>], p[<<x, k[w]>>]>> \in R
      BY <3>4 DEF Parallels
    <3> QED
      BY <3>2, <3>5
  <2> QED
    BY <2>1, <2>2
<1>4. (SUBSET S) \subseteq T
  <2> HIDE DEF T
  <2>1. Hereditary(T, S)
    BY <1>3 DEF Hereditary
  <2> QED
    BY Zenon, <2>1, AllSubsets
<1> QED
  BY <1>1, <1>2, <1>4

(* The order of FoldSet.                                                   *)
First(S) == [s \in SUBSET S |-> CHOOSE x \in s : TRUE]

LEMMA FirstPicks ==
  ASSUME NEW S
  PROVE  Picks(First(S), S)
  BY DEF Picks, First

(* The order of FoldLeft: the largest of a set of indices.                 *)
Latest(D) == [s \in SUBSET D |-> Max(s)]

LEMMA LatestPicks ==
  ASSUME NEW X, NEW q \in Seq(X)
  PROVE  IsFiniteSet(DOMAIN q) /\ Picks(Latest(DOMAIN q), DOMAIN q)
<1>1. PICK n \in Nat : DOMAIN q = 1..n
  OBVIOUS
<1>2. ASSUME NEW s \in SUBSET (1..n), s # {}
      PROVE  Max(s) \in s
  <2> DEFINE T == {n - i : i \in s}
  <2>1. \A i \in s : i \in 1..n /\ i \in Nat /\ n - i \in Nat
    OBVIOUS
  <2>2. T \in SUBSET Nat /\ T # {}
    BY <1>2, <2>1
  <2>3. PICK k \in T : \A j \in T : k <= j
    BY <2>2, LeastNatural
  <2>4. PICK i \in s : k = n - i
    BY <2>3
  <2>5. \A j \in s : n - i <= n - j
    BY <2>3, <2>4
  <2>6. \A j \in s : i >= j
    BY <2>1, <2>5
  <2> QED
    BY <2>6 DEF Max
<1>3. Picks(Latest(1..n), 1..n)
  BY <1>2 DEF Picks, Latest
<1> QED
  BY <1>1, <1>3, FS_Interval

LEMMA FiniteEdges ==
  ASSUME NEW S \in SUBSET Edge
  PROVE  IsFiniteSet(S)
  BY FiniteAssumption, FS_Subset

LEMMA FiniteNodes ==
  ASSUME NEW S \in SUBSET NodeId
  PROVE  IsFiniteSet(S)
  BY FiniteAssumption, FS_Subset

(* addEdge() for the edges of a set.                                       *)
EdgesAdded(g, S) == FoldSet(LAMBDA e, h : AddEdge(h, e), g, S)

AddingEdges(S, G) == [p \in S \X G |-> AddEdge(p[2], p[1])]

LEMMA EdgesAddedFold ==
  ASSUME NEW S, IsFiniteSet(S), NEW G, NEW g \in G,
         \A x \in S, h \in G : AddEdge(h, x) \in G
  PROVE  IsFold(EdgesAdded(g, S), S, G, g, First(S), AddingEdges(S, G))
<1> DEFINE pick == First(S)
           o == AddingEdges(S, G)
           Step(f, s) ==
               IF s = {} THEN g
               ELSE AddEdge(f[s \ {CHOOSE x \in s : TRUE}], (CHOOSE x \in s : TRUE))
           Eq(f) == f = [s \in SUBSET S |-> Step(f, s)]
           iter == CHOOSE f : Eq(f)
<1>1. EdgesAdded(g, S) = iter[S]
  BY DEF EdgesAdded, FoldSet, MapThenFoldSet
<1>2. Picks(pick, S) /\ \A s \in SUBSET S : pick[s] = CHOOSE x \in s : TRUE
  BY FirstPicks DEF First
<1>3. \A x \in S, h \in G : o[<<x, h>>] = AddEdge(h, x)
  BY DEF AddingEdges
<1>4. Within(o, S, G)
  BY <1>3 DEF Within
<1> HIDE DEF pick, o
<1>5. ASSUME NEW f, NEW s \in SUBSET S, s # {}, f[s \ {pick[s]}] \in G
      PROVE  Step(f, s) = o[<<pick[s], f[s \ {pick[s]}]>>]
  <2>1. pick[s] \in S
    BY <1>2, <1>5 DEF Picks
  <2> QED
    BY <1>2, <1>3, <1>5, <2>1
<1>6. \A f : Step(f, {}) = g
  OBVIOUS
<1> HIDE DEF Step
<1>7. \E f : Eq(f)
  <2>1. PICK f \in [SUBSET S -> G] : Iterates(f, S, g, pick, o)
    BY Zenon, <1>2, <1>4, IterationExists
  <2>2. ASSUME NEW s \in SUBSET S
        PROVE  f[s] = Step(f, s)
    <3>1. s # {} => f[s \ {pick[s]}] \in G
      BY <1>2 DEF Picks
    <3> QED
      BY <1>5, <1>6, <2>1, <3>1 DEF Iterates
  <2>3. f = [s \in SUBSET S |-> f[s]]
    OBVIOUS
  <2> QED
    BY Zenon, <2>2, <2>3
<1>8. Eq(iter)
  <2> HIDE DEF Eq
  <2> QED
    BY <1>7
<1> HIDE DEF iter
<1>9. /\ iter = [s \in SUBSET S |-> iter[s]]
      /\ iter[{}] = g
      /\ \A s \in SUBSET S : s # {} /\ iter[s \ {pick[s]}] \in G =>
            iter[s] = o[<<pick[s], iter[s \ {pick[s]}]>>]
  BY <1>5, <1>6, <1>8
<1>10. IsFold(iter[S], S, G, g, pick, o)
  BY Zenon, <1>2, <1>4, <1>9, FoldIs
<1> QED
  BY <1>1, <1>10 DEF pick, o

(* addNode() for the nodes of a set.                                       *)
NodesAdded(g, S, i) == FoldSet(LAMBDA n, h : AddNode(h, n, i), g, S)

AddingNodes(S, G, i) == [p \in S \X G |-> AddNode(p[2], p[1], i)]

LEMMA NodesAddedFold ==
  ASSUME NEW i, NEW S, IsFiniteSet(S), NEW G, NEW g \in G,
         \A x \in S, h \in G : AddNode(h, x, i) \in G
  PROVE  IsFold(NodesAdded(g, S, i), S, G, g, First(S), AddingNodes(S, G, i))
<1> DEFINE pick == First(S)
           o == AddingNodes(S, G, i)
           Step(f, s) ==
               IF s = {} THEN g
               ELSE AddNode(f[s \ {CHOOSE x \in s : TRUE}], (CHOOSE x \in s : TRUE), i)
           Eq(f) == f = [s \in SUBSET S |-> Step(f, s)]
           iter == CHOOSE f : Eq(f)
<1>1. NodesAdded(g, S, i) = iter[S]
  BY DEF NodesAdded, FoldSet, MapThenFoldSet
<1>2. Picks(pick, S) /\ \A s \in SUBSET S : pick[s] = CHOOSE x \in s : TRUE
  BY FirstPicks DEF First
<1>3. \A x \in S, h \in G : o[<<x, h>>] = AddNode(h, x, i)
  BY DEF AddingNodes
<1>4. Within(o, S, G)
  BY <1>3 DEF Within
<1> HIDE DEF pick, o
<1>5. ASSUME NEW f, NEW s \in SUBSET S, s # {}, f[s \ {pick[s]}] \in G
      PROVE  Step(f, s) = o[<<pick[s], f[s \ {pick[s]}]>>]
  <2>1. pick[s] \in S
    BY <1>2, <1>5 DEF Picks
  <2> QED
    BY <1>2, <1>3, <1>5, <2>1
<1>6. \A f : Step(f, {}) = g
  OBVIOUS
<1> HIDE DEF Step
<1>7. \E f : Eq(f)
  <2>1. PICK f \in [SUBSET S -> G] : Iterates(f, S, g, pick, o)
    BY Zenon, <1>2, <1>4, IterationExists
  <2>2. ASSUME NEW s \in SUBSET S
        PROVE  f[s] = Step(f, s)
    <3>1. s # {} => f[s \ {pick[s]}] \in G
      BY <1>2 DEF Picks
    <3> QED
      BY <1>5, <1>6, <2>1, <3>1 DEF Iterates
  <2>3. f = [s \in SUBSET S |-> f[s]]
    OBVIOUS
  <2> QED
    BY Zenon, <2>2, <2>3
<1>8. Eq(iter)
  <2> HIDE DEF Eq
  <2> QED
    BY <1>7
<1> HIDE DEF iter
<1>9. /\ iter = [s \in SUBSET S |-> iter[s]]
      /\ iter[{}] = g
      /\ \A s \in SUBSET S : s # {} /\ iter[s \ {pick[s]}] \in G =>
            iter[s] = o[<<pick[s], iter[s \ {pick[s]}]>>]
  BY <1>5, <1>6, <1>8
<1>10. IsFold(iter[S], S, G, g, pick, o)
  BY Zenon, <1>2, <1>4, <1>9, FoldIs
<1> QED
  BY <1>1, <1>10 DEF pick, o

(* h is g with the nodes of S filed under i.                               *)
NodesGrown(g, S, i, h) ==
    /\ Sound(h)
    /\ h.target = g.target
    /\ \A n \in NodeId : h.node[n] = IF n \in S THEN i ELSE g.node[n]
    /\ \A j \in File : h.fileIndex[j] \subseteq g.fileIndex[j] \cup IF j = i THEN S ELSE {}
    /\ h = g \/ h.version > g.version

LEMMA NodesAddedIs ==
  ASSUME NEW g, Sound(g), NEW S \in SUBSET NodeId, NEW i \in File
  PROVE  NodesGrown(g, S, i, NodesAdded(g, S, i))
<1> DEFINE o == AddingNodes(S, SoundGraph, i)
           r == NodesAdded(g, S, i)
           R == {p \in (SUBSET S) \X SoundGraph : NodesGrown(g, p[1], i, p[2])}
<1>1. IsFiniteSet(S) /\ g \in SoundGraph
  BY FiniteNodes, SoundFields
<1>2. \A x \in S, h \in SoundGraph : AddNode(h, x, i) \in SoundGraph
  BY AddNodeSound, SoundFields DEF SoundGraph
<1>3. IsFold(r, S, SoundGraph, g, First(S), o)
  BY <1>1, <1>2, NodesAddedFold
<1>4. \A x \in S : \A h \in SoundGraph : o[<<x, h>>] = AddNode(h, x, i)
  BY DEF AddingNodes
<1> HIDE DEF o, r
<1>5. <<{}, g>> \in R
  BY <1>1, SoundFields DEF NodesGrown
<1>6. ASSUME NEW s \in SUBSET S, NEW x \in s, NEW h \in SoundGraph, <<s \ {x}, h>> \in R
      PROVE  <<s, o[<<x, h>>]>> \in R
  <2> DEFINE k == AddNode(h, x, i)
  <2>1. NodesGrown(g, s \ {x}, i, h) /\ Sound(h) /\ x \in NodeId
    BY <1>6 DEF SoundGraph
  <2>2. k = AddNode(h, x, i) /\ o[<<x, h>>] = k
    BY <1>4
  <2> HIDE DEF k
  <2>3. /\ Sound(k)
        /\ k.target = h.target
        /\ k.version = h.version + 1
        /\ \A m \in NodeId : k.node[m] = IF m = x THEN i ELSE h.node[m]
        /\ k.fileIndex[i] = h.fileIndex[i] \cup {x}
        /\ \A j \in File : j # i => k.fileIndex[j] = h.fileIndex[j]
    BY <2>1, <2>2, AddNodeIs
  <2>4. g.version \in Nat /\ h.version \in Nat
    BY <2>1, SoundFields
  <2>5. h.version >= g.version
    BY <2>1, <2>4 DEF NodesGrown
  <2>6. k.version > g.version
    BY <2>3, <2>4, <2>5
  <2>7. \A n \in NodeId : k.node[n] = IF n \in s THEN i ELSE g.node[n]
    BY <2>1, <2>3 DEF NodesGrown
  <2>8. ASSUME NEW j \in File
        PROVE  k.fileIndex[j] \subseteq g.fileIndex[j] \cup IF j = i THEN s ELSE {}
    <3>1. h.fileIndex[j] \subseteq g.fileIndex[j] \cup IF j = i THEN s \ {x} ELSE {}
      BY <2>1 DEF NodesGrown
    <3> QED
      BY <1>6, <2>3, <3>1
  <2>9. NodesGrown(g, s, i, k)
    BY <2>1, <2>3, <2>6, <2>7, <2>8 DEF NodesGrown
  <2> QED
    BY <2>2, <2>3, <2>9, SoundFields
<1>7. <<S, r>> \in R
  <2> HIDE DEF R
  <2>1. Carries(R, S, SoundGraph, o)
    BY <1>6 DEF Carries
  <2> QED
    BY Zenon, <1>1, <1>3, <1>5, <2>1, FirstPicks, FoldHolds
<1> QED
  BY <1>7 DEF r

(* h is g with the edges of S.                                             *)
EdgesGrown(g, S, h) ==
    /\ Sound(h)
    /\ \A e \in Edge : h.target[e] = IF e \in S THEN Dst[e] ELSE g.target[e]
    /\ h.node = g.node
    /\ h.fileIndex = g.fileIndex
    /\ h = g \/ h.version > g.version

LEMMA EdgesAddedIs ==
  ASSUME NEW g, Sound(g), NEW S \in SUBSET Edge
  PROVE  EdgesGrown(g, S, EdgesAdded(g, S))
<1> DEFINE o == AddingEdges(S, SoundGraph)
           r == EdgesAdded(g, S)
           R == {p \in (SUBSET S) \X SoundGraph : EdgesGrown(g, p[1], p[2])}
<1>1. IsFiniteSet(S) /\ g \in SoundGraph
  BY FiniteEdges, SoundFields
<1>2. \A x \in S, h \in SoundGraph : AddEdge(h, x) \in SoundGraph
  BY AddEdgeSound, SoundFields DEF SoundGraph
<1>3. IsFold(r, S, SoundGraph, g, First(S), o)
  BY <1>1, <1>2, EdgesAddedFold
<1>4. \A x \in S : \A h \in SoundGraph : o[<<x, h>>] = AddEdge(h, x)
  BY DEF AddingEdges
<1> HIDE DEF o, r
<1>5. <<{}, g>> \in R
  BY <1>1 DEF EdgesGrown
<1>6. ASSUME NEW s \in SUBSET S, NEW x \in s, NEW h \in SoundGraph, <<s \ {x}, h>> \in R
      PROVE  <<s, o[<<x, h>>]>> \in R
  <2> DEFINE k == AddEdge(h, x)
  <2>1. EdgesGrown(g, s \ {x}, h) /\ Sound(h) /\ x \in Edge
    BY <1>6 DEF SoundGraph
  <2>2. k = AddEdge(h, x) /\ o[<<x, h>>] = k
    BY <1>4
  <2> HIDE DEF k
  <2>3. /\ Sound(k)
        /\ k.node = h.node
        /\ k.fileIndex = h.fileIndex
        /\ k.version = h.version + 1
        /\ \A d \in Edge : k.target[d] = IF d = x THEN Dst[x] ELSE h.target[d]
    BY <2>1, <2>2, AddEdgeIs
  <2>4. g.version \in Nat /\ h.version \in Nat
    BY <2>1, SoundFields
  <2>5. EdgesGrown(g, s, k)
    BY <1>6, <2>1, <2>3, <2>4 DEF EdgesGrown
  <2> QED
    BY <2>2, <2>3, <2>5, SoundFields
<1>7. <<S, r>> \in R
  <2> HIDE DEF R
  <2>1. Carries(R, S, SoundGraph, o)
    BY <1>6 DEF Carries
  <2> QED
    BY Zenon, <1>1, <1>3, <1>5, <2>1, FirstPicks, FoldHolds
<1> QED
  BY <1>7 DEF r
===========================================================================
