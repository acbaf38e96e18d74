------------------------ MODULE AnalysisEngineProofs ------------------------
(***************************************************************************)
(* What AnalysisEngine.tla promises, proved: the indexes of the graph are  *)
(* those of its nodes and edges (IndexesInSync), a revision names one graph*)
(* (RevisionExact), the graph mirrors the disk once all reports are        *)
(* handled (MirrorsDisk), and a warm run is a cold one (WarmEqualsCold).   *)
(*                                                                         *)
(* A run is a composition of folds, over the nodes and edges a file has,   *)
(* over the files and over what each linker selects.  The lemmas about the *)
(* methods and about folds are those of DependencyGraphProofs.tla.         *)
(* Links says what all linkers have in common, Parsed what the parsers'    *)
(* results add, Relinked and Updated what a run and a report make of the   *)
(* graph, and Twins relates the graphs of a warm and of a cold run.        *)
(***************************************************************************)
EXTENDS AnalysisEngine, DependencyGraphProofs

---------------------------------------------------------------------------
(* What the linkers do to a graph.                                         *)

EventNode == {Dst[l.emits] : l \in Range(Listened)}

EventsOf(g, f) == {Dst[l.emits] : l \in {k \in Range(Listened) : g.node[Src[k.emits]] = f}}

(* Every native call has been pointed to its method.                       *)
Settled(g) == \A e \in Native : HasEdge(g, e) => g.target[e] = Method[e]

(* Either the version is higher or the nodes and edges are the same.       *)
Revised(g, h) ==
    /\ h.version >= g.version
    /\ h.version = g.version /\ Settled(g) => h.node = g.node /\ h.target = g.target

(* The nodes of g stay under their files, and under a file come only the   *)
(* events of its components.                                               *)
Filed(g, h) ==
    /\ \A n \in NodeId \ EventNode : HasNode(g, n) => h.node[n] = g.node[n]
    /\ \A f \in File \ {Virtual} :
          /\ \A n \in NodeId : h.node[n] = f => g.node[n] = f \/ n \in EventsOf(g, f)
          /\ h.fileIndex[f] \subseteq g.fileIndex[f] \cup EventNode

Links(g, h) == Sound(h) /\ Revised(g, h) /\ Filed(g, h)

LEMMA ListenedEnds ==
  ASSUME NEW l \in Range(Listened)
  PROVE  /\ l.emits \in Edge \ Native /\ l.listens \in Edge \ Native
         /\ Src[l.emits] \in NodeId \ EventNode
         /\ Dst[l.emits] \in NodeId
         /\ Dst[l.emits] \in EventNode
<1>1. l \in [emits : Edge \ Native, listens : Edge \ Native]
  BY LinkAssumption DEF Range
<1>2. l.emits \in Edge \ Native /\ l.listens \in Edge \ Native
  BY <1>1
<1>3. Src[l.emits] \in NodeId /\ Dst[l.emits] \in NodeId
  BY <1>2, GraphAssumption
<1>4. Src[l.emits] \notin EventNode
  BY EventAssumption DEF EventNode
<1> QED
  BY <1>2, <1>3, <1>4 DEF EventNode

LEMMA LinksNothing ==
  ASSUME NEW g, Sound(g)
  PROVE  Links(g, g)
  BY SoundFields DEF Links, Revised, Filed

LEMMA LinksTwice ==
  ASSUME NEW g, NEW h, NEW k, Sound(g), Links(g, h), Links(h, k)
  PROVE  Links(g, k)
<1>1. g.version \in Nat /\ h.version \in Nat /\ k.version \in Nat
  BY SoundFields DEF Links
<1>2. Revised(g, k)
  <2>1. h.version = g.version /\ Settled(g) => Settled(h)
    BY DEF Links, Revised, Settled, HasEdge
  <2> QED
    BY <1>1, <2>1 DEF Links, Revised
<1>3. ASSUME NEW n \in NodeId \ EventNode, HasNode(g, n)
      PROVE  k.node[n] = g.node[n]
  BY <1>3 DEF Links, Filed, HasNode
<1>4. ASSUME NEW f \in File \ {Virtual}, NEW n \in NodeId, k.node[n] = f
      PROVE  g.node[n] = f \/ n \in EventsOf(g, f)
  <2>1. CASE h.node[n] = f
    BY <2>1 DEF Links, Filed
  <2>2. CASE n \in EventsOf(h, f)
    <3>1. PICK l \in Range(Listened) : n = Dst[l.emits] /\ h.node[Src[l.emits]] = f
      BY <2>2 DEF EventsOf
    <3>2. Src[l.emits] \in NodeId \ EventNode
      BY ListenedEnds
    <3>3. Src[l.emits] \notin EventsOf(g, f)
      BY <3>2 DEF EventsOf, EventNode
    <3>4. g.node[Src[l.emits]] = f
      BY <3>1, <3>2, <3>3 DEF Links, Filed
    <3> QED
      BY <3>1, <3>4 DEF EventsOf
  <2> QED
    BY <1>4, <2>1, <2>2 DEF Links, Filed
<1>5. ASSUME NEW f \in File \ {Virtual}
      PROVE  k.fileIndex[f] \subseteq g.fileIndex[f] \cup EventNode
  <2>1. k.fileIndex[f] \subseteq h.fileIndex[f] \cup EventNode
    BY DEF Links, Filed
  <2>2. h.fileIndex[f] \subseteq g.fileIndex[f] \cup EventNode
    BY DEF Links, Filed
  <2> QED
    BY <2>1, <2>2
<1>6. Filed(g, k)
  BY <1>3, <1>4, <1>5 DEF Filed
<1> QED
  BY <1>2, <1>6 DEF Links

(* A node a linker may add to what has become of g.                        *)
Addable(g, n, f) ==
    n \in EventsOf(g, f) \/ (f = Virtual /\ (n \in EventNode \/ ~HasNode(g, n)))

LEMMA AddNodeLinks ==
  ASSUME NEW g, Sound(g), NEW h, Links(g, h), NEW n \in NodeId, NEW f \in File, Addable(g, n, f)
  PROVE  Links(g, AddNode(h, n, f))
<1> DEFINE k == AddNode(h, n, f)
<1>1. Sound(h) /\ k = AddNode(h, n, f)
  BY DEF Links
<1> HIDE DEF k
<1>2. /\ Sound(k)
      /\ k.version = h.version + 1
      /\ \A m \in NodeId : k.node[m] = IF m = n THEN f ELSE h.node[m]
      /\ k.fileIndex[f] = h.fileIndex[f] \cup {n}
      /\ \A i \in File : i # f => k.fileIndex[i] = h.fileIndex[i]
  BY <1>1, AddNodeIs
<1>3. n \in EventsOf(g, f) => n \in EventNode
  BY DEF EventsOf, EventNode
<1>4. Revised(g, k)
  BY <1>1, <1>2, SoundFields DEF Links, Revised
<1>5. \A m \in NodeId \ EventNode : HasNode(g, m) => k.node[m] = g.node[m]
  BY <1>2, <1>3 DEF Links, Filed, Addable
<1>6. \A i \in File \ {Virtual} : \A m \in NodeId :
         k.node[m] = i => g.node[m] = i \/ m \in EventsOf(g, i)
  BY <1>2 DEF Links, Filed, Addable
<1>7. ASSUME NEW i \in File \ {Virtual}
      PROVE  k.fileIndex[i] \subseteq g.fileIndex[i] \cup EventNode
  <2>1. h.fileIndex[i] \subseteq g.fileIndex[i] \cup EventNode
    BY DEF Links, Filed
  <2>2. i = f => n \in EventNode
    BY <1>3 DEF Addable
  <2>3. k.fileIndex[i] \subseteq h.fileIndex[i] \cup IF i = f THEN {n} ELSE {}
    BY <1>2
  <2> QED
    BY <2>1, <2>2, <2>3
<1>8. Links(g, k)
  BY <1>2, <1>4, <1>5, <1>6, <1>7 DEF Links, Filed
<1> QED
  BY <1>1, <1>8

LEMMA AddEdgeLinks ==
  ASSUME NEW g, Sound(g), NEW h, Links(g, h), NEW e \in Edge
  PROVE  Links(g, AddEdge(h, e))
<1> DEFINE k == AddEdge(h, e)
<1>1. Sound(h)
  BY DEF Links
<1>2. /\ Sound(k)
      /\ k.version = h.version + 1
      /\ k.node = h.node
      /\ k.fileIndex = h.fileIndex
  BY <1>1, AddEdgeIs
<1> HIDE DEF k
<1>3. Revised(g, k)
  BY <1>1, <1>2, SoundFields DEF Links, Revised
<1>4. Filed(g, k)
  BY <1>2 DEF Links, Filed
<1>5. Links(g, k)
  BY <1>2, <1>3, <1>4 DEF Links
<1> QED
  BY <1>5 DEF k

LEMMA RemoveEdgeLinks ==
  ASSUME NEW g, Sound(g), NEW h, Links(g, h), NEW e \in Edge
  PROVE  Links(g, RemoveEdge(h, e))
<1> DEFINE k == RemoveEdge(h, e)
<1>1. Sound(h)
  BY DEF Links
<1>2. /\ Sound(k)
      /\ k = h \/ k.version = h.version + 1
      /\ k.node = h.node
      /\ k.fileIndex = h.fileIndex
  BY <1>1, RemoveEdgeIs
<1> HIDE DEF k
<1>3. CASE k = h
  BY <1>3 DEF k
<1>4. CASE k.version = h.version + 1
  <2>1. Revised(g, k)
    BY <1>1, <1>4, SoundFields DEF Links, Revised
  <2>2. Filed(g, k)
    BY <1>2 DEF Links, Filed
  <2> QED
    BY <1>2, <2>1, <2>2 DEF Links, k
<1> QED
  BY <1>2, <1>3, <1>4

LEMMA LinkNativeLinks ==
  ASSUME NEW g, Sound(g), NEW h, Links(g, h), NEW e \in Native, HasEdge(h, e)
  PROVE  Links(g, LinkNative(h, e))
<1> DEFINE b == WithBridge(h, e)
           a == AddNode(b, Method[e], Virtual)
           m == WithMethod(b, e)
           k == LinkNative(h, e)
<1>1. /\ Method[e] \in NodeId
      /\ Bridge[e] \in NodeId
      /\ Serves[e] \in Edge
      /\ Virtual \in File
      /\ e \in Edge
  BY GraphAssumption
<1>2. Sound(h)
  BY DEF Links
<1>3. ASSUME NEW p, Links(g, p), NEW n \in NodeId, ~HasNode(p, n)
      PROVE  Links(g, AddNode(p, n, Virtual))
  <2>1. n \in EventNode \/ ~HasNode(g, n)
    BY <1>3 DEF Links, Filed, HasNode
  <2>2. Addable(g, n, Virtual)
    BY <2>1 DEF Addable
  <2> QED
    BY <1>1, <1>3, <2>2, AddNodeLinks
<1>4. Links(g, b)
  BY <1>1, <1>3 DEF WithBridge
<1>5. Links(g, m)
  <2>1. CASE HasNode(b, Method[e])
    BY <1>4, <2>1 DEF WithMethod
  <2>2. CASE ~HasNode(b, Method[e])
    <3>1. Links(g, a)
      BY <1>1, <1>3, <1>4, <2>2
    <3>2. m = AddEdge(a, Serves[e])
      BY <2>2 DEF WithMethod
    <3> HIDE DEF a, m
    <3> QED
      BY <1>1, <3>1, <3>2, AddEdgeLinks
  <2> QED
    BY <2>1, <2>2
<1>6. Sound(m) /\ m.target[e] = h.target[e]
  BY <1>2, LinkNativeSteps
<1>7. Sound(k)
  BY <1>2, LinkNativeSound
<1>8. k = [m EXCEPT !.target = [m.target EXCEPT ![e] = Method[e]]]
  BY <1>6 DEF LinkNative, Sound, Graph
<1> HIDE DEF b, a, m, k
<1>9. /\ k.node = m.node
      /\ k.fileIndex = m.fileIndex
      /\ k.version = m.version
      /\ k.target = [m.target EXCEPT ![e] = Method[e]]
  BY <1>6, <1>8 DEF Sound, Graph
<1>10. m.target \in [Edge -> NodeId \cup {Absent}]
  BY <1>6, SoundFields
<1>11. ASSUME m.version = g.version, Settled(g)
       PROVE  k.target = g.target
  <2>1. m.target = g.target
    BY <1>5, <1>11 DEF Links, Revised
  <2>2. g.target[e] = Method[e]
    BY <1>6, <1>11, <2>1 DEF Settled, HasEdge
  <2> QED
    BY <1>1, <1>9, <1>10, <2>1, <2>2
<1>12. Revised(g, k)
  BY <1>5, <1>9, <1>11 DEF Links, Revised
<1>13. Filed(g, k)
  BY <1>5, <1>9 DEF Links, Filed
<1>14. Links(g, k)
  BY <1>7, <1>12, <1>13 DEF Links
<1> QED
  BY <1>14 DEF k

---------------------------------------------------------------------------
(* The folds of the linkers.                                               *)

(* An edge to a placeholder gives way to the edge it stands for.           *)
NamesResolved(g, S) == FoldSet(LAMBDA e, h : AddEdge(RemoveEdge(h, e), Resolved[e]), g, S)

ResolvingNames(S, G) == [p \in S \X G |-> AddEdge(RemoveEdge(p[2], p[1]), Resolved[p[1]])]

LEMMA NamesResolvedFold ==
  ASSUME NEW S, IsFiniteSet(S), NEW G, NEW g \in G,
         \A x \in S, h \in G : AddEdge(RemoveEdge(h, x), Resolved[x]) \in G
  PROVE  IsFold(NamesResolved(g, S), S, G, g, First(S), ResolvingNames(S, G))
<1> DEFINE pick == First(S)
           o == ResolvingNames(S, G)
           Step(f, s) ==
               IF s = {} THEN g
               ELSE AddEdge(RemoveEdge(f[s \ {CHOOSE x \in s : TRUE}], (CHOOSE x \in s : TRUE)), Resolved[(CHOOSE x \in s : TRUE)])
           Eq(f) == f = [s \in SUBSET S |-> Step(f, s)]
           iter == CHOOSE f : Eq(f)
<1>1. NamesResolved(g, S) = iter[S]
  BY DEF NamesResolved, FoldSet, MapThenFoldSet
<1>2. Picks(pick, S) /\ \A s \in SUBSET S : pick[s] = CHOOSE x \in s : TRUE
  BY FirstPicks DEF First
<1>3. \A x \in S, h \in G : o[<<x, h>>] = AddEdge(RemoveEdge(h, x), Resolved[x])
  BY DEF ResolvingNames
<1>4. Within(o, S, G)
  BY <1>3 DEF Within
<1> HIDE DEF pick, o
<1>5. ASSUME NEW f, NEW s \in SUBSET S, s # {}, f[s \ {pick[s]}] \in G
      PROVE  Step(f, s) = o[<<pick[s], f[s \ {pick[s]}]>>]
  <2>1. pick[s] \in S
    BY <1>2, <1>5 DEF Picks
  <2> QED
    BY <1>2, <1>3, <1>5, <2>1
<1>6. \A f : Step(f, {}) = g
  OBVIOUS
<1> HIDE DEF Step
<1>7. \E f : Eq(f)
  <2>1. PICK f \in [SUBSET S -> G] : Iterates(f, S, g, pick, o)
    BY Zenon, <1>2, <1>4, IterationExists
  <2>2. ASSUME NEW s \in SUBSET S
        PROVE  f[s] = Step(f, s)
    <3>1. s # {} => f[s \ {pick[s]}] \in G
      BY <1>2 DEF Picks
    <3> QED
      BY <1>5, <1>6, <2>1, <3>1 DEF Iterates
  <2>3. f = [s \in SUBSET S |-> f[s]]
    OBVIOUS
  <2> QED
    BY Zenon, <2>2, <2>3
<1>8. Eq(iter)
  <2> HIDE DEF Eq
  <2> QED
    BY <1>7
<1> HIDE DEF iter
<1>9. /\ iter = [s \in SUBSET S |-> iter[s]]
      /\ iter[{}] = g
      /\ \A s \in SUBSET S : s # {} /\ iter[s \ {pick[s]}] \in G =>
            iter[s] = o[<<pick[s], iter[s \ {pick[s]}]>>]
  BY <1>5, <1>6, <1>8
<1>10. IsFold(iter[S], S, G, g, pick, o)
  BY Zenon, <1>2, <1>4, <1>9, FoldIs
<1> QED
  BY <1>1, <1>10 DEF pick, o

(* The native calls of a set are pointed to their methods.                 *)
NativesLinked(g, S) == FoldSet(LAMBDA e, h : LinkNative(h, e), g, S)

LinkingNatives(S, G) == [p \in S \X G |-> LinkNative(p[2], p[1])]

LEMMA NativesLinkedFold ==
  ASSUME NEW S, IsFiniteSet(S), NEW G, NEW g \in G,
         \A x \in S, h \in G : LinkNative(h, x) \in G
  PROVE  IsFold(NativesLinked(g, S), S, G, g, First(S), LinkingNatives(S, G))
<1> DEFINE pick == First(S)
           o == LinkingNatives(S, G)
           Step(f, s) ==
               IF s = {} THEN g
               ELSE LinkNative(f[s \ {CHOOSE x \in s : TRUE}], (CHOOSE x \in s : TRUE))
           Eq(f) == f = [s \in SUBSET S |-> Step(f, s)]
           iter == CHOOSE f : Eq(f)
<1>1. NativesLinked(g, S) = iter[S]
  BY DEF NativesLinked, FoldSet, MapThenFoldSet
<1>2. Picks(pick, S) /\ \A s \in SUBSET S : pick[s] = CHOOSE x \in s : TRUE
  BY FirstPicks DEF First
<1>3. \A x \in S, h \in G : o[<<x, h>>] = LinkNative(h, x)
  BY DEF LinkingNatives
<1>4. Within(o, S, G)
  BY <1>3 DEF Within
<1> HIDE DEF pick, o
<1>5. ASSUME NEW f, NEW s \in SUBSET S, s # {}, f[s \ {pick[s]}] \in G
      PROVE  Step(f, s) = o[<<pick[s], f[s \ {pick[s]}]>>]
  <2>1. pick[s] \in S
    BY <1>2, <1>5 DEF Picks
  <2> QED
    BY <1>2, <1>3, <1>5, <2>1
<1>6. \A f : Step(f, {}) = g
  OBVIOUS
<1> HIDE DEF Step
<1>7. \E f : Eq(f)
  <2>1. PICK f \in [SUBSET S -> G] : Iterates(f, S, g, pick, o)
    BY Zenon, <1>2, <1>4, IterationExists
  <2>2. ASSUME NEW s \in SUBSET S
        PROVE  f[s] = Step(f, s)
    <3>1. s # {} => f[s \ {pick[s]}] \in G
      BY <1>2 DEF Picks
    <3> QED
      BY <1>5, <1>6, <2>1, <3>1 DEF Iterates
  <2>3. f = [s \in SUBSET S |-> f[s]]
    OBVIOUS
  <2> QED
    BY Zenon, <2>2, <2>3
<1>8. Eq(iter)
  <2> HIDE DEF Eq
  <2> QED
    BY <1>7
<1> HIDE DEF iter
<1>9. /\ iter = [s \in SUBSET S |-> iter[s]]
      /\ iter[{}] = g
      /\ \A s \in SUBSET S : s # {} /\ iter[s \ {pick[s]}] \in G =>
            iter[s] = o[<<pick[s], iter[s \ {pick[s]}]>>]
  BY <1>5, <1>6, <1>8
<1>10. IsFold(iter[S], S, G, g, pick, o)
  BY Zenon, <1>2, <1>4, <1>9, FoldIs
<1> QED
  BY <1>1, <1>10 DEF pick, o

(* What is added for a listener, k being the graph it was found in.        *)
Listen(k, h, e) ==
    LET l == Listened[e] IN
    AddEdge(RemoveEdge(AddEdge(AddNode(h, Dst[l.emits], k.node[Src[l.emits]]), l.emits), e),
            l.listens)

(* The listeners of a set are linked to their events.                      *)
ListenersLinked(k, g, S) == FoldSet(LAMBDA e, h : Listen(k, h, e), g, S)

Listening(k, S, G) == [p \in S \X G |-> Listen(k, p[2], p[1])]

LEMMA ListenersLinkedFold ==
  ASSUME NEW k, NEW S, IsFiniteSet(S), NEW G, NEW g \in G,
         \A x \in S, h \in G : Listen(k, h, x) \in G
  PROVE  IsFold(ListenersLinked(k, g, S), S, G, g, First(S), Listening(k, S, G))
<1> DEFINE pick == First(S)
           o == Listening(k, S, G)
           Step(f, s) ==
               IF s = {} THEN g
               ELSE Listen(k, f[s \ {CHOOSE x \in s : TRUE}], (CHOOSE x \in s : TRUE))
           Eq(f) == f = [s \in SUBSET S |-> Step(f, s)]
           iter == CHOOSE f : Eq(f)
<1>1. ListenersLinked(k, g, S) = iter[S]
  BY DEF ListenersLinked, FoldSet, MapThenFoldSet
<1>2. Picks(pick, S) /\ \A s \in SUBSET S : pick[s] = CHOOSE x \in s : TRUE
  BY FirstPicks DEF First
<1>3. \A x \in S, h \in G : o[<<x, h>>] = Listen(k, h, x)
  BY DEF Listening
<1>4. Within(o, S, G)
  BY <1>3 DEF Within
<1> HIDE DEF pick, o
<1>5. ASSUME NEW f, NEW s \in SUBSET S, s # {}, f[s \ {pick[s]}] \in G
      PROVE  Step(f, s) = o[<<pick[s], f[s \ {pick[s]}]>>]
  <2>1. pick[s] \in S
    BY <1>2, <1>5 DEF Picks
  <2> QED
    BY <1>2, <1>3, <1>5, <2>1
<1>6. \A f : Step(f, {}) = g
  OBVIOUS
<1> HIDE DEF Step
<1>7. \E f : Eq(f)
  <2>1. PICK f \in [SUBSET S -> G] : Iterates(f, S, g, pick, o)
    BY Zenon, <1>2, <1>4, IterationExists
  <2>2. ASSUME NEW s \in SUBSET S
        PROVE  f[s] = Step(f, s)
    <3>1. s # {} => f[s \ {pick[s]}] \in G
      BY <1>2 DEF Picks
    <3> QED
      BY <1>5, <1>6, <2>1, <3>1 DEF Iterates
  <2>3. f = [s \in SUBSET S |-> f[s]]
    OBVIOUS
  <2> QED
    BY Zenon, <2>2, <2>3
<1>8. Eq(iter)
  <2> HIDE DEF Eq
  <2> QED
    BY <1>7
<1> HIDE DEF iter
<1>9. /\ iter = [s \in SUBSET S |-> iter[s]]
      /\ iter[{}] = g
      /\ \A s \in SUBSET S : s # {} /\ iter[s \ {pick[s]}] \in G =>
            iter[s] = o[<<pick[s], iter[s \ {pick[s]}]>>]
  BY <1>5, <1>6, <1>8
<1>10. IsFold(iter[S], S, G, g, pick, o)
  BY Zenon, <1>2, <1>4, <1>9, FoldIs
<1> QED
  BY <1>1, <1>10 DEF pick, o

LEMMA LinksFold ==
  ASSUME NEW g, Sound(g), NEW S, IsFiniteSet(S), NEW G, NEW o, NEW r,
         IsFold(r, S, G, g, First(S), o),
         \A x \in S : \A h \in G : Links(g, h) => Links(g, o[<<x, h>>])
  PROVE  Links(g, r)
<1> DEFINE R == {p \in (SUBSET S) \X SoundGraph : Links(g, p[2])}
<1>1. ASSUME NEW s \in SUBSET S, NEW h, Links(g, h)
      PROVE  <<s, h>> \in R
  BY <1>1, SoundFields DEF Links
<1>2. <<{}, g>> \in R
  BY <1>1, LinksNothing
<1>3. Carries(R, S, G, o)
  BY <1>1 DEF Carries
<1>4. <<S, r>> \in R
  <2> HIDE DEF R
  <2> QED
    BY Zenon, <1>2, <1>3, FirstPicks, FoldHolds
<1> QED
  BY <1>4

Nameable(g, there) == {e \in EdgesOf(g) \cap DOMAIN Resolved : Known(g, e, there)}

LEMMA ResolveNamesIs ==
  ASSUME NEW g, Sound(g), NEW there, NEW S, S = Nameable(g, there)
  PROVE  /\ S \in SUBSET Edge
         /\ \A e \in S : Resolved[e] \in Edge
         /\ ResolveNames(g, there) = NamesResolved(g, S)
         /\ IsFold(NamesResolved(g, S), S, SoundGraph, g, First(S),
                   ResolvingNames(S, SoundGraph))
<1>1. S \in SUBSET Edge /\ \A e \in S : Resolved[e] \in Edge
  BY LinkAssumption DEF Nameable, EdgesOf
<1>2. ResolveNames(g, there) = NamesResolved(g, S)
  BY DEF ResolveNames, NamesResolved, Nameable
<1>3. ASSUME NEW x \in S, NEW h \in SoundGraph
      PROVE  AddEdge(RemoveEdge(h, x), Resolved[x]) \in SoundGraph
  <2>1. Sound(RemoveEdge(h, x))
    BY <1>1, RemoveEdgeSound DEF SoundGraph
  <2>2. Sound(AddEdge(RemoveEdge(h, x), Resolved[x]))
    BY <1>1, <2>1, AddEdgeSound
  <2> QED
    BY <2>2, SoundFields
<1>4. IsFiniteSet(S) /\ g \in SoundGraph
  BY <1>1, FiniteEdges, SoundFields
<1> QED
  BY <1>1, <1>2, <1>3, <1>4, NamesResolvedFold

LEMMA ResolveNamesLinks ==
  ASSUME NEW g, Sound(g), NEW there
  PROVE  Links(g, ResolveNames(g, there))
<1> DEFINE S == Nameable(g, there)
           o == ResolvingNames(S, SoundGraph)
           r == ResolveNames(g, there)
<1>1. S \in SUBSET Edge /\ \A e \in S : Resolved[e] \in Edge
  BY ResolveNamesIs
<1>2. IsFold(r, S, SoundGraph, g, First(S), o)
  BY ResolveNamesIs
<1> HIDE DEF S, r
<1>3. \A x \in S : \A h \in SoundGraph :
         o[<<x, h>>] = AddEdge(RemoveEdge(h, x), Resolved[x])
  BY DEF ResolvingNames
<1> HIDE DEF o
<1>4. ASSUME NEW x \in S, NEW h \in SoundGraph, Links(g, h)
      PROVE  Links(g, o[<<x, h>>])
  <2>1. Links(g, RemoveEdge(h, x))
    BY <1>1, <1>4, RemoveEdgeLinks
  <2>2. Links(g, AddEdge(RemoveEdge(h, x), Resolved[x]))
    BY <1>1, <2>1, AddEdgeLinks
  <2> QED
    BY <1>3, <2>2
<1>5. IsFiniteSet(S)
  BY <1>1, FiniteEdges
<1>6. Links(g, r)
  BY <1>2, <1>4, <1>5, LinksFold
<1> QED
  BY <1>6 DEF r

(* The graphs that have the native calls to link.                          *)
Calling(S) == {h \in SoundGraph : \A e \in S : HasEdge(h, e)}

LEMMA LinkNativeIs ==
  ASSUME NEW g, Sound(g), NEW e \in Native, HasEdge(g, e), NEW h, h = LinkNative(g, e)
  PROVE  /\ Sound(h)
         /\ h.target[e] = Method[e]
         /\ \A c \in Native \ {e} : h.target[c] = g.target[c]
         /\ \A c \in Edge : HasEdge(g, c) => HasEdge(h, c)
<1> DEFINE b == WithBridge(g, e)
           a == AddNode(b, Method[e], Virtual)
           m == WithMethod(b, e)
<1>1. /\ Method[e] \in NodeId
      /\ Bridge[e] \in NodeId
      /\ Serves[e] \in Edge \ Native
      /\ Virtual \in File
      /\ Native \subseteq Edge
      /\ Absent \notin NodeId
      /\ Dst[Serves[e]] \in NodeId
  BY GraphAssumption
<1>2. Sound(h)
  BY LinkNativeSound
<1>3. Sound(b) /\ b.target = g.target
  BY <1>1, AddNodeSound, AddNodeTarget DEF WithBridge
<1>4. Sound(a) /\ a.target = b.target
  <2> HIDE DEF b
  <2> QED
    BY <1>1, <1>3, AddNodeSound, AddNodeTarget
<1>5. \A c \in Edge : m.target[c] = g.target[c]
                      \/ (c = Serves[e] /\ m.target[c] = Dst[c])
  <2> DEFINE s == AddEdge(a, Serves[e])
  <2>1. m = b \/ m = s
    BY DEF WithMethod
  <2> HIDE DEF a, b, m
  <2>2. \A c \in Edge : s.target[c] = IF c = Serves[e] THEN Dst[Serves[e]] ELSE a.target[c]
    <3>1. Serves[e] \in Edge /\ Sound(a) /\ s = AddEdge(a, Serves[e])
      BY <1>1, <1>4
    <3> HIDE DEF s
    <3> QED
      BY <3>1, AddEdgeIs
  <2> HIDE DEF s
  <2>3. a.target = g.target
    BY <1>3, <1>4
  <2>4. CASE m = b
    BY <1>3, <2>4
  <2>5. CASE m = s
    BY <2>2, <2>3, <2>5
  <2> QED
    BY <2>1, <2>4, <2>5
<1>6. Sound(m)
  BY LinkNativeSteps
<1>7. h = [m EXCEPT !.target = [m.target EXCEPT ![e] = Method[e]]]
  BY <1>6 DEF LinkNative, Sound, Graph
<1> HIDE DEF m
<1>8. \A c \in Edge : h.target[c] = IF c = e THEN Method[e] ELSE m.target[c]
  BY <1>6, <1>7 DEF Sound, Graph
<1> QED
  BY <1>1, <1>2, <1>5, <1>8 DEF HasEdge

LEMMA LinkNativesIs ==
  ASSUME NEW g, Sound(g), NEW S, S = EdgesOf(g) \cap Native
  PROVE  /\ LinkNatives(g) = NativesLinked(g, S)
         /\ IsFold(NativesLinked(g, S), S, Calling(S), g, First(S),
                   LinkingNatives(S, Calling(S)))
<1>1. S \in SUBSET Edge /\ S \subseteq Native
  BY DEF EdgesOf
<1>2. LinkNatives(g) = NativesLinked(g, S)
  BY DEF LinkNatives, NativesLinked
<1>3. ASSUME NEW x \in S, NEW h \in Calling(S)
      PROVE  LinkNative(h, x) \in Calling(S)
  <2> DEFINE k == LinkNative(h, x)
  <2>1. Sound(h) /\ HasEdge(h, x)
    BY DEF Calling, SoundGraph
  <2>2. Sound(k) /\ \A c \in Edge : HasEdge(h, c) => HasEdge(k, c)
    BY <1>1, <2>1, LinkNativeIs
  <2> HIDE DEF k
  <2>3. k \in Calling(S)
    BY <1>1, <2>2, SoundFields DEF Calling
  <2> QED
    BY <2>3 DEF k
<1>4. IsFiniteSet(S) /\ g \in Calling(S)
  BY <1>1, FiniteEdges, SoundFields DEF Calling, EdgesOf
<1> QED
  BY <1>2, <1>3, <1>4, NativesLinkedFold

LEMMA LinkNativesLinks ==
  ASSUME NEW g, Sound(g)
  PROVE  Links(g, LinkNatives(g)) /\ Settled(LinkNatives(g))
<1> DEFINE S == EdgesOf(g) \cap Native
           o == LinkingNatives(S, Calling(S))
           r == LinkNatives(g)
<1>1. S \in SUBSET Edge /\ S \subseteq Native /\ \A e \in Native : e \in S <=> HasEdge(g, e)
  BY GraphAssumption DEF EdgesOf
<1>2. IsFold(r, S, Calling(S), g, First(S), o)
  BY LinkNativesIs
<1>3. IsFiniteSet(S)
  BY <1>1, FiniteEdges
<1> HIDE DEF S, r
<1>4. \A x \in S : \A h \in Calling(S) : o[<<x, h>>] = LinkNative(h, x) /\ HasEdge(h, x)
  BY DEF Calling, LinkingNatives
<1> HIDE DEF o
<1>5. \A x \in S : \A h \in Calling(S) : Links(g, h) => Links(g, o[<<x, h>>])
  BY <1>1, <1>4, LinkNativeLinks
<1>6. Links(g, r)
  BY <1>2, <1>3, <1>5, LinksFold
(* A call is settled when it is linked, and stays so.                      *)
<1> DEFINE Done(s, h) == \A e \in Native :
                            h.target[e] = IF e \in s THEN Method[e] ELSE g.target[e]
           R == {p \in (SUBSET S) \X SoundGraph : Done(p[1], p[2])}
<1>7. <<{}, g>> \in R
  BY SoundFields
<1>8. ASSUME NEW s \in SUBSET S, NEW x \in s, NEW h \in Calling(S), <<s \ {x}, h>> \in R
      PROVE  <<s, o[<<x, h>>]>> \in R
  <2> DEFINE k == LinkNative(h, x)
  <2>1. x \in S /\ x \in Native /\ Sound(h) /\ HasEdge(h, x)
    BY <1>1 DEF Calling, SoundGraph
  <2>2. Sound(k) /\ k.target[x] = Method[x] /\ \A c \in Native \ {x} : k.target[c] = h.target[c]
    BY <2>1, LinkNativeIs
  <2>3. Done(s \ {x}, h)
    BY <1>8
  <2>4. o[<<x, h>>] = k
    BY <1>4, <2>1
  <2> HIDE DEF k
  <2>5. Done(s, k)
    BY <2>1, <2>2, <2>3
  <2>6. k \in SoundGraph
    BY <2>2, SoundFields
  <2> QED
    BY <2>4, <2>5, <2>6
<1>9. <<S, r>> \in R
  <2> HIDE DEF R
  <2>1. Carries(R, S, Calling(S), o)
    BY <1>8 DEF Carries
  <2> QED
    BY Zenon, <1>2, <1>3, <1>7, <2>1, FirstPicks, FoldHolds
<1>10. Settled(r)
  BY <1>1, <1>9 DEF Settled, HasEdge
<1> QED
  BY <1>6, <1>10 DEF r

(* No native call is pointed anywhere else.                                *)
Calm(g, h) == \A c \in Native : h.target[c] \in {Absent, g.target[c]}

CalmLinks(g, h) == Links(g, h) /\ Calm(g, h)

LEMMA CalmFold ==
  ASSUME NEW g, Sound(g), NEW S, IsFiniteSet(S), NEW o, NEW r,
         IsFold(r, S, SoundGraph, g, First(S), o),
         \A x \in S : \A h \in SoundGraph : CalmLinks(g, h) => CalmLinks(g, o[<<x, h>>])
  PROVE  CalmLinks(g, r)
<1> DEFINE R == {p \in (SUBSET S) \X SoundGraph : CalmLinks(g, p[2])}
<1>1. ASSUME NEW s \in SUBSET S, NEW h, CalmLinks(g, h)
      PROVE  <<s, h>> \in R
  BY <1>1, SoundFields DEF CalmLinks, Links
<1>2. <<{}, g>> \in R
  BY <1>1, LinksNothing DEF CalmLinks, Calm
<1>3. Carries(R, S, SoundGraph, o)
  BY <1>1 DEF Carries
<1>4. <<S, r>> \in R
  <2> HIDE DEF R
  <2> QED
    BY Zenon, <1>2, <1>3, FirstPicks, FoldHolds
<1> QED
  BY <1>4

LEMMA CalmTwice ==
  ASSUME NEW g, NEW h, NEW k, Sound(g), CalmLinks(g, h), CalmLinks(h, k)
  PROVE  CalmLinks(g, k)
  BY LinksTwice DEF CalmLinks, Calm

LEMMA CalmSettled ==
  ASSUME NEW g, NEW h, Settled(g), CalmLinks(g, h)
  PROVE  Settled(h)
  BY DEF CalmLinks, Calm, Settled, HasEdge

LEMMA CalmAddEdge ==
  ASSUME NEW g, Sound(g), NEW h, CalmLinks(g, h), NEW e \in Edge \ Native
  PROVE  CalmLinks(g, AddEdge(h, e))
<1>1. Sound(h) /\ Native \subseteq Edge
  BY GraphAssumption DEF CalmLinks, Links
<1>2. \A c \in Native : AddEdge(h, e).target[c] = h.target[c]
  BY <1>1, AddEdgeIs
<1>3. Links(g, AddEdge(h, e))
  BY AddEdgeLinks DEF CalmLinks
<1> QED
  BY <1>2, <1>3 DEF CalmLinks, Calm

LEMMA CalmAddNode ==
  ASSUME NEW g, Sound(g), NEW h, CalmLinks(g, h), NEW n \in NodeId, NEW f \in File,
         Addable(g, n, f)
  PROVE  CalmLinks(g, AddNode(h, n, f))
<1>1. Sound(h)
  BY DEF CalmLinks, Links
<1>2. AddNode(h, n, f).target = h.target
  BY <1>1, AddNodeTarget
<1>3. Links(g, AddNode(h, n, f))
  BY AddNodeLinks DEF CalmLinks
<1> QED
  BY <1>2, <1>3 DEF CalmLinks, Calm

LEMMA CalmRemoveEdge ==
  ASSUME NEW g, Sound(g), NEW h, CalmLinks(g, h), NEW e \in Edge
  PROVE  CalmLinks(g, RemoveEdge(h, e))
<1>1. Sound(h) /\ Native \subseteq Edge
  BY GraphAssumption DEF CalmLinks, Links
<1>2. \A c \in Native : RemoveEdge(h, e).target[c] \in {Absent, h.target[c]}
  BY <1>1, RemoveEdgeIs
<1>3. Links(g, RemoveEdge(h, e))
  BY RemoveEdgeLinks DEF CalmLinks
<1> QED
  BY <1>2, <1>3 DEF CalmLinks, Calm

Heard(g) == {e \in EdgesOf(g) \cap DOMAIN Listened : HasNode(g, Src[Listened[e].emits])}

LEMMA HeardEnds ==
  ASSUME NEW g, Sound(g), NEW e \in Heard(g), NEW l, l = Listened[e]
  PROVE  /\ e \in Edge
         /\ l \in Range(Listened)
         /\ l.emits \in Edge \ Native /\ l.listens \in Edge \ Native
         /\ Dst[l.emits] \in NodeId /\ Src[l.emits] \in NodeId
         /\ g.node[Src[l.emits]] \in File
         /\ Addable(g, Dst[l.emits], g.node[Src[l.emits]])
<1>1. e \in Edge /\ e \in DOMAIN Listened /\ HasNode(g, Src[l.emits])
  BY DEF Heard, EdgesOf
<1>2. l \in Range(Listened)
  BY <1>1 DEF Range
<1>3. g.node[Src[l.emits]] \in File
  BY <1>1, <1>2, ListenedEnds, SoundFields DEF HasNode
<1>4. Dst[l.emits] \in EventsOf(g, g.node[Src[l.emits]])
  BY <1>2 DEF EventsOf
<1> QED
  BY <1>1, <1>2, <1>3, <1>4, ListenedEnds DEF Addable

LEMMA ListenSound ==
  ASSUME NEW g, Sound(g), NEW e \in Heard(g), NEW h, Sound(h)
  PROVE  Sound(Listen(g, h, e))
<1> DEFINE l == Listened[e]
           a == AddNode(h, Dst[l.emits], g.node[Src[l.emits]])
           b == AddEdge(a, l.emits)
           c == RemoveEdge(b, e)
<1>1. /\ e \in Edge
      /\ l.emits \in Edge /\ l.listens \in Edge
      /\ Dst[l.emits] \in NodeId
      /\ g.node[Src[l.emits]] \in File
  BY HeardEnds
<1>2. Listen(g, h, e) = AddEdge(c, l.listens)
  BY DEF Listen
<1> HIDE DEF l
<1>3. Sound(a)
  BY <1>1, AddNodeSound
<1> HIDE DEF a
<1>4. Sound(b)
  BY <1>1, <1>3, AddEdgeSound
<1> HIDE DEF b
<1>5. Sound(c)
  BY <1>1, <1>4, RemoveEdgeSound
<1> HIDE DEF c
<1> QED
  BY <1>1, <1>2, <1>5, AddEdgeSound

LEMMA ListenLinks ==
  ASSUME NEW g, Sound(g), NEW e \in Heard(g), NEW h, CalmLinks(g, h)
  PROVE  CalmLinks(g, Listen(g, h, e))
<1> DEFINE l == Listened[e]
           f == g.node[Src[l.emits]]
           a == AddNode(h, Dst[l.emits], f)
           b == AddEdge(a, l.emits)
           c == RemoveEdge(b, e)
<1>1. /\ e \in Edge
      /\ l.emits \in Edge \ Native /\ l.listens \in Edge \ Native
      /\ Dst[l.emits] \in NodeId
      /\ f \in File
      /\ Addable(g, Dst[l.emits], f)
  BY HeardEnds
<1>2. Listen(g, h, e) = AddEdge(c, l.listens)
  BY DEF Listen
<1> HIDE DEF l, f
<1>3. CalmLinks(g, a)
  BY <1>1, CalmAddNode
<1> HIDE DEF a
<1>4. CalmLinks(g, b)
  BY <1>1, <1>3, CalmAddEdge
<1> HIDE DEF b
<1>5. CalmLinks(g, c)
  BY <1>1, <1>4, CalmRemoveEdge
<1> HIDE DEF c
<1> QED
  BY <1>1, <1>2, <1>5, CalmAddEdge

LEMMA ResolveEmitListenersIs ==
  ASSUME NEW g, Sound(g), NEW S, S = Heard(g)
  PROVE  /\ IsFiniteSet(S)
         /\ ResolveEmitListeners(g) = ListenersLinked(g, g, S)
         /\ IsFold(ListenersLinked(g, g, S), S, SoundGraph, g, First(S),
                   Listening(g, S, SoundGraph))
<1>1. ResolveEmitListeners(g) = ListenersLinked(g, g, S)
  BY DEF ResolveEmitListeners, ListenersLinked, Listen, Heard
<1>2. \A x \in S, h \in SoundGraph : Listen(g, h, x) \in SoundGraph
  BY ListenSound, SoundFields DEF SoundGraph
<1>3. IsFiniteSet(S) /\ g \in SoundGraph
  BY FiniteEdges, SoundFields DEF Heard, EdgesOf
<1> QED
  BY <1>1, <1>2, <1>3, ListenersLinkedFold

LEMMA ResolveEmitListenersLinks ==
  ASSUME NEW g, Sound(g)
  PROVE  CalmLinks(g, ResolveEmitListeners(g))
<1> DEFINE S == Heard(g)
           o == Listening(g, S, SoundGraph)
           r == ResolveEmitListeners(g)
<1>1. IsFiniteSet(S) /\ IsFold(r, S, SoundGraph, g, First(S), o)
  BY ResolveEmitListenersIs
<1>2. \A x \in S : \A h \in SoundGraph : o[<<x, h>>] = Listen(g, h, x)
  BY DEF Listening
<1>3. \A x \in S : \A h \in SoundGraph : CalmLinks(g, h) => CalmLinks(g, o[<<x, h>>])
  BY <1>2, ListenLinks
<1> HIDE DEF S, o, r
<1>4. CalmLinks(g, r)
  BY <1>1, <1>3, CalmFold
<1> QED
  BY <1>4 DEF r

Unnamed(g) == {n \in EventId : ~HasNode(g, n)
                               /\ \E e \in EdgesOf(g) : n \in {Src[e], g.target[e]}}

LEMMA CreateSpringEventNodesIs ==
  ASSUME NEW g, Sound(g), NEW S, S = Unnamed(g)
  PROVE  /\ IsFiniteSet(S)
         /\ CreateSpringEventNodes(g) = NodesAdded(g, S, Virtual)
         /\ IsFold(NodesAdded(g, S, Virtual), S, SoundGraph, g, First(S),
                   AddingNodes(S, SoundGraph, Virtual))
<1>1. CreateSpringEventNodes(g) = NodesAdded(g, S, Virtual)
  BY DEF CreateSpringEventNodes, NodesAdded, Unnamed
<1>2. S \in SUBSET NodeId /\ Virtual \in File
  BY LinkAssumption, GraphAssumption DEF Unnamed
<1>3. \A x \in S, h \in SoundGraph : AddNode(h, x, Virtual) \in SoundGraph
  BY <1>2, AddNodeSound, SoundFields DEF SoundGraph
<1>4. IsFiniteSet(S) /\ g \in SoundGraph
  BY <1>2, FiniteNodes, SoundFields
<1> QED
  BY <1>1, <1>3, <1>4, NodesAddedFold

LEMMA CreateSpringEventNodesLinks ==
  ASSUME NEW g, Sound(g)
  PROVE  CalmLinks(g, CreateSpringEventNodes(g))
<1> DEFINE S == Unnamed(g)
           o == AddingNodes(S, SoundGraph, Virtual)
           r == CreateSpringEventNodes(g)
<1>1. IsFiniteSet(S) /\ IsFold(r, S, SoundGraph, g, First(S), o)
  BY CreateSpringEventNodesIs
<1>2. \A x \in S : \A h \in SoundGraph : o[<<x, h>>] = AddNode(h, x, Virtual)
  BY DEF AddingNodes
<1>3. \A x \in S : x \in NodeId /\ Addable(g, x, Virtual)
  BY LinkAssumption DEF Unnamed, Addable
<1>4. Virtual \in File
  BY GraphAssumption
<1>5. \A x \in S : \A h \in SoundGraph : CalmLinks(g, h) => CalmLinks(g, o[<<x, h>>])
  BY <1>2, <1>3, <1>4, CalmAddNode
<1> HIDE DEF S, o, r
<1>6. CalmLinks(g, r)
  BY <1>1, <1>5, CalmFold
<1> QED
  BY <1>6 DEF r

Matching(g) == {d \in Derived : HasNode(g, Src[d]) /\ HasNode(g, Dst[d])
                                /\ \A n \in Shadows[d] : ~HasNode(g, n)}

LEMMA LinkDerivedIs ==
  ASSUME NEW g, Sound(g), NEW S, S = Matching(g)
  PROVE  /\ IsFiniteSet(S)
         /\ LinkDerived(g) = EdgesAdded(g, S)
         /\ IsFold(EdgesAdded(g, S), S, SoundGraph, g, First(S),
                   AddingEdges(S, SoundGraph))
<1>1. LinkDerived(g) = EdgesAdded(g, S)
  BY DEF LinkDerived, EdgesAdded, Matching
<1>2. S \in SUBSET Edge
  BY LinkAssumption DEF Matching
<1>3. \A x \in S, h \in SoundGraph : AddEdge(h, x) \in SoundGraph
  BY <1>2, AddEdgeSound, SoundFields DEF SoundGraph
<1>4. IsFiniteSet(S) /\ g \in SoundGraph
  BY <1>2, FiniteEdges, SoundFields
<1> QED
  BY <1>1, <1>3, <1>4, EdgesAddedFold

LEMMA LinkDerivedLinks ==
  ASSUME NEW g, Sound(g)
  PROVE  CalmLinks(g, LinkDerived(g))
<1> DEFINE S == Matching(g)
           o == AddingEdges(S, SoundGraph)
           r == LinkDerived(g)
<1>1. IsFiniteSet(S) /\ IsFold(r, S, SoundGraph, g, First(S), o)
  BY LinkDerivedIs
<1>2. \A x \in S : \A h \in SoundGraph : o[<<x, h>>] = AddEdge(h, x)
  BY DEF AddingEdges
<1>3. S \subseteq Edge \ Native
  BY LinkAssumption DEF Matching
<1>4. \A x \in S : \A h \in SoundGraph : CalmLinks(g, h) => CalmLinks(g, o[<<x, h>>])
  BY <1>2, <1>3, CalmAddEdge
<1> HIDE DEF S, o, r
<1>5. CalmLinks(g, r)
  BY <1>1, <1>4, CalmFold
<1> QED
  BY <1>5 DEF r

LEMMA BuildMsaServiceGraphLinks ==
  ASSUME NEW g, Sound(g)
  PROVE  CalmLinks(g, BuildMsaServiceGraph(g))
<1>1. CalmLinks(g, g)
  BY LinksNothing DEF CalmLinks, Calm
<1>2. CASE ~HasNode(g, Unassigned)
  <2>1. Unassigned \in NodeId /\ Virtual \in File
    BY LinkAssumption, GraphAssumption
  <2>2. CalmLinks(g, AddNode(g, Unassigned, Virtual))
    BY <1>1, <1>2, <2>1, CalmAddNode DEF Addable
  <2> QED
    BY <1>1, <2>2 DEF BuildMsaServiceGraph
<1> QED
  BY <1>1, <1>2 DEF BuildMsaServiceGraph

(* All the linkers together.                                               *)
LEMMA LinkLinks ==
  ASSUME NEW g, Sound(g)
  PROVE  Links(g, Link(g)) /\ Settled(Link(g))
<1> DEFINE a == ResolveNames(g, OnDisk)
           b == LinkNatives(a)
           c == ResolveEmitListeners(b)
           d == CreateSpringEventNodes(c)
           k == LinkDerived(d)
           m == BuildMsaServiceGraph(k)
<1>1. Link(g) = m
  BY DEF Link, Resolve
<1>2. Links(g, a) /\ Sound(a)
  BY ResolveNamesLinks DEF Links
<1> HIDE DEF a
<1>3. Links(a, b) /\ Settled(b) /\ Sound(b)
  BY <1>2, LinkNativesLinks DEF Links
<1> HIDE DEF b
<1>4. CalmLinks(b, c) /\ Sound(c)
  BY <1>3, ResolveEmitListenersLinks DEF CalmLinks, Links
<1> HIDE DEF c
<1>5. CalmLinks(c, d) /\ Sound(d)
  BY <1>4, CreateSpringEventNodesLinks DEF CalmLinks, Links
<1> HIDE DEF d
<1>6. CalmLinks(d, k) /\ Sound(k)
  BY <1>5, LinkDerivedLinks DEF CalmLinks, Links
<1> HIDE DEF k
<1>7. CalmLinks(k, m)
  BY <1>6, BuildMsaServiceGraphLinks
<1> HIDE DEF m
<1>8. CalmLinks(b, d)
  BY <1>3, <1>4, <1>5, CalmTwice
<1>9. CalmLinks(b, k)
  BY <1>3, <1>6, <1>8, CalmTwice
<1>10. CalmLinks(b, m)
  BY <1>3, <1>7, <1>9, CalmTwice
<1>11. Settled(m)
  BY <1>3, <1>10, CalmSettled
<1>12. Links(g, b)
  BY <1>2, <1>3, LinksTwice
<1>13. Links(g, m)
  BY <1>10, <1>12, LinksTwice DEF CalmLinks
<1> QED
  BY <1>1, <1>11, <1>13

---------------------------------------------------------------------------
(* What the parsers add.                                                   *)

(* The nodes of the files of a sequence.                                   *)
FilesNodes(g, q, text) ==
    FoldLeft(LAMBDA h, f : NodesAdded(h, NodesIn[<<f, text[f]>>], f), g, q)

AddingFilesNodes(q, G, text) ==
    [p \in (DOMAIN q) \X G |->
        NodesAdded(p[2], NodesIn[<<q[p[1]], text[q[p[1]]]>>], q[p[1]])]

LEMMA FilesNodesFold ==
  ASSUME NEW G, NEW g \in G, NEW X, NEW q \in Seq(X), NEW text,
         \A i \in DOMAIN q, h \in G : NodesAdded(h, NodesIn[<<q[i], text[q[i]]>>], q[i]) \in G
  PROVE  IsFold(FilesNodes(g, q, text), DOMAIN q, G, g, Latest(DOMAIN q),
                AddingFilesNodes(q, G, text))
<1> DEFINE D == DOMAIN q
           pick == Latest(D)
           o == AddingFilesNodes(q, G, text)
           Step(f, s) ==
               IF s = {} THEN g
               ELSE NodesAdded(f[s \ {Max(s)}], NodesIn[<<q[Max(s)], text[q[Max(s)]]>>], q[Max(s)])
           Eq(f) == f = [s \in SUBSET D |-> Step(f, s)]
           iter == CHOOSE f : Eq(f)
<1>1. FilesNodes(g, q, text) = iter[D]
  BY DEF FilesNodes, FoldLeft, MapThenFoldSet
<1>2. IsFiniteSet(D) /\ Picks(pick, D) /\ \A s \in SUBSET D : pick[s] = Max(s)
  BY LatestPicks DEF Latest
<1>3. \A x \in D, h \in G : o[<<x, h>>] = NodesAdded(h, NodesIn[<<q[x], text[q[x]]>>], q[x])
  BY DEF AddingFilesNodes
<1>4. Within(o, D, G)
  BY <1>3 DEF Within
<1> HIDE DEF pick, o
<1>5. ASSUME NEW f, NEW s \in SUBSET D, s # {}, f[s \ {pick[s]}] \in G
      PROVE  Step(f, s) = o[<<pick[s], f[s \ {pick[s]}]>>]
  <2>1. pick[s] \in D
    BY <1>2, <1>5 DEF Picks
  <2> QED
    BY <1>2, <1>3, <1>5, <2>1
<1>6. \A f : Step(f, {}) = g
  OBVIOUS
<1> HIDE DEF Step
<1>7. \E f : Eq(f)
  <2>1. PICK f \in [SUBSET D -> G] : Iterates(f, D, g, pick, o)
    BY Zenon, <1>2, <1>4, IterationExists
  <2>2. ASSUME NEW s \in SUBSET D
        PROVE  f[s] = Step(f, s)
    <3>1. s # {} => f[s \ {pick[s]}] \in G
      BY <1>2 DEF Picks
    <3> QED
      BY <1>5, <1>6, <2>1, <3>1 DEF Iterates
  <2>3. f = [s \in SUBSET D |-> f[s]]
    OBVIOUS
  <2> QED
    BY Zenon, <2>2, <2>3
<1>8. Eq(iter)
  <2> HIDE DEF Eq
  <2> QED
    BY <1>7
<1> HIDE DEF iter
<1>9. /\ iter = [s \in SUBSET D |-> iter[s]]
      /\ iter[{}] = g
      /\ \A s \in SUBSET D : s # {} /\ iter[s \ {pick[s]}] \in G =>
            iter[s] = o[<<pick[s], iter[s \ {pick[s]}]>>]
  BY <1>5, <1>6, <1>8
<1>10. IsFold(iter[D], D, G, g, pick, o)
  BY Zenon, <1>2, <1>4, <1>9, FoldIs
<1> QED
  BY <1>1, <1>10 DEF pick, o

(* Their edges.                                                            *)
FilesEdges(g, q, text) ==
    FoldLeft(LAMBDA h, f : EdgesAdded(h, EdgesIn[<<f, text[f]>>]), g, q)

AddingFilesEdges(q, G, text) ==
    [p \in (DOMAIN q) \X G |->
        EdgesAdded(p[2], EdgesIn[<<q[p[1]], text[q[p[1]]]>>])]

LEMMA FilesEdgesFold ==
  ASSUME NEW G, NEW g \in G, NEW X, NEW q \in Seq(X), NEW text,
         \A i \in DOMAIN q, h \in G : EdgesAdded(h, EdgesIn[<<q[i], text[q[i]]>>]) \in G
  PROVE  IsFold(FilesEdges(g, q, text), DOMAIN q, G, g, Latest(DOMAIN q),
                AddingFilesEdges(q, G, text))
<1> DEFINE D == DOMAIN q
           pick == Latest(D)
           o == AddingFilesEdges(q, G, text)
           Step(f, s) ==
               IF s = {} THEN g
               ELSE EdgesAdded(f[s \ {Max(s)}], EdgesIn[<<q[Max(s)], text[q[Max(s)]]>>])
           Eq(f) == f = [s \in SUBSET D |-> Step(f, s)]
           iter == CHOOSE f : Eq(f)
<1>1. FilesEdges(g, q, text) = iter[D]
  BY DEF FilesEdges, FoldLeft, MapThenFoldSet
<1>2. IsFiniteSet(D) /\ Picks(pick, D) /\ \A s \in SUBSET D : pick[s] = Max(s)
  BY LatestPicks DEF Latest
<1>3. \A x \in D, h \in G : o[<<x, h>>] = EdgesAdded(h, EdgesIn[<<q[x], text[q[x]]>>])
  BY DEF AddingFilesEdges
<1>4. Within(o, D, G)
  BY <1>3 DEF Within
<1> HIDE DEF pick, o
<1>5. ASSUME NEW f, NEW s \in SUBSET D, s # {}, f[s \ {pick[s]}] \in G
      PROVE  Step(f, s) = o[<<pick[s], f[s \ {pick[s]}]>>]
  <2>1. pick[s] \in D
    BY <1>2, <1>5 DEF Picks
  <2> QED
    BY <1>2, <1>3, <1>5, <2>1
<1>6. \A f : Step(f, {}) = g
  OBVIOUS
<1> HIDE DEF Step
<1>7. \E f : Eq(f)
  <2>1. PICK f \in [SUBSET D -> G] : Iterates(f, D, g, pick, o)
    BY Zenon, <1>2, <1>4, IterationExists
  <2>2. ASSUME NEW s \in SUBSET D
        PROVE  f[s] = Step(f, s)
    <3>1. s # {} => f[s \ {pick[s]}] \in G
      BY <1>2 DEF Picks
    <3> QED
      BY <1>5, <1>6, <2>1, <3>1 DEF Iterates
  <2>3. f = [s \in SUBSET D |-> f[s]]
    OBVIOUS
  <2> QED
    BY Zenon, <2>2, <2>3
<1>8. Eq(iter)
  <2> HIDE DEF Eq
  <2> QED
    BY <1>7
<1> HIDE DEF iter
<1>9. /\ iter = [s \in SUBSET D |-> iter[s]]
      /\ iter[{}] = g
      /\ \A s \in SUBSET D : s # {} /\ iter[s \ {pick[s]}] \in G =>
            iter[s] = o[<<pick[s], iter[s \ {pick[s]}]>>]
  BY <1>5, <1>6, <1>8
<1>10. IsFold(iter[D], D, G, g, pick, o)
  BY Zenon, <1>2, <1>4, <1>9, FoldIs
<1> QED
  BY <1>1, <1>10 DEF pick, o

(* The members of a set in the order of a sequence.                        *)
Selected(g, q, S) ==
    FoldLeft(LAMBDA h, f : IF f \in S THEN Append(h, f) ELSE h, g, q)

Selecting(q, G, S) ==
    [p \in (DOMAIN q) \X G |->
        IF q[p[1]] \in S THEN Append(p[2], q[p[1]]) ELSE p[2]]

LEMMA SelectedFold ==
  ASSUME NEW G, NEW g \in G, NEW X, NEW q \in Seq(X), NEW S,
         \A i \in DOMAIN q, h \in G : (IF q[i] \in S THEN Append(h, q[i]) ELSE h) \in G
  PROVE  IsFold(Selected(g, q, S), DOMAIN q, G, g, Latest(DOMAIN q), Selecting(q, G, S))
<1> DEFINE D == DOMAIN q
           pick == Latest(D)
           o == Selecting(q, G, S)
           Step(f, s) ==
               IF s = {} THEN g
               ELSE (IF q[Max(s)] \in S THEN Append(f[s \ {Max(s)}], q[Max(s)]) ELSE f[s \ {Max(s)}])
           Eq(f) == f = [s \in SUBSET D |-> Step(f, s)]
           iter == CHOOSE f : Eq(f)
<1>1. Selected(g, q, S) = iter[D]
  BY DEF Selected, FoldLeft, MapThenFoldSet
<1>2. IsFiniteSet(D) /\ Picks(pick, D) /\ \A s \in SUBSET D : pick[s] = Max(s)
  BY LatestPicks DEF Latest
<1>3. \A x \in D, h \in G : o[<<x, h>>] = (IF q[x] \in S THEN Append(h, q[x]) ELSE h)
  BY DEF Selecting
<1>4. Within(o, D, G)
  BY <1>3 DEF Within
<1> HIDE DEF pick, o
<1>5. ASSUME NEW f, NEW s \in SUBSET D, s # {}, f[s \ {pick[s]}] \in G
      PROVE  Step(f, s) = o[<<pick[s], f[s \ {pick[s]}]>>]
  <2>1. pick[s] \in D
    BY <1>2, <1>5 DEF Picks
  <2> QED
    BY <1>2, <1>3, <1>5, <2>1
<1>6. \A f : Step(f, {}) = g
  OBVIOUS
<1> HIDE DEF Step
<1>7. \E f : Eq(f)
  <2>1. PICK f \in [SUBSET D -> G] : Iterates(f, D, g, pick, o)
    BY Zenon, <1>2, <1>4, IterationExists
  <2>2. ASSUME NEW s \in SUBSET D
        PROVE  f[s] = Step(f, s)
    <3>1. s # {} => f[s \ {pick[s]}] \in G
      BY <1>2 DEF Picks
    <3> QED
      BY <1>5, <1>6, <2>1, <3>1 DEF Iterates
  <2>3. f = [s \in SUBSET D |-> f[s]]
    OBVIOUS
  <2> QED
    BY Zenon, <2>2, <2>3
<1>8. Eq(iter)
  <2> HIDE DEF Eq
  <2> QED
    BY <1>7
<1> HIDE DEF iter
<1>9. /\ iter = [s \in SUBSET D |-> iter[s]]
      /\ iter[{}] = g
      /\ \A s \in SUBSET D : s # {} /\ iter[s \ {pick[s]}] \in G =>
            iter[s] = o[<<pick[s], iter[s \ {pick[s]}]>>]
  BY <1>5, <1>6, <1>8
<1>10. IsFold(iter[D], D, G, g, pick, o)
  BY Zenon, <1>2, <1>4, <1>9, FoldIs
<1> QED
  BY <1>1, <1>10 DEF pick, o

(* The files of F parse with the text they have.                           *)
Parsable(F, text) == \A f \in F : <<f, text[f]>> \in DOMAIN NodesIn

(* The files of F that have the node.                                      *)
Holders(F, text, n) == {f \in F : n \in NodesIn[<<f, text[f]>>]}

(* h is g with the nodes of the files of F.                                *)
Parsed(g, F, text, h) ==
    /\ Sound(h)
    /\ \A n \in NodeId :
          IF Holders(F, text, n) = {} THEN h.node[n] = g.node[n]
          ELSE h.node[n] \in Holders(F, text, n)
    /\ \A j \in File :
          h.fileIndex[j] \subseteq
              g.fileIndex[j] \cup IF j \in F THEN NodesIn[<<j, text[j]>>] ELSE {}
    /\ h = g \/ h.version > g.version

LEMMA ParseResults ==
  ASSUME NEW v \in DOMAIN NodesIn
  PROVE  /\ v[1] \in File \ {Virtual} /\ v[1] \in SourceFile
         /\ NodesIn[v] \in SUBSET NodeId /\ EdgesIn[v] \in SUBSET Edge
<1>1. SourceFile \subseteq File \ {Virtual}
  BY EngineAssumption DEF SourceFile, Range
<1> QED
  BY <1>1, EngineAssumption

LEMMA FilesNodesIs ==
  ASSUME NEW g, Sound(g), NEW X, NEW q \in Seq(X), NEW text, Parsable(Range(q), text)
  PROVE  /\ Parsed(g, Range(q), text, FilesNodes(g, q, text))
         /\ FilesNodes(g, q, text).target = g.target
<1> DEFINE D == DOMAIN q
           o == AddingFilesNodes(q, SoundGraph, text)
           r == FilesNodes(g, q, text)
           In(s) == {q[i] : i \in s}
           R == {p \in (SUBSET D) \X SoundGraph :
                    Parsed(g, In(p[1]), text, p[2]) /\ p[2].target = g.target}
<1>1. IsFiniteSet(D) /\ g \in SoundGraph /\ Picks(Latest(D), D)
  BY LatestPicks, SoundFields
<1>2. ASSUME NEW x \in D
      PROVE  q[x] \in File /\ NodesIn[<<q[x], text[q[x]]>>] \in SUBSET NodeId
  <2>1. <<q[x], text[q[x]]>> \in DOMAIN NodesIn
    BY DEF Parsable, Range
  <2> QED
    BY <2>1, ParseResults
<1>3. ASSUME NEW x \in D, NEW h \in SoundGraph
      PROVE  NodesGrown(h, NodesIn[<<q[x], text[q[x]]>>], q[x],
                        NodesAdded(h, NodesIn[<<q[x], text[q[x]]>>], q[x]))
  BY <1>2, NodesAddedIs DEF SoundGraph
<1>4. \A x \in D, h \in SoundGraph :
         NodesAdded(h, NodesIn[<<q[x], text[q[x]]>>], q[x]) \in SoundGraph
  BY <1>3, SoundFields DEF NodesGrown
<1>5. IsFold(r, D, SoundGraph, g, Latest(D), o)
  BY <1>1, <1>4, FilesNodesFold
<1>6. \A x \in D : \A h \in SoundGraph :
         NodesGrown(h, NodesIn[<<q[x], text[q[x]]>>], q[x], o[<<x, h>>])
  BY <1>3 DEF AddingFilesNodes
<1> HIDE DEF o, r
<1>7. <<{}, g>> \in R
  BY <1>1 DEF Parsed, Holders
<1>8. ASSUME NEW s \in SUBSET D, NEW x \in s, NEW h \in SoundGraph, <<s \ {x}, h>> \in R
      PROVE  <<s, o[<<x, h>>]>> \in R
  <2> DEFINE k == o[<<x, h>>]
             N == NodesIn[<<q[x], text[q[x]]>>]
             f == q[x]
             w == In(s \ {x})
  <2>1. Parsed(g, w, text, h) /\ h.target = g.target /\ Sound(h) /\ f \in File /\ N \in SUBSET NodeId
    BY <1>2, <1>8 DEF SoundGraph
  <2>2. NodesGrown(h, N, f, k)
    BY <1>6, <1>8
  <2>3. In(s) = w \cup {f}
    OBVIOUS
  <2>4. \A n \in NodeId : Holders(In(s), text, n) =
            Holders(w, text, n) \cup IF n \in N THEN {f} ELSE {}
    BY <2>3 DEF Holders
  <2> HIDE DEF k, w, In
  <2>5. ASSUME NEW n \in NodeId
        PROVE  IF Holders(In(s), text, n) = {} THEN k.node[n] = g.node[n]
               ELSE k.node[n] \in Holders(In(s), text, n)
    <3>1. k.node[n] = IF n \in N THEN f ELSE h.node[n]
      BY <2>2 DEF NodesGrown
    <3>2. IF Holders(w, text, n) = {} THEN h.node[n] = g.node[n]
          ELSE h.node[n] \in Holders(w, text, n)
      BY <2>1 DEF Parsed
    <3> QED
      BY <2>4, <3>1, <3>2
  <2>6. ASSUME NEW j \in File
        PROVE  k.fileIndex[j] \subseteq
                  g.fileIndex[j] \cup IF j \in In(s) THEN NodesIn[<<j, text[j]>>] ELSE {}
    <3>1. k.fileIndex[j] \subseteq h.fileIndex[j] \cup IF j = f THEN N ELSE {}
      BY <2>2 DEF NodesGrown
    <3>2. h.fileIndex[j] \subseteq
             g.fileIndex[j] \cup IF j \in w THEN NodesIn[<<j, text[j]>>] ELSE {}
      BY <2>1 DEF Parsed
    <3> QED
      BY <2>3, <3>1, <3>2
  <2>7. k = g \/ k.version > g.version
    <3>1. g.version \in Nat /\ h.version \in Nat /\ k.version \in Nat
      BY <2>1, <2>2, SoundFields DEF NodesGrown
    <3> QED
      BY <2>1, <2>2, <3>1 DEF NodesGrown, Parsed
  <2>8. Parsed(g, In(s), text, k)
    BY <2>2, <2>5, <2>6, <2>7 DEF Parsed, NodesGrown
  <2>9. k \in SoundGraph
    BY <2>8, SoundFields DEF Parsed
  <2>10. k.target = g.target
    BY <2>1, <2>2 DEF NodesGrown
  <2> QED
    BY <2>8, <2>9, <2>10 DEF k, In
<1>9. <<D, r>> \in R
  <2> HIDE DEF R
  <2>1. Carries(R, D, SoundGraph, o)
    BY <1>8 DEF Carries
  <2> QED
    BY Zenon, <1>1, <1>5, <1>7, <2>1, FoldHolds
<1>10. In(D) = Range(q)
  BY DEF Range
<1> QED
  BY <1>9, <1>10 DEF r

(* Their edges.                                                            *)
EdgesOfFiles(F, text) == {e \in Edge : \E f \in F : e \in EdgesIn[<<f, text[f]>>]}

LEMMA FilesEdgesIs ==
  ASSUME NEW g, Sound(g), NEW X, NEW q \in Seq(X), NEW text, Parsable(Range(q), text)
  PROVE  EdgesGrown(g, EdgesOfFiles(Range(q), text), FilesEdges(g, q, text))
<1> DEFINE D == DOMAIN q
           o == AddingFilesEdges(q, SoundGraph, text)
           r == FilesEdges(g, q, text)
           In(s) == {q[i] : i \in s}
           R == {p \in (SUBSET D) \X SoundGraph :
                    EdgesGrown(g, EdgesOfFiles(In(p[1]), text), p[2])}
<1>1. IsFiniteSet(D) /\ g \in SoundGraph /\ Picks(Latest(D), D)
  BY LatestPicks, SoundFields
<1>2. ASSUME NEW x \in D
      PROVE  EdgesIn[<<q[x], text[q[x]]>>] \in SUBSET Edge
  <2>1. <<q[x], text[q[x]]>> \in DOMAIN NodesIn
    BY DEF Parsable, Range
  <2> QED
    BY <2>1, ParseResults
<1>3. ASSUME NEW x \in D, NEW h \in SoundGraph
      PROVE  EdgesGrown(h, EdgesIn[<<q[x], text[q[x]]>>],
                        EdgesAdded(h, EdgesIn[<<q[x], text[q[x]]>>]))
  BY <1>2, EdgesAddedIs DEF SoundGraph
<1>4. \A x \in D, h \in SoundGraph : EdgesAdded(h, EdgesIn[<<q[x], text[q[x]]>>]) \in SoundGraph
  BY <1>3, SoundFields DEF EdgesGrown
<1>5. IsFold(r, D, SoundGraph, g, Latest(D), o)
  BY <1>1, <1>4, FilesEdgesFold
<1>6. \A x \in D : \A h \in SoundGraph :
         EdgesGrown(h, EdgesIn[<<q[x], text[q[x]]>>], o[<<x, h>>])
  BY <1>3 DEF AddingFilesEdges
<1> HIDE DEF o, r
<1>7. <<{}, g>> \in R
  BY <1>1 DEF EdgesGrown, EdgesOfFiles
<1>8. ASSUME NEW s \in SUBSET D, NEW x \in s, NEW h \in SoundGraph, <<s \ {x}, h>> \in R
      PROVE  <<s, o[<<x, h>>]>> \in R
  <2> DEFINE k == o[<<x, h>>]
             E == EdgesIn[<<q[x], text[q[x]]>>]
             A == EdgesOfFiles(In(s \ {x}), text)
             B == EdgesOfFiles(In(s), text)
  <2>1. EdgesGrown(g, A, h) /\ EdgesGrown(h, E, k) /\ Sound(h)
    BY <1>6, <1>8 DEF SoundGraph
  <2>2. B = A \cup E
    BY <1>2, <1>8 DEF EdgesOfFiles
  <2> HIDE DEF k, E, A, B
  <2>3. g.version \in Nat /\ h.version \in Nat /\ k.version \in Nat
    BY <2>1, SoundFields DEF EdgesGrown
  <2>4. EdgesGrown(g, B, k)
    BY <2>1, <2>2, <2>3 DEF EdgesGrown
  <2>5. k \in SoundGraph
    BY <2>4, SoundFields DEF EdgesGrown
  <2> QED
    BY <2>4, <2>5 DEF k, B
<1>9. <<D, r>> \in R
  <2> HIDE DEF R
  <2>1. Carries(R, D, SoundGraph, o)
    BY <1>8 DEF Carries
  <2> QED
    BY Zenon, <1>1, <1>5, <1>7, <2>1, FoldHolds
<1>10. In(D) = Range(q)
  BY DEF Range
<1> QED
  BY <1>9, <1>10 DEF r

LEMMA AddParsedSteps ==
  ASSUME NEW g, NEW q, NEW text
  PROVE  AddParsed(g, q, text) = FilesEdges(FilesNodes(g, q, text), q, text)
  BY DEF AddParsed, FilesEdges, FilesNodes, NodesAdded, EdgesAdded

LEMMA AddParsedIs ==
  ASSUME NEW g, Sound(g), NEW X, NEW q \in Seq(X), NEW text, Parsable(Range(q), text)
  PROVE  /\ Parsed(g, Range(q), text, AddParsed(g, q, text))
         /\ \A e \in Edge : AddParsed(g, q, text).target[e] =
               IF e \in EdgesOfFiles(Range(q), text) THEN Dst[e] ELSE g.target[e]
<1> DEFINE a == FilesNodes(g, q, text)
           b == FilesEdges(a, q, text)
<1>1. AddParsed(g, q, text) = b
  BY AddParsedSteps
<1>2. Parsed(g, Range(q), text, a) /\ a.target = g.target
  BY FilesNodesIs
<1> HIDE DEF a
<1>3. Sound(a)
  BY <1>2 DEF Parsed
<1>4. EdgesGrown(a, EdgesOfFiles(Range(q), text), b)
  BY <1>3, FilesEdgesIs
<1> HIDE DEF b
<1>5. g.version \in Nat /\ a.version \in Nat /\ b.version \in Nat
  BY <1>3, <1>4, SoundFields DEF EdgesGrown
<1>6. b = g \/ b.version > g.version
  BY <1>2, <1>4, <1>5 DEF EdgesGrown, Parsed
<1>7. Parsed(g, Range(q), text, b)
  BY <1>2, <1>4, <1>6 DEF EdgesGrown, Parsed
<1> QED
  BY <1>1, <1>2, <1>4, <1>7 DEF EdgesGrown

LEMMA SelectedIs ==
  ASSUME NEW X, NEW q \in Seq(X), NEW S
  PROVE  /\ Selected(<<>>, q, S) \in Seq(X)
         /\ Range(Selected(<<>>, q, S)) = S \cap Range(q)
<1> DEFINE D == DOMAIN q
           o == Selecting(q, Seq(X), S)
           r == Selected(<<>>, q, S)
           Have(s) == {q[i] : i \in {j \in s : q[j] \in S}}
           R == {p \in (SUBSET D) \X Seq(X) : Range(p[2]) = Have(p[1])}
<1>1. IsFiniteSet(D) /\ <<>> \in Seq(X) /\ Picks(Latest(D), D)
  BY LatestPicks
<1>2. \A x \in D, h \in Seq(X) : (IF q[x] \in S THEN Append(h, q[x]) ELSE h) \in Seq(X)
  OBVIOUS
<1>3. IsFold(r, D, Seq(X), <<>>, Latest(D), o)
  BY <1>1, <1>2, SelectedFold
<1>4. \A x \in D : \A h \in Seq(X) : o[<<x, h>>] = IF q[x] \in S THEN Append(h, q[x]) ELSE h
  BY DEF Selecting
<1> HIDE DEF o, r
<1>5. <<{}, <<>>>> \in R
  <2>1. DOMAIN <<>> = {}
    OBVIOUS
  <2>2. Range(<<>>) = {} /\ Have({}) = {}
    BY <2>1 DEF Range
  <2> QED
    BY <1>1, <2>2
<1>6. ASSUME NEW h \in Seq(X), NEW y \in X
      PROVE  Append(h, y) \in Seq(X) /\ Range(Append(h, y)) = Range(h) \cup {y}
  <2>1. /\ DOMAIN Append(h, y) = 1..(Len(h) + 1)
        /\ Append(h, y)[Len(h) + 1] = y
        /\ \A i \in 1..Len(h) : Append(h, y)[i] = h[i]
        /\ DOMAIN h = 1..Len(h) /\ Len(h) \in Nat
    OBVIOUS
  <2>2. 1..(Len(h) + 1) = (1..Len(h)) \cup {Len(h) + 1}
    BY <2>1
  <2> QED
    BY <2>1, <2>2 DEF Range
<1>7. ASSUME NEW s \in SUBSET D, NEW x \in s, NEW h \in Seq(X), <<s \ {x}, h>> \in R
      PROVE  <<s, o[<<x, h>>]>> \in R
  <2>1. Range(h) = Have(s \ {x}) /\ x \in D /\ q[x] \in X
    BY <1>7
  <2>2. Have(s) = Have(s \ {x}) \cup IF q[x] \in S THEN {q[x]} ELSE {}
    OBVIOUS
  <2> HIDE DEF Have
  <2>3. CASE q[x] \in S
    <3>1. o[<<x, h>>] = Append(h, q[x])
      BY <1>4, <2>1, <2>3
    <3>2. Range(Append(h, q[x])) = Have(s) /\ Append(h, q[x]) \in Seq(X)
      BY <1>6, <2>1, <2>2, <2>3
    <3> QED
      BY <3>1, <3>2
  <2>4. CASE q[x] \notin S
    <3>1. o[<<x, h>>] = h
      BY <1>4, <2>1, <2>4
    <3> QED
      BY <2>1, <2>2, <2>4, <3>1
  <2> QED
    BY <2>3, <2>4
<1>8. <<D, r>> \in R /\ r \in Seq(X)
  <2> HIDE DEF R
  <2>1. Carries(R, D, Seq(X), o)
    BY <1>7 DEF Carries
  <2> QED
    BY Zenon, <1>1, <1>3, <1>5, <2>1, FoldHolds
<1>9. Have(D) = S \cap Range(q)
  BY DEF Range
<1> QED
  BY <1>8, <1>9 DEF r

LEMMA InOrderIs ==
  ASSUME NEW S \in SUBSET SourceFile
  PROVE  InOrder(S) \in Seq(SourceFile) /\ Range(InOrder(S)) = S
<1>1. Sorted \in Seq(SourceFile)
  BY EngineAssumption DEF SourceFile, Range
<1>2. InOrder(S) = Selected(<<>>, Sorted, S)
  BY DEF InOrder, Selected
<1>3. S \cap Range(Sorted) = S
  BY DEF SourceFile
<1> QED
  BY <1>1, <1>2, <1>3, SelectedIs

LEMMA BothInOrder ==
  ASSUME NEW S \in SUBSET SourceFile, NEW T \in SUBSET SourceFile
  PROVE  /\ InOrder(S) \o InOrder(T) \in Seq(SourceFile)
         /\ Range(InOrder(S) \o InOrder(T)) = S \cup T
<1> DEFINE p == InOrder(S)
           q == InOrder(T)
<1>1. p \in Seq(SourceFile) /\ q \in Seq(SourceFile) /\ Range(p) = S /\ Range(q) = T
  BY InOrderIs
<1> HIDE DEF p, q
<1>2. p \o q \in Seq(SourceFile)
  BY <1>1
<1>3. /\ DOMAIN (p \o q) = 1..(Len(p) + Len(q))
      /\ \A i \in 1..(Len(p) + Len(q)) : (p \o q)[i] = IF i <= Len(p) THEN p[i] ELSE q[i - Len(p)]
      /\ Len(p) \in Nat /\ Len(q) \in Nat
      /\ DOMAIN p = 1..Len(p) /\ DOMAIN q = 1..Len(q)
  BY <1>1
<1>4. Range(p \o q) \subseteq Range(p) \cup Range(q)
  BY <1>3 DEF Range
<1>5. ASSUME NEW i \in 1..Len(p)
      PROVE  p[i] \in Range(p \o q)
  <2>1. i \in 1..(Len(p) + Len(q)) /\ (p \o q)[i] = p[i]
    BY <1>3
  <2> QED
    BY <1>3, <2>1 DEF Range
<1>6. ASSUME NEW i \in 1..Len(q)
      PROVE  q[i] \in Range(p \o q)
  <2>1. /\ Len(p) + i \in 1..(Len(p) + Len(q))
        /\ ~(Len(p) + i <= Len(p))
        /\ (Len(p) + i) - Len(p) = i
    BY <1>3
  <2>2. (p \o q)[Len(p) + i] = q[i]
    BY <1>3, <2>1
  <2> QED
    BY <1>3, <2>1, <2>2 DEF Range
<1>7. Range(p) \subseteq Range(p \o q) /\ Range(q) \subseteq Range(p \o q)
  BY <1>3, <1>5, <1>6 DEF Range
<1> QED
  BY <1>1, <1>2, <1>4, <1>7 DEF p, q

---------------------------------------------------------------------------
(* What the engine does to the graph.                                      *)

(* Mappings of nodes and edges that differ have different versions.        *)
Newer(g, h) ==
    \/ h.version > g.version
    \/ h.version = g.version /\ h.node = g.node /\ h.target = g.target

(* h is g with the files of F parsed and linked.                           *)
Relinked(g, F, text, h) ==
    /\ Sound(h)
    /\ Settled(h)
    /\ Settled(g) => Newer(g, h)
    /\ \A i \in SourceFile :
          h.fileIndex[i] \subseteq
              g.fileIndex[i] \cup EventNode
              \cup IF i \in F THEN NodesIn[<<i, text[i]>>] ELSE {}
    /\ \A n \in NodeId \ EventNode :
          /\ Holders(F, text, n) # {} => h.node[n] \in Holders(F, text, n)
          /\ Holders(F, text, n) = {} /\ HasNode(g, n) => h.node[n] = g.node[n]
    /\ \A i \in SourceFile : \A n \in NodeId :
          h.node[n] = i =>
              \/ i \in F /\ n \in NodesIn[<<i, text[i]>>]
              \/ g.node[n] = i
              \/ n \in EventsOf(h, i)

LEMMA SourceFiles ==
  /\ SourceFile \subseteq File
  /\ Virtual \notin SourceFile
  /\ Absent \notin SourceFile
<1>1. SourceFile \subseteq File \ {Virtual}
  BY EngineAssumption DEF SourceFile, Range
<1> QED
  BY <1>1, GraphAssumption

LEMMA NoFileEmitsEvents ==
  ASSUME NEW v \in DOMAIN NodesIn
  PROVE  NodesIn[v] \subseteq NodeId \ EventNode
  BY ParseResults, EventAssumption DEF EventNode

LEMMA RelinkedIs ==
  ASSUME NEW g, Sound(g), NEW F \in SUBSET SourceFile, NEW text, Parsable(F, text),
         NEW k, Parsed(g, F, text, k), NEW h, h = Link(k)
  PROVE  Relinked(g, F, text, h)
<1>1. Sound(k) /\ Links(k, h) /\ Sound(h) /\ Settled(h)
  BY LinkLinks DEF Parsed, Links
<1>2. g.version \in Nat /\ k.version \in Nat /\ h.version \in Nat
  BY <1>1, SoundFields
<1>3. ASSUME Settled(g)
      PROVE  Newer(g, h)
  <2>1. CASE k = g
    BY <1>1, <1>2, <1>3, <2>1 DEF Links, Revised, Newer
  <2>2. CASE k.version > g.version
    BY <1>1, <1>2, <2>2 DEF Links, Revised, Newer
  <2> QED
    BY <2>1, <2>2 DEF Parsed
<1>4. ASSUME NEW i \in SourceFile
      PROVE  h.fileIndex[i] \subseteq
                 g.fileIndex[i] \cup EventNode
                 \cup IF i \in F THEN NodesIn[<<i, text[i]>>] ELSE {}
  <2>1. i \in File \ {Virtual}
    BY SourceFiles
  <2>2. h.fileIndex[i] \subseteq k.fileIndex[i] \cup EventNode
    BY <1>1, <2>1 DEF Links, Filed
  <2>3. k.fileIndex[i] \subseteq g.fileIndex[i] \cup IF i \in F THEN NodesIn[<<i, text[i]>>] ELSE {}
    BY <2>1 DEF Parsed
  <2> QED
    BY <2>2, <2>3
<1>5. ASSUME NEW n \in NodeId \ EventNode
      PROVE  /\ Holders(F, text, n) # {} => h.node[n] \in Holders(F, text, n)
             /\ Holders(F, text, n) = {} /\ HasNode(g, n) => h.node[n] = g.node[n]
  <2>1. IF Holders(F, text, n) = {} THEN k.node[n] = g.node[n]
        ELSE k.node[n] \in Holders(F, text, n)
    BY DEF Parsed
  <2>2. HasNode(k, n) => h.node[n] = k.node[n]
    BY <1>1 DEF Links, Filed
  <2>3. Absent \notin Holders(F, text, n)
    BY SourceFiles DEF Holders
  <2> QED
    BY <2>1, <2>2, <2>3 DEF HasNode
<1>6. ASSUME NEW i \in SourceFile, NEW n \in NodeId, h.node[n] = i
      PROVE  \/ i \in F /\ n \in NodesIn[<<i, text[i]>>]
             \/ g.node[n] = i
             \/ n \in EventsOf(h, i)
  <2>1. i \in File \ {Virtual} /\ i # Absent
    BY SourceFiles
  <2>2. k.node[n] = i \/ n \in EventsOf(k, i)
    BY <1>1, <1>6, <2>1 DEF Links, Filed
  <2>3. CASE k.node[n] = i
    <3>1. IF Holders(F, text, n) = {} THEN k.node[n] = g.node[n]
          ELSE k.node[n] \in Holders(F, text, n)
      BY DEF Parsed
    <3> QED
      BY <2>3, <3>1 DEF Holders
  <2>4. CASE n \in EventsOf(k, i)
    <3>1. PICK l \in Range(Listened) : n = Dst[l.emits] /\ k.node[Src[l.emits]] = i
      BY <2>4 DEF EventsOf
    <3>2. Src[l.emits] \in NodeId \ EventNode
      BY ListenedEnds
    <3>3. h.node[Src[l.emits]] = i
      BY <1>1, <2>1, <3>1, <3>2 DEF Links, Filed, HasNode
    <3> QED
      BY <3>1, <3>3 DEF EventsOf
  <2> QED
    BY <2>2, <2>3, <2>4
<1> QED
  BY <1>1, <1>3, <1>4, <1>5, <1>6 DEF Relinked

---------------------------------------------------------------------------
(* The inductive invariant.                                                *)

(* Whatever is read can be parsed.                                         *)
Texts ==
    /\ Parsable(OnDisk, disk)
    /\ Parsable({f \in SourceFile : cache[f] # Absent}, cache)
    /\ Parsable({f \in DOMAIN batch : batch[f] # Absent}, batch)
    /\ \A f \in hits : batch[f] # Absent

Watches ==
    /\ ~watching => events = <<>>
    /\ closed => ~watching

Emitted(f) == {n \in NodeId : \E v \in DOMAIN NodesIn : v[1] = f /\ n \in NodesIn[v]}

(* Under a file are filed the nodes its parser may emit and events.        *)
Filing == \A f \in SourceFile : graph.fileIndex[f] \subseteq Emitted(f) \cup EventNode

Basic ==
    /\ EngineTypeOK
    /\ Sound(graph)
    /\ Settled(graph)
    /\ Filing
    /\ Texts
    /\ Watches
    /\ Analyzing <=> outcome = "running"

Pending(f) == \E i \in DOMAIN events : events[i].file = f

(* The last report of a file says whether there is one now.                *)
Reported ==
    \A i \in DOMAIN events :
        (\A j \in DOMAIN events : j > i => events[j].file # events[i].file)
            => (events[i].unlinked <=> disk[events[i].file] = Absent)

Has(g, f) == \A n \in NodesIn[<<f, disk[f]>>] \cap Private(f) : g.node[n] = f

(* The run, if it completes, takes the file as it is now, or has failed to.*)
Taken(f) ==
    \/ phase = "listing"
    \/ phase = "scanning" /\ f \in DOMAIN batch
    \/ phase \in {"merging", "parsing"} /\ f \in DOMAIN batch /\ batch[f] = disk[f]
    \/ phase = "idle" /\ f \in errors

(* The watcher has been told of what the files are.                        *)
Told == ~closed /\ "unreported" \notin since

Covered ==
    outcome \in {"running", "complete"} /\ Told
        => \A f \in OnDisk : Taken(f) \/ Pending(f) \/ Has(graph, f)

(* A node filed under f is one the file has, or an event of its components.*)
Genuine(g, f) ==
    \A n \in NodeId : g.node[n] = f =>
        (disk[f] # Absent /\ n \in NodesIn[<<f, disk[f]>>]) \/ n \in EventsOf(g, f)

Clean ==
    "overlap" \notin since =>
        /\ Analyzing => graph = EmptyGraph
        /\ Told /\ phase \in {"merging", "parsing"}
              => \A f \in DOMAIN batch : batch[f] = disk[f] \/ Pending(f)
        /\ Told /\ outcome = "complete"
              => \A f \in SourceFile : Pending(f) \/ Genuine(graph, f)

(* An undisturbed run reads what there is.                                 *)
Undisturbed ==
    since = {} =>
        /\ phase \in {"scanning", "merging", "parsing"} => DOMAIN batch = OnDisk
        /\ phase \in {"merging", "parsing"} => \A f \in OnDisk : batch[f] = disk[f]

LEMMA FinishIs ==
  ASSUME Basic, NEW lost \in SUBSET Fresh, NEW h,
         h = Link(AddParsed(graph, InOrder(hits) \o InOrder(Fresh \ lost), batch))
  PROVE  /\ hits \cup (Fresh \ lost) \in SUBSET SourceFile
         /\ Parsable(hits \cup (Fresh \ lost), batch)
         /\ Relinked(graph, hits \cup (Fresh \ lost), batch, h)
<1> DEFINE F == hits \cup (Fresh \ lost)
           q == InOrder(hits) \o InOrder(Fresh \ lost)
           k == AddParsed(graph, q, batch)
<1>1. hits \in SUBSET SourceFile /\ Fresh \ lost \in SUBSET SourceFile
  BY DEF Basic, EngineTypeOK, Fresh
<1>2. F \in SUBSET SourceFile /\ Parsable(F, batch)
  <2>1. \A f \in F : f \in DOMAIN batch /\ batch[f] # Absent
    BY DEF Basic, EngineTypeOK, Texts, Fresh, Unread
  <2> QED
    BY <1>1, <2>1 DEF Basic, Texts, Parsable
<1>3. q \in Seq(SourceFile) /\ Range(q) = F
  BY <1>1, BothInOrder
<1>4. Sound(graph)
  BY DEF Basic
<1> HIDE DEF F, q
<1>5. Parsed(graph, F, batch, k)
  BY <1>2, <1>3, <1>4, AddParsedIs
<1>6. h = Link(k)
  BY DEF q
<1> HIDE DEF k
<1>7. Relinked(graph, F, batch, h)
  BY <1>2, <1>4, <1>5, <1>6, RelinkedIs
<1> QED
  BY <1>2, <1>7 DEF F

(* h is the graph once a report of f has been handled.                     *)
Updated(f, h) ==
    /\ Sound(h)
    /\ Settled(h)
    /\ Newer(graph, h)
    /\ \A i \in SourceFile :
          h.fileIndex[i] \subseteq graph.fileIndex[i] \cup EventNode \cup Emitted(i)
    /\ \A i \in SourceFile \ {f} : \A n \in NodeId :
          /\ graph.node[n] = i /\ n \notin EventNode \cup Emitted(f) => h.node[n] = i
          /\ h.node[n] = i => graph.node[n] = i \/ n \in EventsOf(h, i)
    /\ Genuine(h, f)

LEMMA RemovedIs ==
  ASSUME Basic, NEW f \in SourceFile, NEW h, h = RemoveByFile(graph, f)
  PROVE  /\ Updated(f, h)
         /\ \A n \in NodeId : h.node[n] # f
<1>0. f \in File \ {Virtual} /\ Sound(graph) /\ Settled(graph) /\ SourceFile \subseteq File
  BY SourceFiles DEF Basic
<1>1. /\ Sound(h)
      /\ \A n \in NodeId : h.node[n] = IF n \in graph.fileIndex[f] THEN Absent ELSE graph.node[n]
      /\ \A e \in Edge : h.target[e] \in {Absent, graph.target[e]}
      /\ \A i \in File : h.fileIndex[i] \subseteq graph.fileIndex[i]
      /\ h.version > graph.version \/ (h.version = graph.version /\ h.node = graph.node
                                      /\ h.target = graph.target)
  BY <1>0, RemoveByFileIs
<1>2. Settled(h)
  BY <1>0, <1>1, GraphAssumption DEF Settled, HasEdge
<1>3. ASSUME NEW n \in NodeId
      PROVE  h.node[n] # f
  <2>1. graph.node[n] = f => n \in graph.fileIndex[f]
    BY <1>0, SoundFields, GraphAssumption
  <2> QED
    BY <1>0, <1>1, <2>1, GraphAssumption
<1>4. \A n \in NodeId : n \in graph.fileIndex[f] => n \in EventNode \cup Emitted(f)
  BY DEF Basic, Filing
<1>5. ASSUME NEW i \in SourceFile \ {f}, NEW n \in NodeId
      PROVE  /\ graph.node[n] = i /\ n \notin EventNode \cup Emitted(f) => h.node[n] = i
             /\ h.node[n] = i => graph.node[n] = i \/ n \in EventsOf(h, i)
  BY <1>1, <1>4, SourceFiles
<1>6. Newer(graph, h)
  BY <1>1 DEF Newer
<1>7. Genuine(h, f)
  BY <1>3 DEF Genuine
<1>8. \A i \in SourceFile :
         h.fileIndex[i] \subseteq graph.fileIndex[i] \cup EventNode \cup Emitted(i)
  BY <1>0, <1>1
<1> QED
  BY <1>1, <1>2, <1>3, <1>5, <1>6, <1>7, <1>8 DEF Updated

LEMMA ReparsedIs ==
  ASSUME Basic, NEW f \in SourceFile, NEW h, h = Reparse(f)
  PROVE  /\ Updated(f, h)
         /\ disk[f] # Absent => Has(h, f)
<1> DEFINE rest == RemoveByFile(graph, f)
           F == IF disk[f] = Absent THEN {} ELSE {f}
           k == IF disk[f] = Absent THEN rest ELSE AddParsed(rest, <<f>>, disk)
<1>1. Updated(f, rest) /\ \A n \in NodeId : rest.node[n] # f
  BY RemovedIs
<1>2. h = Link(k)
  BY DEF Reparse
<1>3. F \in SUBSET SourceFile /\ Parsable(F, disk)
  BY DEF Basic, Texts, Parsable, OnDisk
<1> HIDE DEF rest
<1>4. Sound(rest)
  BY <1>1 DEF Updated
<1>5. Parsed(rest, F, disk, k)
  <2>1. CASE disk[f] = Absent
    BY <1>4, <2>1 DEF Parsed, Holders
  <2>2. CASE disk[f] # Absent
    <3> DEFINE q == <<f>>
    <3>1. q \in Seq(SourceFile)
      OBVIOUS
    <3>2. Range(q) = F
      BY <2>2 DEF Range
    <3>3. k = AddParsed(rest, q, disk)
      BY <2>2
    <3> HIDE DEF q, k, F
    <3> QED
      BY <1>3, <1>4, <3>1, <3>2, <3>3, AddParsedIs
  <2> QED
    BY <2>1, <2>2
<1> HIDE DEF k
<1>6. Relinked(rest, F, disk, h)
  BY <1>2, <1>3, <1>4, <1>5, RelinkedIs
<1>7. disk[f] # Absent => <<f, disk[f]>> \in DOMAIN NodesIn
  BY DEF Basic, Texts, Parsable, OnDisk
<1>8. \A n \in NodeId : Holders(F, disk, n) =
         IF disk[f] # Absent /\ n \in NodesIn[<<f, disk[f]>>] THEN {f} ELSE {}
  BY DEF Holders
<1>9. disk[f] # Absent => NodesIn[<<f, disk[f]>>] \subseteq Emitted(f)
  <2>1. ASSUME disk[f] # Absent, NEW n \in NodesIn[<<f, disk[f]>>]
        PROVE  n \in Emitted(f)
    <3> DEFINE v == <<f, disk[f]>>
    <3>1. v \in DOMAIN NodesIn /\ v[1] = f /\ n \in NodesIn[v]
      BY <1>7, <2>1
    <3>2. n \in NodeId
      BY <3>1, ParseResults
    <3> HIDE DEF v
    <3> QED
      BY <3>1, <3>2 DEF Emitted
  <2> QED
    BY <2>1
<1>10. Newer(graph, h)
  <2>1. graph.version \in Nat /\ rest.version \in Nat /\ h.version \in Nat
    BY <1>4, <1>6, SoundFields DEF Basic, Relinked
  <2>2. Newer(graph, rest) /\ Newer(rest, h)
    BY <1>1, <1>6 DEF Updated, Relinked
  <2> QED
    BY <2>1, <2>2 DEF Newer
<1>11. ASSUME NEW i \in SourceFile
       PROVE  h.fileIndex[i] \subseteq graph.fileIndex[i] \cup EventNode \cup Emitted(i)
  <2>1. rest.fileIndex[i] \subseteq graph.fileIndex[i] \cup EventNode \cup Emitted(i)
    BY <1>1 DEF Updated
  <2>2. h.fileIndex[i] \subseteq rest.fileIndex[i] \cup EventNode
           \cup IF i \in F THEN NodesIn[<<i, disk[i]>>] ELSE {}
    BY <1>6 DEF Relinked
  <2>3. i \in F => NodesIn[<<i, disk[i]>>] \subseteq Emitted(i)
    BY <1>9
  <2> HIDE DEF F
  <2> QED
    BY <2>1, <2>2, <2>3
<1>12. ASSUME NEW i \in SourceFile \ {f}, NEW n \in NodeId
       PROVE  /\ graph.node[n] = i /\ n \notin EventNode \cup Emitted(f) => h.node[n] = i
              /\ h.node[n] = i => graph.node[n] = i \/ n \in EventsOf(h, i)
  <2>1. ASSUME graph.node[n] = i, n \notin EventNode \cup Emitted(f)
        PROVE  h.node[n] = i
    <3>1. rest.node[n] = i /\ i # Absent
      BY <1>1, <2>1, SourceFiles DEF Updated
    <3>2. Holders(F, disk, n) = {}
      BY <1>8, <1>9, <2>1
    <3> QED
      BY <1>6, <2>1, <3>1, <3>2 DEF Relinked, HasNode
  <2>2. ASSUME h.node[n] = i
        PROVE  graph.node[n] = i \/ n \in EventsOf(h, i)
    <3>1. i \notin F
      OBVIOUS
    <3>2. rest.node[n] = i \/ n \in EventsOf(h, i)
      BY <1>6, <2>2, <3>1 DEF Relinked
    <3>3. CASE rest.node[n] = i /\ n \in EventsOf(rest, i)
      <4>1. PICK l \in Range(Listened) : n = Dst[l.emits] /\ rest.node[Src[l.emits]] = i
        BY <3>3 DEF EventsOf
      <4>2. Src[l.emits] \in NodeId \ EventNode /\ i # Absent
        BY ListenedEnds, SourceFiles
      <4>3. Holders(F, disk, Src[l.emits]) = {}
        <5>1. i \in File /\ Src[l.emits] \in rest.fileIndex[i]
          BY <1>4, <4>1, <4>2, SoundFields, SourceFiles
        <5>2. rest.fileIndex[i] \subseteq graph.fileIndex[i] \cup EventNode \cup Emitted(i)
          BY <1>1 DEF Updated
        <5>3. Src[l.emits] \in Emitted(i)
          BY <4>2, <5>1, <5>2 DEF Basic, Filing
        <5>4. Src[l.emits] \notin Emitted(f)
          BY <5>3, EventAssumption DEF Emitted
        <5> QED
          BY <1>8, <1>9, <4>2, <5>4
      <4>4. h.node[Src[l.emits]] = i
        BY <1>6, <4>1, <4>2, <4>3 DEF Relinked, HasNode
      <4> QED
        BY <4>1, <4>4 DEF EventsOf
    <3>4. rest.node[n] = i => graph.node[n] = i \/ n \in EventsOf(rest, i)
      BY <1>1 DEF Updated
    <3> QED
      BY <3>2, <3>3, <3>4
  <2> QED
    BY <2>1, <2>2
<1>13. Genuine(h, f)
  BY <1>1, <1>6 DEF Genuine, Relinked
<1>14. ASSUME disk[f] # Absent, NEW n \in NodesIn[<<f, disk[f]>>]
       PROVE  h.node[n] = f
  <2>1. n \in NodeId \ EventNode
    BY <1>7, <1>14, NoFileEmitsEvents
  <2>2. Holders(F, disk, n) = {f}
    BY <1>8, <1>14, <2>1
  <2> QED
    BY <1>6, <2>1, <2>2 DEF Relinked
<1>15. Updated(f, h)
  BY <1>6, <1>10, <1>11, <1>12, <1>13 DEF Updated, Relinked
<1> QED
  BY <1>14, <1>15 DEF Has

---------------------------------------------------------------------------
(* The types, and what every step rests on.                                *)

LEMMA BasicFields ==
  ASSUME Basic
  PROVE  /\ disk \in [SourceFile -> Maybe]
         /\ cache \in [SourceFile -> Maybe]
         /\ DOMAIN batch \in SUBSET SourceFile
         /\ batch \in [DOMAIN batch -> Maybe]
         /\ hits \in SUBSET (DOMAIN batch)
         /\ \A f \in OnDisk : f \in SourceFile /\ disk[f] # Absent
  BY DEF Basic, EngineTypeOK, OnDisk

LEMMA InitBasic == Init => Basic
<1> SUFFICES ASSUME Init
             PROVE  Basic
  OBVIOUS
<1>1. EngineTypeOK
  <2>1. EmptyGraph \in Graph
    BY EmptyGraphSound DEF Sound
  <2>2. batch \in [{} -> Maybe] /\ {} \in SUBSET SourceFile
    BY DEF Init
  <2>3. \E S \in SUBSET SourceFile : batch \in [S -> Maybe]
    BY <2>2
  <2>4. events \in Seq([file : SourceFile, unlinked : BOOLEAN])
    BY DEF Init
  <2>5. disk \in [SourceFile -> Maybe] /\ cache \in [SourceFile -> Maybe]
    BY EngineAssumption DEF Init, Maybe
  <2>6. edits \in 0..MaxEdits /\ runs \in 0..MaxRuns
    BY EngineAssumption DEF Init
  <2> QED
    BY <2>1, <2>3, <2>4, <2>5, <2>6 DEF Init, EngineTypeOK
<1>2. Sound(graph) /\ Settled(graph) /\ Filing
  <2>1. Sound(graph)
    BY EmptyGraphSound DEF Init
  <2>2. \A f \in File : graph.fileIndex[f] = {}
    BY DEF Init, EmptyGraph
  <2>3. \A e \in Edge : graph.target[e] = Absent
    BY DEF Init, EmptyGraph
  <2>4. Settled(graph)
    BY <2>3, GraphAssumption DEF Settled, HasEdge
  <2> QED
    BY <2>1, <2>2, <2>4, SourceFiles DEF Filing
<1>3. Texts
  BY EngineAssumption DEF Init, Texts, Parsable, OnDisk
<1>4. Watches /\ (Analyzing <=> outcome = "running")
  BY DEF Init, Watches, Analyzing
<1> QED
  BY <1>1, <1>2, <1>3, <1>4 DEF Basic

LEMMA EmptyGraphBasic ==
  ASSUME Basic, graph' = EmptyGraph
  PROVE  Sound(graph)' /\ Settled(graph)' /\ Filing'
<1>1. Sound(graph')
  BY EmptyGraphSound
<1>2. /\ \A f \in File : EmptyGraph.fileIndex[f] = {}
      /\ \A e \in Edge : EmptyGraph.target[e] = Absent
  BY DEF EmptyGraph
<1>3. Settled(graph')
  BY <1>2, GraphAssumption DEF Settled, HasEdge
<1>4. \A f \in SourceFile : graph'.fileIndex[f] \subseteq Emitted(f) \cup EventNode
  BY <1>2, SourceFiles
<1> QED
  BY <1>1, <1>3, <1>4 DEF Filing

LEMMA SameGraphBasic ==
  ASSUME Basic, graph' = graph
  PROVE  Sound(graph)' /\ Settled(graph)' /\ Filing'
  BY DEF Basic, Filing

LEMMA EditBasic ==
  ASSUME Basic, NEW f \in SourceFile, Edit(f)
  PROVE  Basic'
<1>1. PICK t \in Maybe :
         /\ t = Absent \/ <<f, t>> \in DOMAIN NodesIn
         /\ disk' = [disk EXCEPT ![f] = t]
         /\ events' = IF watching
                      THEN Append(events, [file |-> f, unlinked |-> t = Absent])
                      ELSE events
  BY DEF Edit
<1>2. UNCHANGED <<watching, runVars, graph, cache, closed>>
  BY DEF Edit
<1>3. EngineTypeOK'
  <2>1. edits' \in 0..MaxEdits
    BY EngineAssumption DEF Edit, Basic, EngineTypeOK
  <2>2. events' \in Seq([file : SourceFile, unlinked : BOOLEAN])
    <3>1. (t = Absent) \in BOOLEAN
      OBVIOUS
    <3> DEFINE u == t = Absent
    <3>2. [file |-> f, unlinked |-> u] \in [file : SourceFile, unlinked : BOOLEAN]
      BY <3>1
    <3>3. events \in Seq([file : SourceFile, unlinked : BOOLEAN])
      BY DEF Basic, EngineTypeOK
    <3> HIDE DEF u
    <3>4. Append(events, [file |-> f, unlinked |-> u]) \in Seq([file : SourceFile, unlinked : BOOLEAN])
      BY <3>2, <3>3
    <3> QED
      BY <1>1, <3>3, <3>4 DEF u
  <2>3. since' \subseteq {"edit", "unreported", "overlap", "update"}
    BY DEF Edit, Happened, Basic, EngineTypeOK
  <2> QED
    BY <1>1, <1>2, <2>1, <2>2, <2>3 DEF Basic, EngineTypeOK, runVars
<1>4. Sound(graph)' /\ Settled(graph)' /\ Filing'
  BY <1>2, SameGraphBasic
<1>5. Parsable(OnDisk', disk')
  <2>1. ASSUME NEW i \in SourceFile, disk'[i] # Absent
        PROVE  <<i, disk'[i]>> \in DOMAIN NodesIn
    <3>1. disk'[i] = IF i = f THEN t ELSE disk[i]
      BY <1>1, BasicFields
    <3> QED
      BY <1>1, <2>1, <3>1 DEF Basic, Texts, Parsable, OnDisk
  <2> QED
    BY <2>1 DEF Parsable, OnDisk
<1>6. Texts' /\ Watches' /\ (Analyzing <=> outcome = "running")'
  BY <1>1, <1>2, <1>5 DEF Basic, Texts, Watches, Analyzing, runVars, Parsable
<1> QED
  BY <1>3, <1>4, <1>6 DEF Basic

LEMMA RunAnalysisBasic ==
  ASSUME Basic, RunAnalysis
  PROVE  Basic'
<1>1. EngineTypeOK'
  <2>1. runs' \in 0..MaxRuns
    BY EngineAssumption DEF RunAnalysis, Basic, EngineTypeOK
  <2>2. EmptyGraph \in Graph
    BY EmptyGraphSound DEF Sound
  <2> QED
    BY <2>1, <2>2 DEF RunAnalysis, fsVars, Basic, EngineTypeOK
<1>2. Sound(graph)' /\ Settled(graph)' /\ Filing'
  BY EmptyGraphBasic DEF RunAnalysis
<1>3. Texts' /\ Watches' /\ (Analyzing <=> outcome = "running")'
  BY DEF RunAnalysis, fsVars, Basic, Texts, Watches, Analyzing, Parsable, OnDisk
<1> QED
  BY <1>1, <1>2, <1>3 DEF Basic

LEMMA DiscoverFilesBasic ==
  ASSUME Basic, DiscoverFiles
  PROVE  Basic'
<1>1. /\ OnDisk \in SUBSET SourceFile
      /\ DOMAIN batch' = OnDisk
      /\ \A f \in OnDisk : batch'[f] = Absent
      /\ batch' \in [OnDisk -> Maybe]
      /\ hits' = {}
  BY DEF DiscoverFiles, OnDisk, Maybe
<1>2. UNCHANGED <<fsVars, aborted, outcome, errors, runs, graph, cache, closed, since>>
      /\ phase = "listing" /\ phase' = "scanning"
  BY DEF DiscoverFiles
<1>3. EngineTypeOK'
  BY <1>1, <1>2 DEF fsVars, Basic, EngineTypeOK
<1>4. Sound(graph)' /\ Settled(graph)' /\ Filing'
  BY <1>2, SameGraphBasic
<1>5. Texts' /\ Watches' /\ (Analyzing <=> outcome = "running")'
  BY <1>1, <1>2 DEF fsVars, Basic, Texts, Watches, Analyzing, Parsable, OnDisk
<1> QED
  BY <1>3, <1>4, <1>5 DEF Basic

(* What the scan reads of a file is what the file has: an entry of the     *)
(* cache is found only if it is of that text.                              *)
LEMMA ScanReads ==
  ASSUME Basic, Scan, UNCHANGED <<aborted, outcome>>
  PROVE  /\ phase = "scanning" /\ phase' \in {"parsing", "merging"}
         /\ DOMAIN batch' = DOMAIN batch
         /\ \A f \in DOMAIN batch : batch'[f] = disk[f]
         /\ batch' \in [DOMAIN batch -> Maybe]
         /\ hits' \in SUBSET (DOMAIN batch \cap OnDisk)
         /\ UNCHANGED <<fsVars, errors, runs, graph, cache, closed, since>>
<1>1. phase = "scanning"
  BY DEF Scan
<1>2. outcome = "running"
  BY <1>1 DEF Basic, Analyzing
<1>3. ~(aborted /\ DOMAIN batch # (DOMAIN batch \cap OnDisk) \ Found)
  BY <1>2 DEF Scan, Cancelled
<1>4. /\ hits' = Found
      /\ batch' = [f \in DOMAIN batch |-> IF f \in Found THEN cache[f] ELSE disk[f]]
      /\ phase' \in {"parsing", "merging"}
      /\ UNCHANGED <<fsVars, errors, runs, graph, cache, closed, since>>
  BY <1>3 DEF Scan
<1>5. \A f \in Found : cache[f] = disk[f] /\ f \in DOMAIN batch \cap OnDisk
  BY DEF Found, Cached
<1>6. \A f \in DOMAIN batch : batch'[f] = disk[f] /\ disk[f] \in Maybe
  BY <1>4, <1>5, BasicFields
<1> HIDE DEF Found
<1>7. batch' \in [DOMAIN batch -> Maybe]
  <2>1. batch' = [f \in DOMAIN batch |-> batch'[f]]
    BY <1>4
  <2> QED
    BY <1>6, <2>1
<1> QED
  BY <1>1, <1>4, <1>5, <1>6, <1>7

LEMMA ScanBasic ==
  ASSUME Basic, Scan
  PROVE  Basic'
<1>1. CASE Cancelled /\ UNCHANGED hits
  <2>1. /\ phase' = "idle" /\ outcome' = "cancelled"
        /\ UNCHANGED <<fsVars, batch, hits, aborted, errors, runs, graph, cache, closed, since>>
    BY <1>1 DEF Cancelled
  <2>2. Sound(graph)' /\ Settled(graph)' /\ Filing'
    BY <2>1, SameGraphBasic
  <2> QED
    BY <2>1, <2>2 DEF fsVars, Basic, EngineTypeOK, Texts, Watches, Analyzing, Parsable, OnDisk
<1>2. CASE UNCHANGED <<aborted, outcome>>
  <2>1. /\ phase = "scanning" /\ phase' \in {"parsing", "merging"}
        /\ DOMAIN batch' = DOMAIN batch
        /\ \A f \in DOMAIN batch : batch'[f] = disk[f]
        /\ batch' \in [DOMAIN batch -> Maybe]
        /\ hits' \in SUBSET (DOMAIN batch \cap OnDisk)
        /\ UNCHANGED <<fsVars, errors, runs, graph, cache, closed, since>>
    BY <1>2, ScanReads
  <2>2. EngineTypeOK'
    BY <1>2, <2>1 DEF fsVars, Basic, EngineTypeOK
  <2>3. Sound(graph)' /\ Settled(graph)' /\ Filing'
    BY <2>1, SameGraphBasic
  <2>4. Parsable({f \in DOMAIN batch' : batch'[f] # Absent}, batch')
    BY <2>1, BasicFields DEF Basic, Texts, Parsable, OnDisk
  <2>5. \A f \in hits' : batch'[f] # Absent
    BY <2>1 DEF OnDisk
  <2>6. Parsable(OnDisk', disk') /\ Parsable({f \in SourceFile : cache'[f] # Absent}, cache')
    BY <2>1 DEF fsVars, Basic, Texts, Parsable, OnDisk
  <2>7. Texts'
    BY <2>4, <2>5, <2>6 DEF Texts
  <2>8. Watches' /\ (Analyzing <=> outcome = "running")'
    BY <1>2, <2>1 DEF fsVars, Basic, Watches, Analyzing
  <2> QED
    BY <2>2, <2>3, <2>7, <2>8 DEF Basic
<1> QED
  BY <1>1, <1>2 DEF Scan

(* A run that completes.                                                   *)
LEMMA FinishSteps ==
  ASSUME Basic, Finish, outcome' # "cancelled"
  PROVE  \E lost \in SUBSET Fresh :
            LET parsed == Fresh \ lost IN
            /\ graph' = Link(AddParsed(graph, InOrder(hits) \o InOrder(parsed), batch))
            /\ Relinked(graph, hits \cup parsed, batch, graph')
            /\ hits \cup parsed \in SUBSET SourceFile
            /\ cache' = [f \in SourceFile |->
                            IF f \in parsed /\ ~closed THEN batch[f] ELSE cache[f]]
            /\ errors' = Unread \cup lost
            /\ phase \in {"merging", "parsing"} /\ phase' = "idle" /\ outcome' = "complete"
            /\ UNCHANGED <<fsVars, batch, hits, aborted, runs, closed, since>>
<1>1. PICK lost \in SUBSET Fresh :
         /\ graph' = Link(AddParsed(graph, InOrder(hits) \o InOrder(Fresh \ lost), batch))
         /\ cache' = [f \in SourceFile |->
                            IF f \in Fresh \ lost /\ ~closed THEN batch[f] ELSE cache[f]]
         /\ errors' = Unread \cup lost
         /\ phase \in {"merging", "parsing"} /\ phase' = "idle" /\ outcome' = "complete"
         /\ UNCHANGED <<fsVars, batch, hits, aborted, runs, closed, since>>
  BY DEF Finish, Cancelled
<1>2. /\ Relinked(graph, hits \cup (Fresh \ lost), batch, graph')
      /\ hits \cup (Fresh \ lost) \in SUBSET SourceFile
  BY <1>1, FinishIs
<1> QED
  BY <1>1, <1>2

LEMMA FinishBasic ==
  ASSUME Basic, Finish
  PROVE  Basic'
<1>1. CASE outcome' = "cancelled"
  <2>1. /\ phase' = "idle"
        /\ UNCHANGED <<fsVars, batch, hits, aborted, errors, runs, graph, cache, closed, since>>
    BY <1>1 DEF Finish, Cancelled
  <2>2. Sound(graph)' /\ Settled(graph)' /\ Filing'
    BY <2>1, SameGraphBasic
  <2> QED
    BY <1>1, <2>1, <2>2 DEF fsVars, Basic, EngineTypeOK, Texts, Watches, Analyzing, Parsable, OnDisk
<1>2. CASE outcome' # "cancelled"
  <2>1. PICK lost \in SUBSET Fresh :
            /\ Relinked(graph, hits \cup (Fresh \ lost), batch, graph')
            /\ hits \cup (Fresh \ lost) \in SUBSET SourceFile
            /\ cache' = [f \in SourceFile |->
                            IF f \in Fresh \ lost /\ ~closed THEN batch[f] ELSE cache[f]]
            /\ errors' = Unread \cup lost
            /\ phase' = "idle" /\ outcome' = "complete"
            /\ UNCHANGED <<fsVars, batch, hits, aborted, runs, closed, since>>
    BY <1>2, FinishSteps
  <2>2. /\ Fresh \in SUBSET SourceFile
        /\ Unread \in SUBSET SourceFile
        /\ \A f \in Fresh \cup hits : f \in DOMAIN batch /\ batch[f] # Absent /\ batch[f] \in Maybe
    BY BasicFields DEF Fresh, Unread, Basic, Texts
  <2>3. graph' \in Graph /\ cache' \in [SourceFile -> Maybe] /\ errors' \in SUBSET SourceFile
    <3>1. cache \in [SourceFile -> Maybe]
      BY BasicFields
    <3>2. \A f \in SourceFile : (IF f \in Fresh \ lost /\ ~closed THEN batch[f] ELSE cache[f]) \in Maybe
      BY <2>2, <3>1
    <3> QED
      BY <2>1, <2>2, <3>2 DEF Relinked, Sound
  <2>4. EngineTypeOK'
    BY <2>1, <2>3 DEF fsVars, Basic, EngineTypeOK
  <2>5. ASSUME NEW i \in SourceFile
        PROVE  graph'.fileIndex[i] \subseteq Emitted(i) \cup EventNode
    <3> DEFINE F == hits \cup (Fresh \ lost)
    <3>1. graph'.fileIndex[i] \subseteq graph.fileIndex[i] \cup EventNode
             \cup IF i \in F THEN NodesIn[<<i, batch[i]>>] ELSE {}
      BY <2>1 DEF Relinked
    <3>2. ASSUME i \in F
          PROVE  NodesIn[<<i, batch[i]>>] \subseteq Emitted(i)
      <4> DEFINE v == <<i, batch[i]>>
      <4>1. v \in DOMAIN NodesIn /\ v[1] = i
        BY <2>2, <3>2 DEF Basic, Texts, Parsable
      <4>2. NodesIn[v] \subseteq NodeId
        BY <4>1, ParseResults
      <4> HIDE DEF v
      <4>3. NodesIn[v] \subseteq Emitted(i)
        BY <4>1, <4>2 DEF Emitted
      <4> QED
        BY <4>3 DEF v
    <3> HIDE DEF F
    <3> QED
      BY <3>1, <3>2 DEF Basic, Filing
  <2>6. Sound(graph)' /\ Settled(graph)' /\ Filing'
    BY <2>1, <2>5 DEF Relinked, Filing
  <2>7. Parsable({f \in SourceFile : cache'[f] # Absent}, cache')
    BY <2>1, <2>2 DEF Basic, Texts, Parsable
  <2>8. Texts'
    BY <2>1, <2>7 DEF fsVars, Basic, Texts, Parsable, OnDisk
  <2>9. Watches' /\ (Analyzing <=> outcome = "running")'
    BY <2>1 DEF fsVars, Basic, Watches, Analyzing
  <2> QED
    BY <2>4, <2>6, <2>8, <2>9 DEF Basic
<1> QED
  BY <1>1, <1>2

LEMMA HeadOf ==
  ASSUME NEW X, NEW q \in Seq(X), q # <<>>
  PROVE  Head(q) \in X /\ Tail(q) \in Seq(X)
  OBVIOUS

(* A report: its file, and what becomes of the graph.                      *)
LEMMA HandleEventSteps ==
  ASSUME Basic, HandleEvent
  PROVE  /\ events \in Seq([file : SourceFile, unlinked : BOOLEAN]) /\ events # <<>>
         /\ events' = Tail(events)
         /\ Head(events).file \in SourceFile
         /\ Updated(Head(events).file, graph')
         /\ ~Head(events).unlinked /\ disk[Head(events).file] # Absent
               => Has(graph', Head(events).file)
<1>1. events \in Seq([file : SourceFile, unlinked : BOOLEAN]) /\ events # <<>>
  BY DEF HandleEvent, Due, Basic, EngineTypeOK
<1>2. Head(events) \in [file : SourceFile, unlinked : BOOLEAN]
  BY <1>1, HeadOf
<1> DEFINE f == Head(events).file
<1>3. f \in SourceFile
  BY <1>2
<1>4. IF Head(events).unlinked THEN graph' = RemoveByFile(graph, f) ELSE graph' = Reparse(f)
  BY DEF HandleEvent
<1>5. events' = Tail(events)
  BY DEF HandleEvent
<1> HIDE DEF f
<1>6. Updated(f, graph') /\ (~Head(events).unlinked /\ disk[f] # Absent => Has(graph', f))
  BY <1>3, <1>4, RemovedIs, ReparsedIs
<1> QED
  BY <1>1, <1>3, <1>5, <1>6 DEF f

LEMMA HandleEventBasic ==
  ASSUME Basic, HandleEvent
  PROVE  Basic'
<1> DEFINE e == Head(events)
           f == e.file
           kept == Invalidate({f} \cup Dependents(graph, f))
<1>1. /\ events \in Seq([file : SourceFile, unlinked : BOOLEAN]) /\ events # <<>>
      /\ events' = Tail(events)
      /\ f \in SourceFile
      /\ Updated(f, graph')
  BY HandleEventSteps
<1>2. /\ UNCHANGED <<disk, watching, edits, runVars, closed>>
      /\ IF e.unlinked THEN cache' = kept ELSE cache' = Store(kept, f, disk[f])
      /\ watching
  BY DEF HandleEvent, Due
<1> HIDE DEF e, f
<1>3. /\ kept \in [SourceFile -> Maybe]
      /\ \A i \in SourceFile : kept[i] \in {Absent, cache[i]}
  BY BasicFields DEF Invalidate, Maybe
<1> HIDE DEF kept
<1>4. /\ cache' \in [SourceFile -> Maybe]
      /\ \A i \in SourceFile : cache'[i] \in {Absent, cache[i], disk[i]}
  BY <1>1, <1>2, <1>3, BasicFields DEF Store
<1>5. EngineTypeOK'
  <2>1. graph' \in Graph
    BY <1>1 DEF Updated, Sound
  <2>2. events' \in Seq([file : SourceFile, unlinked : BOOLEAN])
    BY <1>1, HeadOf
  <2>3. since' \subseteq {"edit", "unreported", "overlap", "update"}
    BY DEF HandleEvent, Happened, Basic, EngineTypeOK
  <2> QED
    BY <1>2, <1>4, <2>1, <2>2, <2>3 DEF runVars, Basic, EngineTypeOK
<1>6. Sound(graph)' /\ Settled(graph)'
  BY <1>1 DEF Updated
<1>7. Filing'
  BY <1>1 DEF Updated, Filing, Basic
<1>8. Texts' /\ Watches' /\ (Analyzing <=> outcome = "running")'
  BY <1>2, <1>4 DEF runVars, Basic, Texts, Watches, Analyzing, Parsable, OnDisk
<1> QED
  BY <1>5, <1>6, <1>7, <1>8 DEF Basic

LEMMA QuietBasic ==
  ASSUME Basic, CancelAnalysis \/ StartWatching \/ Dispose \/ UNCHANGED vars
  PROVE  Basic'
<1>1. graph' = graph
  BY DEF CancelAnalysis, StartWatching, Dispose, vars
<1>2. Sound(graph)' /\ Settled(graph)' /\ Filing'
  BY <1>1, SameGraphBasic
<1>3. CASE CancelAnalysis
  BY <1>2, <1>3 DEF CancelAnalysis, fsVars, Basic, EngineTypeOK, Texts, Watches, Analyzing,
                    Parsable, OnDisk
<1>4. CASE StartWatching
  BY <1>2, <1>4 DEF StartWatching, runVars, Basic, EngineTypeOK, Texts, Watches, Analyzing,
                    Parsable, OnDisk
<1>5. CASE Dispose
  <2>1. events' \in Seq([file : SourceFile, unlinked : BOOLEAN])
    BY <1>5 DEF Dispose
  <2> QED
    BY <1>2, <1>5, <2>1 DEF Dispose, runVars, Basic, EngineTypeOK, Texts, Watches, Analyzing,
                            Parsable, OnDisk
<1>6. CASE UNCHANGED vars
  BY <1>2, <1>6 DEF vars, fsVars, runVars, Basic, EngineTypeOK, Texts, Watches, Analyzing,
                    Parsable, OnDisk
<1> QED
  BY <1>3, <1>4, <1>5, <1>6

LEMMA NextBasic == Basic /\ [Next]_vars => Basic'
<1> SUFFICES ASSUME Basic, [Next]_vars
             PROVE  Basic'
  OBVIOUS
<1>1. CASE \E f \in SourceFile : Edit(f)
  BY <1>1, EditBasic
<1>2. CASE RunAnalysis
  BY <1>2, RunAnalysisBasic
<1>3. CASE DiscoverFiles
  BY <1>3, DiscoverFilesBasic
<1>4. CASE Scan
  BY <1>4, ScanBasic
<1>5. CASE Finish
  BY <1>5, FinishBasic
<1>6. CASE HandleEvent
  BY <1>6, HandleEventBasic
<1>7. CASE CancelAnalysis \/ StartWatching \/ Dispose \/ UNCHANGED vars
  BY <1>7, QuietBasic
<1> QED
  BY <1>1, <1>2, <1>3, <1>4, <1>5, <1>6, <1>7 DEF Next

(* The types, a graph whose indexes agree, native calls that are settled,   *)
(* and texts that parse, at every step of the engine.                      *)
THEOREM EngineBasic == Spec => []Basic
<1> QED
  BY InitBasic, NextBasic, PTL DEF Spec

(* Through all runs, linkers and reports, the indexes of the graph agree   *)
(* with its nodes and edges.                                               *)
THEOREM IndexesInSyncAlways == Spec => []IndexesInSync
<1>1. Basic => IndexesInSync
  BY DEF Basic, Sound, IndexesInSync
<1> QED
  BY <1>1, EngineBasic, PTL

(* removeByFile() reports every file with an edge into what it is about to *)
(* remove.                                                                 *)
THEOREM DependentsCompleteAlways == Spec => []DependentsComplete
<1>1. Basic => DependentsComplete
  <2>1. SourceFile \subseteq File /\ Virtual \notin SourceFile
    BY EngineAssumption DEF SourceFile, Range
  <2> QED
    BY <2>1, GraphAssumption DEF Basic, Sound, Graph, InIndexed, DependentsComplete,
       Dependents, GetNodesByFile, EdgesOf, HasEdge
<1> QED
  BY <1>1, EngineBasic, PTL

---------------------------------------------------------------------------
(* Whoever finds the revision he knows has the graph he knows.             *)

LEMMA NewerContent ==
  ASSUME NEW g, NEW h, Newer(g, h), Content(h) # Content(g)
  PROVE  h.version > g.version
<1>1. h.node = g.node /\ h.target = g.target => Content(h) = Content(g)
  BY DEF Content, NodesOf, EdgesOf, HasNode, HasEdge
<1> QED
  BY <1>1 DEF Newer

LEMMA NextRevises ==
  Basic /\ [Next]_vars =>
      [Content(graph') # Content(graph) =>
          runs' > runs \/ graph'.version > graph.version]_vars
<1> SUFFICES ASSUME Basic, [Next]_vars, Content(graph') # Content(graph)
             PROVE  runs' > runs \/ graph'.version > graph.version
  OBVIOUS
<1>1. CASE RunAnalysis
  BY <1>1 DEF RunAnalysis, Basic, EngineTypeOK
<1>2. CASE Finish
  <2>1. outcome' # "cancelled"
    BY <1>2 DEF Finish, Cancelled
  <2>2. PICK lost \in SUBSET Fresh : Relinked(graph, hits \cup (Fresh \ lost), batch, graph')
    BY <1>2, <2>1, FinishSteps
  <2>3. Newer(graph, graph')
    BY <2>2 DEF Relinked, Basic
  <2> QED
    BY <2>3, NewerContent
<1>3. CASE HandleEvent
  <2>1. Newer(graph, graph')
    BY <1>3, HandleEventSteps DEF Updated
  <2> QED
    BY <2>1, NewerContent
<1>4. CASE \/ \E f \in SourceFile : Edit(f)
           \/ DiscoverFiles \/ Scan \/ CancelAnalysis \/ StartWatching \/ Dispose
           \/ UNCHANGED vars
  <2>1. graph' = graph
    BY <1>4 DEF Edit, DiscoverFiles, Scan, Cancelled, CancelAnalysis, StartWatching, Dispose, vars
  <2> QED
    BY <2>1
<1> QED
  BY <1>1, <1>2, <1>3, <1>4 DEF Next

(* No run, update or linker changes the nodes or the edges and leaves the  *)
(* revision: the routes may keep what they computed of it.                 *)
THEOREM RevisionExactAlways == Spec => RevisionExact
<1> QED
  BY EngineBasic, NextRevises, PTL DEF Spec, RevisionExact

---------------------------------------------------------------------------
(* The graph is of the files on the disk once the reports are handled.     *)

Mirror == Basic /\ Reported /\ Covered /\ Clean

LEMMA NothingFiledEmpty ==
  ASSUME NEW n \in NodeId
  PROVE  EmptyGraph.node[n] = Absent
  BY DEF EmptyGraph

LEMMA InitMirror == Init => Mirror
<1> SUFFICES ASSUME Init
             PROVE  Mirror
  OBVIOUS
<1>1. DOMAIN events = {}
  BY DEF Init
<1>2. Reported
  BY <1>1 DEF Reported
<1>3. Covered /\ Clean
  BY DEF Init, Covered, Clean, Analyzing
<1> QED
  BY <1>2, <1>3, InitBasic DEF Mirror

LEMMA PendingTail ==
  ASSUME events \in Seq([file : SourceFile, unlinked : BOOLEAN]), events # <<>>,
         events' = Tail(events)
  PROVE  /\ \A f : \A j \in DOMAIN events : j > 1 /\ events[j].file = f => Pending(f)'
         /\ \A f : Pending(f) => Pending(f)' \/ f = Head(events).file
         /\ DOMAIN events' = 1..(Len(events) - 1)
         /\ \A i \in DOMAIN events' : i + 1 \in DOMAIN events /\ events'[i] = events[i + 1]
         /\ 1 \in DOMAIN events /\ Head(events) = events[1]
         /\ Len(events) \in Nat /\ DOMAIN events = 1..Len(events)
<1>1. /\ DOMAIN events' = 1..(Len(events) - 1)
      /\ Len(events) \in Nat /\ Len(events) > 0
      /\ DOMAIN events = 1..Len(events)
      /\ Head(events) = events[1]
      /\ \A i \in 1..(Len(events) - 1) : events'[i] = events[i + 1]
  OBVIOUS
<1>2. ASSUME NEW f, NEW j \in DOMAIN events, j > 1, events[j].file = f
      PROVE  Pending(f)'
  <2>1. j - 1 \in DOMAIN events' /\ events'[j - 1] = events[(j - 1) + 1] /\ (j - 1) + 1 = j
    BY <1>1, <1>2
  <2> QED
    BY <1>2, <2>1 DEF Pending
<1>3. ASSUME NEW f, Pending(f)
      PROVE  Pending(f)' \/ f = Head(events).file
  <2>1. PICK i \in DOMAIN events : events[i].file = f
    BY <1>3 DEF Pending
  <2>2. i = 1 \/ i > 1
    BY <1>1
  <2> QED
    BY <1>1, <1>2, <2>1, <2>2
<1>4. \A i \in DOMAIN events' : i + 1 \in DOMAIN events /\ events'[i] = events[i + 1]
  BY <1>1
<1>5. 1 \in DOMAIN events
  BY <1>1
<1> QED
  BY <1>1, <1>2, <1>3, <1>4, <1>5

(* What an edit does to the reports.                                       *)
LEMMA EditSteps ==
  ASSUME Basic, NEW f \in SourceFile, Edit(f)
  PROVE  /\ \A i \in SourceFile \ {f} : disk'[i] = disk[i]
         /\ \E u : /\ u \in BOOLEAN /\ u <=> disk'[f] = Absent
                   /\ events' = IF watching
                                THEN Append(events, [file |-> f, unlinked |-> u])
                                ELSE <<>>
         /\ Told' => Told /\ watching
         /\ UNCHANGED <<watching, phase, batch, outcome, errors, graph>>
         /\ since' # {} /\ since \subseteq since'
<1>1. PICK t \in Maybe :
         /\ disk' = [disk EXCEPT ![f] = t]
         /\ events' = IF watching
                      THEN Append(events, [file |-> f, unlinked |-> t = Absent])
                      ELSE events
  BY DEF Edit
<1>2. \A i \in SourceFile : disk'[i] = IF i = f THEN t ELSE disk[i]
  BY <1>1, BasicFields
<1>3. /\ UNCHANGED <<watching, runVars, graph, cache, closed>>
      /\ since' = since \cup ({"edit"} \cup IF watching THEN {} ELSE {"unreported"})
  BY DEF Edit, Happened
<1>4. Told' => Told /\ watching
  BY <1>3 DEF Told
<1>5. \E u : /\ u \in BOOLEAN /\ u <=> disk'[f] = Absent
             /\ events' = IF watching
                          THEN Append(events, [file |-> f, unlinked |-> u])
                          ELSE <<>>
  <2> DEFINE u == t = Absent
  <2>1. u \in BOOLEAN /\ u <=> disk'[f] = Absent
    BY <1>2
  <2>2. events' = IF watching
                  THEN Append(events, [file |-> f, unlinked |-> u])
                  ELSE <<>>
    BY <1>1 DEF Basic, Watches
  <2> HIDE DEF u
  <2> QED
    BY <2>1, <2>2
<1> QED
  BY <1>2, <1>3, <1>4, <1>5 DEF runVars

LEMMA ElementOf ==
  ASSUME NEW X, NEW q \in Seq(X), NEW i \in DOMAIN q
  PROVE  q[i] \in X
  OBVIOUS

LEMMA AppendOf ==
  ASSUME NEW X, NEW q \in Seq(X), NEW y, NEW p, p = Append(q, y)
  PROVE  /\ Len(q) \in Nat /\ DOMAIN q = 1..Len(q)
         /\ DOMAIN p = (DOMAIN q) \cup {Len(q) + 1}
         /\ p[Len(q) + 1] = y
         /\ \A i \in DOMAIN q : p[i] = q[i] /\ i < Len(q) + 1
<1>1. /\ Len(q) \in Nat /\ DOMAIN q = 1..Len(q)
      /\ DOMAIN Append(q, y) = 1..(Len(q) + 1)
      /\ Append(q, y)[Len(q) + 1] = y
      /\ \A i \in 1..Len(q) : Append(q, y)[i] = q[i]
  OBVIOUS
<1>2. 1..(Len(q) + 1) = (1..Len(q)) \cup {Len(q) + 1}
  BY <1>1
<1> QED
  BY <1>1, <1>2

LEMMA EditPending ==
  ASSUME Basic, NEW f \in SourceFile, Edit(f), watching
  PROVE  Pending(f)' /\ \A i : Pending(i) => Pending(i)'
<1>1. PICK u : events' = Append(events, [file |-> f, unlinked |-> u])
  BY EditSteps
<1>2. events \in Seq([file : SourceFile, unlinked : BOOLEAN])
  BY DEF Basic, EngineTypeOK
<1>3. /\ DOMAIN events' = (DOMAIN events) \cup {Len(events) + 1}
      /\ events'[Len(events) + 1] = [file |-> f, unlinked |-> u]
      /\ \A i \in DOMAIN events : events'[i] = events[i]
  BY <1>1, <1>2, AppendOf
<1>4. events'[Len(events) + 1].file = f
  BY <1>3
<1>5. Pending(f)'
  BY <1>3, <1>4 DEF Pending
<1> QED
  BY <1>3, <1>5 DEF Pending

LEMMA NextReported == Basic /\ Reported /\ [Next]_vars => Reported'
<1> SUFFICES ASSUME Basic, Reported, [Next]_vars
             PROVE  Reported'
  OBVIOUS
<1>1. CASE \E f \in SourceFile : Edit(f)
  <2>1. PICK f \in SourceFile : Edit(f)
    BY <1>1
  <2>2. PICK u : /\ u \in BOOLEAN /\ u <=> disk'[f] = Absent
                 /\ events' = IF watching
                              THEN Append(events, [file |-> f, unlinked |-> u])
                              ELSE <<>>
    BY <2>1, EditSteps
  <2>3. \A i \in SourceFile \ {f} : disk'[i] = disk[i]
    BY <2>1, EditSteps
  <2>4. CASE ~watching
    <3>1. DOMAIN events' = {}
      BY <2>2, <2>4
    <3> QED
      BY <3>1 DEF Reported
  <2>5. CASE watching
    <3> DEFINE m == Len(events) + 1
               r == [file |-> f, unlinked |-> u]
    <3>1. events \in Seq([file : SourceFile, unlinked : BOOLEAN]) /\ events' = Append(events, r)
      BY <2>2, <2>5 DEF Basic, EngineTypeOK
    <3>2. r.file = f /\ r.unlinked = u
      OBVIOUS
    <3> HIDE DEF r
    <3>3. /\ DOMAIN events' = (DOMAIN events) \cup {m}
          /\ events'[m] = r
          /\ \A i \in DOMAIN events : events'[i] = events[i] /\ i < m
          /\ m \in Nat /\ DOMAIN events \subseteq Nat
      BY <3>1, AppendOf
    <3>4. \A i \in DOMAIN events : events[i].file \in SourceFile
      <4>1. \A i \in DOMAIN events : events[i] \in [file : SourceFile, unlinked : BOOLEAN]
        BY <3>1, ElementOf
      <4> QED
        BY <4>1
    <3> HIDE DEF m
    <3>5. ASSUME NEW i \in DOMAIN events',
                 \A j \in DOMAIN events' : j > i => events'[j].file # events'[i].file
          PROVE  events'[i].unlinked <=> disk'[events'[i].file] = Absent
      <4>1. CASE i = m
        BY <2>2, <3>2, <3>3, <4>1
      <4>2. CASE i \in DOMAIN events
        <5>1. m > i /\ m \in DOMAIN events'
          BY <3>3, <4>2
        <5>2. events[i].file # f
          BY <3>2, <3>3, <3>5, <4>2, <5>1
        <5>3. \A j \in DOMAIN events : j > i => events[j].file # events[i].file
          BY <3>3, <3>5, <4>2
        <5>4. events[i].unlinked <=> disk[events[i].file] = Absent
          BY <4>2, <5>3 DEF Reported
        <5> QED
          BY <2>3, <3>3, <3>4, <4>2, <5>2, <5>4
      <4> QED
        BY <3>3, <4>1, <4>2
    <3> QED
      BY <3>5 DEF Reported
  <2> QED
    BY <2>4, <2>5
<1>2. CASE HandleEvent
  <2>1. /\ \A i \in DOMAIN events' : i + 1 \in DOMAIN events /\ events'[i] = events[i + 1]
        /\ DOMAIN events' = 1..(Len(events) - 1)
        /\ Len(events) \in Nat /\ DOMAIN events = 1..Len(events)
    BY <1>2, HandleEventSteps, PendingTail
  <2>2. disk' = disk
    BY <1>2 DEF HandleEvent
  <2>3. ASSUME NEW i \in DOMAIN events',
               \A j \in DOMAIN events' : j > i => events'[j].file # events'[i].file
        PROVE  events'[i].unlinked <=> disk'[events'[i].file] = Absent
    <3>1. ASSUME NEW j \in DOMAIN events, j > i + 1
          PROVE  events[j].file # events[i + 1].file
      <4>1. j - 1 \in DOMAIN events' /\ j - 1 > i /\ (j - 1) + 1 = j
        BY <2>1, <3>1
      <4> QED
        BY <2>1, <2>3, <4>1
    <3> QED
      BY <2>1, <2>2, <3>1 DEF Reported
  <2> QED
    BY <2>3 DEF Reported
<1>3. CASE Dispose
  <2>1. DOMAIN events' = {}
    BY <1>3 DEF Dispose
  <2> QED
    BY <2>1 DEF Reported
<1>4. CASE \/ RunAnalysis \/ DiscoverFiles \/ Scan \/ Finish \/ CancelAnalysis \/ StartWatching
           \/ UNCHANGED vars
  <2>1. events' = events /\ disk' = disk
    BY <1>4 DEF RunAnalysis, DiscoverFiles, Scan, Finish, Cancelled, CancelAnalysis,
                StartWatching, vars, fsVars
  <2> QED
    BY <2>1 DEF Reported
<1> QED
  BY <1>1, <1>2, <1>3, <1>4 DEF Next

(* A report of f leaves the nodes of another file alone.                   *)
LEMMA UpdatedHas ==
  ASSUME Basic, NEW f \in SourceFile, NEW h, Updated(f, h), NEW i \in OnDisk, i # f, Has(graph, i)
  PROVE  Has(h, i)
<1> SUFFICES ASSUME NEW n \in NodesIn[<<i, disk[i]>>] \cap Private(i)
             PROVE  h.node[n] = i
  BY DEF Has
<1>1. i \in SourceFile /\ <<i, disk[i]>> \in DOMAIN NodesIn
  BY DEF Basic, Texts, Parsable, OnDisk
<1>2. n \in NodeId \ EventNode
  BY <1>1, NoFileEmitsEvents
<1>3. n \notin Emitted(f)
  BY DEF Private, Emitted
<1>4. graph.node[n] = i
  BY DEF Has
<1> QED
  BY <1>1, <1>2, <1>3, <1>4 DEF Updated

LEMMA UpdatedGenuine ==
  ASSUME Basic, NEW f \in SourceFile, NEW h, Updated(f, h), NEW i \in SourceFile, i # f,
         Genuine(graph, i)
  PROVE  Genuine(h, i)
<1> SUFFICES ASSUME NEW n \in NodeId, h.node[n] = i, n \notin EventsOf(h, i)
             PROVE  disk[i] # Absent /\ n \in NodesIn[<<i, disk[i]>>]
  BY DEF Genuine
<1>1. graph.node[n] = i
  BY DEF Updated
<1>2. ASSUME n \in EventsOf(graph, i)
      PROVE  FALSE
  <2>1. PICK l \in Range(Listened) : n = Dst[l.emits] /\ graph.node[Src[l.emits]] = i
    BY <1>2 DEF EventsOf
  <2> DEFINE c == Src[l.emits]
  <2>2. c \in NodeId \ EventNode
    BY ListenedEnds
  <2>3. c \in graph.fileIndex[i]
    BY <2>1, <2>2, SoundFields, SourceFiles DEF Basic
  <2>4. c \in Emitted(i)
    BY <2>2, <2>3 DEF Basic, Filing
  <2>5. c \notin Emitted(f)
    BY <2>4, EventAssumption DEF Emitted
  <2>6. h.node[c] = i
    BY <2>1, <2>2, <2>5 DEF Updated
  <2> QED
    BY <2>1, <2>6 DEF EventsOf
<1> QED
  BY <1>1, <1>2 DEF Genuine

LEMMA NextCovered == Basic /\ Reported /\ Covered /\ [Next]_vars => Covered'
<1> SUFFICES ASSUME Basic, Reported, Covered, [Next]_vars,
                    outcome' \in {"running", "complete"}, Told',
                    NEW f \in OnDisk'
             PROVE  Taken(f)' \/ Pending(f)' \/ Has(graph, f)'
  BY DEF Covered
<1>1. f \in SourceFile /\ disk'[f] # Absent
  BY DEF OnDisk
<1>2. CASE \E i \in SourceFile : Edit(i)
  <2>1. PICK i \in SourceFile : Edit(i)
    BY <1>2
  <2>2. /\ \A j \in SourceFile \ {i} : disk'[j] = disk[j]
        /\ Told /\ watching
        /\ UNCHANGED <<phase, batch, outcome, errors, graph>>
    BY <2>1, EditSteps
  <2>3. CASE f = i
    BY <2>1, <2>2, <2>3, EditPending
  <2>4. CASE f # i
    <3>1. disk'[f] = disk[f] /\ f \in OnDisk
      BY <1>1, <2>2, <2>4 DEF OnDisk
    <3>2. Taken(f) \/ Pending(f) \/ Has(graph, f)
      BY <2>2, <3>1 DEF Covered
    <3>3. Pending(f) => Pending(f)'
      BY <2>1, <2>2, EditPending
    <3>4. Taken(f) => Taken(f)'
      BY <2>2, <3>1 DEF Taken
    <3>5. Has(graph, f) => Has(graph, f)'
      BY <2>2, <3>1 DEF Has
    <3> QED
      BY <3>2, <3>3, <3>4, <3>5
  <2> QED
    BY <2>3, <2>4
<1>3. CASE RunAnalysis
  BY <1>3 DEF RunAnalysis, Taken
<1>4. CASE DiscoverFiles
  <2>1. f \in DOMAIN batch' /\ phase' = "scanning"
    BY <1>4 DEF DiscoverFiles, fsVars, OnDisk
  <2> QED
    BY <2>1 DEF Taken
<1>5. CASE Scan
  <2>1. UNCHANGED <<aborted, outcome>>
    BY <1>5 DEF Scan, Cancelled
  <2>2. /\ phase = "scanning" /\ phase' \in {"parsing", "merging"}
        /\ DOMAIN batch' = DOMAIN batch
        /\ \A i \in DOMAIN batch : batch'[i] = disk[i]
        /\ UNCHANGED <<fsVars, graph, closed, since>>
    BY <1>5, <2>1, ScanReads
  <2>3. Taken(f) \/ Pending(f) \/ Has(graph, f)
    BY <1>1, <2>1, <2>2 DEF fsVars, Covered, Told, OnDisk
  <2>4. Taken(f) => Taken(f)'
    BY <2>2 DEF Taken, fsVars
  <2>5. (Pending(f) => Pending(f)') /\ (Has(graph, f) => Has(graph, f)')
    BY <2>2 DEF fsVars, Pending, Has
  <2> QED
    BY <2>3, <2>4, <2>5
<1>6. CASE Finish
  <2>1. outcome' # "cancelled"
    OBVIOUS
  <2>2. PICK lost \in SUBSET Fresh :
            /\ Relinked(graph, hits \cup (Fresh \ lost), batch, graph')
            /\ errors' = Unread \cup lost
            /\ phase \in {"merging", "parsing"} /\ phase' = "idle"
            /\ UNCHANGED <<fsVars, batch, hits, aborted, runs, closed, since>>
    BY <1>6, <2>1, FinishSteps
  <2> DEFINE F == hits \cup (Fresh \ lost)
  <2>3. outcome = "running" /\ Told /\ f \in OnDisk /\ disk' = disk /\ events' = events
    BY <1>1, <2>2 DEF fsVars, OnDisk, Told, Basic, Analyzing
  <2>4. Taken(f) \/ Pending(f) \/ Has(graph, f)
    BY <2>3 DEF Covered
  <2>5. Pending(f) => Pending(f)'
    BY <2>3 DEF Pending
  <2>6. ASSUME (f \in F /\ batch[f] = disk[f]) \/ Has(graph, f)
        PROVE  Has(graph, f)'
    <3> SUFFICES ASSUME NEW n \in NodesIn[<<f, disk[f]>>] \cap Private(f)
                 PROVE  graph'.node[n] = f
      BY <2>3 DEF Has
    <3>1. <<f, disk[f]>> \in DOMAIN NodesIn
      BY <2>3 DEF Basic, Texts, Parsable
    <3>2. n \in NodeId \ EventNode
      BY <3>1, NoFileEmitsEvents
    <3>3. ASSUME NEW i \in Holders(F, batch, n)
          PROVE  i = f
      <4> DEFINE v == <<i, batch[i]>>
      <4>1. i \in F /\ n \in NodesIn[v] /\ v[1] = i
        BY <3>3 DEF Holders
      <4>2. v \in DOMAIN NodesIn
        <5>1. i \in DOMAIN batch /\ batch[i] # Absent
          BY <4>1, BasicFields DEF Fresh, Unread, Basic, Texts
        <5> QED
          BY <5>1 DEF Basic, Texts, Parsable
      <4> HIDE DEF v
      <4> QED
        BY <4>1, <4>2 DEF Private
    <3>4. CASE Holders(F, batch, n) # {}
      BY <2>2, <3>2, <3>3, <3>4 DEF Relinked
    <3>5. CASE Holders(F, batch, n) = {}
      <4>1. f \notin F \/ batch[f] # disk[f]
        BY <3>5 DEF Holders
      <4>2. graph.node[n] = f
        BY <2>6, <4>1 DEF Has
      <4>3. f # Absent
        BY <1>1, SourceFiles
      <4> QED
        BY <2>2, <3>2, <3>5, <4>2, <4>3 DEF Relinked, HasNode
    <3> QED
      BY <3>4, <3>5
  <2>7. ASSUME Taken(f), f \notin lost
        PROVE  Has(graph, f)'
    <3>1. f \in DOMAIN batch /\ batch[f] = disk[f] /\ disk[f] # Absent
      BY <2>2, <2>3, <2>7 DEF Taken, OnDisk
    <3>2. f \in F
      BY <2>7, <3>1 DEF Fresh, Unread
    <3> QED
      BY <2>6, <3>1, <3>2
  <2>8. f \in lost => Taken(f)'
    BY <2>2 DEF Taken
  <2> QED
    BY <2>4, <2>5, <2>6, <2>7, <2>8
<1>7. CASE HandleEvent
  <2> DEFINE i == Head(events).file
  <2>1. /\ events \in Seq([file : SourceFile, unlinked : BOOLEAN]) /\ events # <<>>
        /\ events' = Tail(events)
        /\ i \in SourceFile
        /\ Updated(i, graph')
        /\ ~Head(events).unlinked /\ disk[i] # Absent => Has(graph', i)
    BY <1>7, HandleEventSteps
  <2>2. /\ UNCHANGED <<disk, phase, batch, outcome, errors, closed>>
        /\ since \subseteq since'
    BY <1>7 DEF HandleEvent, runVars, Happened
  <2>3. f \in OnDisk /\ Told /\ (Taken(f) \/ Pending(f) \/ Has(graph, f))
    BY <1>1, <2>2 DEF OnDisk, Told, Covered
  <2>4. Taken(f) => Taken(f)'
    BY <2>2 DEF Taken
  <2>5. Has(graph', f) => Has(graph, f)'
    BY <2>2 DEF Has
  <2>6. CASE f = i
    <3>1. CASE Head(events).unlinked
      <4>1. 1 \in DOMAIN events /\ Head(events) = events[1]
        BY <2>1, PendingTail
      <4>2. ~(events[1].unlinked <=> disk[events[1].file] = Absent)
        BY <2>3, <2>6, <3>1, <4>1 DEF OnDisk
      <4>3. PICK j \in DOMAIN events : j > 1 /\ events[j].file = f
        BY <2>6, <4>1, <4>2 DEF Reported
      <4> QED
        BY <2>1, <4>3, PendingTail
    <3>2. CASE ~Head(events).unlinked
      BY <2>1, <2>3, <2>5, <2>6, <3>2 DEF OnDisk
    <3> QED
      BY <3>1, <3>2
  <2>7. CASE f # i
    <3>1. Pending(f) => Pending(f)'
      BY <2>1, <2>7, PendingTail
    <3> HIDE DEF i
    <3>2. Has(graph, f) => Has(graph', f)
      BY <2>1, <2>3, <2>7, UpdatedHas
    <3> QED
      BY <2>3, <2>4, <2>5, <3>1, <3>2
  <2> QED
    BY <2>6, <2>7
<1>8. CASE CancelAnalysis \/ StartWatching \/ UNCHANGED vars
  <2>1. UNCHANGED <<disk, events, phase, batch, outcome, errors, graph, closed, since>>
    BY <1>8 DEF CancelAnalysis, StartWatching, vars, fsVars, runVars
  <2>2. Taken(f) \/ Pending(f) \/ Has(graph, f)
    BY <2>1 DEF Covered, OnDisk, Told
  <2> QED
    BY <2>1, <2>2 DEF Taken, Pending, Has
<1>9. CASE Dispose
  BY <1>9 DEF Dispose, Told
<1> QED
  BY <1>2, <1>3, <1>4, <1>5, <1>6, <1>7, <1>8, <1>9 DEF Next

LEMMA NextClean == Basic /\ Clean /\ [Next]_vars => Clean'
<1> SUFFICES ASSUME Basic, Clean, [Next]_vars, "overlap" \notin since'
             PROVE  /\ Analyzing' => graph' = EmptyGraph
                    /\ Told' /\ phase' \in {"merging", "parsing"}
                          => \A f \in DOMAIN batch' : batch'[f] = disk'[f] \/ Pending(f)'
                    /\ Told' /\ outcome' = "complete"
                          => \A f \in SourceFile : Pending(f)' \/ Genuine(graph, f)'
  BY DEF Clean
<1> DEFINE Read == \A f \in DOMAIN batch : batch[f] = disk[f] \/ Pending(f)
           Pure == \A f \in SourceFile : Pending(f) \/ Genuine(graph, f)
<1>1. CASE \E i \in SourceFile : Edit(i)
  <2>1. PICK i \in SourceFile : Edit(i)
    BY <1>1
  <2>2. /\ \A j \in SourceFile \ {i} : disk'[j] = disk[j]
        /\ Told' => Told /\ watching
        /\ UNCHANGED <<phase, batch, outcome, errors, graph>>
        /\ since \subseteq since'
    BY <2>1, EditSteps
  <2>3. Told' => Pending(i)' /\ \A j : Pending(j) => Pending(j)'
    BY <2>1, <2>2, EditPending
  <2>4. \A j \in SourceFile \ {i} : Genuine(graph, j) => Genuine(graph, j)'
    BY <2>2 DEF Genuine, EventsOf
  <2>5. Told /\ phase \in {"merging", "parsing"} => Read
    BY <2>2 DEF Clean
  <2>6. Told /\ outcome = "complete" => Pure
    BY <2>2 DEF Clean
  <2>7. Analyzing' => graph' = EmptyGraph
    BY <2>2 DEF Clean, Analyzing
  <2> QED
    BY <2>2, <2>3, <2>4, <2>5, <2>6, <2>7, BasicFields
<1>2. CASE RunAnalysis
  BY <1>2 DEF RunAnalysis
<1>3. CASE DiscoverFiles
  BY <1>3 DEF DiscoverFiles, Clean, Analyzing, Basic
<1>4. CASE Scan
  <2>1. CASE UNCHANGED <<aborted, outcome>>
    <3>1. /\ phase = "scanning" /\ phase' \in {"parsing", "merging"}
          /\ DOMAIN batch' = DOMAIN batch
          /\ \A i \in DOMAIN batch : batch'[i] = disk[i]
          /\ UNCHANGED <<fsVars, graph, closed, since>>
      BY <1>4, <2>1, ScanReads
    <3> QED
      BY <2>1, <3>1 DEF fsVars, Clean, Analyzing, Basic
  <2>2. CASE Cancelled
    BY <2>2 DEF Cancelled, Analyzing
  <2> QED
    BY <1>4, <2>1, <2>2 DEF Scan
<1>5. CASE Finish
  <2>1. CASE outcome' = "cancelled"
    BY <1>5, <2>1 DEF Finish, Cancelled, Analyzing
  <2>2. CASE outcome' # "cancelled"
    <3>1. PICK lost \in SUBSET Fresh :
            /\ Relinked(graph, hits \cup (Fresh \ lost), batch, graph')
            /\ phase \in {"merging", "parsing"} /\ phase' = "idle"
            /\ UNCHANGED <<fsVars, batch, hits, aborted, runs, closed, since>>
      BY <1>5, <2>2, FinishSteps
    <3> DEFINE F == hits \cup (Fresh \ lost)
    <3>2. graph = EmptyGraph /\ (Told' => Read)
      BY <3>1 DEF Clean, Analyzing, Told
    <3>3. ASSUME Told', NEW f \in SourceFile, ~Pending(f)'
          PROVE  Genuine(graph, f)'
      <4>1. disk' = disk /\ ~Pending(f)
        BY <3>1, <3>3 DEF fsVars, Pending
      <4>2. ASSUME NEW n \in NodeId, graph'.node[n] = f
            PROVE  \/ disk[f] # Absent /\ n \in NodesIn[<<f, disk[f]>>]
                   \/ n \in EventsOf(graph', f)
        <5>1. graph.node[n] # f
          BY <3>2, NothingFiledEmpty, SourceFiles
        <5>2. \/ f \in F /\ n \in NodesIn[<<f, batch[f]>>]
              \/ n \in EventsOf(graph', f)
          BY <3>1, <4>2, <5>1 DEF Relinked
        <5>3. f \in F => f \in DOMAIN batch /\ batch[f] # Absent
          BY BasicFields DEF Fresh, Unread, Basic, Texts
        <5>4. f \in F => batch[f] = disk[f]
          BY <3>2, <3>3, <4>1, <5>3
        <5> QED
          BY <5>2, <5>3, <5>4
      <4>3. EventsOf(graph, f)' = EventsOf(graph', f)
        BY DEF EventsOf
      <4> QED
        BY <4>1, <4>2, <4>3 DEF Genuine
    <3> QED
      BY <3>1, <3>3 DEF Analyzing
  <2> QED
    BY <2>1, <2>2
<1>6. CASE HandleEvent
  <2> DEFINE i == Head(events).file
  <2>1. /\ events \in Seq([file : SourceFile, unlinked : BOOLEAN]) /\ events # <<>>
        /\ events' = Tail(events)
        /\ i \in SourceFile
        /\ Updated(i, graph')
    BY <1>6, HandleEventSteps
  <2>2. /\ UNCHANGED <<disk, phase, batch, outcome, errors, closed>>
        /\ ~Analyzing
        /\ since \subseteq since'
    BY <1>6 DEF HandleEvent, runVars, Happened
  <2>3. Told' /\ outcome' = "complete" => Pure
    BY <2>2 DEF Clean, Told
  <2>4. ASSUME NEW f \in SourceFile, Pending(f) \/ Genuine(graph, f)
        PROVE  Pending(f)' \/ Genuine(graph', f)
    <3>1. CASE f = i
      BY <2>1, <3>1 DEF Updated
    <3>2. CASE f # i
      <4>1. Pending(f) => Pending(f)'
        BY <2>1, <3>2, PendingTail
      <4> HIDE DEF i
      <4>2. Genuine(graph, f) => Genuine(graph', f)
        BY <2>1, <3>2, UpdatedGenuine
      <4> QED
        BY <2>4, <4>1, <4>2
    <3> QED
      BY <3>1, <3>2
  <2>5. \A f \in SourceFile : Genuine(graph', f) => Genuine(graph, f)'
    BY <2>2 DEF Genuine, EventsOf
  <2> QED
    BY <2>2, <2>3, <2>4, <2>5 DEF Analyzing
<1>7. CASE CancelAnalysis \/ StartWatching \/ UNCHANGED vars
  <2>1. UNCHANGED <<disk, events, phase, batch, outcome, errors, graph, closed, since>>
    BY <1>7 DEF CancelAnalysis, StartWatching, vars, fsVars, runVars
  <2> QED
    BY <2>1 DEF Clean, Told, Pending, Genuine, EventsOf, Analyzing
<1>8. CASE Dispose
  BY <1>8 DEF Dispose, runVars, Told, Clean, Analyzing
<1> QED
  BY <1>1, <1>2, <1>3, <1>4, <1>5, <1>6, <1>7, <1>8 DEF Next

LEMMA MirrorMirrors == Mirror => MirrorsDisk
<1> SUFFICES ASSUME Mirror
             PROVE  MirrorsDisk
  OBVIOUS
<1>1. EngineTypeOK
  BY DEF Mirror, Basic
<1>2. UpToDate => phase = "idle" /\ Told /\ outcome = "complete" /\ \A f : ~Pending(f)
  BY DEF UpToDate, Told, Mirror, Basic, Analyzing, Pending
<1>3. NothingMissing
  BY <1>2 DEF NothingMissing, Mirror, Covered, Taken, Has
<1>4. ASSUME UpToDate, "overlap" \notin since
      PROVE  Ghosts = {}
  <2>1. \A f \in SourceFile : Genuine(graph, f)
    BY <1>2, <1>4 DEF Mirror, Clean
  <2>2. \A f \in SourceFile : EventNodesOf(f) = EventsOf(graph, f)
    BY DEF EventNodesOf, EventsOf
  <2> QED
    BY <2>1, <2>2 DEF Ghosts, Genuine, NodesOf
<1> QED
  BY <1>1, <1>3, <1>4 DEF MirrorsDisk, NoGhosts

(* Once all reports are handled every file on the disk has its nodes in    *)
(* the graph or is listed under parseErrors, and nothing is left in the    *)
(* graph of what the files do not have: runs, cancellations, lost workers, *)
(* the cache and the watcher in any order.                                 *)
THEOREM MirrorsDiskAlways == Spec => []MirrorsDisk
<1>1. Mirror /\ [Next]_vars => Mirror'
  BY NextBasic, NextReported, NextCovered, NextClean DEF Mirror
<1> QED
  BY <1>1, InitMirror, MirrorMirrors, PTL DEF Spec

---------------------------------------------------------------------------
(* What the linkers make of graphs that differ in the files of nodes only. *)

Twins(g, h) ==
    /\ Sound(g) /\ Sound(h)
    /\ g.target = h.target
    /\ \A n \in NodeId : HasNode(g, n) <=> HasNode(h, n)

LEMMA TwinSets ==
  ASSUME NEW g, NEW h, Twins(g, h)
  PROVE  /\ NodesOf(g) = NodesOf(h)
         /\ EdgesOf(g) = EdgesOf(h)
         /\ Content(g) = Content(h)
<1>1. NodesOf(g) = NodesOf(h) /\ EdgesOf(g) = EdgesOf(h) /\ g.target = h.target
  BY DEF Twins, NodesOf, EdgesOf, HasEdge
<1> QED
  BY <1>1 DEF Content

LEMMA TwinTargets ==
  ASSUME NEW g, NEW h, Sound(g), Sound(h), \A e \in Edge : g.target[e] = h.target[e]
  PROVE  g.target = h.target
  BY SoundFields

LEMMA TwinAddNode ==
  ASSUME NEW g, NEW h, Twins(g, h), NEW n \in NodeId, NEW f \in File, NEW i \in File
  PROVE  Twins(AddNode(g, n, f), AddNode(h, n, i))
<1> DEFINE p == AddNode(g, n, f)
           q == AddNode(h, n, i)
<1>1. f # Absent /\ i # Absent
  BY GraphAssumption
<1>2. Sound(p) /\ p.target = g.target /\ \A m \in NodeId : p.node[m] = IF m = n THEN f ELSE g.node[m]
  <2>1. Sound(g) /\ p = AddNode(g, n, f)
    BY DEF Twins
  <2> HIDE DEF p, q
  <2> QED
    BY <2>1, AddNodeIs
<1>3. Sound(q) /\ q.target = h.target /\ \A m \in NodeId : q.node[m] = IF m = n THEN i ELSE h.node[m]
  <2>1. Sound(h) /\ q = AddNode(h, n, i)
    BY DEF Twins
  <2> HIDE DEF p, q
  <2> QED
    BY <2>1, AddNodeIs
<1> HIDE DEF p, q
<1>4. \A m \in NodeId : HasNode(p, m) <=> HasNode(q, m)
  BY <1>1, <1>2, <1>3 DEF Twins, HasNode
<1>5. Twins(p, q)
  BY <1>2, <1>3, <1>4 DEF Twins
<1> QED
  BY <1>5 DEF p, q

LEMMA TwinAddEdge ==
  ASSUME NEW g, NEW h, Twins(g, h), NEW e \in Edge
  PROVE  Twins(AddEdge(g, e), AddEdge(h, e))
<1> DEFINE p == AddEdge(g, e)
           q == AddEdge(h, e)
<1>1. Sound(g) /\ Sound(h) /\ p = AddEdge(g, e) /\ q = AddEdge(h, e)
  BY DEF Twins
<1> HIDE DEF p, q
<1>2. /\ Sound(p) /\ p.node = g.node
      /\ \A d \in Edge : p.target[d] = IF d = e THEN Dst[e] ELSE g.target[d]
  BY <1>1, AddEdgeIs
<1>3. /\ Sound(q) /\ q.node = h.node
      /\ \A d \in Edge : q.target[d] = IF d = e THEN Dst[e] ELSE h.target[d]
  BY <1>1, AddEdgeIs
<1>4. p.target = q.target
  BY <1>2, <1>3, TwinTargets DEF Twins
<1>5. Twins(p, q)
  BY <1>2, <1>3, <1>4 DEF Twins, HasNode
<1> QED
  BY <1>1, <1>5

LEMMA TwinRemoveEdge ==
  ASSUME NEW g, NEW h, Twins(g, h), NEW e \in Edge
  PROVE  Twins(RemoveEdge(g, e), RemoveEdge(h, e))
<1> DEFINE p == RemoveEdge(g, e)
           q == RemoveEdge(h, e)
<1>1. Sound(g) /\ Sound(h) /\ p = RemoveEdge(g, e) /\ q = RemoveEdge(h, e)
  BY DEF Twins
<1> HIDE DEF p, q
<1>2. /\ Sound(p) /\ p.node = g.node
      /\ \A d \in Edge : p.target[d] = IF d = e THEN Absent ELSE g.target[d]
  BY <1>1, RemoveEdgeIs
<1>3. /\ Sound(q) /\ q.node = h.node
      /\ \A d \in Edge : q.target[d] = IF d = e THEN Absent ELSE h.target[d]
  BY <1>1, RemoveEdgeIs
<1>4. p.target = q.target
  BY <1>2, <1>3, TwinTargets DEF Twins
<1>5. Twins(p, q)
  BY <1>2, <1>3, <1>4 DEF Twins, HasNode
<1> QED
  BY <1>1, <1>5

LEMMA TwinLinkNative ==
  ASSUME NEW g, NEW h, Twins(g, h), NEW e \in Native, HasEdge(g, e), HasEdge(h, e)
  PROVE  Twins(LinkNative(g, e), LinkNative(h, e))
<1> DEFINE b == WithBridge(g, e)
           c == WithBridge(h, e)
           m == WithMethod(b, e)
           k == WithMethod(c, e)
           p == LinkNative(g, e)
           q == LinkNative(h, e)
<1>1. /\ Method[e] \in NodeId
      /\ Bridge[e] \in NodeId
      /\ Serves[e] \in Edge
      /\ Virtual \in File
      /\ Native \subseteq Edge
  BY GraphAssumption
<1>2. Twins(b, c)
  <2> DEFINE x == AddNode(g, Bridge[e], Virtual)
             y == AddNode(h, Bridge[e], Virtual)
  <2>1. Twins(x, y)
    BY <1>1, TwinAddNode
  <2>2. HasNode(g, Bridge[e]) <=> HasNode(h, Bridge[e])
    BY <1>1 DEF Twins
  <2>3. /\ b = IF HasNode(g, Bridge[e]) THEN g ELSE x
        /\ c = IF HasNode(h, Bridge[e]) THEN h ELSE y
    BY DEF WithBridge
  <2> HIDE DEF b, c, x, y
  <2> QED
    BY <2>1, <2>2, <2>3
<1>3. Twins(m, k)
  <2> DEFINE x == AddNode(b, Method[e], Virtual)
             y == AddNode(c, Method[e], Virtual)
  <2>1. Twins(x, y)
    BY <1>1, <1>2, TwinAddNode
  <2>2. HasNode(b, Method[e]) <=> HasNode(c, Method[e])
    BY <1>1, <1>2 DEF Twins
  <2>3. /\ m = IF HasNode(b, Method[e]) THEN b ELSE AddEdge(x, Serves[e])
        /\ k = IF HasNode(c, Method[e]) THEN c ELSE AddEdge(y, Serves[e])
    BY DEF WithMethod
  <2> HIDE DEF b, c, x, y, m, k
  <2>4. Twins(AddEdge(x, Serves[e]), AddEdge(y, Serves[e]))
    BY <1>1, <2>1, TwinAddEdge
  <2> QED
    BY <1>2, <2>2, <2>3, <2>4
<1>4. Sound(p) /\ Sound(q)
  BY LinkNativeSound DEF Twins
<1>5. /\ p = [m EXCEPT !.target = [m.target EXCEPT ![e] = Method[e]]]
      /\ q = [k EXCEPT !.target = [k.target EXCEPT ![e] = Method[e]]]
  BY <1>3 DEF LinkNative, Twins, Sound, Graph
<1> HIDE DEF b, c, m, k, p, q
<1>6. /\ p.node = m.node /\ p.target = [m.target EXCEPT ![e] = Method[e]]
      /\ q.node = k.node /\ q.target = [k.target EXCEPT ![e] = Method[e]]
  BY <1>3, <1>5 DEF Twins, Sound, Graph
<1>7. Twins(p, q)
  BY <1>3, <1>4, <1>6 DEF Twins, HasNode
<1> QED
  BY <1>7 DEF p, q

LEMMA TwinFolds ==
  ASSUME NEW S, IsFiniteSet(S), NEW pick, Picks(pick, S),
         NEW G, NEW b, NEW o, NEW r, IsFold(r, S, G, b, pick, o),
         NEW H, NEW c, NEW p, NEW q, IsFold(q, S, H, c, pick, p),
         Twins(b, c),
         \A x \in S : \A g \in G : \A h \in H :
             Twins(g, h) => Twins(o[<<x, g>>], p[<<x, h>>])
  PROVE  Twins(r, q)
<1> DEFINE R == {w \in SoundGraph \X SoundGraph : Twins(w[1], w[2])}
<1>1. \A g, h : Twins(g, h) <=> <<g, h>> \in R
  BY SoundFields DEF Twins
<1> HIDE DEF R
<1>2. <<b, c>> \in R
  BY <1>1
<1>3. Parallels(R, S, G, H, o, p)
  BY <1>1 DEF Parallels
<1>4. <<r, q>> \in R
  BY Zenon, <1>2, <1>3, FoldsAgree
<1> QED
  BY <1>1, <1>4

(* The import needs a node of a file there is: all nodes are of such.      *)
LEMMA TwinResolveNames ==
  ASSUME NEW g, NEW h, Twins(g, h), NEW there,
         \A n \in NodeId : HasNode(g, n) => g.node[n] \in there,
         \A n \in NodeId : HasNode(h, n) => h.node[n] \in there
  PROVE  Twins(ResolveNames(g, there), ResolveNames(h, there))
<1> DEFINE S == Nameable(g, there)
           o == ResolvingNames(S, SoundGraph)
           r == ResolveNames(g, there)
           q == ResolveNames(h, there)
<1>1. Sound(g) /\ Sound(h)
  BY DEF Twins
<1>2. Nameable(h, there) = S
  <2>1. EdgesOf(h) = EdgesOf(g)
    BY TwinSets
  <2>2. ASSUME NEW e \in EdgesOf(g) \cap DOMAIN Resolved
        PROVE  Known(g, e, there) <=> Known(h, e, there)
    <3>1. Resolved[e] \in Edge /\ e \in Edge
      BY LinkAssumption DEF EdgesOf
    <3>2. Dst[Resolved[e]] \in NodeId /\ Src[e] \in NodeId
      BY <3>1, GraphAssumption
    <3> QED
      BY <3>2 DEF Known, Twins
  <2> QED
    BY <2>1, <2>2 DEF Nameable
<1>3. /\ S \in SUBSET Edge
      /\ \A e \in S : Resolved[e] \in Edge
      /\ IsFold(r, S, SoundGraph, g, First(S), o)
  BY <1>1, ResolveNamesIs
<1>4. IsFold(q, S, SoundGraph, h, First(S), o)
  BY <1>1, <1>2, ResolveNamesIs
<1> HIDE DEF S, r, q
<1>5. \A x \in S : \A k \in SoundGraph :
         o[<<x, k>>] = AddEdge(RemoveEdge(k, x), Resolved[x])
  BY DEF ResolvingNames
<1> HIDE DEF o
<1>6. ASSUME NEW x \in S, NEW k \in SoundGraph, NEW m \in SoundGraph, Twins(k, m)
      PROVE  Twins(o[<<x, k>>], o[<<x, m>>])
  <2>1. x \in Edge /\ Resolved[x] \in Edge
    BY <1>3
  <2>2. Twins(RemoveEdge(k, x), RemoveEdge(m, x))
    BY <1>6, <2>1, TwinRemoveEdge
  <2>3. Twins(AddEdge(RemoveEdge(k, x), Resolved[x]), AddEdge(RemoveEdge(m, x), Resolved[x]))
    BY <2>1, <2>2, TwinAddEdge
  <2> QED
    BY <1>5, <2>3
<1>7. IsFiniteSet(S) /\ Picks(First(S), S)
  BY <1>3, FiniteEdges, FirstPicks
<1>8. Twins(r, q)
  BY <1>3, <1>4, <1>6, <1>7, TwinFolds
<1> QED
  BY <1>8 DEF r, q

LEMMA TwinLinkNatives ==
  ASSUME NEW g, NEW h, Twins(g, h)
  PROVE  Twins(LinkNatives(g), LinkNatives(h))
<1> DEFINE S == EdgesOf(g) \cap Native
           o == LinkingNatives(S, Calling(S))
           r == LinkNatives(g)
           q == LinkNatives(h)
<1>1. Sound(g) /\ Sound(h)
  BY DEF Twins
<1>2. S \in SUBSET Edge /\ S \subseteq Native
  BY DEF EdgesOf
<1>3. IsFold(r, S, Calling(S), g, First(S), o)
  BY <1>1, LinkNativesIs
<1>4. IsFold(q, S, Calling(S), h, First(S), o)
  <2>1. S = EdgesOf(h) \cap Native
    BY TwinSets
  <2> HIDE DEF S
  <2> QED
    BY <1>1, <2>1, LinkNativesIs
<1> HIDE DEF S, r, q
<1>5. \A x \in S : \A k \in Calling(S) : o[<<x, k>>] = LinkNative(k, x) /\ HasEdge(k, x)
  BY DEF Calling, LinkingNatives
<1> HIDE DEF o
<1>6. \A x \in S : \A k \in Calling(S) : \A m \in Calling(S) :
         Twins(k, m) => Twins(o[<<x, k>>], o[<<x, m>>])
  BY <1>2, <1>5, TwinLinkNative
<1>7. IsFiniteSet(S) /\ Picks(First(S), S)
  BY <1>2, FiniteEdges, FirstPicks
<1>8. Twins(r, q)
  BY <1>3, <1>4, <1>6, <1>7, TwinFolds
<1> QED
  BY <1>8 DEF r, q

LEMMA TwinResolveEmitListeners ==
  ASSUME NEW g, NEW h, Twins(g, h)
  PROVE  Twins(ResolveEmitListeners(g), ResolveEmitListeners(h))
<1> DEFINE S == Heard(g)
           o == Listening(g, S, SoundGraph)
           p == Listening(h, S, SoundGraph)
           r == ResolveEmitListeners(g)
           q == ResolveEmitListeners(h)
<1>1. Sound(g) /\ Sound(h)
  BY DEF Twins
<1>2. Heard(h) = S
  <2>1. EdgesOf(h) = EdgesOf(g)
    BY TwinSets
  <2>2. ASSUME NEW e \in DOMAIN Listened
        PROVE  HasNode(g, Src[Listened[e].emits]) <=> HasNode(h, Src[Listened[e].emits])
    <3>1. Listened[e] \in Range(Listened)
      BY DEF Range
    <3>2. Src[Listened[e].emits] \in NodeId
      BY <3>1, ListenedEnds
    <3> QED
      BY <3>2 DEF Twins
  <2> QED
    BY <2>1, <2>2 DEF Heard
<1>3. IsFiniteSet(S) /\ IsFold(r, S, SoundGraph, g, First(S), o)
  BY <1>1, ResolveEmitListenersIs
<1>4. IsFold(q, S, SoundGraph, h, First(S), p)
  BY <1>1, <1>2, ResolveEmitListenersIs
<1>5. \A x \in S : \A k \in SoundGraph :
         o[<<x, k>>] = Listen(g, k, x) /\ p[<<x, k>>] = Listen(h, k, x)
  BY DEF Listening
<1>6. ASSUME NEW x \in S, NEW k, NEW m, Twins(k, m)
      PROVE  Twins(Listen(g, k, x), Listen(h, m, x))
  <2> DEFINE l == Listened[x]
             n == Dst[l.emits]
             f == g.node[Src[l.emits]]
             i == h.node[Src[l.emits]]
             ka == AddNode(k, n, f)
             ma == AddNode(m, n, i)
             kb == AddEdge(ka, l.emits)
             mb == AddEdge(ma, l.emits)
             kc == RemoveEdge(kb, x)
             mc == RemoveEdge(mb, x)
  <2>1. x \in Heard(h)
    BY <1>2
  <2>2. x \in Edge /\ l.emits \in Edge /\ l.listens \in Edge /\ n \in NodeId /\ f \in File
    BY <1>1, HeardEnds
  <2>3. i \in File
    BY <1>1, <2>1, HeardEnds
  <2>4. Listen(g, k, x) = AddEdge(kc, l.listens) /\ Listen(h, m, x) = AddEdge(mc, l.listens)
    BY DEF Listen
  <2> HIDE DEF l, n, f, i
  <2>5. Twins(ka, ma)
    BY <1>6, <2>2, <2>3, TwinAddNode
  <2> HIDE DEF ka, ma
  <2>6. Twins(kb, mb)
    BY <2>2, <2>5, TwinAddEdge
  <2> HIDE DEF kb, mb
  <2>7. Twins(kc, mc)
    BY <2>2, <2>6, TwinRemoveEdge
  <2> HIDE DEF kc, mc
  <2> QED
    BY <2>2, <2>4, <2>7, TwinAddEdge
<1> HIDE DEF S, o, p, r, q
<1>7. \A x \in S : \A k \in SoundGraph : \A m \in SoundGraph :
         Twins(k, m) => Twins(o[<<x, k>>], p[<<x, m>>])
  BY <1>5, <1>6
<1>8. Picks(First(S), S)
  BY FirstPicks
<1>9. Twins(r, q)
  BY <1>3, <1>4, <1>7, <1>8, TwinFolds
<1> QED
  BY <1>9 DEF r, q

LEMMA TwinCreateSpringEventNodes ==
  ASSUME NEW g, NEW h, Twins(g, h)
  PROVE  Twins(CreateSpringEventNodes(g), CreateSpringEventNodes(h))
<1> DEFINE S == Unnamed(g)
           o == AddingNodes(S, SoundGraph, Virtual)
           r == CreateSpringEventNodes(g)
           q == CreateSpringEventNodes(h)
<1>1. Sound(g) /\ Sound(h) /\ Virtual \in File /\ S \subseteq NodeId
  BY GraphAssumption, LinkAssumption DEF Twins, Unnamed
<1>2. Unnamed(h) = S
  <2>1. EdgesOf(h) = EdgesOf(g) /\ h.target = g.target
    BY TwinSets DEF Twins
  <2>2. \A n \in EventId : HasNode(g, n) <=> HasNode(h, n)
    BY LinkAssumption DEF Twins
  <2> QED
    BY <2>1, <2>2 DEF Unnamed
<1>3. IsFiniteSet(S) /\ IsFold(r, S, SoundGraph, g, First(S), o)
  BY <1>1, CreateSpringEventNodesIs
<1>4. IsFold(q, S, SoundGraph, h, First(S), o)
  BY <1>1, <1>2, CreateSpringEventNodesIs
<1> HIDE DEF S, r, q
<1>5. \A x \in S : \A k \in SoundGraph : o[<<x, k>>] = AddNode(k, x, Virtual)
  BY DEF AddingNodes
<1> HIDE DEF o
<1>6. \A x \in S : \A k \in SoundGraph : \A m \in SoundGraph :
         Twins(k, m) => Twins(o[<<x, k>>], o[<<x, m>>])
  BY <1>1, <1>5, TwinAddNode
<1>7. Picks(First(S), S)
  BY FirstPicks
<1>8. Twins(r, q)
  BY <1>3, <1>4, <1>6, <1>7, TwinFolds
<1> QED
  BY <1>8 DEF r, q

LEMMA TwinLinkDerived ==
  ASSUME NEW g, NEW h, Twins(g, h)
  PROVE  Twins(LinkDerived(g), LinkDerived(h))
<1> DEFINE S == Matching(g)
           o == AddingEdges(S, SoundGraph)
           r == LinkDerived(g)
           q == LinkDerived(h)
<1>1. Sound(g) /\ Sound(h) /\ S \subseteq Edge
  BY LinkAssumption DEF Twins, Matching
<1>2. Matching(h) = S
  <2>1. ASSUME NEW d \in Derived
        PROVE  Src[d] \in NodeId /\ Dst[d] \in NodeId /\ Shadows[d] \subseteq NodeId
    BY LinkAssumption, GraphAssumption
  <2> QED
    BY <2>1 DEF Matching, Twins
<1>3. IsFiniteSet(S) /\ IsFold(r, S, SoundGraph, g, First(S), o)
  BY <1>1, LinkDerivedIs
<1>4. IsFold(q, S, SoundGraph, h, First(S), o)
  BY <1>1, <1>2, LinkDerivedIs
<1> HIDE DEF S, r, q
<1>5. \A x \in S : \A k \in SoundGraph : o[<<x, k>>] = AddEdge(k, x)
  BY DEF AddingEdges
<1> HIDE DEF o
<1>6. \A x \in S : \A k \in SoundGraph : \A m \in SoundGraph :
         Twins(k, m) => Twins(o[<<x, k>>], o[<<x, m>>])
  BY <1>1, <1>5, TwinAddEdge
<1>7. Picks(First(S), S)
  BY FirstPicks
<1>8. Twins(r, q)
  BY <1>3, <1>4, <1>6, <1>7, TwinFolds
<1> QED
  BY <1>8 DEF r, q

LEMMA TwinBuildMsaServiceGraph ==
  ASSUME NEW g, NEW h, Twins(g, h)
  PROVE  Twins(BuildMsaServiceGraph(g), BuildMsaServiceGraph(h))
<1>1. Unassigned \in NodeId /\ Virtual \in File
  BY LinkAssumption, GraphAssumption
<1>2. NodesOf(g) = NodesOf(h) /\ (HasNode(g, Unassigned) <=> HasNode(h, Unassigned))
  BY <1>1, TwinSets DEF Twins
<1>3. Twins(AddNode(g, Unassigned, Virtual), AddNode(h, Unassigned, Virtual))
  BY <1>1, TwinAddNode
<1> QED
  BY <1>2, <1>3 DEF BuildMsaServiceGraph

LEMMA TwinLink ==
  ASSUME NEW g, NEW h, Twins(g, h),
         \A n \in NodeId : HasNode(g, n) => g.node[n] \in OnDisk,
         \A n \in NodeId : HasNode(h, n) => h.node[n] \in OnDisk
  PROVE  Twins(Link(g), Link(h))
<1> DEFINE ga == ResolveNames(g, OnDisk)
           gb == LinkNatives(ga)
           gc == ResolveEmitListeners(gb)
           gd == CreateSpringEventNodes(gc)
           ge == LinkDerived(gd)
           ha == ResolveNames(h, OnDisk)
           hb == LinkNatives(ha)
           hc == ResolveEmitListeners(hb)
           hd == CreateSpringEventNodes(hc)
           he == LinkDerived(hd)
<1>1. Link(g) = BuildMsaServiceGraph(ge) /\ Link(h) = BuildMsaServiceGraph(he)
  BY DEF Link, Resolve
<1>2. Twins(ga, ha)
  BY TwinResolveNames
<1> HIDE DEF ga, ha
<1>3. Twins(gb, hb)
  BY <1>2, TwinLinkNatives
<1> HIDE DEF gb, hb
<1>4. Twins(gc, hc)
  BY <1>3, TwinResolveEmitListeners
<1> HIDE DEF gc, hc
<1>5. Twins(gd, hd)
  BY <1>4, TwinCreateSpringEventNodes
<1> HIDE DEF gd, hd
<1>6. Twins(ge, he)
  BY <1>5, TwinLinkDerived
<1> HIDE DEF ge, he
<1> QED
  BY <1>1, <1>6, TwinBuildMsaServiceGraph

---------------------------------------------------------------------------
(* A warm run is a cold one.                                               *)

(* The files of two sequences, parsed with the texts they have.            *)
LEMMA SameFilesTwins ==
  ASSUME NEW F \in SUBSET SourceFile,
         NEW p \in Seq(SourceFile), Range(p) = F, NEW q \in Seq(SourceFile), Range(q) = F,
         NEW s, NEW t, \A f \in F : s[f] = t[f], Parsable(F, t),
         NEW g, g = AddParsed(EmptyGraph, p, s), NEW h, h = AddParsed(EmptyGraph, q, t)
  PROVE  /\ Twins(g, h)
         /\ \A n \in NodeId : HasNode(g, n) => g.node[n] \in F
         /\ \A n \in NodeId : HasNode(h, n) => h.node[n] \in F
<1>1. Sound(EmptyGraph) /\ Parsable(F, s)
  BY EmptyGraphSound DEF Parsable
<1>2. /\ Parsed(EmptyGraph, F, s, g)
      /\ \A e \in Edge : g.target[e] =
            IF e \in EdgesOfFiles(F, s) THEN Dst[e] ELSE EmptyGraph.target[e]
  BY <1>1, AddParsedIs
<1>3. /\ Parsed(EmptyGraph, F, t, h)
      /\ \A e \in Edge : h.target[e] =
            IF e \in EdgesOfFiles(F, t) THEN Dst[e] ELSE EmptyGraph.target[e]
  BY <1>1, AddParsedIs
<1>4. EdgesOfFiles(F, s) = EdgesOfFiles(F, t) /\ \A n \in NodeId : Holders(F, s, n) = Holders(F, t, n)
  BY DEF EdgesOfFiles, Holders
<1>5. Sound(g) /\ Sound(h)
  BY <1>2, <1>3 DEF Parsed
<1>6. g.target = h.target
  BY <1>2, <1>3, <1>4, <1>5, TwinTargets
<1>7. ASSUME NEW n \in NodeId
      PROVE  /\ HasNode(g, n) => g.node[n] \in F
             /\ HasNode(h, n) => h.node[n] \in F
             /\ HasNode(g, n) <=> HasNode(h, n)
  <2>1. EmptyGraph.node[n] = Absent /\ Absent \notin F /\ Holders(F, s, n) \subseteq F
    BY NothingFiledEmpty, SourceFiles DEF Holders
  <2>2. /\ IF Holders(F, s, n) = {} THEN g.node[n] = EmptyGraph.node[n]
           ELSE g.node[n] \in Holders(F, s, n)
        /\ IF Holders(F, t, n) = {} THEN h.node[n] = EmptyGraph.node[n]
           ELSE h.node[n] \in Holders(F, t, n)
    BY <1>2, <1>3 DEF Parsed
  <2> QED
    BY <1>4, <2>1, <2>2 DEF HasNode
<1> QED
  BY <1>5, <1>6, <1>7 DEF Twins

Warm == Basic /\ Clean /\ Undisturbed /\ WarmEqualsCold

LEMMA InitWarm == Init => Warm
<1> SUFFICES ASSUME Init
             PROVE  Warm
  OBVIOUS
<1>1. Undisturbed /\ WarmEqualsCold
  BY DEF Init, Undisturbed, WarmEqualsCold
<1> QED
  BY <1>1, InitMirror DEF Warm, Mirror

LEMMA NextUndisturbed == Basic /\ Undisturbed /\ [Next]_vars => Undisturbed'
<1> SUFFICES ASSUME Basic, Undisturbed, [Next]_vars, since' = {}
             PROVE  /\ phase' \in {"scanning", "merging", "parsing"} => DOMAIN batch' = OnDisk'
                    /\ phase' \in {"merging", "parsing"}
                          => \A f \in OnDisk' : batch'[f] = disk'[f]
  BY DEF Undisturbed
<1>1. CASE \E f \in SourceFile : Edit(f)
  BY <1>1 DEF Edit, Happened
<1>2. CASE HandleEvent
  BY <1>2 DEF HandleEvent, Happened
<1>3. CASE RunAnalysis
  BY <1>3 DEF RunAnalysis
<1>4. CASE DiscoverFiles
  BY <1>4 DEF DiscoverFiles, fsVars, OnDisk
<1>5. CASE Scan
  <2>1. CASE UNCHANGED <<aborted, outcome>>
    <3>1. /\ phase = "scanning"
          /\ DOMAIN batch' = DOMAIN batch
          /\ \A f \in DOMAIN batch : batch'[f] = disk[f]
          /\ UNCHANGED <<fsVars, since>>
      BY <1>5, <2>1, ScanReads
    <3>2. DOMAIN batch = OnDisk
      BY <3>1 DEF Undisturbed
    <3> QED
      BY <3>1, <3>2 DEF fsVars, OnDisk
  <2>2. CASE Cancelled
    BY <2>2 DEF Cancelled
  <2> QED
    BY <1>5, <2>1, <2>2 DEF Scan
<1>6. CASE Finish
  <2>1. phase' = "idle"
    BY <1>6 DEF Finish, Cancelled
  <2> QED
    BY <2>1
<1>7. CASE CancelAnalysis \/ StartWatching \/ Dispose \/ UNCHANGED vars
  <2>1. UNCHANGED <<disk, phase, batch, since>>
    BY <1>7 DEF CancelAnalysis, StartWatching, Dispose, vars, fsVars, runVars
  <2> QED
    BY <2>1 DEF Undisturbed, OnDisk
<1> QED
  BY <1>1, <1>2, <1>3, <1>4, <1>5, <1>6, <1>7 DEF Next

LEMMA NextWarmEqualsCold == Warm /\ [Next]_vars => WarmEqualsCold'
<1> SUFFICES ASSUME Warm, [Next]_vars, outcome' = "complete", since' = {}, errors' = {}
             PROVE  Content(graph') = Content(ColdRun')
  BY DEF WarmEqualsCold
<1>1. disk' = disk => ColdRun' = ColdRun
  BY DEF ColdRun, Link, OnDisk
<1>2. CASE \E f \in SourceFile : Edit(f)
  BY <1>2 DEF Edit, Happened
<1>3. CASE HandleEvent
  BY <1>3 DEF HandleEvent, Happened
<1>4. CASE RunAnalysis
  BY <1>4 DEF RunAnalysis
<1>5. CASE Finish
  <2>1. PICK lost \in SUBSET Fresh :
            /\ graph' = Link(AddParsed(graph, InOrder(hits) \o InOrder(Fresh \ lost), batch))
            /\ errors' = Unread \cup lost
            /\ phase \in {"merging", "parsing"}
            /\ UNCHANGED <<fsVars, batch, hits, aborted, runs, closed, since>>
    BY <1>5, FinishSteps DEF Warm
  <2>2. lost = {} /\ Unread = {} /\ since = {} /\ disk' = disk
    BY <2>1 DEF fsVars
  <2>3. /\ graph = EmptyGraph
        /\ DOMAIN batch = OnDisk
        /\ \A f \in OnDisk : batch[f] = disk[f]
        /\ hits \in SUBSET OnDisk
        /\ OnDisk \in SUBSET SourceFile
        /\ Parsable(OnDisk, disk)
    BY <2>1, <2>2, BasicFields DEF Warm, Clean, Undisturbed, Analyzing, Basic, Texts
  <2> DEFINE p == InOrder(hits) \o InOrder(Fresh \ lost)
             q == InOrder(OnDisk)
             g == AddParsed(EmptyGraph, p, batch)
             h == AddParsed(EmptyGraph, q, disk)
  <2>4. p \in Seq(SourceFile) /\ Range(p) = OnDisk
    <3>1. hits \cup (Fresh \ lost) = OnDisk
      BY <2>2, <2>3 DEF Fresh
    <3>2. hits \in SUBSET SourceFile /\ Fresh \ lost \in SUBSET SourceFile
      BY <2>3, <3>1
    <3> QED
      BY <3>1, <3>2, BothInOrder
  <2>5. q \in Seq(SourceFile) /\ Range(q) = OnDisk
    BY <2>3, InOrderIs
  <2>6. graph' = Link(g) /\ ColdRun = Link(h)
    BY <2>1, <2>3 DEF ColdRun
  <2>7. g = AddParsed(EmptyGraph, p, batch) /\ h = AddParsed(EmptyGraph, q, disk)
    OBVIOUS
  <2> HIDE DEF p, q, g, h
  <2>8. /\ Twins(g, h)
        /\ \A n \in NodeId : HasNode(g, n) => g.node[n] \in OnDisk
        /\ \A n \in NodeId : HasNode(h, n) => h.node[n] \in OnDisk
    BY <2>3, <2>4, <2>5, <2>7, SameFilesTwins
  <2>9. Content(Link(g)) = Content(Link(h))
    BY <2>8, TwinLink, TwinSets
  <2> QED
    BY <1>1, <2>2, <2>6, <2>9
<1>6. CASE \/ DiscoverFiles \/ Scan \/ CancelAnalysis \/ StartWatching \/ Dispose
           \/ UNCHANGED vars
  <2>1. UNCHANGED <<disk, outcome, errors, graph, since>>
    BY <1>6 DEF DiscoverFiles, Scan, Cancelled, CancelAnalysis, StartWatching, Dispose, vars,
                fsVars, runVars
  <2>2. Content(graph) = Content(ColdRun)
    BY <2>1 DEF Warm, WarmEqualsCold
  <2> QED
    BY <1>1, <2>1, <2>2
<1> QED
  BY <1>2, <1>3, <1>4, <1>5, <1>6 DEF Next

(* Whatever earlier runs and reports have left in the cache, an            *)
(* undisturbed run makes the nodes and edges a run on an empty cache makes *)
(* of the files.                                                           *)
THEOREM WarmEqualsColdAlways == Spec => []WarmEqualsCold
<1>1. Warm /\ [Next]_vars => Warm'
  BY NextBasic, NextClean, NextUndisturbed, NextWarmEqualsCold DEF Warm
<1>2. Warm => WarmEqualsCold
  BY DEF Warm
<1> QED
  BY <1>1, <1>2, InitWarm, PTL DEF Spec

=============================================================================
