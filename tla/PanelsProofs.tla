---------------------------- MODULE PanelsProofs ----------------------------
(***************************************************************************)
(* Proofs about the web client beside its sockets: the selection and the   *)
(* search (Selection.tla), the drawing (ForceGraph.tla) and the panels     *)
(* (Panels.tla), for any graphs, filters and bounds.                       *)
(*                                                                         *)
(* TrailKept needs that the history points at the selection before the     *)
(* step, ResultsOfQuery that a query that is under way alone is the text   *)
(* in the panel.  DrawingExact speaks of a view at rest: DrawInv says of   *)
(* one that waits that a request of its own will draw it anew.             *)
(* PanelsCurrent needs of a load of chains which candidates it has tried   *)
(* and what it found of them (ChainInv), and of a panel that asks that at  *)
(* most one answer is under way, for what it wants, as long as none is     *)
(* late (AskInv).                                                          *)
(***************************************************************************)
EXTENDS Panels, SequenceTheorems, FiniteSetTheorems, WellFoundedInduction, TLAPS

TrailInv ==
    /\ history \in Seq(Pointed)
    /\ index \in 0..Len(history)
    /\ selected # NoId => index > 0 /\ history[index] = selected

(* Only Point touches the trail.                                           *)
LEMMA TrailUntouched ==
  ASSUME Next, ~Point
  PROVE  UNCHANGED trailVars
  BY DEF Next, Toggle, Debounced, ApplyPreset, GraphFetched, Mount, Unmount, ToggleClusters,
     Expand, CollapseCluster, SearchRuns, Search, Answered, NextGraph, Serve, Arrive, Fail,
     selVars

LEMMA SelectNodeTrail ==
  ASSUME TrailInv, NEW n \in Pointed \cup {NoId}, SelectNode(n)
  PROVE  /\ TrailInv'
         /\ \A i \in 1..index : i <= Len(history') /\ history'[i] = history[i]
         /\ history' # history => index' = index + 1 /\ Len(history') = index'
<1>1. CASE n # NoId /\ n # selected
  <2> DEFINE kept == SubSeq(history, 1, index)
  <2>1. /\ kept \in Seq(Pointed) /\ Len(kept) = index
        /\ \A i \in 1..index : kept[i] = history[i]
    BY DEF TrailInv
  <2> HIDE DEF kept
  <2>2. /\ selected' = n /\ history' = Append(kept, n) /\ index' = index + 1
        /\ n \in Pointed
    BY <1>1 DEF SelectNode, kept
  <2>3. /\ history' \in Seq(Pointed) /\ Len(history') = index + 1
        /\ \A i \in 1..index : history'[i] = kept[i]
        /\ history'[index + 1] = n
    BY <2>1, <2>2 DEF TrailInv
  <2> QED
    BY <2>1, <2>2, <2>3 DEF TrailInv
<1>2. CASE ~(n # NoId /\ n # selected)
  BY <1>2 DEF TrailInv, SelectNode
<1> QED
  BY <1>1, <1>2

(* A step does to the trail what the action property says.                 *)
TrailStep ==
    /\ \A i \in 1..index : i <= Len(history') /\ history'[i] = history[i]
    /\ history' # history => index' = index + 1 /\ Len(history') = index'
    /\ index' \in 0..Len(history')
    /\ selected' # NoId => index' > 0 /\ history'[index'] = selected'

LEMMA TrailPreserved ==
  ASSUME TrailInv, [Next]_vars
  PROVE  TrailInv' /\ TrailStep
<1>1. CASE UNCHANGED trailVars
  BY <1>1 DEF TrailInv, TrailStep, trailVars
<1>2. CASE Point
  <2>1. ASSUME NEW n \in Pointed \cup {NoId}, SelectNode(n)
        PROVE  TrailInv' /\ TrailStep
    BY <2>1, SelectNodeTrail DEF TrailInv, TrailStep
  <2>2. ASSUME NavBack \/ NavForward
        PROVE  TrailInv' /\ TrailStep
    BY <2>2 DEF NavBack, NavForward, TrailInv, TrailStep
  <2>3. ASSUME NEW q, Type(q)
        PROVE  UNCHANGED trailVars
    BY <2>3 DEF Type
  <2> QED
    BY <1>1, <1>2, <2>1, <2>2, <2>3 DEF Point, Select, FocusNode, Selectable
<1>3. CASE UNCHANGED vars
  BY <1>1, <1>3 DEF vars, selVars
<1> QED
  BY <1>1, <1>2, <1>3, TrailUntouched

(* Selecting, following the focus, Back and Forward never lose what the    *)
(* user walked through (interactionStore.ts).                              *)
THEOREM TrailAlwaysKept == Spec => TrailKept
<1>1. Init => TrailInv
  BY DEF Init, SelectionInit, TrailInv
<1>2. TrailInv /\ [Next]_vars => TrailInv'
  BY TrailPreserved
<1>3. TrailInv /\ [Next]_vars => [TrailStep]_trailVars
  BY TrailPreserved
<1>4. Spec => [][TrailStep]_trailVars
  BY <1>1, <1>2, <1>3, PTL DEF Spec
<1> QED
  BY <1>4 DEF TrailKept, TrailStep
---------------------------------------------------------------------------
RaceInv ==
    /\ searches \in Seq(Query)
    /\ query \in Query \cup {Blank}
    /\ ~raced => /\ Len(searches) <= 1
                 /\ searches # <<>> /\ ~typed => searches[1] = query
                 /\ searches = <<>> /\ ~typed => results \in {query, Blank}

(* Only typing and the panel's timer and answers touch the searches.       *)
LEMMA SearchesUntouched ==
  ASSUME Next, ~Point, ~SearchRuns
  PROVE  UNCHANGED searchVars
  BY DEF Next, Toggle, Debounced, ApplyPreset, GraphFetched, Mount, Unmount, ToggleClusters,
     Expand, CollapseCluster, NextGraph, Serve, Arrive, Fail, selVars

LEMMA RacePreserved ==
  ASSUME RaceInv, [Next]_vars
  PROVE  RaceInv'
<1>1. CASE UNCHANGED searchVars
  BY <1>1 DEF RaceInv, searchVars
<1>2. CASE Search
  <2>1. CASE query = Blank
    BY <1>2, <2>1 DEF Search, RaceInv
  <2>2. CASE query # Blank
    <3>1. /\ searches' = Append(searches, query) /\ query' = query /\ query \in Query
          /\ raced' = (raced \/ searches # <<>>) /\ typed' = FALSE
      BY <1>2, <2>2 DEF Search, RaceInv
    <3>2. searches' \in Seq(Query) /\ searches' # <<>>
      BY <3>1 DEF RaceInv
    <3>3. CASE searches = <<>>
      BY <3>1, <3>2, <3>3 DEF RaceInv
    <3>4. CASE searches # <<>>
      BY <3>1, <3>2, <3>4 DEF RaceInv
    <3> QED
      BY <3>3, <3>4
  <2> QED
    BY <2>1, <2>2
<1>3. ASSUME NEW ok \in BOOLEAN, Answered(ok)
      PROVE  RaceInv'
  <2>1. PICK i \in DOMAIN searches :
           /\ results' = IF ok THEN searches[i] ELSE Blank
           /\ searches' = SubSeq(searches, 1, i - 1) \o SubSeq(searches, i + 1, Len(searches))
           /\ UNCHANGED <<query, typed, raced>>
    BY <1>3 DEF Answered, RemoveAt
  <2>2. searches' \in Seq(Query)
    <3>1. /\ SubSeq(searches, 1, i - 1) \in Seq(Query)
          /\ SubSeq(searches, i + 1, Len(searches)) \in Seq(Query)
      BY SubSeqProperties DEF RaceInv
    <3> QED
      BY <2>1, <3>1
  <2>3. CASE raced
    BY <2>1, <2>2, <2>3 DEF RaceInv
  <2>4. CASE ~raced
    <3>1. i \in 1..Len(searches) /\ Len(searches) <= 1 /\ Len(searches) \in Nat
      BY <2>4 DEF RaceInv
    <3>2. i = 1 /\ Len(searches) = 1
      BY <3>1
    <3>3. searches' = SubSeq(searches, 1, 0) \o SubSeq(searches, 2, 1)
      BY <2>1, <3>2
    <3>4. Len(searches') = 0 /\ searches' = <<>>
      BY <3>3 DEF RaceInv
    <3>5. ~typed => results' \in {query, Blank}
      BY <2>1, <2>4, <3>2 DEF RaceInv
    <3> QED
      BY <2>1, <2>2, <2>4, <3>4, <3>5 DEF RaceInv
  <2> QED
    BY <2>3, <2>4
<1>4. ASSUME NEW q \in Query \cup {Blank}, Type(q)
      PROVE  RaceInv'
  BY <1>4 DEF Type, RaceInv
<1>5. CASE Point
  <2>1. ASSUME NEW n, Select(n) \/ FocusNode(n)
        PROVE  UNCHANGED searchVars
    BY <2>1 DEF Select, FocusNode
  <2>2. ASSUME NavBack \/ NavForward
        PROVE  UNCHANGED searchVars
    BY <2>2 DEF NavBack, NavForward
  <2> QED
    BY <1>1, <1>4, <1>5, <2>1, <2>2 DEF Point
<1>6. CASE UNCHANGED vars
  BY <1>1, <1>6 DEF vars, selVars
<1> QED
  BY <1>1, <1>2, <1>3, <1>5, <1>6, SearchesUntouched DEF SearchRuns

(* Whatever the order and the outcome of the answers, a panel that never   *)
(* let two searches overlap shows the results of its own text              *)
(* (SearchPanel.vue, interactionStore.ts search()).                        *)
THEOREM ResultsOfQueryAlways == Spec => []ResultsOfQuery
<1>1. Init => RaceInv
  BY DEF Init, SelectionInit, RaceInv
<1>2. RaceInv /\ [Next]_vars => RaceInv'
  BY RacePreserved
<1>3. RaceInv => ResultsOfQuery
  BY DEF RaceInv, ResultsOfQuery
<1> QED
  BY <1>1, <1>2, <1>3, PTL DEF Spec
---------------------------------------------------------------------------
(* The drawing.                                                            *)

Given == [partition : DOMAIN Graphs, graph : DOMAIN Graphs]

Closed(ids, edges) == \A e \in edges : {e.source, e.target} \subseteq ids

FilterOK(f) ==
    /\ f \in [nodes : SUBSET NodeIds, edges : SUBSET AllEdges]
    /\ IsFiniteSet(f.nodes)
    /\ Closed(f.nodes, f.edges)

CacheOK(opened, cache) ==
    /\ opened \subseteq DOMAIN cache
    /\ \A c \in DOMAIN cache : cache[c] \in Given

WellDrawn(d) == d \in Drawing /\ Closed(Ids(d), d.edges)

LEMMA NamesOfGraph ==
  ASSUME NEW g \in DOMAIN Graphs
  PROVE  /\ Node(g) \subseteq NodeIds /\ Cluster(g) \subseteq ClusterIds
         /\ Shown(g) \subseteq Id /\ Clustered(g) \subseteq Node(g)
         /\ \A c : Members(g, c) \subseteq Node(g)
         /\ \A n \in Node(g) : Home(g, n) \in Shown(g)
         /\ \A e \in Graphs[g].edges : e.source \in Node(g) /\ e.target \in Node(g)
         /\ Graphs[g].edges \subseteq AllEdges
<1>1. Node(g) \subseteq NodeIds /\ Cluster(g) \subseteq ClusterIds
  BY DEF Node, Cluster, NodeIds, ClusterIds
<1>2. \A c \in Cluster(g) : Members(g, c) = Graphs[g].members[c] /\ Members(g, c) \subseteq Node(g)
  BY GraphsAssumption DEF Members, Cluster, Node
<1>3. \A c : Members(g, c) \subseteq Node(g)
  BY <1>2 DEF Members
<1>4. Clustered(g) \subseteq Node(g)
  BY <1>2 DEF Clustered
<1>5. Shown(g) \subseteq Id
  BY <1>1 DEF Shown, Id
<1>6. ASSUME NEW n \in Node(g)
      PROVE  Home(g, n) \in Shown(g)
  <2>1. CASE n \in Clustered(g)
    <3>1. \E c \in Cluster(g) : n \in Members(g, c)
      BY <1>2, <2>1 DEF Clustered
    <3>2. (CHOOSE c \in Cluster(g) : n \in Members(g, c)) \in Cluster(g)
      BY <3>1
    <3> QED
      BY <2>1, <3>2 DEF Home, Shown
  <2>2. CASE n \notin Clustered(g)
    BY <1>6, <2>2 DEF Home, Shown
  <2> QED
    BY <2>1, <2>2
<1>7. \A e \in Graphs[g].edges : e.source \in Node(g) /\ e.target \in Node(g)
  BY GraphsAssumption DEF Node
<1>8. Graphs[g].edges \subseteq AllEdges
  BY DEF AllEdges
<1> QED
  BY <1>1, <1>3, <1>4, <1>5, <1>6, <1>7, <1>8

LEMMA FilterBuilt ==
  ASSUME NEW f, FilterOK(f)
  PROVE  WellDrawn(BuildElements(f)) /\ Ids(BuildElements(f)) = f.nodes
<1> DEFINE b == BuildElements(f)
<1>1. b.nodes = {Element(n, NoId, FALSE) : n \in f.nodes} /\ b.edges = f.edges
  BY DEF BuildElements
<1>3. Ids(b) = f.nodes
  <2> HIDE DEF b
  <2>1. Ids(b) = f.nodes
    <3>1. \A x \in b.nodes : x.id \in f.nodes
      BY <1>1 DEF Element
    <3>2. ASSUME NEW n \in f.nodes
          PROVE  \E x \in b.nodes : x.id = n
      <4>1. Element(n, NoId, FALSE) \in b.nodes
        BY <1>1
      <4>2. Element(n, NoId, FALSE).id = n
        BY DEF Element
      <4> QED
        BY <4>1, <4>2
    <3> QED
      BY <3>1, <3>2 DEF Ids
  <2> QED
    BY <2>1
<1>4. \A n \in f.nodes : Element(n, NoId, FALSE) \in [id : Id, parent : Id \cup {NoId}, isExpanded : BOOLEAN]
  BY DEF FilterOK, Element, Id
<1>5. b \in Drawing
  BY <1>1, <1>4 DEF Drawing, FilterOK, BuildElements
<1> QED
  BY <1>1, <1>3, <1>5 DEF WellDrawn, FilterOK

(* What the expansions of clusters contain.                                *)
Children(g, opened, cache) == UNION {Content(cache[c], c) : c \in Cluster(g) \cap opened}

LEMMA ClustersBuilt ==
  ASSUME NEW g \in DOMAIN Graphs, NEW opened, NEW cache, CacheOK(opened, cache)
  PROVE  LET b == BuildClusterElements(g, opened, cache) IN
         WellDrawn(b) /\ Ids(b) = Shown(g) \cup Children(g, opened, cache)
<1> DEFINE b == BuildClusterElements(g, opened, cache)
           open == Cluster(g) \cap opened
           children == Children(g, opened, cache)
           ids == Shown(g) \cup children
           edges == UNION {Incident(cache[c], c) : c \in open}
           over(n) == CHOOSE c \in open : n \in Content(cache[c], c)
           El == [id : Id, parent : Id \cup {NoId}, isExpanded : BOOLEAN]
<1>1. g # Nothing
  BY NothingAssumption
<1>2. /\ b.nodes = {Element(n, NoId, n \in open) : n \in ids \ children}
                      \cup {Element(n, over(n), FALSE) : n \in children}
      /\ b.edges = {e \in edges : {e.source, e.target} \subseteq ids} \cup ClusterEdges(g)
      /\ b = [nodes |-> b.nodes, edges |-> b.edges]
  BY <1>1 DEF BuildClusterElements, Children
<1>3. \A n, p, o : Element(n, p, o).id = n
  BY DEF Element
<1>4. ASSUME NEW c \in open
      PROVE  Content(cache[c], c) \subseteq NodeIds /\ Incident(cache[c], c) \subseteq AllEdges
  <2>1. cache[c] \in Given
    BY DEF CacheOK
  <2>2. cache[c].partition \in DOMAIN Graphs /\ cache[c].graph \in DOMAIN Graphs
    BY <2>1 DEF Given
  <2> QED
    BY <2>2, NamesOfGraph DEF Content, Incident
<1>5. children \subseteq NodeIds
  BY <1>4 DEF Children
<1>6. ids \subseteq Id
  BY <1>5, NamesOfGraph DEF Id
<1>7. Ids(b) = ids
  <2> HIDE DEF b, ids, over
  <2>1. \A x \in b.nodes : x.id \in ids
    <3>1. children \subseteq ids
      BY DEF ids
    <3> QED
      BY <1>2, <3>1 DEF Element
  <2>2. ASSUME NEW n \in ids
        PROVE  \E x \in b.nodes : x.id = n
    <3>1. CASE n \in children
      <4>1. Element(n, over(n), FALSE) \in b.nodes
        BY <1>2, <3>1
      <4> QED
        BY <1>3, <4>1
    <3>2. CASE n \notin children
      <4>1. Element(n, NoId, n \in open) \in b.nodes
        BY <1>2, <3>2
      <4> QED
        BY <1>3, <4>1
    <3> QED
      BY <3>1, <3>2
  <2> QED
    BY <2>1, <2>2 DEF Ids
<1>8. ASSUME NEW e \in ClusterEdges(g)
      PROVE  e \in AllEdges /\ {e.source, e.target} \subseteq ids
  <2>1. PICK f \in Graphs[g].edges :
           e = [source |-> Home(g, f.source), target |-> Home(g, f.target), kind |-> "clusters"]
    BY DEF ClusterEdges
  <2>2. Home(g, f.source) \in Shown(g) /\ Home(g, f.target) \in Shown(g)
    BY NamesOfGraph
  <2>3. Home(g, f.source) \in Id /\ Home(g, f.target) \in Id
    BY <2>2, NamesOfGraph
  <2>4. e \in BetweenIds
    BY <2>1, <2>3 DEF BetweenIds
  <2>5. e.source \in ids /\ e.target \in ids
    BY <2>1, <2>2
  <2>6. e \in AllEdges
    BY <2>4 DEF AllEdges
  <2>7. {e.source, e.target} \subseteq ids
    BY <2>5
  <2> QED
    BY <2>6, <2>7
<1>9. b.edges \subseteq AllEdges /\ Closed(ids, b.edges)
  BY <1>2, <1>4, <1>8 DEF Closed
<1>10. b.nodes \subseteq El
  <2>1. ASSUME NEW n \in ids
        PROVE  Element(n, NoId, n \in open) \in El
    <3>1. n \in Id /\ (n \in open) \in BOOLEAN
      BY <1>6
    <3> QED
      BY <3>1 DEF Element
  <2>2. ASSUME NEW n \in children
        PROVE  Element(n, over(n), FALSE) \in El
    <3>1. \E c \in open : n \in Content(cache[c], c)
      BY DEF Children
    <3>2. over(n) \in open
      BY <3>1
    <3>3. over(n) \in Id
      BY <3>2, NamesOfGraph DEF Id
    <3>4. n \in Id
      BY <1>6
    <3> HIDE DEF over
    <3> QED
      BY <3>3, <3>4 DEF Element
  <2> QED
    BY <1>2, <2>1, <2>2
<1>11. b \in Drawing
  <2> HIDE DEF b
  <2> QED
    BY <1>2, <1>9, <1>10 DEF Drawing
<1> QED
  BY <1>7, <1>9, <1>11 DEF WellDrawn

LEMMA BuildDraws ==
  ASSUME NEW clustered, NEW clusters \in DOMAIN Graphs \cup {Nothing},
         NEW opened, NEW cache, CacheOK(opened, cache), NEW f, FilterOK(f)
  PROVE  WellDrawn(Build(clustered, clusters, opened, cache, f))
<1>1. CASE ~clustered
  BY <1>1, FilterBuilt DEF Build
<1>2. CASE clustered /\ clusters = Nothing
  <2>1. Build(clustered, clusters, opened, cache, f) = [nodes |-> {}, edges |-> {}]
    BY <1>2 DEF Build, BuildClusterElements
  <2> QED
    BY <2>1 DEF WellDrawn, Drawing, Closed
<1>3. CASE clustered /\ clusters # Nothing
  BY <1>3, ClustersBuilt DEF Build
<1> QED
  BY <1>1, <1>2, <1>3

LEMMA FilterGives ==
  ASSUME NEW g \in DOMAIN Graphs, NEW kinds
  PROVE  FilterOK(Filter(g, kinds))
<1> DEFINE ids == {n \in Node(g) : Graphs[g].kind[n] \in kinds.nodes}
           kept == {e \in Graphs[g].edges :
                       e.kind \in kinds.edges /\ {e.source, e.target} \subseteq ids}
<1>1. Filter(g, kinds) = [nodes |-> ids, edges |-> kept]
  BY DEF Filter
<1>2. IsFiniteSet(ids)
  <2>1. IsFiniteSet(Node(g)) /\ ids \subseteq Node(g)
    BY GraphsAssumption DEF Node
  <2> QED
    BY <2>1, FS_Subset
<1>3. ids \subseteq NodeIds /\ kept \subseteq AllEdges
  BY NamesOfGraph
<1>4. Closed(ids, kept)
  BY DEF Closed
<1> HIDE DEF ids, kept
<1> QED
  BY <1>1, <1>2, <1>3, <1>4 DEF FilterOK

LEMMA NothingFiltered == FilterOK(EmptyFilter)
  BY FS_EmptySet DEF FilterOK, EmptyFilter, Closed

(* Two drawings of the same.                                               *)
Same(d, b) == Ids(d) = Ids(b) /\ d.edges = b.edges

(* What refreshGraph() makes of a drawing d when b is to be drawn.         *)
LEMMA RefreshKeeps ==
  ASSUME NEW d, WellDrawn(d), NEW b, WellDrawn(b), NEW taken,
         NEW r,
         LET kept == (Ids(d) \cap Ids(b)) \ taken
             ids  == kept \cup (Ids(b) \ Ids(d)) IN
         r = [nodes |-> {x \in d.nodes : x.id \in kept}
                           \cup {x \in b.nodes : x.id \notin Ids(d)},
              edges |-> {e \in b.edges :
                            {e.source, e.target} \subseteq IF e \in d.edges THEN kept ELSE ids}]
  PROVE  WellDrawn(r) /\ (taken \cap Ids(b) = {} => Same(r, b))
<1> DEFINE kept == (Ids(d) \cap Ids(b)) \ taken
           ids  == kept \cup (Ids(b) \ Ids(d))
           El == [id : Id, parent : Id \cup {NoId}, isExpanded : BOOLEAN]
<1>1. /\ r.nodes = {x \in d.nodes : x.id \in kept} \cup {x \in b.nodes : x.id \notin Ids(d)}
      /\ r.edges = {e \in b.edges :
                       {e.source, e.target} \subseteq IF e \in d.edges THEN kept ELSE ids}
      /\ r = [nodes |-> r.nodes, edges |-> r.edges]
  OBVIOUS
<1>2. /\ d.nodes \subseteq El /\ b.nodes \subseteq El /\ b.edges \subseteq AllEdges
      /\ Closed(Ids(d), d.edges) /\ Closed(Ids(b), b.edges)
  BY DEF WellDrawn, Drawing
<1>3. Ids(r) = ids
  <2> HIDE DEF kept, ids
  <2>1. ASSUME NEW n \in kept
        PROVE  \E x \in r.nodes : x.id = n
    BY <1>1 DEF Ids, kept
  <2>2. ASSUME NEW n \in Ids(b) \ Ids(d)
        PROVE  \E x \in r.nodes : x.id = n
    BY <1>1 DEF Ids
  <2>3. \A x \in r.nodes : x.id \in kept \/ x.id \in Ids(b) \ Ids(d)
    BY <1>1 DEF Ids
  <2> QED
    BY <2>1, <2>2, <2>3 DEF Ids, ids
<1>4. r.nodes \subseteq El /\ r.edges \subseteq AllEdges /\ Closed(ids, r.edges)
  <2>1. r.nodes \subseteq El
    <3> HIDE DEF kept, El
    <3> QED
      BY <1>1, <1>2
  <2>2. \A e \in r.edges : e \in b.edges /\ {e.source, e.target} \subseteq ids
    BY <1>1
  <2> QED
    BY <1>2, <2>1, <2>2 DEF Closed
<1>5. WellDrawn(r)
  <2>1. r \in Drawing
    <3> HIDE DEF El
    <3>1. r.nodes \in SUBSET El /\ r.edges \in SUBSET AllEdges
      BY <1>4
    <3>2. r \in [nodes : SUBSET El, edges : SUBSET AllEdges]
      BY <1>1, <3>1
    <3> QED
      BY <3>2 DEF Drawing, El
  <2> QED
    BY <1>3, <1>4, <2>1 DEF WellDrawn
<1>6. ASSUME taken \cap Ids(b) = {}
      PROVE  Same(r, b)
  <2>1. kept = Ids(d) \cap Ids(b) /\ ids = Ids(b)
    BY <1>6
  <2>2. ASSUME NEW e \in b.edges
        PROVE  e \in r.edges
    <3>1. {e.source, e.target} \subseteq Ids(b)
      BY <1>2 DEF Closed
    <3>2. e \in d.edges => {e.source, e.target} \subseteq Ids(d)
      BY <1>2 DEF Closed
    <3>3. {e.source, e.target} \subseteq IF e \in d.edges THEN kept ELSE ids
      BY <2>1, <3>1, <3>2
    <3> QED
      BY <1>1, <3>3
  <2>3. r.edges = b.edges
    BY <1>1, <2>2
  <2> QED
    BY <1>3, <2>1, <2>3 DEF Same
<1> QED
  BY <1>5, <1>6

(* The nodes of the graph and the clusters that are closed are all there   *)
(* is on the screen.                                                       *)
LEMMA ClustersPartition ==
  ASSUME NEW g \in DOMAIN Graphs, NEW opened, NEW cache,
         \A c \in opened : cache[c].partition = g
  PROVE  LET ids == Shown(g) \cup Children(g, opened, cache)
             closed == {c \in Cluster(g) : c \in ids /\ c \notin opened} IN
         /\ ids \ ClusterIds = Node(g) \ UNION {Members(g, c) : c \in closed}
         /\ Cluster(g) \subseteq ids
<1> DEFINE children == Children(g, opened, cache)
           ids == Shown(g) \cup children
           closed == {c \in Cluster(g) : c \in ids /\ c \notin opened}
<1>1. closed = Cluster(g) \ opened /\ Cluster(g) \subseteq ids
  BY DEF Shown
<1>2. \A n : n \in children <=> \E c \in Cluster(g) \cap opened : n \in Members(g, c)
  <2>1. \A c \in Cluster(g) \cap opened : Content(cache[c], c) = Members(g, c)
    BY DEF Content
  <2> QED
    BY <2>1 DEF Children
<1>3. \A n : n \in Clustered(g) <=> \E c \in Cluster(g) : n \in Members(g, c)
  BY DEF Clustered, Members
<1>4. \A c, d \in Cluster(g) : c # d => Members(g, c) \cap Members(g, d) = {}
  BY GraphsAssumption DEF Members, Cluster
<1>5. \A n \in Node(g) : n \notin ClusterIds
  BY GraphsAssumption DEF Node, ClusterIds
<1>6. Cluster(g) \subseteq ClusterIds /\ (\A c : Members(g, c) \subseteq Node(g))
  BY NamesOfGraph
<1> HIDE DEF children
<1>7. ASSUME NEW n
      PROVE  n \in ids \ ClusterIds <=> n \in Node(g) /\ \A c \in closed : n \notin Members(g, c)
  <2>1. n \in ids \ ClusterIds
           <=> n \in Node(g) /\ (n \notin Clustered(g) \/ n \in children)
    BY <1>2, <1>5, <1>6 DEF Shown
  <2>2. n \in Node(g) => ((n \notin Clustered(g) \/ n \in children)
                             <=> \A c \in closed : n \notin Members(g, c))
    <3> HIDE DEF ids, closed
    <3>1. ASSUME NEW c \in closed, n \in Members(g, c), n \in children
          PROVE  FALSE
      <4>1. PICK o \in Cluster(g) \cap opened : n \in Members(g, o)
        BY <1>2, <3>1
      <4>2. c \in Cluster(g) /\ c # o
        BY <1>1
      <4> QED
        BY <1>4, <3>1, <4>1, <4>2
    <3>2. ASSUME NEW c \in closed, n \in Members(g, c), n \notin Clustered(g)
          PROVE  FALSE
      BY <1>1, <1>3, <3>2
    <3>3. ASSUME \A c \in closed : n \notin Members(g, c), n \in Clustered(g)
          PROVE  n \in children
      <4>1. PICK c \in Cluster(g) : n \in Members(g, c)
        BY <1>3, <3>3
      <4>2. c \in opened
        BY <1>1, <3>3, <4>1
      <4> QED
        BY <1>2, <4>1, <4>2
    <3>4. n \notin Clustered(g) \/ n \in children => \A c \in closed : n \notin Members(g, c)
      BY <3>1, <3>2
    <3>5. (\A c \in closed : n \notin Members(g, c)) => n \notin Clustered(g) \/ n \in children
      BY <3>3
    <3> QED
      BY <3>4, <3>5
  <2> QED
    BY <2>1, <2>2
<1>8. ids \ ClusterIds = Node(g) \ UNION {Members(g, c) : c \in closed}
  <2> HIDE DEF ids, closed
  <2> QED
    BY <1>7
<1> QED
  BY <1>1, <1>8 DEF children
---------------------------------------------------------------------------
(* What the component and the composable keep, and what is under way.      *)
Clusterings == [what : {"refresh", "mount", "expand"}, cluster : Id \cup {NoId},
                mine : BOOLEAN, answer : Given \cup {Nothing}]

ViewTypes ==
    /\ served \in DOMAIN Graphs
    /\ partition \in DOMAIN Graphs \cup {Nothing}
    /\ data \in DOMAIN Graphs \cup {Nothing}
    /\ clusterData \in DOMAIN Graphs \cup {Nothing}
    /\ FilterOK(filtered)
    /\ CacheOK(expanded, expandedNodeCache)
    /\ requests \in Seq(Clusterings)
    /\ view \in {"none", "mounting", "mounted"}
    /\ drawn # Nothing => WellDrawn(drawn)

(* A view that is gone has no drawing, and awaits nothing.                 *)
ViewGone ==
    view = "none" => drawn = Nothing /\ \A i \in DOMAIN requests : ~requests[i].mine

(* The drawing is what is to be drawn, or an answer will refresh it.       *)
Redraws(rs) == \E i \in DOMAIN rs : rs[i].mine /\ rs[i].what # "mount"

Exact ==
    drawn # Nothing /\ ~unseen /\ ~orphaned => Same(drawn, Built) \/ Redraws(requests)

DrawnOnceThere == view = "mounted" /\ filtered.nodes # {} => drawn # Nothing

DrawInv == ViewTypes /\ ViewGone /\ Exact /\ DrawnOnceThere

(* What the watchers, the buttons and the answers do to the drawing.       *)
DrawnAnew ==
    /\ drawn' # Nothing /\ WellDrawn(drawn')
    /\ ~unseen' /\ (~orphaned' => Same(drawn', ToBuild))

Refreshed == IF drawn = Nothing THEN UNCHANGED drawVars ELSE DrawnAnew

LEMMA ToBuildDraws ==
  ASSUME clusterData' \in DOMAIN Graphs \cup {Nothing},
         CacheOK(expanded', expandedNodeCache'), FilterOK(filtered')
  PROVE  WellDrawn(ToBuild)
<1> DEFINE u == useClusters'
           k == clusterData'
           o == expanded'
           a == expandedNodeCache'
           f == filtered'
<1>1. k \in DOMAIN Graphs \cup {Nothing} /\ CacheOK(o, a) /\ FilterOK(f)
  OBVIOUS
<1>2. ToBuild = Build(u, k, o, a, f)
  BY DEF ToBuild
<1> HIDE DEF u, k, o, a, f
<1> QED
  BY <1>1, <1>2, BuildDraws

LEMMA NotNothing ==
  ASSUME NEW d, WellDrawn(d)
  PROVE  d # Nothing
  BY NothingAssumption DEF WellDrawn

LEMMA InitDraws ==
  ASSUME InitCytoscape, WellDrawn(ToBuild)
  PROVE  DrawnAnew
  BY NotNothing DEF InitCytoscape, DrawnAnew, Same

LEMMA RefreshDraws ==
  ASSUME RefreshGraph, WellDrawn(ToBuild), drawn # Nothing => WellDrawn(drawn)
  PROVE  Refreshed
<1>1. CASE drawn = Nothing
  BY <1>1 DEF RefreshGraph, Refreshed
<1>2. CASE drawn # Nothing
  <2> DEFINE b == ToBuild
             r == drawn'
             taken == {x.id : x \in {y \in drawn.nodes : y.parent \in Ids(drawn) \ Ids(b)}}
             kept == (Ids(drawn) \cap Ids(b)) \ taken
             ids  == kept \cup (Ids(b) \ Ids(drawn))
  <2>1. /\ r = [nodes |-> {x \in drawn.nodes : x.id \in kept}
                             \cup {x \in b.nodes : x.id \notin Ids(drawn)},
                 edges |-> {e \in b.edges :
                              {e.source, e.target} \subseteq IF e \in drawn.edges
                                                             THEN kept ELSE ids}]
        /\ unseen' = FALSE
        /\ orphaned' = (taken \cap Ids(b) # {})
    BY <1>2 DEF RefreshGraph
  <2>2. WellDrawn(drawn) /\ WellDrawn(b)
    BY <1>2
  <2> HIDE DEF b, r, taken
  <2>3. WellDrawn(r) /\ (taken \cap Ids(b) = {} => Same(r, b))
    BY <2>1, <2>2, RefreshKeeps
  <2>4. r # Nothing
    BY <2>3, NotNothing
  <2> QED
    BY <1>2, <2>1, <2>3, <2>4 DEF Refreshed, DrawnAnew, b, r
<1> QED
  BY <1>1, <1>2

LEMMA DrawnAnewExact ==
  ASSUME DrawnAnew
  PROVE  Exact'
  BY DEF DrawnAnew, Exact, ToBuild, Built

(* Nothing that decides what is to be drawn changes, and nobody draws.     *)
LEMMA StillExact ==
  ASSUME Exact, UNCHANGED <<drawVars, filtered, clusterVars, useClusters>>,
         Redraws(requests) => Redraws(requests')
  PROVE  Exact'
  BY DEF Exact, Built, drawVars, clusterVars

LEMMA RefreshedExact ==
  ASSUME Refreshed
  PROVE  Exact'
  BY DrawnAnewExact DEF Refreshed, Exact, drawVars

(* A request more, and one less.                                           *)
LEMMA OneMore ==
  ASSUME requests \in Seq(Clusterings), NEW r \in Clusterings,
         requests' = Append(requests, r)
  PROVE  /\ requests' \in Seq(Clusterings)
         /\ Redraws(requests) => Redraws(requests')
         /\ r.mine /\ r.what # "mount" => Redraws(requests')
<1>1. /\ requests' \in Seq(Clusterings) /\ Len(requests') = Len(requests) + 1
      /\ \A i \in DOMAIN requests : i \in DOMAIN requests' /\ requests'[i] = requests[i]
      /\ requests'[Len(requests) + 1] = r /\ Len(requests) + 1 \in DOMAIN requests'
  OBVIOUS
<1> QED
  BY <1>1 DEF Redraws

LEMMA OneLess ==
  ASSUME NEW s, NEW S, s \in Seq(S), NEW i \in DOMAIN s
  PROVE  /\ RemoveAt(s, i) \in Seq(S)
         /\ Len(RemoveAt(s, i)) = Len(s) - 1
         /\ \A j \in DOMAIN RemoveAt(s, i) : \E k \in DOMAIN s \ {i} : RemoveAt(s, i)[j] = s[k]
         /\ \A k \in DOMAIN s \ {i} : \E j \in DOMAIN RemoveAt(s, i) : RemoveAt(s, i)[j] = s[k]
<1> DEFINE a == SubSeq(s, 1, i - 1)
           b == SubSeq(s, i + 1, Len(s))
           r == a \o b
<1>1. RemoveAt(s, i) = r
  BY DEF RemoveAt
<1>2. i \in 1..Len(s) /\ Len(s) \in Nat /\ DOMAIN s = 1..Len(s)
  OBVIOUS
<1>3. a \in Seq(S) /\ Len(a) = i - 1 /\ \A j \in 1..(i - 1) : a[j] = s[j]
  BY <1>2
<1>4. b \in Seq(S) /\ Len(b) = Len(s) - i /\ \A j \in 1..(Len(s) - i) : b[j] = s[i + j]
  BY <1>2
<1> HIDE DEF a, b
<1>5. /\ r \in Seq(S) /\ Len(r) = Len(s) - 1 /\ DOMAIN r = 1..(Len(s) - 1)
      /\ \A j \in 1..(Len(s) - 1) : r[j] = IF j < i THEN s[j] ELSE s[j + 1]
  <2>1. /\ r \in Seq(S) /\ Len(r) = Len(a) + Len(b) /\ DOMAIN r = 1..Len(r)
        /\ \A j \in 1..Len(r) : r[j] = IF j <= Len(a) THEN a[j] ELSE b[j - Len(a)]
    <3>1. a \in Seq(S) /\ b \in Seq(S)
      BY <1>3, <1>4
    <3> QED
      BY <3>1, ConcatProperties
  <2> HIDE DEF r
  <2>2. Len(r) = Len(s) - 1
    BY <1>2, <1>3, <1>4, <2>1
  <2>3. ASSUME NEW j \in 1..(Len(s) - 1)
        PROVE  r[j] = IF j < i THEN s[j] ELSE s[j + 1]
    <3>1. CASE j < i
      BY <1>2, <1>3, <2>1, <2>2, <3>1
    <3>2. CASE ~(j < i)
      <4>1. r[j] = b[j - (i - 1)] /\ j - (i - 1) \in 1..(Len(s) - i)
        BY <1>2, <1>3, <2>1, <2>2, <3>2
      <4>2. r[j] = s[i + (j - (i - 1))]
        BY <1>4, <4>1
      <4>3. i + (j - (i - 1)) = j + 1
        BY <1>2
      <4> QED
        BY <3>2, <4>2, <4>3
    <3> QED
      BY <3>1, <3>2
  <2> QED
    BY <2>1, <2>2, <2>3
<1> HIDE DEF r
<1>6. ASSUME NEW j \in DOMAIN r
      PROVE  \E k \in DOMAIN s \ {i} : r[j] = s[k]
  <2>1. CASE j < i
    BY <1>2, <1>5, <2>1
  <2>2. CASE ~(j < i)
    <3>1. r[j] = s[j + 1] /\ j + 1 \in DOMAIN s \ {i}
      BY <1>2, <1>5, <2>2
    <3> QED
      BY <3>1
  <2> QED
    BY <2>1, <2>2
<1>7. ASSUME NEW k \in DOMAIN s \ {i}
      PROVE  \E j \in DOMAIN r : r[j] = s[k]
  <2>1. CASE k < i
    BY <1>2, <1>5, <2>1
  <2>2. CASE ~(k < i)
    <3>1. k - 1 \in DOMAIN r /\ r[k - 1] = s[k]
      BY <1>2, <1>5, <2>2
    <3> QED
      BY <3>1
  <2> QED
    BY <2>1, <2>2
<1> QED
  BY <1>1, <1>5, <1>6, <1>7

LEMMA RefreshedKeeps ==
  ASSUME Refreshed, drawn # Nothing => WellDrawn(drawn)
  PROVE  /\ Exact'
         /\ drawn' # Nothing => WellDrawn(drawn')
         /\ drawn' = Nothing <=> drawn = Nothing
  BY RefreshedExact DEF Refreshed, DrawnAnew, drawVars

LEMMA WatchersPreserve ==
  ASSUME DrawInv, Watchers, FilterOK(filtered'), data' \in DOMAIN Graphs \cup {Nothing},
         UNCHANGED <<serverVars, clusterVars>>
  PROVE  DrawInv'
<1> USE DEF serverVars, clusterVars
<1>1. WellDrawn(ToBuild)
  BY ToBuildDraws DEF DrawInv, ViewTypes
<1> DEFINE unchanged == view = "none" \/ (drawn = Nothing /\ (\/ filtered'.nodes = {}
                                 \/ Cardinality(filtered'.nodes) = Cardinality(filtered.nodes)))
<1>2. CASE unchanged
  <2>1. UNCHANGED <<drawVars, viewVars, requests>> /\ drawn = Nothing
    BY <1>2 DEF Watchers, DrawInv, ViewGone
  <2>2. ViewTypes' /\ ViewGone' /\ Exact'
    BY <2>1 DEF DrawInv, ViewTypes, ViewGone, Exact, drawVars, viewVars
  <2>3. ASSUME view = "mounted"
        PROVE  filtered'.nodes = {}
    <3>1. filtered.nodes = {}
      BY <2>1, <2>3 DEF DrawInv, DrawnOnceThere
    <3>2. IsFiniteSet(filtered'.nodes)
      BY DEF FilterOK
    <3> QED
      BY <1>2, <2>3, <3>1, <3>2, FS_EmptySet
  <2> QED
    BY <2>1, <2>2, <2>3 DEF DrawInv, DrawnOnceThere, viewVars
<1>3. CASE ~unchanged /\ drawn = Nothing
  <2>1. DrawnAnew /\ UNCHANGED <<viewVars, requests>> /\ view # "none"
    BY <1>1, <1>3, InitDraws DEF Watchers
  <2>2. Exact'
    BY <2>1, DrawnAnewExact
  <2> QED
    BY <2>1, <2>2 DEF DrawInv, ViewTypes, ViewGone, DrawnOnceThere, DrawnAnew, viewVars
<1>4. CASE ~unchanged /\ drawn # Nothing /\ Size(filtered') = Size(filtered)
  <2>1. /\ unseen' = (unseen \/ SameSum)
        /\ UNCHANGED <<drawn, orphaned, viewVars, requests>> /\ view # "none"
    BY <1>4 DEF Watchers
  <2>2. filtered' # filtered => SameSum
    BY <1>4 DEF SameSum, Size
  <2>3. CASE filtered' # filtered
    <3>1. unseen'
      BY <2>1, <2>2, <2>3
    <3>2. Exact'
      BY <3>1 DEF Exact
    <3> QED
      BY <1>4, <2>1, <3>2 DEF DrawInv, ViewTypes, ViewGone, DrawnOnceThere, viewVars
  <2>4. CASE filtered' = filtered
    <3>1. Exact'
      BY <2>1, <2>4 DEF DrawInv, Exact, Built, viewVars
    <3> QED
      BY <1>4, <2>1, <3>1 DEF DrawInv, ViewTypes, ViewGone, DrawnOnceThere, viewVars
  <2> QED
    BY <2>3, <2>4
<1>5. CASE /\ ~unchanged /\ drawn # Nothing /\ Size(filtered') # Size(filtered)
           /\ Needed(filtered') /\ ~useClusters
  <2>1. /\ requests' = Append(requests, Clustering("refresh", NoId))
        /\ UNCHANGED <<drawVars, view>> /\ view # "none"
    BY <1>5 DEF Watchers
  <2>2. requests' \in Seq(Clusterings) /\ Redraws(requests')
    <3>1. Clustering("refresh", NoId) \in Clusterings
      BY DEF Clustering, Clusterings
    <3> QED
      BY <2>1, <3>1, OneMore DEF DrawInv, ViewTypes, Clustering
  <2>3. Exact'
    BY <2>2 DEF Exact
  <2> QED
    BY <1>5, <2>1, <2>2, <2>3 DEF DrawInv, ViewTypes, ViewGone, DrawnOnceThere, drawVars
<1>6. CASE /\ ~unchanged /\ drawn # Nothing /\ Size(filtered') # Size(filtered)
           /\ ~(Needed(filtered') /\ ~useClusters)
  <2>1. RefreshGraph /\ UNCHANGED <<view, requests>> /\ view # "none"
    BY <1>6 DEF Watchers
  <2>2. Refreshed
    BY <1>1, <2>1, RefreshDraws DEF DrawInv, ViewTypes
  <2>3. Exact' /\ (drawn' # Nothing => WellDrawn(drawn')) /\ drawn' # Nothing
    BY <1>6, <2>2, RefreshedKeeps DEF DrawInv, ViewTypes
  <2> QED
    BY <2>1, <2>3 DEF DrawInv, ViewTypes, ViewGone, DrawnOnceThere
<1> QED
  BY <1>2, <1>3, <1>4, <1>5, <1>6

LEMMA RecomputePreserves ==
  ASSUME DrawInv, RecomputeFiltered, data' \in DOMAIN Graphs \cup {Nothing},
         UNCHANGED <<serverVars, clusterVars>>
  PROVE  DrawInv'
<1>1. FilterOK(filtered')
  <2>1. CASE data' = Nothing
    BY <2>1, NothingFiltered DEF RecomputeFiltered
  <2>2. CASE data' # Nothing
    BY <2>2, FilterGives DEF RecomputeFiltered
  <2> QED
    BY <2>1, <2>2
<1> QED
  BY <1>1, WatchersPreserve DEF RecomputeFiltered

(* What asks for clusters in a view that is there.                         *)
LEMMA AskingPreserves ==
  ASSUME DrawInv, NEW what \in {"refresh", "expand"}, NEW c \in Id \cup {NoId},
         requests' = Append(requests, Clustering(what, c)),
         UNCHANGED <<serverVars, data, filtered, clusterVars, drawVars, view>>, view # "none"
  PROVE  DrawInv'
<1>1. Clustering(what, c) \in Clusterings
  BY DEF Clustering, Clusterings
<1>2. Clustering(what, c).mine /\ Clustering(what, c).what # "mount"
  BY DEF Clustering
<1>3. requests' \in Seq(Clusterings) /\ Redraws(requests')
  BY <1>1, <1>2, OneMore DEF DrawInv, ViewTypes
<1>4. Exact'
  BY <1>3 DEF Exact
<1> QED
  BY <1>3, <1>4 DEF DrawInv, ViewTypes, ViewGone, DrawnOnceThere, serverVars, clusterVars,
     drawVars

(* What draws anew in a view that is there.                                *)
LEMMA RefreshingPreserves ==
  ASSUME DrawInv, RefreshGraph, clusterData' \in DOMAIN Graphs \cup {Nothing},
         CacheOK(expanded', expandedNodeCache'),
         UNCHANGED <<serverVars, data, filtered, view>>,
         requests' \in Seq(Clusterings), view # "none"
  PROVE  DrawInv'
<1>1. WellDrawn(ToBuild)
  BY ToBuildDraws DEF DrawInv, ViewTypes
<1>2. Refreshed
  BY <1>1, RefreshDraws DEF DrawInv, ViewTypes
<1>3. Exact' /\ (drawn' # Nothing => WellDrawn(drawn')) /\ (drawn' = Nothing <=> drawn = Nothing)
  BY <1>2, RefreshedKeeps DEF DrawInv, ViewTypes
<1> QED
  BY <1>3 DEF DrawInv, ViewTypes, ViewGone, DrawnOnceThere, serverVars

LEMMA MountPreserves ==
  ASSUME DrawInv, Mount
  PROVE  DrawInv'
<1> USE DEF serverVars, clusterVars, filterVars, viewVars
<1>0. /\ view = "none" /\ drawn = Nothing /\ \A i \in DOMAIN requests : ~requests[i].mine
      /\ UNCHANGED <<serverVars, filterVars, clusterVars>>
  BY DEF Mount, DrawInv, ViewGone
<1>1. WellDrawn(ToBuild)
  BY <1>0, ToBuildDraws DEF DrawInv, ViewTypes
<1>2. DrawnAnew \/ UNCHANGED drawVars
  BY <1>1, InitDraws DEF Mount
<1>3. Exact' /\ (drawn' # Nothing => WellDrawn(drawn'))
  <2>1. CASE DrawnAnew
    BY <2>1, DrawnAnewExact DEF DrawnAnew
  <2>2. CASE UNCHANGED drawVars
    BY <1>0, <2>2 DEF Exact, drawVars
  <2> QED
    BY <1>2, <2>1, <2>2
<1>4. requests' \in Seq(Clusterings)
  <2>1. Clustering("mount", NoId) \in Clusterings
    BY DEF Clustering, Clusterings
  <2> QED
    BY <2>1, OneMore DEF Mount, DrawInv, ViewTypes
<1>5. view' \in {"mounting", "mounted"} /\ DrawnOnceThere'
  <2>1. CASE Needed(filtered)
    BY <2>1 DEF Mount, DrawnOnceThere
  <2>2. CASE ~Needed(filtered) /\ (filtered.nodes # {} \/ clusterData # Nothing)
    <3>1. DrawnAnew /\ view' = "mounted"
      BY <1>1, <2>2, InitDraws DEF Mount
    <3> QED
      BY <3>1 DEF DrawnAnew, DrawnOnceThere
  <2>3. CASE ~Needed(filtered) /\ filtered.nodes = {}
    BY <1>0, <2>3 DEF Mount, DrawnOnceThere
  <2> QED
    BY <2>1, <2>2, <2>3
<1> QED
  BY <1>0, <1>3, <1>4, <1>5 DEF DrawInv, ViewTypes, ViewGone

LEMMA UnmountPreserves ==
  ASSUME DrawInv, Unmount
  PROVE  DrawInv'
<1>1. /\ requests' \in Seq(Clusterings)
      /\ \A i \in DOMAIN requests' : ~requests'[i].mine
  <2>1. requests \in Seq(Clusterings)
    BY DEF DrawInv, ViewTypes
  <2>2. requests' = [i \in DOMAIN requests |-> [requests[i] EXCEPT !.mine = FALSE]]
    BY DEF Unmount
  <2>3. ASSUME NEW r \in Clusterings
        PROVE  [r EXCEPT !.mine = FALSE] \in Clusterings /\ ~[r EXCEPT !.mine = FALSE].mine
    BY DEF Clusterings
  <2>4. requests' \in [1..Len(requests) -> Clusterings] /\ Len(requests) \in Nat
    BY <2>1, <2>2, <2>3
  <2>5. requests' \in Seq(Clusterings)
    BY <2>4
  <2>6. ASSUME NEW i \in DOMAIN requests'
        PROVE  ~requests'[i].mine
    <3>1. requests[i] \in Clusterings /\ requests'[i] = [requests[i] EXCEPT !.mine = FALSE]
      BY <2>1, <2>2
    <3> QED
      BY <2>3, <3>1
  <2> QED
    BY <2>5, <2>6
<1>2. drawn' = Nothing /\ view' = "none"
      /\ UNCHANGED <<serverVars, filterVars, clusterVars>>
  BY DEF Unmount
<1> QED
  BY <1>1, <1>2 DEF DrawInv, ViewTypes, ViewGone, Exact, DrawnOnceThere, serverVars, filterVars,
     clusterVars

LEMMA ServePreserves ==
  ASSUME DrawInv, Serve
  PROVE  DrawInv'
<1>1. PICK i \in DOMAIN requests :
         /\ partition' = IF requests[i].what = "expand" /\ partition # Nothing
                         THEN partition ELSE served
         /\ requests' = [requests EXCEPT
                ![i].answer = [partition |-> partition', graph |-> served]]
  BY DEF Serve
<1>2. UNCHANGED <<served, filterVars, clusterVars, drawVars, viewVars>>
  BY DEF Serve
<1>3. partition' \in DOMAIN Graphs /\ requests \in Seq(Clusterings) /\ served \in DOMAIN Graphs
  BY <1>1 DEF DrawInv, ViewTypes
<1>4. [partition |-> partition', graph |-> served] \in Given
  BY <1>3 DEF Given
<1>5. /\ requests' \in Seq(Clusterings) /\ DOMAIN requests' = DOMAIN requests
      /\ \A j \in DOMAIN requests : /\ requests'[j].mine = requests[j].mine
                                    /\ requests'[j].what = requests[j].what
  <2> DEFINE a == [partition |-> partition', graph |-> served]
  <2>1. requests' = [requests EXCEPT ![i] = [requests[i] EXCEPT !.answer = a]]
    BY <1>1, <1>3
  <2> HIDE DEF a
  <2>2. ASSUME NEW r \in Clusterings, a \in Given
        PROVE  /\ [r EXCEPT !.answer = a] \in Clusterings
               /\ [r EXCEPT !.answer = a].mine = r.mine
               /\ [r EXCEPT !.answer = a].what = r.what
    BY <2>2 DEF Clusterings
  <2>3. a \in Given /\ requests[i] \in Clusterings
    BY <1>3, <1>4 DEF a
  <2> DEFINE r == [requests[i] EXCEPT !.answer = a]
  <2>4. r \in Clusterings /\ r.mine = requests[i].mine /\ r.what = requests[i].what
    BY <2>2, <2>3
  <2> HIDE DEF r
  <2>5. requests' = [requests EXCEPT ![i] = r]
    BY <2>1 DEF r
  <2>6. requests' \in Seq(Clusterings) /\ DOMAIN requests' = DOMAIN requests
    BY <1>3, <2>4, <2>5
  <2>7. \A j \in DOMAIN requests : requests'[j] = IF j = i THEN r ELSE requests[j]
    BY <1>3, <2>5
  <2> QED
    BY <2>4, <2>6, <2>7
<1>6. Redraws(requests) => Redraws(requests')
  BY <1>5 DEF Redraws
<1>7. Exact'
  BY <1>2, <1>6, StillExact DEF DrawInv, filterVars, viewVars
<1>8. ViewTypes'
  BY <1>2, <1>3, <1>5 DEF DrawInv, ViewTypes, filterVars, clusterVars, drawVars, viewVars
<1>9. ViewGone' /\ DrawnOnceThere'
  BY <1>2, <1>5 DEF DrawInv, ViewGone, DrawnOnceThere, filterVars, drawVars, viewVars
<1> QED
  BY <1>7, <1>8, <1>9 DEF DrawInv

(* What follows the await, with what the answer left in the composable.    *)
LEMMA ContinuePreserves ==
  ASSUME DrawInv, NEW i \in DOMAIN requests, Continue(requests[i]),
         requests' = RemoveAt(requests, i),
         clusterData' \in DOMAIN Graphs \cup {Nothing},
         CacheOK(expanded', expandedNodeCache'),
         requests[i].what = "mount" =>
             clusterData' # Nothing \/ UNCHANGED clusterVars,
         UNCHANGED <<serverVars, filterVars, useClusters>>
  PROVE  DrawInv'
<1> USE DEF serverVars, filterVars
<1>1. /\ requests' \in Seq(Clusterings)
      /\ \A j \in DOMAIN requests' : \E k \in DOMAIN requests \ {i} : requests'[j] = requests[k]
      /\ \A k \in DOMAIN requests \ {i} : \E j \in DOMAIN requests' : requests'[j] = requests[k]
  BY OneLess DEF DrawInv, ViewTypes
<1>2. /\ Redraws(requests) /\ (~requests[i].mine \/ requests[i].what = "mount")
            => Redraws(requests')
  BY <1>1 DEF Redraws
<1>3. view = "none" => /\ ~requests[i].mine /\ drawn = Nothing
                       /\ \A j \in DOMAIN requests' : ~requests'[j].mine
  BY <1>1 DEF DrawInv, ViewGone
<1>4. WellDrawn(ToBuild)
  BY ToBuildDraws DEF DrawInv, ViewTypes
<1>5. CASE ~requests[i].mine
  <2>1. /\ unseen' = (unseen \/ (drawn # Nothing /\ ToBuild # Built))
        /\ UNCHANGED <<drawn, orphaned, view>>
    BY <1>5 DEF Continue
  <2>2. Exact'
    <3>1. SUFFICES ASSUME drawn # Nothing, ~unseen', ~orphaned
                   PROVE  Same(drawn, Built') \/ Redraws(requests')
      BY <2>1 DEF Exact
    <3>2. ~unseen /\ ToBuild = Built
      BY <2>1, <3>1
    <3>3. Built' = Built
      BY <3>2 DEF ToBuild, Built
    <3>4. Same(drawn, Built) \/ Redraws(requests)
      BY <3>1, <3>2 DEF DrawInv, Exact
    <3> QED
      BY <1>2, <1>5, <3>3, <3>4
  <2> QED
    BY <1>1, <1>3, <2>1, <2>2 DEF DrawInv, ViewTypes, ViewGone, DrawnOnceThere
<1>6. CASE requests[i].mine /\ requests[i].what = "mount"
  <2>1. view' = "mounted"
    BY <1>6 DEF Continue
  <2>2. CASE filtered.nodes # {} \/ clusterData' # Nothing
    <3>1. DrawnAnew
      BY <1>4, <1>6, <2>2, InitDraws DEF Continue
    <3>2. Exact'
      BY <3>1, DrawnAnewExact
    <3> QED
      BY <1>1, <2>1, <3>1, <3>2 DEF DrawInv, ViewTypes, ViewGone, DrawnOnceThere, DrawnAnew
  <2>3. CASE ~(filtered.nodes # {} \/ clusterData' # Nothing)
    <3>1. UNCHANGED <<drawVars, clusterVars>>
      BY <1>6, <2>3 DEF Continue
    <3>2. Exact'
      BY <1>2, <1>6, <3>1, StillExact DEF DrawInv
    <3> QED
      BY <1>1, <2>1, <2>3, <3>1, <3>2
         DEF DrawInv, ViewTypes, ViewGone, DrawnOnceThere, drawVars, clusterVars
  <2> QED
    BY <2>2, <2>3
<1>7. CASE requests[i].mine /\ requests[i].what # "mount"
  <2>1. RefreshGraph /\ UNCHANGED view
    BY <1>7 DEF Continue
  <2>2. view # "none"
    BY <1>3, <1>7
  <2> QED
    BY <1>1, <2>1, <2>2, RefreshingPreserves
<1> QED
  BY <1>5, <1>6, <1>7

LEMMA ArrivePreserves ==
  ASSUME DrawInv, Arrive
  PROVE  DrawInv'
<1>1. PICK i \in DOMAIN requests :
         /\ requests[i].answer # Nothing
         /\ UNCHANGED <<filterVars, useClusters>>
         /\ Keep(requests[i])
         /\ Continue(requests[i])
         /\ requests' = RemoveAt(requests, i)
  BY DEF Arrive
<1>2. UNCHANGED serverVars
  BY DEF Arrive
<1> DEFINE r == requests[i]
<1>3. r.answer \in Given
  <2>1. r \in Clusterings
    BY DEF DrawInv, ViewTypes
  <2> QED
    BY <1>1, <2>1 DEF Clusterings
<1>4. CASE r.what = "expand"
  <2> DEFINE c == r.cluster
  <2>1. /\ expandedNodeCache' = [d \in DOMAIN expandedNodeCache \cup {c} |->
                                     IF d = c THEN r.answer ELSE expandedNodeCache[d]]
        /\ expanded' = expanded \cup {c}
        /\ UNCHANGED clusterData
    BY <1>1, <1>4 DEF Keep
  <2>2. CacheOK(expanded, expandedNodeCache)
    BY DEF DrawInv, ViewTypes
  <2>3. CacheOK(expanded', expandedNodeCache')
    BY <1>3, <2>1, <2>2 DEF CacheOK
  <2> QED
    BY <1>1, <1>2, <1>4, <2>1, <2>3, ContinuePreserves DEF DrawInv, ViewTypes
<1>5. CASE r.what # "expand"
  <2>1. /\ clusterData' = r.answer.graph
        /\ UNCHANGED <<expanded, expandedNodeCache>>
    BY <1>1, <1>5 DEF Keep
  <2>2. clusterData' \in DOMAIN Graphs /\ clusterData' # Nothing
    BY <1>3, <2>1, NothingAssumption DEF Given
  <2>3. CacheOK(expanded', expandedNodeCache')
    BY <2>1 DEF DrawInv, ViewTypes
  <2> QED
    BY <1>1, <1>2, <2>2, <2>3, ContinuePreserves
<1> QED
  BY <1>4, <1>5

LEMMA FailPreserves ==
  ASSUME DrawInv, Fail
  PROVE  DrawInv'
<1>1. PICK i \in DOMAIN requests :
         /\ UNCHANGED <<filterVars, useClusters, clusterVars>>
         /\ Continue(requests[i])
         /\ requests' = RemoveAt(requests, i)
  BY DEF Fail
<1>2. UNCHANGED serverVars
  BY DEF Fail
<1>3. /\ clusterData' \in DOMAIN Graphs \cup {Nothing}
      /\ CacheOK(expanded', expandedNodeCache')
  BY <1>1 DEF DrawInv, ViewTypes, clusterVars
<1> QED
  BY <1>1, <1>2, <1>3, ContinuePreserves

(* A step of the selection, the filters' buttons or the panels.            *)
LEMMA UntouchedPreserves ==
  ASSUME DrawInv, UNCHANGED <<partition, data, filtered, clusterVars, drawVars, viewVars, requests>>,
         served' \in DOMAIN Graphs
  PROVE  DrawInv'
<1>1. Exact'
  BY StillExact DEF DrawInv, viewVars
<1> QED
  BY <1>1 DEF DrawInv, ViewTypes, ViewGone, DrawnOnceThere, clusterVars, drawVars, viewVars

LEMMA DrawPreserved ==
  ASSUME DrawInv, Next
  PROVE  DrawInv'
<1>0. served \in DOMAIN Graphs
  BY DEF DrawInv, ViewTypes
<1>1. CASE Toggle \/ Point \/ SearchRuns
  <2>1. UNCHANGED <<serverVars, data, filtered, clusterVars, drawVars, viewVars, requests>>
    BY <1>1 DEF Toggle, Point, SearchRuns, filterVars
  <2> QED
    BY <1>0, <2>1, UntouchedPreserves DEF serverVars
<1>2. CASE Debounced \/ ApplyPreset
  BY <1>2, RecomputePreserves DEF Debounced, ApplyPreset, DrawInv, ViewTypes
<1>3. CASE GraphFetched
  BY <1>0, <1>3, RecomputePreserves DEF GraphFetched
<1>4. CASE Mount
  BY <1>4, MountPreserves
<1>5. CASE Unmount
  BY <1>5, UnmountPreserves
<1>6. CASE ToggleClusters
  <2>1. view # "none" /\ UNCHANGED <<view, filterVars, clusterVars, serverVars>>
    BY <1>6 DEF ToggleClusters, Gesture
  <2>2. CASE useClusters
    <3>1. RefreshGraph /\ UNCHANGED requests
      BY <1>6, <2>2 DEF ToggleClusters
    <3> QED
      BY <2>1, <3>1, RefreshingPreserves DEF DrawInv, ViewTypes, filterVars, clusterVars
  <2>3. CASE ~useClusters
    <3>1. /\ requests' = Append(requests, Clustering("refresh", NoId))
          /\ UNCHANGED drawVars
      BY <1>6, <2>3 DEF ToggleClusters
    <3> QED
      BY <2>1, <3>1, AskingPreserves DEF filterVars
  <2> QED
    BY <2>2, <2>3
<1>7. CASE Expand
  <2>1. PICK c \in Drawn \cap ClusterIds :
           IF c \in DOMAIN expandedNodeCache
           THEN /\ expanded' = expanded \cup {c}
                /\ UNCHANGED <<requests, filterVars, viewVars, clusterData, expandedNodeCache>>
                /\ RefreshGraph
           ELSE /\ requests' = Append(requests, Clustering("expand", c))
                /\ UNCHANGED <<clusterVars, filterVars, viewVars, drawVars>>
    BY <1>7 DEF Expand
  <2>2. view # "none" /\ UNCHANGED serverVars
    BY <1>7 DEF Expand, Gesture
  <2>3. CASE c \in DOMAIN expandedNodeCache
    <3>1. CacheOK(expanded', expandedNodeCache')
      BY <2>1, <2>3 DEF DrawInv, ViewTypes, CacheOK
    <3> QED
      BY <2>1, <2>2, <2>3, <3>1, RefreshingPreserves DEF DrawInv, ViewTypes, filterVars, viewVars
  <2>4. CASE c \notin DOMAIN expandedNodeCache
    <3>1. c \in Id \cup {NoId}
      BY DEF Id
    <3> QED
      BY <2>1, <2>2, <2>4, <3>1, AskingPreserves DEF filterVars, viewVars
  <2> QED
    BY <2>3, <2>4
<1>8. CASE CollapseCluster
  <2>1. PICK c : expanded' = expanded \ {c}
    BY <1>8 DEF CollapseCluster
  <2>2. /\ UNCHANGED <<filterVars, viewVars, clusterData, expandedNodeCache, serverVars, requests>>
        /\ RefreshGraph /\ view # "none"
    BY <1>8 DEF CollapseCluster, Gesture
  <2>3. CacheOK(expanded', expandedNodeCache')
    BY <2>1, <2>2 DEF DrawInv, ViewTypes, CacheOK
  <2> QED
    BY <2>2, <2>3, RefreshingPreserves DEF DrawInv, ViewTypes, filterVars, viewVars
<1>9. CASE NextGraph
  <2>1. served' \in DOMAIN Graphs
    BY <1>0, <1>9, GraphsAssumption DEF NextGraph
  <2> QED
    BY <1>9, <2>1, UntouchedPreserves DEF NextGraph, filterVars
<1>10. CASE Serve
  BY <1>10, ServePreserves
<1>11. CASE Arrive
  BY <1>11, ArrivePreserves
<1>12. CASE Fail
  BY <1>12, FailPreserves
<1> QED
  BY <1>1, <1>2, <1>3, <1>4, <1>5, <1>6, <1>7, <1>8, <1>9, <1>10, <1>11, <1>12 DEF Next

(* Beside a panel the drawing moves by a step of its own, or not.          *)
LEMMA PanelsLeaveDrawing ==
  ASSUME PanelNext, ~Next
  PROVE  UNCHANGED <<served, partition, data, filtered, clusterVars, drawVars, viewVars, requests>>
<1>1. CASE SelectBeside \/ UserAsks
  BY <1>1 DEF SelectBeside, UserAsks, Done, besideVars, serverVars, filterVars
<1>2. CASE GraphBeside
  BY <1>2 DEF GraphBeside, Next
<1>3. CASE OpenPanel \/ ServePath \/ PathAnswered \/ DueComes \/ Answer \/ ImpactAnswer
  BY <1>3 DEF OpenPanel, ServePath, PathAnswered, DueComes, Answer, ImpactAnswer, vars,
     serverVars, filterVars
<1> QED
  BY <1>1, <1>2, <1>3 DEF PanelNext

LEMMA DrawStep ==
  ASSUME DrawInv, [PanelNext]_<<vars, panelVars>>
  PROVE  DrawInv'
<1>1. CASE PanelNext /\ Next
  BY <1>1, DrawPreserved
<1>2. CASE PanelNext /\ ~Next
  <2>1. /\ UNCHANGED <<partition, data, filtered, clusterVars, drawVars, viewVars, requests>>
        /\ served' \in DOMAIN Graphs
    BY <1>2, PanelsLeaveDrawing DEF DrawInv, ViewTypes
  <2> QED
    BY <2>1, UntouchedPreserves
<1>3. CASE UNCHANGED <<vars, panelVars>>
  <2>1. UNCHANGED <<served, partition, data, filtered, clusterVars, drawVars, viewVars, requests>>
    BY <1>3 DEF vars, serverVars, filterVars
  <2> QED
    BY <2>1, UntouchedPreserves DEF DrawInv, ViewTypes
<1> QED
  BY <1>1, <1>2, <1>3

LEMMA DrawInitial ==
  ASSUME Init
  PROVE  DrawInv
<1>1. 1 \in DOMAIN Graphs
  BY GraphsAssumption
<1>2. ViewTypes
  <2>1. CacheOK({}, <<>>)
    BY DEF CacheOK
  <2> QED
    BY <1>1, <2>1, NothingFiltered DEF Init, ViewTypes
<1> QED
  BY <1>2 DEF Init, DrawInv, ViewGone, Exact, DrawnOnceThere

LEMMA DrawingFollows ==
  ASSUME DrawInv
  PROVE  DrawingExact
<1>1. ASSUME Quiet, ~unseen, ~orphaned
      PROVE  Same(drawn, Built) /\ drawn # Nothing
  BY <1>1 DEF DrawInv, Exact, Quiet, Redraws
<1>2. DrawnIsBuilt
  BY <1>1 DEF DrawnIsBuilt, Same, DrawInv, DrawnOnceThere
<1>3. ClustersCover
  <2> DEFINE g == clusterData
             ids == Shown(g) \cup Children(g, expanded, expandedNodeCache)
  <2>1. SUFFICES ASSUME Quiet, ~unseen, ~orphaned, useClusters, g # Nothing,
                        \A c \in expanded : expandedNodeCache[c].partition = g
                 PROVE  LET closed == {c \in Cluster(g) : c \in Drawn /\ c \notin expanded} IN
                        /\ Drawn \ ClusterIds = Node(g) \ UNION {Members(g, c) : c \in closed}
                        /\ Cluster(g) \subseteq Drawn
    BY DEF ClustersCover
  <2>2. g \in DOMAIN Graphs /\ CacheOK(expanded, expandedNodeCache)
    BY <2>1 DEF DrawInv, ViewTypes
  <2>3. Built = BuildClusterElements(g, expanded, expandedNodeCache)
    BY <2>1 DEF Built, Build
  <2>4. Ids(Built) = ids
    BY <2>2, <2>3, ClustersBuilt
  <2>5. Drawn = ids
    BY <1>1, <2>1, <2>4 DEF Drawn, Same
  <2> QED
    BY <2>1, <2>2, <2>5, ClustersPartition
<1> QED
  BY <1>2, <1>3 DEF DrawingExact

(* The drawing and the filters, the composable of the clusters and the     *)
(* watchers agree once nothing is under way, whatever was toggled, fetched,*)
(* expanded or lost in between (ForceGraphView.vue refreshGraph(),         *)
(* initCytoscape(), the watchers).                                         *)
THEOREM DrawingExactAlways == PanelSpec => []DrawingExact
<1>1. PanelInit => DrawInv
  BY DrawInitial DEF PanelInit
<1>2. DrawInv /\ [PanelNext]_<<vars, panelVars>> => DrawInv'
  BY DrawStep
<1>3. DrawInv => DrawingExact
  BY DrawingFollows
<1> QED
  BY <1>1, <1>2, <1>3, PTL DEF PanelSpec
---------------------------------------------------------------------------
(* The chains of the selected node.                                        *)

LEMMA LeastNatural ==
  ASSUME NEW S \in SUBSET Nat, S # {}
  PROVE  \E i \in S : \A j \in S : i <= j
<1>1. PICK i \in S : \A j \in S : <<j, i>> \notin OpToRel(<, Nat)
  BY NatLessThanWellFounded, WFMin
<1>2. ASSUME NEW j \in S
      PROVE  i <= j
  <2>1. ~(j < i)
    BY <1>1 DEF OpToRel
  <2> QED
    BY <2>1
<1> QED
  BY <1>2

LEMMA FirstIsLeast ==
  ASSUME NEW S \in SUBSET Nat, S # {}
  PROVE  First(S) \in S /\ \A j \in S : First(S) <= j
  BY LeastNatural DEF First

LEMMA CandidatesOf ==
  ASSUME NEW g \in DOMAIN Graphs, NEW n \in Node(g)
  PROVE  /\ Candidates(g, n) \subseteq Nat /\ IsFiniteSet(Candidates(g, n))
         /\ \A i \in Candidates(g, n) : Graphs[g].nodes[i] \in Node(g)
         /\ Forward(g, n) \in BOOLEAN
<1>1. Graphs[g].nodes \in Seq(Node(g)) /\ Graphs[g].kind[n] \in NodeKinds
  BY GraphsAssumption DEF Node
<1>2. /\ DOMAIN Graphs[g].nodes = 1..Len(Graphs[g].nodes) /\ Len(Graphs[g].nodes) \in Nat
      /\ \A i \in DOMAIN Graphs[g].nodes : Graphs[g].nodes[i] \in Node(g)
  BY <1>1
<1>3. Candidates(g, n) \subseteq 1..Len(Graphs[g].nodes)
  BY <1>2 DEF Candidates
<1>4. IsFiniteSet(Candidates(g, n))
  <2>1. IsFiniteSet(1..Len(Graphs[g].nodes))
    BY <1>2, FS_Interval
  <2> QED
    BY <1>3, <2>1, FS_Subset
<1>5. Forward(g, n) \in BOOLEAN
  BY <1>1, PanelAssumption DEF Forward
<1> QED
  BY <1>2, <1>3, <1>4, <1>5

LEMMA HasChainBoolean ==
  ASSUME NEW g, NEW n, NEW forward \in BOOLEAN, NEW c
  PROVE  HasChain(g, n, forward, c) \in BOOLEAN
<1>1. \A a, b : Connected(g, a, b) \in BOOLEAN
  BY DEF Connected
<1> QED
  BY <1>1 DEF HasChain

LEMMA ChainsToFinite ==
  ASSUME NEW g, NEW n, NEW I, IsFiniteSet(I)
  PROVE  IsFiniteSet(ChainsTo(g, n, I))
<1> DEFINE J == {i \in I : HasChain(g, n, Forward(g, n), Graphs[g].nodes[i])}
           chain(i) == [node |-> n, end |-> Graphs[g].nodes[i]]
           T == {chain(i) : i \in J}
           f == [i \in J |-> chain(i)]
<1>1. IsFiniteSet(J)
  BY FS_Subset
<1>2. ChainsTo(g, n, I) = T
  BY DEF ChainsTo
<1> HIDE DEF J, chain
<1>3. f \in Surjection(J, T)
  BY DEF Surjection
<1> HIDE DEF f, T
<1>4. IsFiniteSet(T)
  BY <1>1, <1>3, FS_Surjection
<1> QED
  BY <1>2, <1>4

LEMMA InOrder ==
  ASSUME NEW all \in SUBSET Nat, NEW left \in SUBSET all, left # {},
         \A i \in all \ left, j \in left : i < j
  PROVE  LET rest == left \ {First(left)} IN
         /\ First(left) \in left
         /\ all \ rest = (all \ left) \cup {First(left)}
         /\ \A i \in all \ rest, j \in rest : i < j
<1> DEFINE p == First(left)
           rest == left \ {p}
<1>1. p \in left /\ \A j \in left : p <= j
  BY FirstIsLeast
<1> HIDE DEF p
<1>2. all \ rest = (all \ left) \cup {p}
  BY <1>1
<1>3. \A j \in rest : p < j
  BY <1>1
<1>4. \A i \in all \ rest, j \in rest : i < j
  BY <1>2, <1>3
<1> QED
  BY <1>1, <1>2, <1>4 DEF p

(* One candidate more: the chains found are those to the candidates that   *)
(* were tried, and at the end those of the node.                           *)
LEMMA OneTriedMore ==
  ASSUME NEW g \in DOMAIN Graphs, NEW n \in Node(g),
         NEW left \in SUBSET Candidates(g, n), left # {},
         \A i \in Candidates(g, n) \ left, j \in left : i < j,
         Cardinality(ChainsTo(g, n, Candidates(g, n) \ left)) < MaxChains
  PROVE  LET rest == left \ {First(left)}
             more == ChainsTo(g, n, Candidates(g, n) \ rest) IN
         /\ more = ChainsTo(g, n, Candidates(g, n) \ left) \cup ChainsTo(g, n, {First(left)})
         /\ rest = {} \/ ~(Cardinality(more) < MaxChains) => more = ChainsOf(g, n)
<1> DEFINE p == First(left)
           rest == left \ {p}
           found == ChainsTo(g, n, Candidates(g, n) \ left)
           next == found \cup ChainsTo(g, n, {p})
           all == Candidates(g, n)
           has(i) == HasChain(g, n, Forward(g, n), Graphs[g].nodes[i])
           chain(i) == [node |-> n, end |-> Graphs[g].nodes[i]]
           before(i) == ChainsTo(g, n, {j \in all : j < i})
<1>1. all \subseteq Nat /\ IsFiniteSet(all)
  BY CandidatesOf
<1>2. p \in left /\ \A j \in left : p <= j
  BY <1>1, FirstIsLeast
<1>3. \A I, c : c \in ChainsTo(g, n, I) <=> \E i \in I : has(i) /\ c = chain(i)
  BY DEF ChainsTo
<1>4. \A I : IsFiniteSet(I) => IsFiniteSet(ChainsTo(g, n, I))
  BY ChainsToFinite
<1>0. /\ rest = left \ {p} /\ next = found \cup ChainsTo(g, n, {p})
      /\ Cardinality(found) < MaxChains /\ found = ChainsTo(g, n, all \ left)
  OBVIOUS
<1> HIDE DEF rest, found, next
<1> HIDE DEF p
<1>5. next = found \cup ChainsTo(g, n, {p})
  BY <1>0
<1> HIDE DEF has, chain, all
<1>6. all \ rest = (all \ left) \cup {p} /\ p \in all
  BY <1>0, <1>2 DEF all
<1>7. next = ChainsTo(g, n, all \ rest)
  <2>1. \A c : c \in found <=> \E i \in all \ left : has(i) /\ c = chain(i)
    BY <1>0, <1>3 DEF all
  <2>2. ASSUME NEW c
        PROVE  c \in next <=> \E i \in all \ rest : has(i) /\ c = chain(i)
    <3>1. c \in ChainsTo(g, n, {p}) <=> has(p) /\ c = chain(p)
      BY <1>3
    <3> QED
      BY <1>5, <1>6, <2>1, <3>1
  <2> DEFINE tried == ChainsTo(g, n, all \ rest)
  <2>3. \A c : c \in tried <=> \E i \in all \ rest : has(i) /\ c = chain(i)
    BY <1>3
  <2>4. tried = ChainsTo(g, n, all \ rest)
    OBVIOUS
  <2> HIDE DEF tried
  <2>5. \A c : c \in next <=> c \in tried
    BY <2>2, <2>3
  <2>6. \A c : c \in tried => c \in next
    BY <2>5
  <2>7. next \subseteq tried /\ tried \subseteq next
    BY <2>5
  <2> QED
    BY <2>4, <2>7
<1>8. \A i \in all \ rest, j \in rest : i < j
  BY <1>1, InOrder DEF all, p, rest
<1>9. ASSUME rest = {} \/ ~(Cardinality(next) < MaxChains)
      PROVE  next = ChainsOf(g, n)
  <2>1. \A c : c \in ChainsOf(g, n)
                 <=> \E i \in all : /\ Cardinality(before(i)) < MaxChains
                                   /\ has(i) /\ c = chain(i)
    <3> DEFINE enough == {i \in all : Cardinality(before(i)) < MaxChains}
    <3>1. ChainsOf(g, n) = ChainsTo(g, n, enough)
      BY DEF ChainsOf, all
    <3> HIDE DEF before
    <3> QED
      BY <1>3, <3>1
  <2>2. IsFiniteSet(found) /\ IsFiniteSet(next) /\ \A i : IsFiniteSet(before(i))
    <3>1. IsFiniteSet(all \ left) /\ IsFiniteSet(all \ rest)
      BY <1>1, FS_Subset
    <3>2. \A i : IsFiniteSet({j \in all : j < i})
      BY <1>1, FS_Subset
    <3> QED
      BY <1>0, <1>4, <1>7, <3>1, <3>2 DEF all
  <2>3. \A S, T : IsFiniteSet(T) /\ S \subseteq T => /\ Cardinality(S) <= Cardinality(T)
                                                   /\ Cardinality(S) \in Nat
                                                   /\ Cardinality(T) \in Nat
    BY FS_Subset, FS_CardinalityType
  <2>4. ASSUME NEW i \in all \ rest
        PROVE  Cardinality(before(i)) < MaxChains
    <3>1. \A j \in all : j < i => j \in all \ left
      BY <1>1, <1>2, <1>6, <1>8 DEF all
    <3>2. before(i) \subseteq ChainsTo(g, n, all \ left)
      BY <1>3, <3>1
    <3>3. before(i) \subseteq found
      BY <1>0, <3>2 DEF all
    <3> HIDE DEF before
    <3>4. /\ Cardinality(before(i)) <= Cardinality(found)
          /\ Cardinality(before(i)) \in Nat /\ Cardinality(found) \in Nat
      BY <2>2, <2>3, <3>3
    <3> QED
      BY <1>0, <3>4, PanelAssumption
  <2>5. ASSUME NEW i \in rest
        PROVE  ~(Cardinality(before(i)) < MaxChains)
    <3>1. \A j \in all \ rest : j < i
      BY <1>8
    <3>2. ChainsTo(g, n, all \ rest) \subseteq before(i)
      BY <1>3, <3>1
    <3>3. next \subseteq before(i) /\ ~(Cardinality(next) < MaxChains)
      BY <1>7, <1>9, <3>2
    <3> HIDE DEF before
    <3>4. /\ Cardinality(next) <= Cardinality(before(i))
          /\ Cardinality(before(i)) \in Nat /\ Cardinality(next) \in Nat
      BY <2>2, <2>3, <3>3
    <3> QED
      BY <3>3, <3>4, PanelAssumption
  <2>6. \A i \in all : i \in all \ rest <=> Cardinality(before(i)) < MaxChains
    <3>1. \A i \in all : i \in rest \/ i \in all \ rest
      OBVIOUS
    <3> QED
      BY <2>4, <2>5, <3>1
  <2>7. \A c : c \in next <=> \E i \in all \ rest : has(i) /\ c = chain(i)
    BY <1>3, <1>7
  <2> HIDE DEF before
  <2>8. \A c : c \in next <=> c \in ChainsOf(g, n)
    BY <2>1, <2>6, <2>7
  <2>9. \E I, J : next = ChainsTo(g, n, I) /\ ChainsOf(g, n) = ChainsTo(g, n, J)
    BY <1>7 DEF ChainsOf
  <2> QED
    BY <2>8, <2>9
<1> QED
  BY <1>7, <1>9 DEF all, rest, next, found, p

(* A load goes through the candidates in order, as long as there is one    *)
(* and there are not enough chains, and an answer is about the next.       *)
Loads ==
    [node : NodeIds, of : DOMAIN Graphs, forward : BOOLEAN, left : SUBSET Nat,
     found : SUBSET [node : NodeIds, end : NodeIds], exact : BOOLEAN,
     answer : {Nothing} \cup [graph : DOMAIN Graphs, found : BOOLEAN]]

Tried(l) == Candidates(l.of, l.node) \ l.left

LoadOK(l) ==
    /\ l \in Loads
    /\ l.node \in Node(l.of) /\ l.forward = Forward(l.of, l.node)
    /\ GoesOn(l)
    /\ l.left \subseteq Candidates(l.of, l.node)
    /\ \A i \in Tried(l), j \in l.left : i < j
    /\ \A c \in l.found : c.node = l.node
    /\ l.answer # Nothing =>
          l.answer.found = HasChain(l.answer.graph, l.node, l.forward, End(l))

(* It has found what the graph has, if no answer failed or was of another. *)
FoundAll(l, g) == l.exact => l.found = ChainsTo(g, l.node, Tried(l))

LEMMA LoadBegins ==
  ASSUME NEW g \in DOMAIN Graphs, NEW n \in Node(g)
  PROVE  /\ GoesOn(Load(g, n)) => LoadOK(Load(g, n)) /\ FoundAll(Load(g, n), g)
         /\ Load(g, n).node = n /\ Load(g, n).of = g
         /\ ~GoesOn(Load(g, n)) => ChainsOf(g, n) = {}
<1> DEFINE l == Load(g, n)
<1>1. /\ l.node = n /\ l.of = g /\ l.forward = Forward(g, n) /\ l.left = Candidates(g, n)
      /\ l.found = {} /\ l.exact = TRUE /\ l.answer = Nothing
  BY DEF Load
<1>2. l \in Loads
  <2>1. n \in NodeIds
    BY NamesOfGraph
  <2> QED
    BY <2>1, CandidatesOf DEF Load, Loads
<1>3. ChainsTo(g, n, {}) = {}
  BY DEF ChainsTo
<1> HIDE DEF l
<1>4. Tried(l) = {}
  BY <1>1 DEF Tried
<1>5. GoesOn(l) => LoadOK(l) /\ FoundAll(l, g)
  BY <1>1, <1>2, <1>3, <1>4 DEF LoadOK, FoundAll
<1>6. ASSUME ~GoesOn(l)
      PROVE  ChainsOf(g, n) = {}
  <2>1. Cardinality({}) = 0
    BY FS_EmptySet
  <2>2. Candidates(g, n) = {}
    BY <1>1, <1>6, <2>1, PanelAssumption DEF GoesOn
  <2> QED
    BY <2>2 DEF ChainsOf, ChainsTo
<1> QED
  BY <1>1, <1>5, <1>6 DEF l

(* What an answer, or none, makes of a load.                               *)
Advanced(l, next, ok, g) ==
    /\ next \in Loads
    /\ next.node = l.node /\ next.of = l.of /\ next.forward = l.forward
    /\ next.left = l.left \ {First(l.left)} /\ next.answer = Nothing
    /\ next.found = IF ok /\ l.answer.found
                    THEN l.found \cup {[node |-> l.node, end |-> End(l)]} ELSE l.found
    /\ next.exact => l.exact /\ ok /\ l.answer.graph = g
    /\ ok => l.answer # Nothing

LEMMA LoadAdvances ==
  ASSUME NEW l, LoadOK(l), NEW ok, NEW g, NEW next, Advanced(l, next, ok, g)
  PROVE  /\ GoesOn(next) => LoadOK(next)
         /\ \A c \in next.found : c.node = l.node
         /\ l.of = g /\ FoundAll(l, g) =>
               /\ FoundAll(next, g)
               /\ ~GoesOn(next) /\ next.exact => next.found = ChainsOf(g, l.node)
<1> DEFINE n == l.node
           all == Candidates(l.of, n)
           p == First(l.left)
<1>1. /\ l \in Loads /\ l.of \in DOMAIN Graphs /\ n \in Node(l.of)
      /\ l.left \in SUBSET all /\ l.left # {} /\ Cardinality(l.found) < MaxChains
      /\ \A i \in all \ l.left, j \in l.left : i < j
      /\ l.forward = Forward(l.of, n)
  BY DEF LoadOK, Loads, GoesOn, Tried
<1>2. all \in SUBSET Nat
  BY <1>1, CandidatesOf
<1>3. \A i \in Tried(next), j \in next.left : i < j
  BY <1>1, <1>2, InOrder DEF Tried, Advanced
<1>4. \A c \in next.found : c.node = n
  BY DEF LoadOK, Advanced
<1>5. GoesOn(next) => LoadOK(next)
  BY <1>1, <1>3, <1>4 DEF LoadOK, Advanced
<1>6. ASSUME l.of = g, FoundAll(l, g)
      PROVE  /\ FoundAll(next, g)
             /\ ~GoesOn(next) /\ next.exact => next.found = ChainsOf(g, n)
  <2>1. SUFFICES ASSUME next.exact
                 PROVE  /\ next.found = ChainsTo(g, n, all \ next.left)
                        /\ ~GoesOn(next) => next.found = ChainsOf(g, n)
    BY <1>6 DEF FoundAll, Tried, Advanced
  <2>2. /\ ok /\ l.exact /\ l.answer.graph = g
        /\ l.answer.found = HasChain(g, n, Forward(g, n), Graphs[g].nodes[p])
    BY <1>1, <1>6, <2>1 DEF LoadOK, End, Advanced
  <2>3. l.found = ChainsTo(g, n, all \ l.left)
    BY <1>6, <2>2 DEF FoundAll, Tried
  <2>4. next.found = IF HasChain(g, n, Forward(g, n), Graphs[g].nodes[p])
                     THEN l.found \cup {[node |-> n, end |-> Graphs[g].nodes[p]]} ELSE l.found
    BY <1>6, <2>2 DEF End, Advanced
  <2>5. /\ next.found = ChainsTo(g, n, all \ next.left)
        /\ next.left = {} \/ ~(Cardinality(next.found) < MaxChains) => next.found = ChainsOf(g, n)
    <3> DEFINE left == l.left
               rest == next.left
    <3>1. /\ g \in DOMAIN Graphs /\ n \in Node(g) /\ left \in SUBSET Candidates(g, n) /\ left # {}
          /\ \A i \in Candidates(g, n) \ left, j \in left : i < j
          /\ l.found = ChainsTo(g, n, Candidates(g, n) \ left)
          /\ Cardinality(ChainsTo(g, n, Candidates(g, n) \ left)) < MaxChains
      BY <1>1, <1>6, <2>3
    <3>2. next.found = l.found \cup ChainsTo(g, n, {First(left)})
      BY <2>4 DEF ChainsTo
    <3>3. rest = left \ {First(left)} /\ all = Candidates(g, n)
      BY <1>6 DEF Advanced
    <3> HIDE DEF n, left, rest, all
    <3> DEFINE more == ChainsTo(g, n, all \ rest)
    <3>4. /\ more = ChainsTo(g, n, Candidates(g, n) \ left) \cup ChainsTo(g, n, {First(left)})
          /\ rest = {} \/ ~(Cardinality(more) < MaxChains) => more = ChainsOf(g, n)
      BY <3>1, <3>3, OneTriedMore
    <3>5. next.found = more
      BY <3>1, <3>2, <3>4
    <3> HIDE DEF more
    <3>6. next.left = {} \/ ~(Cardinality(next.found) < MaxChains) => next.found = ChainsOf(g, n)
      BY <3>4, <3>5 DEF rest
    <3> QED
      BY <3>5, <3>6 DEF more, rest
  <2> QED
    BY <2>5 DEF GoesOn
<1> QED
  BY <1>4, <1>5, <1>6

ChainTypes ==
    /\ loads \in Seq(Loads) /\ Len(loads) <= 1
    /\ \A i \in DOMAIN loads : LoadOK(loads[i])
    /\ loading \in BOOLEAN
    /\ panel \in {"none", "chains"} => (loading <=> loads # <<>>)
    /\ panel # "chains" => loads = <<>>

(* Under the name of a node of the graph only its own chains are awaited.  *)
ChainsRight ==
    LET n == SelectedNode(data, selected) IN
    panel = "chains" /\ n # NoId =>
        /\ \A i \in DOMAIN loads :
              /\ loads[i].of = data /\ loads[i].node = n
              /\ FoundAll(loads[i], data)
        /\ \A c \in chains : c.node = n
        /\ loads = <<>> /\ exact => chains = ChainsOf(data, n)

ChainInv == ChainTypes /\ ChainsRight

LEMMA SelectedIsNode ==
  ASSUME NEW g \in DOMAIN Graphs \cup {Nothing}, NEW n, SelectedNode(g, n) # NoId
  PROVE  g \in DOMAIN Graphs /\ SelectedNode(g, n) \in Node(g)
  BY DEF SelectedNode

LEMMA NothingLoads ==
  ASSUME loads' = <<>>, loading' = FALSE
  PROVE  ChainTypes'
<1>1. loads' \in Seq(Loads) /\ Len(loads') = 0 /\ DOMAIN loads' = {}
  OBVIOUS
<1>2. loading' \in BOOLEAN
  BY Zenon
<1>3. ~loading'
  OBVIOUS
<1> QED
  BY <1>1, <1>2, <1>3 DEF ChainTypes

(* What the watcher of the selected node does, whatever changed it.        *)
LEMMA WatchPreserves ==
  ASSUME ChainInv, panel = "chains", panel' = "chains", WatchSelectedNode,
         data' \in DOMAIN Graphs \cup {Nothing}
  PROVE  ChainInv'
<1> DEFINE before == SelectedNode(data, selected)
           now == SelectedNode(data', selected')
           g == data'
<1>1. CASE now = before /\ (now = NoId \/ data' = data)
  <2>1. UNCHANGED <<chainVars, loading>>
    BY <1>1 DEF WatchSelectedNode
  <2>2. ChainTypes'
    BY <2>1 DEF ChainInv, ChainTypes, chainVars
  <2>3. ChainsRight'
    <3>1. CASE now = NoId
      BY <3>1 DEF ChainsRight
    <3>2. CASE now # NoId
      BY <1>1, <2>1, <3>2 DEF ChainInv, ChainsRight, chainVars
    <3> QED
      BY <3>1, <3>2
  <2> QED
    BY <2>2, <2>3 DEF ChainInv
<1>2. CASE ~(now = before /\ (now = NoId \/ data' = data)) /\ now # NoId
  <2> DEFINE l == Load(g, now)
  <2>1. /\ chains' = {} /\ exact' = TRUE
        /\ loads' = IF GoesOn(l) THEN <<l>> ELSE <<>>
        /\ loading' = GoesOn(l)
    BY <1>2 DEF WatchSelectedNode, LoadChainSummary, Begun
  <2>2. g \in DOMAIN Graphs /\ now \in Node(g)
    BY <1>2, SelectedIsNode
  <2> HIDE DEF l, now, g
  <2>3. /\ GoesOn(l) => LoadOK(l) /\ FoundAll(l, g)
        /\ l.node = now /\ l.of = g
        /\ ~GoesOn(l) => ChainsOf(g, now) = {}
    BY <2>2, LoadBegins DEF l
  <2>4. CASE GoesOn(l)
    <3>1. loads' = <<l>> /\ loading' = TRUE /\ l \in Loads
      BY <2>1, <2>3, <2>4 DEF LoadOK
    <3>2. /\ loads' \in Seq(Loads) /\ Len(loads') = 1 /\ loads' # <<>>
          /\ \A i \in DOMAIN loads' : loads'[i] = l
      BY <3>1
    <3>3. ChainTypes'
      BY <2>3, <2>4, <3>1, <3>2 DEF ChainTypes
    <3>4. ChainsRight'
      BY <2>1, <2>3, <2>4, <3>2 DEF ChainsRight, g, now
    <3> QED
      BY <3>3, <3>4 DEF ChainInv
  <2>5. CASE ~GoesOn(l)
    <3>1. loads' = <<>> /\ loading' = FALSE /\ chains' = {} /\ ChainsOf(g, now) = {}
      BY <2>1, <2>3, <2>5
    <3>2. loads' \in Seq(Loads) /\ Len(loads') = 0 /\ DOMAIN loads' = {}
      BY <3>1
    <3>3. ChainTypes'
      BY <3>1, NothingLoads
    <3>4. ChainsRight'
      BY <3>1, <3>2 DEF ChainsRight, g, now
    <3> QED
      BY <3>3, <3>4 DEF ChainInv
  <2> QED
    BY <2>4, <2>5
<1>3. CASE now # before /\ now = NoId
  <2>1. UNCHANGED <<loads, exact, loading>>
    BY <1>3 DEF WatchSelectedNode
  <2>2. ChainTypes'
    BY <2>1 DEF ChainInv, ChainTypes
  <2>3. ChainsRight'
    BY <1>3 DEF ChainsRight
  <2> QED
    BY <2>2, <2>3 DEF ChainInv
<1> QED
  BY <1>1, <1>2, <1>3

LEMMA ServePathPreserves ==
  ASSUME ChainInv, ServePath, served \in DOMAIN Graphs
  PROVE  ChainInv'
<1>1. PICK i \in DOMAIN loads :
         /\ loads[i].answer = Nothing
         /\ loads' = [loads EXCEPT ![i].answer =
                [graph |-> served,
                 found |-> HasChain(served, loads[i].node, loads[i].forward, End(loads[i]))]]
  BY DEF ServePath
<1>2. UNCHANGED <<vars, panel, loading, chains, exact>>
  BY DEF ServePath
<1> DEFINE l == loads[i]
           has == HasChain(served, l.node, l.forward, End(l))
           a == [graph |-> served, found |-> has]
           m == [l EXCEPT !.answer = a]
<1>3. LoadOK(l) /\ l \in Loads /\ loads \in Seq(Loads)
  BY DEF ChainInv, ChainTypes, LoadOK
<1>4. has \in BOOLEAN
  <2>1. l.forward \in BOOLEAN
    BY <1>3 DEF Loads
  <2> QED
    BY <2>1, HasChainBoolean
<1> HIDE DEF has
<1>5. a \in [graph : DOMAIN Graphs, found : BOOLEAN] /\ a.graph = served /\ a.found = has
  BY <1>4
<1> HIDE DEF a
<1>6. /\ m \in Loads /\ m.node = l.node /\ m.of = l.of /\ m.forward = l.forward
      /\ m.left = l.left /\ m.found = l.found /\ m.exact = l.exact /\ m.answer = a
  BY <1>3, <1>5 DEF Loads
<1>7. loads' = [loads EXCEPT ![i] = m]
  BY <1>1, <1>3 DEF a, has
<1> HIDE DEF m
<1>8. LoadOK(m)
  <2>1. End(m) = End(l) /\ Tried(m) = Tried(l) /\ (GoesOn(l) => GoesOn(m))
    BY <1>6 DEF End, Tried, GoesOn
  <2>2. m.answer.found = HasChain(m.answer.graph, m.node, m.forward, End(m))
    BY <1>5, <1>6, <2>1 DEF has
  <2> QED
    BY <1>3, <1>6, <2>1, <2>2 DEF LoadOK
<1>9. /\ loads' \in Seq(Loads) /\ Len(loads') = Len(loads) /\ DOMAIN loads' = DOMAIN loads
      /\ \A j \in DOMAIN loads : loads'[j] = IF j = i THEN m ELSE loads[j]
      /\ loads # <<>> /\ loads' # <<>>
  BY <1>3, <1>6, <1>7
<1>10. UNCHANGED <<data, selected>>
  BY <1>2 DEF vars, filterVars, selVars, trailVars
<1>11. \A g : FoundAll(l, g) => FoundAll(m, g)
  BY <1>6 DEF FoundAll, Tried
<1>12. ChainTypes'
  BY <1>2, <1>8, <1>9 DEF ChainInv, ChainTypes
<1>13. ChainsRight'
  BY <1>2, <1>6, <1>9, <1>10, <1>11 DEF ChainInv, ChainsRight
<1> QED
  BY <1>12, <1>13 DEF ChainInv

LEMMA PathAnsweredPreserves ==
  ASSUME ChainInv, PathAnswered, data \in DOMAIN Graphs \cup {Nothing}
  PROVE  ChainInv'
<1>1. PICK i \in DOMAIN loads, ok \in BOOLEAN :
         LET l == loads[i]
             next == [l EXCEPT !.left = @ \ {First(@)}, !.answer = Nothing,
                               !.found = IF ok /\ l.answer.found
                                         THEN @ \cup {[node |-> l.node, end |-> End(l)]} ELSE @,
                               !.exact = @ /\ ok /\ l.answer.graph = data] IN
         /\ ok => l.answer # Nothing
         /\ IF GoesOn(next)
            THEN loads' = [loads EXCEPT ![i] = next] /\ UNCHANGED <<loading, chains, exact>>
            ELSE /\ loads' = RemoveAt(loads, i)
                 /\ loading' = FALSE
                 /\ chains' = next.found /\ exact' = next.exact
  BY DEF PathAnswered
<1>2. UNCHANGED <<panel, data, selected>>
  BY DEF PathAnswered, vars, filterVars, selVars, trailVars
<1>0. i = 1 /\ Len(loads) = 1 /\ loads \in Seq(Loads)
  <2>1. i \in 1..Len(loads) /\ Len(loads) \in Nat /\ Len(loads) <= 1 /\ loads \in Seq(Loads)
    BY DEF ChainInv, ChainTypes
  <2> DEFINE k == Len(loads)
  <2>2. i \in 1..k /\ k \in Nat /\ k <= 1
    BY <2>1
  <2> HIDE DEF k
  <2>3. i = 1 /\ k = 1
    BY <2>2
  <2> QED
    BY <2>1, <2>3 DEF k
<1> DEFINE l == loads[i]
           f == IF ok /\ l.answer.found
                THEN l.found \cup {[node |-> l.node, end |-> End(l)]} ELSE l.found
           x == l.exact /\ ok /\ l.answer.graph = data
           next == [l EXCEPT !.left = l.left \ {First(l.left)}, !.answer = Nothing,
                             !.found = f, !.exact = x]
<1>3. /\ LoadOK(l) /\ l \in Loads /\ loads \in Seq(Loads) /\ Len(loads) <= 1
      /\ i \in 1..Len(loads) /\ Len(loads) \in Nat /\ panel = "chains"
  BY DEF ChainInv, ChainTypes, LoadOK
<1>4. loads = <<l>> /\ i = 1 /\ Len(loads) = 1 /\ DOMAIN loads = {1}
  <2>1. i = 1 /\ Len(loads) = 1
    BY <1>0
  <2>2. DOMAIN loads = {1}
    BY <1>3, <2>1
  <2>3. loads = <<loads[1]>>
    BY <1>3, <2>1
  <2> QED
    BY <2>1, <2>2, <2>3
<1>5. f \in SUBSET [node : NodeIds, end : NodeIds]
  <2>1. First(l.left) \in Candidates(l.of, l.node)
    <3>1. /\ l.of \in DOMAIN Graphs /\ l.node \in Node(l.of) /\ l.left # {}
          /\ l.left \subseteq Candidates(l.of, l.node)
      BY <1>3 DEF LoadOK, Loads, GoesOn
    <3>2. l.left \in SUBSET Nat
      BY <3>1, CandidatesOf
    <3> QED
      BY <3>1, <3>2, FirstIsLeast
  <2>2. End(l) \in NodeIds
    <3>1. l.of \in DOMAIN Graphs /\ l.node \in Node(l.of)
      BY <1>3 DEF LoadOK, Loads
    <3> QED
      BY <2>1, <3>1, CandidatesOf, NamesOfGraph DEF End
  <2> QED
    BY <1>3, <2>2 DEF Loads
<1>6. x \in BOOLEAN
  BY <1>3 DEF Loads
<1> HIDE DEF f, x
<1>7. /\ next \in Loads
      /\ next.node = l.node /\ next.of = l.of /\ next.forward = l.forward
      /\ next.left = l.left \ {First(l.left)} /\ next.answer = Nothing
      /\ next.found = f /\ next.exact = x
  BY <1>3, <1>5, <1>6 DEF Loads
<1>8. /\ ok => l.answer # Nothing
      /\ IF GoesOn(next)
         THEN loads' = [loads EXCEPT ![i] = next] /\ UNCHANGED <<loading, chains, exact>>
         ELSE /\ loads' = RemoveAt(loads, i)
              /\ loading' = FALSE
              /\ chains' = next.found /\ exact' = next.exact
  BY <1>1 DEF f, x
<1> HIDE DEF next
<1>12. Advanced(l, next, ok, data)
  BY <1>7, <1>8 DEF Advanced, f, x
<1> HIDE DEF l
<1>9. /\ GoesOn(next) => LoadOK(next)
      /\ \A c \in next.found : c.node = l.node
      /\ l.of = data /\ FoundAll(l, data) =>
            /\ FoundAll(next, data)
            /\ ~GoesOn(next) /\ next.exact => next.found = ChainsOf(data, l.node)
  BY <1>3, <1>12, LoadAdvances
<1>10. CASE GoesOn(next)
  <2>1. loads' = <<next>> /\ UNCHANGED <<loading, chains, exact>>
    BY <1>4, <1>8, <1>10
  <2>2. /\ loads' \in Seq(Loads) /\ Len(loads') = 1 /\ loads' # <<>> /\ loads # <<>>
        /\ \A j \in DOMAIN loads' : loads'[j] = next
    BY <1>4, <1>7, <2>1
  <2>3. ChainTypes'
    BY <1>2, <1>9, <1>10, <2>1, <2>2 DEF ChainInv, ChainTypes
  <2>4. ChainsRight'
    BY <1>2, <1>4, <1>7, <1>9, <2>1, <2>2 DEF ChainInv, ChainsRight, l
  <2> QED
    BY <2>3, <2>4 DEF ChainInv
<1>11. CASE ~GoesOn(next)
  <2>1. loads' = RemoveAt(loads, i) /\ loading' = FALSE
        /\ chains' = next.found /\ exact' = next.exact
    BY <1>8, <1>11
  <2>2. loads' \in Seq(Loads) /\ Len(loads') = 0
    <3>1. /\ RemoveAt(loads, i) \in Seq(Loads)
          /\ Len(RemoveAt(loads, i)) = Len(loads) - 1
      BY <1>3, OneLess
    <3> QED
      BY <1>4, <2>1, <3>1
  <2>3. loads' = <<>> /\ DOMAIN loads' = {}
    BY <2>2
  <2>4. ChainTypes'
    BY <2>1, <2>3, NothingLoads
  <2>5. ChainsRight'
    BY <1>2, <1>4, <1>9, <1>11, <2>1, <2>3 DEF ChainInv, ChainsRight, l
  <2> QED
    BY <2>4, <2>5 DEF ChainInv
<1> QED
  BY <1>10, <1>11
---------------------------------------------------------------------------
(* The panels that show one answer at a time.                              *)
About == Key \cup {Blank} \cup (Key \X Key)

Asks == [about : About, mine : BOOLEAN, half : BOOLEAN]

AskTypes ==
    /\ asked \in Seq(Asks)
    /\ want \in About \cup {Nothing} /\ due \in About \cup {Nothing}

(* Where nothing is asked, and where a timer may be set.                   *)
AskIdle ==
    /\ panel \in {"none", "chains"} =>
          asked = <<>> /\ due = Nothing /\ shown = Nothing /\ ~late
    /\ panel = "none" => ~loading
    /\ due # Nothing => panel \in {"diff", "box", "palette"}
    /\ panel = "diff" /\ due # Nothing => want = due

(* Who says that it loads waits for an answer of its own.                  *)
AskLoading ==
    panel # "chains" /\ loading => \E i \in DOMAIN asked : asked[i].mine

(* As long as no answer is late, at most one is under way: for what is     *)
(* wanted.                                                                 *)
AskLast ==
    /\ ~late /\ due = Nothing /\ asked # <<>> =>
          /\ Len(asked) = 1 /\ asked[1].about = want /\ asked[1].mine
          /\ panel = "slice" => shown = Nothing
          /\ asked[1].half => shown = want
    /\ ~late /\ due = Nothing /\ asked = <<>> =>
          /\ shown \in {want, Nothing}
          /\ panel = "impact" /\ shown # Nothing => marks = shown

AskInv == AskTypes /\ AskIdle /\ AskLoading /\ AskLast

LEMMA NothingToAsk == Nothing \notin About
  BY PanelAssumption DEF About

LEMMA OneAsked ==
  ASSUME AskInv, NEW k \in About, asked' = Append(asked, Request(k))
  PROVE  /\ asked' \in Seq(Asks) /\ asked' # <<>>
         /\ \E i \in DOMAIN asked' : asked'[i].mine
         /\ asked = <<>> => /\ Len(asked') = 1 /\ asked'[1].about = k
                            /\ asked'[1].mine /\ ~asked'[1].half
<1> DEFINE r == Request(k)
<1>1. r \in Asks /\ r.about = k /\ r.mine /\ ~r.half
  BY DEF Request, Asks
<1> HIDE DEF r
<1>2. asked \in Seq(Asks) /\ asked' = Append(asked, r)
  BY DEF AskInv, AskTypes, r
<1>3. /\ asked' \in Seq(Asks) /\ asked' # <<>> /\ Len(asked') = Len(asked) + 1
      /\ Len(asked) + 1 \in DOMAIN asked' /\ asked'[Len(asked) + 1] = r
  BY <1>1, <1>2
<1>4. asked = <<>> => Len(asked') = 1 /\ asked'[1] = r
  BY <1>3
<1> QED
  BY <1>1, <1>3, <1>4

LEMMA OneAnswered ==
  ASSUME AskInv, NEW i \in DOMAIN asked, asked' = RemoveAt(asked, i)
  PROVE  /\ asked' \in Seq(Asks)
         /\ Len(asked) = 1 => asked' = <<>> /\ i = 1
         /\ (\E j \in DOMAIN asked : asked[j].mine) /\ ~asked[i].mine
               => \E j \in DOMAIN asked' : asked'[j].mine
<1>1. asked \in Seq(Asks)
  BY DEF AskInv, AskTypes
<1>2. /\ asked' \in Seq(Asks) /\ Len(asked') = Len(asked) - 1
      /\ \A k \in DOMAIN asked \ {i} : \E j \in DOMAIN asked' : asked'[j] = asked[k]
  BY <1>1, OneLess
<1>3. Len(asked) = 1 => asked' = <<>> /\ i = 1
  BY <1>1, <1>2
<1> QED
  BY <1>2, <1>3

(* A panel that asks for what it wants from now on.                        *)
LEMMA AskPreserves ==
  ASSUME AskInv, Ask(want'), want' \in About, loading' = TRUE, UNCHANGED due,
         panel' \notin {"none", "chains"}, due = Nothing,
         panel' = "slice" => shown' = Nothing
  PROVE  AskInv'
<1>1. asked' = Append(asked, Request(want')) /\ (~late' => asked = <<>>)
  BY DEF Ask
<1> DEFINE k == want'
<1>2. k \in About /\ asked' = Append(asked, Request(k))
  BY <1>1
<1> HIDE DEF k
<1>3. /\ asked' \in Seq(Asks) /\ asked' # <<>>
      /\ \E i \in DOMAIN asked' : asked'[i].mine
      /\ asked = <<>> => /\ Len(asked') = 1 /\ asked'[1].about = k
                         /\ asked'[1].mine /\ ~asked'[1].half
  BY <1>2, OneAsked
<1> QED
  BY <1>1, <1>3 DEF AskInv, AskTypes, AskIdle, AskLoading, AskLast, k

LEMMA AnswerPreserves ==
  ASSUME AskInv, ChainInv, Answer
  PROVE  AskInv'
<1>1. PICK i \in DOMAIN asked, outcome \in {"ok", "refused", "thrown"} :
         /\ asked' = RemoveAt(asked, i)
         /\ shown' = CASE outcome = "ok" -> asked[i].about
                       [] outcome # "ok" /\ (panel = "slice" \/ (panel = "diff" /\ outcome = "thrown"))
                            -> shown
                       [] OTHER -> Nothing
         /\ late' = (late \/ (panel = "diff" /\ outcome = "thrown"))
  BY DEF Answer
<1>2. loading' = FALSE /\ UNCHANGED <<panel, want, marks, due>> /\ panel # "impact"
  BY DEF Answer
<1>3. /\ asked' \in Seq(Asks)
      /\ Len(asked) = 1 => asked' = <<>> /\ i = 1
  BY <1>1, OneAnswered
<1>4. asked # <<>> /\ panel \notin {"none", "chains"}
  BY DEF AskInv, AskIdle
<1>5. AskTypes' /\ AskIdle' /\ AskLoading'
  BY <1>2, <1>3, <1>4 DEF AskInv, AskTypes, AskIdle, AskLoading
<1>6. ASSUME ~late', due' = Nothing
      PROVE  asked' = <<>> /\ shown' \in {want', Nothing}
  <2>1. ~late /\ due = Nothing /\ ~(panel = "diff" /\ outcome = "thrown")
    BY <1>1, <1>2, <1>6
  <2>2. /\ Len(asked) = 1 /\ asked[1].about = want
        /\ panel = "slice" => shown = Nothing
    BY <1>4, <2>1 DEF AskInv, AskLast
  <2>3. asked' = <<>> /\ i = 1
    BY <1>3, <2>2
  <2>4. shown' \in {asked[i].about, Nothing}
    BY <1>1, <2>1, <2>2
  <2> QED
    BY <1>2, <2>2, <2>3, <2>4
<1>7. AskLast'
  BY <1>2, <1>6 DEF AskLast
<1> QED
  BY <1>5, <1>7 DEF AskInv

LEMMA ReopenPreserves ==
  ASSUME AskInv, ReopenImpact, UNCHANGED panel
  PROVE  AskInv'
<1>1. /\ panel = "impact" /\ want' = Nothing /\ shown' = Nothing /\ loading' = FALSE
      /\ asked' = [i \in DOMAIN asked |-> [asked[i] EXCEPT !.mine = FALSE]]
      /\ (~late' => asked = <<>>) /\ UNCHANGED <<marks, due>>
  BY DEF ReopenImpact
<1>2. asked \in Seq(Asks)
  BY DEF AskInv, AskTypes
<1>3. ASSUME NEW r \in Asks
      PROVE  [r EXCEPT !.mine = FALSE] \in Asks
  BY DEF Asks
<1>4. asked' \in [1..Len(asked) -> Asks] /\ Len(asked) \in Nat
  BY <1>1, <1>2, <1>3
<1>5. asked' \in Seq(Asks)
  BY <1>4
<1>6. asked = <<>> => asked' = <<>>
  BY <1>1
<1> QED
  BY <1>1, <1>5, <1>6 DEF AskInv, AskTypes, AskIdle, AskLoading, AskLast

LEMMA UserAsksPreserves ==
  ASSUME AskInv, UserAsks
  PROVE  AskInv'
<1>1. UNCHANGED panel
  BY DEF UserAsks, Done
<1>2. ASSUME NEW k \in Key, FetchMatrix(k) \/ RefreshGit(k) \/ LoadSnippet(k)
      PROVE  AskInv'
  <2>1. /\ want' = k /\ loading' = TRUE /\ Ask(want') /\ UNCHANGED <<shown, marks, due>>
        /\ panel \in {"matrix", "git", "snippet"}
    BY <1>2 DEF FetchMatrix, RefreshGit, LoadSnippet, AskNow
  <2>2. want' \in About /\ due = Nothing
    BY <2>1 DEF About, AskInv, AskIdle
  <2> QED
    BY <1>1, <2>1, <2>2, AskPreserves
<1>3. ASSUME NEW k \in Key, Pick(k) \/ AnalyzeImpact(k)
      PROVE  AskInv'
  <2>1. /\ want' = k /\ loading' = TRUE /\ Ask(want') /\ shown' = Nothing
        /\ UNCHANGED <<marks, due>> /\ panel \in {"slice", "impact"}
    BY <1>3 DEF Pick, AnalyzeImpact
  <2>2. want' \in About /\ due = Nothing
    BY <2>1 DEF About, AskInv, AskIdle
  <2> QED
    BY <1>1, <2>1, <2>2, AskPreserves
<1>4. ASSUME NEW k \in Key, SelectFrom(k)
      PROVE  AskInv'
  <2>1. /\ panel = "box" /\ want' = k /\ shown' = Nothing
        /\ (~late' => asked = <<>> /\ due = Nothing)
        /\ UNCHANGED <<marks, due, asked, loading>> /\ want' \in About
    BY <1>4 DEF SelectFrom, About
  <2> QED
    BY <1>1, <2>1 DEF AskInv, AskTypes, AskIdle, AskLoading, AskLast
<1>5. ASSUME NEW k \in About, Slide(k) \/ SearchFrom(k)
      PROVE  AskInv'
  <2>1. /\ panel \in {"diff", "box"} /\ want' = k /\ due' = k /\ due' # Nothing
        /\ UNCHANGED <<shown, marks, asked, loading, late>>
    BY <1>5, NothingToAsk DEF Slide, SearchFrom
  <2> QED
    BY <1>1, <2>1 DEF AskInv, AskTypes, AskIdle, AskLoading, AskLast
<1>6. ASSUME NEW k \in Key \cup {Blank}, TypeInPalette(k)
      PROVE  AskInv'
  <2>1. /\ panel = "palette" /\ want' = k /\ due' \in {k, Nothing} /\ shown' = Nothing
        /\ (~late' => asked = <<>>)
        /\ UNCHANGED <<marks, loading, asked>> /\ k \in About
    BY <1>6 DEF TypeInPalette, Shows, About
  <2> QED
    BY <1>1, <2>1 DEF AskInv, AskTypes, AskIdle, AskLoading, AskLast
<1>7. ASSUME ClearImpact
      PROVE  AskInv'
  <2>1. /\ panel = "impact" /\ shown' = Nothing /\ (~late' => asked = <<>>)
        /\ UNCHANGED <<want, due, loading, asked>>
    BY <1>7 DEF ClearImpact, Shows
  <2> QED
    BY <1>1, <2>1 DEF AskInv, AskTypes, AskIdle, AskLoading, AskLast
<1>8. ASSUME ReopenImpact
      PROVE  AskInv'
  BY <1>1, <1>8, ReopenPreserves
<1> QED
  BY <1>2, <1>3, <1>4, <1>5, <1>6, <1>7, <1>8 DEF UserAsks, About

LEMMA DueComesPreserves ==
  ASSUME AskInv, DueComes
  PROVE  AskInv'
<1>1. UNCHANGED panel
  BY DEF DueComes
<1>2. CASE LoadDiff
  <2>1. panel = "diff" /\ due # Nothing /\ due' = Nothing /\ UNCHANGED <<want, marks>>
    BY <1>2 DEF LoadDiff
  <2>2. want \in About
    BY <2>1 DEF AskInv, AskTypes, AskIdle
  <2>3. CASE want[1] = want[2]
    <3>1. shown' = Nothing /\ (~late' => asked = <<>>) /\ UNCHANGED <<asked, loading>>
      BY <1>2, <2>3 DEF LoadDiff, Shows
    <3> QED
      BY <1>1, <2>1, <3>1 DEF AskInv, AskTypes, AskIdle, AskLoading, AskLast
  <2>4. CASE want[1] # want[2]
    <3>1. /\ asked' = Append(asked, Request(want)) /\ (~late' => asked = <<>>)
          /\ loading' = TRUE /\ UNCHANGED shown
      BY <1>2, <2>4 DEF LoadDiff, Ask
    <3>2. /\ asked' \in Seq(Asks) /\ asked' # <<>>
          /\ \E i \in DOMAIN asked' : asked'[i].mine
          /\ asked = <<>> => /\ Len(asked') = 1 /\ asked'[1].about = want
                             /\ asked'[1].mine /\ ~asked'[1].half
      BY <2>2, <3>1, OneAsked
    <3> QED
      BY <1>1, <2>1, <3>1, <3>2 DEF AskInv, AskTypes, AskIdle, AskLoading, AskLast
  <2> QED
    BY <2>3, <2>4
<1>3. CASE TimerFires
  <2>1. /\ panel \in {"box", "palette"} /\ due # Nothing /\ due' = Nothing
        /\ (~late' => asked = <<>> /\ due = want) /\ UNCHANGED <<want, marks, loading>>
    BY <1>3 DEF TimerFires
  <2>2. due \in About
    BY <2>1 DEF AskInv, AskTypes
  <2>3. CASE due = Blank
    <3>1. shown' = Nothing /\ UNCHANGED asked
      BY <1>3, <2>3 DEF TimerFires
    <3> QED
      BY <1>1, <2>1, <3>1 DEF AskInv, AskTypes, AskIdle, AskLoading, AskLast
  <2>4. CASE due # Blank
    <3>1. asked' = Append(asked, Request(due)) /\ UNCHANGED shown
      BY <1>3, <2>4 DEF TimerFires
    <3>2. /\ asked' \in Seq(Asks) /\ asked' # <<>>
          /\ \E i \in DOMAIN asked' : asked'[i].mine
          /\ asked = <<>> => /\ Len(asked') = 1 /\ asked'[1].about = due
                             /\ asked'[1].mine /\ ~asked'[1].half
      BY <2>2, <3>1, OneAsked
    <3> QED
      BY <1>1, <2>1, <3>1, <3>2 DEF AskInv, AskTypes, AskIdle, AskLoading, AskLast
  <2> QED
    BY <2>3, <2>4
<1> QED
  BY <1>2, <1>3 DEF DueComes

LEMMA ImpactPreserves ==
  ASSUME AskInv, ImpactAnswer
  PROVE  AskInv'
<1>1. panel = "impact" /\ UNCHANGED <<panel, want, due, late>>
  BY DEF ImpactAnswer
<1>2. PICK i \in DOMAIN asked : ImpactShown(i) \/ ImpactMarked(i) \/ ImpactFails(i)
  BY DEF ImpactAnswer
<1>3. asked \in Seq(Asks) /\ asked[i] \in Asks /\ asked # <<>> /\ due = Nothing
  BY <1>1 DEF AskInv, AskTypes, AskIdle
<1>4. ~late => /\ Len(asked) = 1 /\ i = 1 /\ asked[i].about = want /\ asked[i].mine
               /\ asked[i].half => shown = want
  BY <1>3 DEF AskInv, AskLast
<1>5. CASE ImpactShown(i)
  <2> DEFINE r == [asked[i] EXCEPT !.half = TRUE]
  <2>1. /\ asked' = [asked EXCEPT ![i] = r]
        /\ shown' = IF asked[i].mine THEN asked[i].about ELSE shown
        /\ UNCHANGED <<marks, loading>>
    BY <1>3, <1>5 DEF ImpactShown
  <2>2. r \in Asks /\ r.mine = asked[i].mine /\ r.about = asked[i].about
    BY <1>3 DEF Asks
  <2> HIDE DEF r
  <2>3. /\ asked' \in Seq(Asks) /\ Len(asked') = Len(asked) /\ DOMAIN asked' = DOMAIN asked
        /\ \A j \in DOMAIN asked : asked'[j] = IF j = i THEN r ELSE asked[j]
        /\ asked' # <<>>
    BY <1>3, <2>1, <2>2
  <2>4. \A j \in DOMAIN asked : asked[j].mine => asked'[j].mine
    BY <2>2, <2>3
  <2>5. AskTypes' /\ AskIdle' /\ AskLoading'
    BY <1>1, <2>1, <2>3, <2>4 DEF AskInv, AskTypes, AskIdle, AskLoading
  <2>6. ~late => asked'[1] = r /\ r.about = want /\ r.mine /\ shown' = want
    BY <1>3, <1>4, <2>1, <2>2, <2>3
  <2>7. AskLast'
    BY <1>1, <1>4, <2>3, <2>6 DEF AskLast
  <2> QED
    BY <2>5, <2>7 DEF AskInv
<1>6. CASE ImpactMarked(i) \/ ImpactFails(i)
  <2>1. asked' = RemoveAt(asked, i) /\ (loading' => loading /\ ~asked[i].mine)
    BY <1>6 DEF ImpactMarked, ImpactFails
  <2>2. /\ asked' \in Seq(Asks)
        /\ Len(asked) = 1 => asked' = <<>> /\ i = 1
        /\ (\E j \in DOMAIN asked : asked[j].mine) /\ ~asked[i].mine
              => \E j \in DOMAIN asked' : asked'[j].mine
    BY <2>1, OneAnswered
  <2>3. AskTypes' /\ AskIdle' /\ AskLoading'
    BY <1>1, <2>1, <2>2 DEF AskInv, AskTypes, AskIdle, AskLoading
  <2>4. ~late => asked' = <<>> /\ (shown' = Nothing \/ (shown' = want /\ marks' = shown'))
    BY <1>4, <1>6, <2>2 DEF ImpactMarked, ImpactFails
  <2>5. AskLast'
    BY <1>1, <2>4 DEF AskLast
  <2> QED
    BY <2>3, <2>5 DEF AskInv
<1> QED
  BY <1>2, <1>5, <1>6
---------------------------------------------------------------------------
(* A step beside the panels, and a panel that is opened.                   *)
LEMMA BesidePreserves ==
  ASSUME ChainInv, AskInv, panel = "none", UNCHANGED panelVars
  PROVE  ChainInv' /\ AskInv'
<1>1. UNCHANGED <<panel, want, shown, marks, due, asked, late, loading, loads, chains, exact>>
  BY DEF panelVars, askVars, chainVars
<1>2. ChainTypes'
  BY <1>1 DEF ChainInv, ChainTypes
<1>3. ChainsRight'
  BY <1>1 DEF ChainsRight
<1>4. AskTypes' /\ AskIdle'
  BY <1>1 DEF AskInv, AskTypes, AskIdle
<1>5. AskLoading' /\ AskLast'
  BY <1>1 DEF AskInv, AskLoading, AskLast
<1> QED
  BY <1>2, <1>3, <1>4, <1>5 DEF ChainInv, AskInv

LEMMA OpenPreserves ==
  ASSUME ChainInv, AskInv, OpenPanel
  PROVE  ChainInv' /\ AskInv'
<1>1. /\ panel = "none" /\ panel' # "none" /\ data' = Nothing
      /\ UNCHANGED <<loads, chains, exact>>
  BY DEF OpenPanel, vars, filterVars, chainVars
<1>2. /\ loads = <<>> /\ asked = <<>> /\ due = Nothing /\ shown = Nothing
      /\ ~late /\ ~loading
  BY <1>1 DEF ChainInv, ChainTypes, AskInv, AskIdle
<1>3. ChainsRight'
  BY <1>1 DEF ChainsRight, SelectedNode
<1>4. CASE Opening(panel') = {}
  <2>1. UNCHANGED <<want, shown, marks, due, asked, late, loading>>
    BY <1>4 DEF OpenPanel, askVars
  <2>2. ChainTypes'
    BY <1>1, <1>2, <2>1 DEF ChainInv, ChainTypes
  <2>3. AskInv'
    BY <1>1, <1>2, <2>1 DEF AskInv, AskTypes, AskIdle, AskLoading, AskLast
  <2> QED
    BY <1>3, <2>2, <2>3 DEF ChainInv
<1>5. CASE Opening(panel') # {}
  <2>1. /\ want' \in Opening(panel') /\ loading' = TRUE /\ Ask(want')
        /\ UNCHANGED <<shown, marks, due>>
    BY <1>5 DEF OpenPanel
  <2>2. panel' \in {"matrix", "git", "slice", "diff"}
    BY <1>5 DEF Opening
  <2>3. want' \in About
    BY <2>1, <2>2, PanelAssumption DEF Opening, About
  <2>4. ChainTypes'
    BY <1>1, <1>2, <2>1, <2>2 DEF ChainInv, ChainTypes
  <2>5. AskInv'
    BY <1>2, <2>1, <2>2, <2>3, AskPreserves
  <2> QED
    BY <1>3, <2>4, <2>5 DEF ChainInv
<1> QED
  BY <1>4, <1>5

(* The panels that ask have no chains, and the chains ask nothing.         *)
LEMMA AsksLeaveChains ==
  ASSUME ChainInv, AskInv, UserAsks \/ DueComes \/ Answer \/ ImpactAnswer,
         AskInv'
  PROVE  ChainInv'
<1>1. UNCHANGED <<panel, chainVars>> /\ panel \notin {"none", "chains"}
  <2>1. CASE UserAsks
    BY <2>1 DEF UserAsks, Done, FetchMatrix, RefreshGit, LoadSnippet, Pick, SelectFrom,
       AnalyzeImpact, Slide, SearchFrom, TypeInPalette, ClearImpact, ReopenImpact
  <2>2. CASE DueComes
    BY <2>2 DEF DueComes, LoadDiff, TimerFires
  <2>3. CASE Answer
    BY <2>3 DEF Answer, AskInv, AskIdle
  <2>4. CASE ImpactAnswer
    BY <2>4 DEF ImpactAnswer
  <2> QED
    BY <2>1, <2>2, <2>3, <2>4
<1>2. loading' \in BOOLEAN
  <2>1. loading \in BOOLEAN
    BY DEF ChainInv, ChainTypes
  <2>2. CASE UserAsks
    BY <2>1, <2>2, Zenon DEF UserAsks, FetchMatrix, RefreshGit, LoadSnippet, AskNow, Pick,
       SelectFrom, AnalyzeImpact, Slide, SearchFrom, TypeInPalette, ClearImpact, ReopenImpact
  <2>3. CASE DueComes
    BY <2>1, <2>3, Zenon DEF DueComes, LoadDiff, TimerFires
  <2>4. CASE Answer
    BY <2>4, Zenon DEF Answer
  <2>5. CASE ImpactAnswer
    BY <2>1, <2>5, Zenon DEF ImpactAnswer, ImpactShown, ImpactMarked, ImpactFails
  <2> QED
    BY <2>2, <2>3, <2>4, <2>5
<1>3. ChainTypes'
  BY <1>1, <1>2 DEF ChainInv, ChainTypes, chainVars
<1>4. ChainsRight'
  BY <1>1 DEF ChainsRight
<1> QED
  BY <1>3, <1>4 DEF ChainInv

LEMMA ChainsAskNothing ==
  ASSUME AskInv, panel = "chains", panel' = "chains", UNCHANGED askVars
  PROVE  AskInv'
<1>1. UNCHANGED <<want, shown, marks, due, asked, late>>
  BY DEF askVars
<1> QED
  BY <1>1 DEF AskInv, AskTypes, AskIdle, AskLoading, AskLast

LEMMA PanelsPreserved ==
  ASSUME DrawInv, DrawInv', ChainInv, AskInv, PanelNext
  PROVE  ChainInv' /\ AskInv'
<1>1. /\ served \in DOMAIN Graphs /\ data \in DOMAIN Graphs \cup {Nothing}
      /\ data' \in DOMAIN Graphs \cup {Nothing}
  BY DEF DrawInv, ViewTypes
<1>2. CASE panel = "none" /\ Next /\ UNCHANGED panelVars
  BY <1>2, BesidePreserves
<1>3. CASE OpenPanel
  BY <1>3, OpenPreserves
<1>4. CASE SelectBeside \/ GraphBeside
  <2>1. /\ panel = "chains" /\ panel' = "chains" /\ WatchSelectedNode /\ UNCHANGED askVars
    BY <1>4 DEF SelectBeside, GraphBeside, Done
  <2> QED
    BY <1>1, <2>1, WatchPreserves, ChainsAskNothing
<1>5. CASE ServePath \/ PathAnswered
  <2>1. /\ \E i \in DOMAIN loads : TRUE
        /\ UNCHANGED <<panel, askVars>>
    BY <1>5, Zenon DEF ServePath, PathAnswered
  <2>2. panel = "chains"
    BY <2>1 DEF ChainInv, ChainTypes
  <2> QED
    BY <1>1, <1>5, <2>1, <2>2, ServePathPreserves, PathAnsweredPreserves, ChainsAskNothing
<1>6. CASE UserAsks \/ DueComes \/ Answer \/ ImpactAnswer
  <2>1. AskInv'
    BY <1>6, UserAsksPreserves, DueComesPreserves, AnswerPreserves, ImpactPreserves
  <2> QED
    BY <1>6, <2>1, AsksLeaveChains
<1> QED
  BY <1>2, <1>3, <1>4, <1>5, <1>6 DEF PanelNext

LEMMA PanelsInitial ==
  ASSUME PanelInit
  PROVE  ChainInv /\ AskInv
<1>1. /\ panel = "none" /\ want = Nothing /\ shown = Nothing /\ due = Nothing
      /\ asked = <<>> /\ loading = FALSE /\ late = FALSE /\ loads = <<>>
  BY DEF PanelInit
<1>2. loading \in BOOLEAN
  BY <1>1, Zenon
<1>3. loads \in Seq(Loads) /\ Len(loads) = 0 /\ DOMAIN loads = {} /\ asked \in Seq(Asks)
  BY <1>1
<1>4. ChainTypes
  BY <1>1, <1>2, <1>3 DEF ChainTypes
<1>5. ChainsRight
  BY <1>1 DEF ChainsRight
<1>6. AskInv
  BY <1>1, <1>3 DEF AskInv, AskTypes, AskIdle, AskLoading, AskLast
<1> QED
  BY <1>4, <1>5, <1>6 DEF ChainInv

LEMMA PanelsFollow ==
  ASSUME ChainInv, AskInv
  PROVE  PanelsCurrent
<1>1. ChainsOwn
  <2>1. SUFFICES ASSUME panel = "chains", SelectedNode(data, selected) # NoId
                 PROVE  /\ \A c \in chains : c.node = SelectedNode(data, selected)
                        /\ loading = (loads # <<>>)
    BY DEF ChainsOwn
  <2>2. \A c \in chains : c.node = SelectedNode(data, selected)
    BY <2>1 DEF ChainInv, ChainsRight
  <2>3. loading \in BOOLEAN /\ (loading <=> loads # <<>>)
    BY <2>1 DEF ChainInv, ChainTypes
  <2>4. loading = (loads # <<>>)
    BY <2>3, Zenon
  <2> QED
    BY <2>2, <2>4
<1>2. ChainsWhole
  BY DEF ChainsWhole, ChainInv, ChainsRight
<1>3. AnswersCurrent
  BY DEF AnswersCurrent, AskInv, AskLoading, AskLast
<1> QED
  BY <1>1, <1>2, <1>3 DEF PanelsCurrent

(* However fast the user moves, chains are those of the node they stand    *)
(* under and all of them; and what another panel says it shows is what it  *)
(* shows, unless answers crossed (NodeDetail.vue loadChainSummary() and    *)
(* the panels that ask).                                                   *)
THEOREM PanelsCurrentAlways == PanelSpec => []PanelsCurrent
<1> DEFINE Inv == DrawInv /\ ChainInv /\ AskInv
<1>1. PanelInit => Inv
  BY DrawInitial, PanelsInitial DEF PanelInit
<1>2. Inv /\ [PanelNext]_<<vars, panelVars>> => Inv'
  <2>1. ASSUME Inv, PanelNext
        PROVE  Inv'
    BY <2>1, DrawStep, PanelsPreserved
  <2>2. ASSUME Inv, UNCHANGED <<vars, panelVars>>
        PROVE  Inv'
    <3>1. DrawInv'
      BY <2>2, DrawStep
    <3>2. ChainInv'
      BY <2>2 DEF vars, filterVars, selVars, trailVars, panelVars, chainVars, ChainInv,
         ChainTypes, ChainsRight
    <3>3. AskInv'
      BY <2>2 DEF panelVars, askVars, AskInv, AskTypes, AskIdle, AskLoading, AskLast
    <3> QED
      BY <3>1, <3>2, <3>3
  <2> QED
    BY <2>1, <2>2
<1>3. Inv => PanelsCurrent
  BY PanelsFollow
<1> QED
  BY <1>1, <1>2, <1>3, PTL DEF PanelSpec
=============================================================================
