----------------------------- MODULE ForceGraph -----------------------------
(***************************************************************************)
(* The graph view of the web client: the stores for the graph and the      *)
(* filters, the composable for the clusters, and the drawing               *)
(* (packages/web-ui/src/components/graph/ForceGraphView.vue), which        *)
(* cytoscape.js holds.  A graph of the server is its number in Graphs.     *)
(*                                                                         *)
(* A drawing has nodes, by id, and edges, each of which is its own id.     *)
(* Positions, styles, overlays and the layout are left out; so is the      *)
(* order of the clusters, which decides under which of two a node is drawn *)
(* that an old and a new expansion both name: CHOOSE stands for it.        *)
(***************************************************************************)
EXTENDS Selection, FiniteSets

CONSTANTS
    Graphs,                \* what the server has, one graph after the other
    NodeKinds, EdgeKinds,
    Presets,               \* filters to apply at once, built in and saved
    Threshold,             \* CLUSTER_THRESHOLD
    Nothing,               \* null
    Pointed,               \* bounds of the model: the nodes a user points at,
    MaxGestures,           \* what is done to the drawing,
    MaxPoints,             \* what is done to the selection,
    MaxBoth                \* and how much of the one among the other

(* A graph has its nodes in order and the kind of each, its edges, and the *)
(* members of each community that is large enough to be a cluster.  Ids of *)
(* clusters are "cluster:c" and a number, which no parser gives a node.    *)
ASSUME GraphsAssumption ==
    /\ Len(Graphs) \in Nat \ {0} /\ DOMAIN Graphs = 1..Len(Graphs)
    /\ \A i, j \in DOMAIN Graphs : DOMAIN Graphs[i].kind \cap DOMAIN Graphs[j].members = {}
    /\ \A i \in DOMAIN Graphs :
        LET g == Graphs[i] IN
        /\ g.nodes \in Seq(DOMAIN g.kind)
        /\ DOMAIN g.kind = ToSet(g.nodes) /\ IsFiniteSet(DOMAIN g.kind)
        /\ \A n \in DOMAIN g.kind : g.kind[n] \in NodeKinds
        /\ \A e \in g.edges : {e.source, e.target} \subseteq DOMAIN g.kind /\ e.kind \in EdgeKinds
        /\ \A c \in DOMAIN g.members : g.members[c] \subseteq DOMAIN g.kind
        /\ \A c, d \in DOMAIN g.members : c # d => g.members[c] \cap g.members[d] = {}

NodeIds    == UNION {DOMAIN Graphs[g].kind : g \in DOMAIN Graphs}
ClusterIds == UNION {DOMAIN Graphs[g].members : g \in DOMAIN Graphs}
Id         == NodeIds \cup ClusterIds
BetweenIds == [source : Id, target : Id, kind : {"clusters"}]
AllEdges   == BetweenIds \cup UNION {Graphs[g].edges : g \in DOMAIN Graphs}
Drawing    == [nodes : SUBSET [id : Id, parent : Id \cup {NoId}, isExpanded : BOOLEAN],
               edges : SUBSET AllEdges]

ASSUME NothingAssumption == Nothing \notin DOMAIN Graphs /\ Nothing \notin Drawing

ASSUME BoundsAssumption ==
    Threshold \in Nat /\ MaxGestures \in Nat /\ MaxPoints \in Nat /\ MaxBoth \in Nat

VARIABLES
    served, partition,     \* the server's graph, and that of its clusterCache
    data,                  \* graphData
    active, filtered,      \* the kinds to show, and what is left of the graph
    debounced,             \* filterDebounce is set
    view, useClusters,     \* of the component: where it is in its life
    clusterData, expanded, expandedNodeCache, \* of the composable
    requests,              \* what is under way to the server
    drawn,                 \* cy
    unseen,                \* history: what is to draw changed, and nobody drew
    orphaned,              \* history: a cluster took nodes along that stay
    gestures, points       \* how much of the bounds is used

filterVars  == <<data, active, filtered, debounced>>
clusterVars == <<clusterData, expanded, expandedNodeCache>>
drawVars    == <<drawn, unseen, orphaned>>
viewVars    == <<view, useClusters>>
serverVars  == <<served, partition>>
bounds      == <<gestures, points>>
selVars     == <<trailVars, searchVars>>
vars == <<serverVars, filterVars, clusterVars, drawVars, viewVars, selVars, requests,
          bounds>>

Node(g)       == DOMAIN Graphs[g].kind
Cluster(g)    == DOMAIN Graphs[g].members
Clustered(g)  == UNION {Graphs[g].members[c] : c \in Cluster(g)}
Members(g, c) == IF c \in Cluster(g) THEN Graphs[g].members[c] ELSE {}

ShownClusters(g) == Cluster(g)

Shown(g) == Cluster(g) \cup (Node(g) \ Clustered(g))

(* The cluster or the single node that stands for a node.                  *)
Home(g, n) ==
    IF n \in Clustered(g) THEN CHOOSE c \in Cluster(g) : n \in Members(g, c) ELSE n

(* What getGraphClustered() makes of the edges between two clusters.       *)
ClusterEdges(g) ==
    {[source |-> Home(g, e.source), target |-> Home(g, e.target), kind |-> "clusters"]
        : e \in {f \in Graphs[g].edges : Home(g, f.source) # Home(g, f.target)}}

EmptyFilter == [nodes |-> {}, edges |-> {}]

AllKinds == [nodes |-> NodeKinds, edges |-> EdgeKinds]

Init ==
    /\ served = 1 /\ partition = Nothing
    /\ data = Nothing
    /\ active = AllKinds
    /\ filtered = EmptyFilter
    /\ debounced = FALSE
    /\ view = "none" /\ useClusters = FALSE
    /\ clusterData = Nothing /\ expanded = {} /\ expandedNodeCache = <<>>
    /\ requests = <<>>
    /\ drawn = Nothing /\ unseen = FALSE /\ orphaned = FALSE
    /\ gestures = 0 /\ points = 0
    /\ SelectionInit
---------------------------------------------------------------------------
(* What is to be drawn.                                                    *)

Element(n, parent, open) == [id |-> n, parent |-> parent, isExpanded |-> open]

Ids(drawing) == {x.id : x \in drawing.nodes}

BuildElements(f) == [nodes |-> {Element(n, NoId, FALSE) : n \in f.nodes}, edges |-> f.edges]

(* An expansion is the partition and the graph its answer was made of.     *)
Content(x, c) == Members(x.partition, c)
Incident(x, c) ==
    {e \in Graphs[x.graph].edges : {e.source, e.target} \cap Content(x, c) # {}}

BuildClusterElements(clusters, opened, cache) ==
    IF clusters = Nothing THEN [nodes |-> {}, edges |-> {}]
    ELSE LET open     == Cluster(clusters) \cap opened
             children == UNION {Content(cache[c], c) : c \in open}
             ids      == Shown(clusters) \cup children
             edges    == UNION {Incident(cache[c], c) : c \in open}
         IN  [nodes |-> {Element(n, NoId, n \in open) : n \in ids \ children}
                        \cup {Element(n, CHOOSE c \in open : n \in Content(cache[c], c), FALSE)
                                 : n \in children},
              edges |-> {e \in edges : {e.source, e.target} \subseteq ids}
                        \cup ClusterEdges(clusters)]

Build(clustered, clusters, opened, cache, shown) ==
    IF clustered THEN BuildClusterElements(clusters, opened, cache) ELSE BuildElements(shown)

Built == Build(useClusters, clusterData, expanded, expandedNodeCache, filtered)

ToBuild == Build(useClusters', clusterData', expanded', expandedNodeCache', filtered')

(* initCytoscape() discards what was drawn in the same place.              *)
InitCytoscape ==
    /\ drawn' = ToBuild
    /\ unseen' = FALSE /\ orphaned' = FALSE

(* refreshGraph(): removes and adds by id.  cytoscape.js removes with a    *)
(* node its edges and, if it is the parent of others, those; an element    *)
(* that was there before is not added, even if it went in this way, and    *)
(* one that stays keeps the data it has.                                   *)
RefreshGraph ==
    IF drawn = Nothing THEN UNCHANGED drawVars
    ELSE \E build \in {ToBuild} :
         LET before == Ids(drawn)
             after  == Ids(build)
             taken  == {x.id : x \in {y \in drawn.nodes : y.parent \in before \ after}}
             kept   == (before \cap after) \ taken
             ids    == kept \cup (after \ before)
         IN  /\ drawn' = [nodes |-> {x \in drawn.nodes : x.id \in kept}
                                    \cup {x \in build.nodes : x.id \notin before},
                          edges |-> {e \in build.edges :
                                        {e.source, e.target} \subseteq IF e \in drawn.edges
                                                                       THEN kept ELSE ids}]
             /\ unseen' = FALSE
             /\ orphaned' = (taken \cap after # {})
---------------------------------------------------------------------------
(* The filters.                                                            *)

Filter(g, kinds) ==
    LET ids == {n \in Node(g) : Graphs[g].kind[n] \in kinds.nodes}
    IN  [nodes |-> ids,
         edges |-> {e \in Graphs[g].edges :
                       e.kind \in kinds.edges /\ {e.source, e.target} \subseteq ids}]

Clustering(what, c) == [what |-> what, cluster |-> c, mine |-> TRUE, answer |-> Nothing]

Needed(f) == Cardinality(f.nodes) > Threshold

Size(f) == Cardinality(f.nodes) + Cardinality(f.edges)

(* History: a change the watcher below is known not to see.                *)
SameSum ==
    /\ filtered' # filtered
    /\ Cardinality(filtered'.nodes) + Cardinality(filtered'.edges)
         = Cardinality(filtered.nodes) + Cardinality(filtered.edges)

(* The watcher of the number of nodes draws what is not drawn yet; that of *)
(* the number of elements sees no change that keeps the sum.               *)
Watchers ==
    IF view = "none" \/ (drawn = Nothing /\ (\/ filtered'.nodes = {}
                                             \/ Cardinality(filtered'.nodes) = Cardinality(filtered.nodes)))
    THEN UNCHANGED <<drawVars, viewVars, requests>>
    ELSE IF drawn = Nothing
    THEN UNCHANGED <<viewVars, requests>> /\ InitCytoscape
    ELSE IF Size(filtered') = Size(filtered)
    THEN /\ unseen' = (unseen \/ SameSum)
         /\ UNCHANGED <<drawn, orphaned, viewVars, requests>>
    ELSE IF Needed(filtered') /\ ~useClusters
    THEN /\ useClusters' = TRUE
         /\ requests' = Append(requests, Clustering("refresh", NoId))
         /\ UNCHANGED <<drawVars, view>>
    ELSE /\ useClusters' = (useClusters /\ Needed(filtered'))
         /\ RefreshGraph
         /\ UNCHANGED <<view, requests>>

RecomputeFiltered ==
    /\ filtered' = IF data' = Nothing THEN EmptyFilter ELSE Filter(data', active')
    /\ Watchers

Gesture ==
    /\ view # "none"
    /\ gestures < MaxGestures /\ (gestures + 1) * points <= MaxBoth
    /\ gestures' = gestures + 1
    /\ UNCHANGED points

Toggled(S, k) == (S \cup {k}) \ (S \cap {k})

Toggle ==
    /\ Gesture
    /\ \/ \E k \in NodeKinds : active' = [active EXCEPT !.nodes = Toggled(@, k)]
       \/ \E k \in EdgeKinds : active' = [active EXCEPT !.edges = Toggled(@, k)]
    /\ debounced' = TRUE
    /\ UNCHANGED <<serverVars, data, filtered, clusterVars, drawVars, viewVars, selVars,
                   requests>>

Debounced ==
    /\ debounced
    /\ debounced' = FALSE
    /\ UNCHANGED <<data, active>>
    /\ UNCHANGED <<serverVars, clusterVars, selVars, bounds>>
    /\ RecomputeFiltered

(* resetFilters(), applyFilterPreset(), applySavedPreset(): the timer of a *)
(* toggle stays set.                                                       *)
ApplyPreset ==
    /\ Gesture
    /\ \E p \in Presets : active' = p
    /\ UNCHANGED <<data, debounced>>
    /\ UNCHANGED <<serverVars, clusterVars, selVars>>
    /\ RecomputeFiltered

(* The answer to fetchGraph(); which of two comes last is WebClient's.     *)
GraphFetched ==
    /\ data # served
    /\ data' = served
    /\ UNCHANGED <<active, debounced>>
    /\ UNCHANGED <<serverVars, clusterVars, selVars, bounds>>
    /\ RecomputeFiltered
---------------------------------------------------------------------------
(* The view.  It goes when the page asks for a login; the composable's     *)
(* state is the module's and stays.                                        *)

(* A first graph that comes with the view counts as a change of the number *)
(* of nodes and is drawn at once.                                          *)
Mount ==
    /\ view = "none"
    /\ IF Needed(filtered)
       THEN /\ view' = "mounting" /\ useClusters' = TRUE
            /\ requests' = Append(requests, Clustering("mount", NoId))
            /\ UNCHANGED <<filterVars, clusterVars>>
            /\ InitCytoscape \/ UNCHANGED drawVars
       ELSE /\ view' = "mounted"
            /\ UNCHANGED <<useClusters, requests, filterVars, clusterVars>>
            /\ IF filtered.nodes # {} \/ clusterData # Nothing
               THEN InitCytoscape ELSE UNCHANGED drawVars
    /\ UNCHANGED <<serverVars, selVars, bounds>>

Unmount ==
    /\ Gesture
    /\ view' = "none" /\ useClusters' = FALSE
    /\ drawn' = Nothing /\ unseen' = FALSE /\ orphaned' = FALSE
    /\ requests' = [i \in DOMAIN requests |-> [requests[i] EXCEPT !.mine = FALSE]]
    /\ UNCHANGED <<serverVars, filterVars, clusterVars, selVars>>

(* The button that reads "Expand All" or "Cluster".                        *)
ToggleClusters ==
    /\ Gesture
    /\ useClusters' = ~useClusters
    /\ UNCHANGED <<view, filterVars, clusterVars>>
    /\ IF useClusters THEN RefreshGraph /\ UNCHANGED requests
       ELSE /\ requests' = Append(requests, Clustering("refresh", NoId))
            /\ UNCHANGED drawVars
    /\ UNCHANGED <<serverVars, selVars>>

Drawn == IF drawn = Nothing THEN {} ELSE Ids(drawn)

(* A double tap.  An expanded cluster is one that was drawn as such.       *)
Expand ==
    /\ Gesture
    /\ \E c \in Drawn \cap ClusterIds :
        /\ Element(c, NoId, FALSE) \in drawn.nodes
        /\ IF c \in DOMAIN expandedNodeCache
           THEN /\ expanded' = expanded \cup {c}
                /\ UNCHANGED <<requests, filterVars, viewVars, clusterData, expandedNodeCache>>
                /\ RefreshGraph
           ELSE /\ requests' = Append(requests, Clustering("expand", c))
                /\ UNCHANGED <<clusterVars, filterVars, viewVars, drawVars>>
    /\ UNCHANGED <<serverVars, selVars>>

CollapseCluster ==
    /\ Gesture
    /\ \E c \in Drawn \cap ClusterIds :
        /\ Element(c, NoId, TRUE) \in drawn.nodes
        /\ expanded' = expanded \ {c}
    /\ UNCHANGED <<filterVars, viewVars, clusterData, expandedNodeCache>>
    /\ RefreshGraph
    /\ UNCHANGED <<serverVars, selVars, requests>>

Selectable == (Drawn \cup (IF data = Nothing THEN {} ELSE Node(data))) \cap Pointed

(* Taps, double taps on a single node, and the same from other panels.     *)
Point ==
    /\ view # "none"
    /\ points < MaxPoints /\ gestures * (points + 1) <= MaxBoth
    /\ points' = points + 1
    /\ \/ \E n \in Selectable \cup {NoId} : Select(n)
       \/ \E n \in Selectable \ ClusterIds : FocusNode(n)
       \/ NavBack
       \/ NavForward
       \/ \E q \in Query \cup {Blank} : Type(q)
    /\ UNCHANGED <<serverVars, filterVars, clusterVars, drawVars, viewVars, requests,
                   gestures>>

SearchRuns ==
    /\ Search \/ \E ok \in BOOLEAN : Answered(ok)
    /\ UNCHANGED <<serverVars, filterVars, clusterVars, drawVars, viewVars, requests,
                   bounds>>
---------------------------------------------------------------------------
(* The server: a new graph, and the answers.  An expansion takes the       *)
(* members from the last partition and the edges from the graph.           *)

NextGraph ==
    /\ served < Len(Graphs)
    /\ served' = served + 1
    /\ UNCHANGED <<partition, filterVars, clusterVars, drawVars, viewVars, selVars,
                   requests, bounds>>

Serve ==
    /\ \E i \in DOMAIN requests :
        /\ requests[i].answer = Nothing
        /\ partition' = IF requests[i].what = "expand" /\ partition # Nothing
                        THEN partition ELSE served
        /\ requests' = [requests EXCEPT
               ![i].answer = [partition |-> partition', graph |-> served]]
    /\ UNCHANGED <<served, filterVars, clusterVars, drawVars, viewVars, selVars,
                   bounds>>

(* What the composable keeps of an answer.                                 *)
Keep(r) ==
    IF r.what = "expand"
    THEN /\ expandedNodeCache' = [c \in DOMAIN expandedNodeCache \cup {r.cluster} |->
                                     IF c = r.cluster THEN r.answer ELSE expandedNodeCache[c]]
         /\ expanded' = expanded \cup {r.cluster}
         /\ UNCHANGED clusterData
    ELSE /\ clusterData' = r.answer.graph
         /\ UNCHANGED <<expanded, expandedNodeCache>>

(* And what follows the await, in the view that asked.                     *)
Continue(r) ==
    IF ~r.mine
    THEN /\ unseen' = (unseen \/ (drawn # Nothing /\ ToBuild # Built))
         /\ UNCHANGED <<drawn, orphaned, view>>
    ELSE IF r.what = "mount"
    THEN /\ view' = "mounted"
         /\ IF filtered.nodes # {} \/ clusterData' # Nothing
            THEN InitCytoscape ELSE UNCHANGED drawVars
    ELSE RefreshGraph /\ UNCHANGED view

Arrive ==
    /\ \E i \in DOMAIN requests :
        LET r == requests[i] IN
        /\ r.answer # Nothing
        /\ UNCHANGED <<filterVars, useClusters>>
        /\ Keep(r)
        /\ Continue(r)
        /\ requests' = RemoveAt(requests, i)
    /\ UNCHANGED <<serverVars, selVars, bounds>>

Fail ==
    /\ \E i \in DOMAIN requests :
        /\ UNCHANGED <<filterVars, useClusters, clusterVars>>
        /\ Continue(requests[i])
        /\ requests' = RemoveAt(requests, i)
    /\ UNCHANGED <<serverVars, selVars, bounds>>

Next ==
    \/ Toggle \/ Debounced \/ ApplyPreset \/ GraphFetched
    \/ Mount \/ Unmount \/ ToggleClusters \/ Expand \/ CollapseCluster \/ Point \/ SearchRuns
    \/ NextGraph \/ Serve \/ Arrive \/ Fail

Spec == Init /\ [][Next]_vars
---------------------------------------------------------------------------
Quiet == requests = <<>> /\ ~debounced /\ view = "mounted" /\ drawn # Nothing

(* When nothing is under way, the drawing has the nodes and the edges that *)
(* the filter leaves of the graph, or those of the clusters, and no other; *)
(* but for a change that kept the number of elements, an answer to a view  *)
(* that is gone, and the nodes a cluster took with it when it was removed: *)
(* refreshGraph() adds and removes what differs and must not lose the way. *)
DrawnIsBuilt ==
    /\ view = "mounted" /\ filtered.nodes # {} => drawn # Nothing
    /\ Quiet /\ ~unseen /\ ~orphaned =>
          /\ Ids(drawn) = Ids(Built)
          /\ drawn.edges = Built.edges

(* In the view of the clusters every node of the graph is on the screen    *)
(* once: by itself, or in a cluster that is not expanded; as long as the   *)
(* clusters and the expansions are of one graph, whichever came first.     *)
ClustersCover ==
    Quiet /\ ~unseen /\ ~orphaned /\ useClusters /\ clusterData # Nothing =>
        LET g == clusterData
            closed == {c \in Cluster(g) : c \in Drawn /\ c \notin expanded} IN
        (\A c \in expanded : expandedNodeCache[c].partition = g) =>
            /\ Drawn \ ClusterIds = Node(g) \ UNION {Members(g, c) : c \in closed}
            /\ Cluster(g) \subseteq Drawn

(* What is drawn is what is there, in either view.                         *)
DrawingExact == DrawnIsBuilt /\ ClustersCover
=============================================================================
