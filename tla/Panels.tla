------------------------------- MODULE Panels -------------------------------
(***************************************************************************)
(* The panels of the web client that ask the server for what they show:    *)
(* the chains of the selected node (NodeDetail.vue), and the matrix, the   *)
(* feature slice, the time travel, the boxes of the pathfinder, the        *)
(* command palette, the files of git, the source snippet and the change    *)
(* impact.  They share the graph and the selection with the drawing of     *)
(* ForceGraph and nothing else, so a panel is opened beside a drawing that *)
(* nobody touches.                                                         *)
(*                                                                         *)
(* What a panel asks about is a key: a depth, a feature, a text, a source, *)
(* a place in a file; for the time travel, a pair of labels.  An answer is *)
(* known by the key it is about.                                           *)
(***************************************************************************)
EXTENDS ForceGraph

CONSTANTS
    Key, FirstKey,         \* what to ask about, and what a panel opens with
    Chain,                 \* the kinds at the ends of chains, by kind
    MaxCandidates,         \* the end nodes that are tried
    MaxChains              \* the chains that are enough

ASSUME PanelAssumption ==
    /\ FirstKey \in Key /\ Nothing \notin Key \cup {Blank} \cup (Key \X Key)
    /\ Chain \in [NodeKinds -> [kinds : SUBSET NodeKinds, forward : BOOLEAN]]
    /\ MaxCandidates \in Nat /\ MaxChains \in Nat \ {0}

VARIABLES
    panel,                 \* the panel that is open
    want,                  \* what it says it shows
    shown,                 \* what it shows
    marks,                 \* impactNodeIds: the impact drawn on the graph
    due,                   \* a timer is set, or a slider held, for this
    asked,                 \* requests on their way
    loading,
    late,                  \* history: an answer may come that is not the last
    loads, chains,         \* NodeDetail: loads that go on, chainPaths
    exact                  \* history: the chains are all answers of data

askVars   == <<want, shown, marks, due, asked, late>>
chainVars == <<loads, chains, exact>>
panelVars == <<panel, askVars, loading, chainVars>>

PanelInit ==
    /\ Init
    /\ panel = "none"
    /\ want = Nothing /\ shown = Nothing /\ marks = Nothing
    /\ due = Nothing
    /\ asked = <<>> /\ loading = FALSE /\ late = FALSE
    /\ loads = <<>> /\ chains = {} /\ exact = TRUE

besideVars == <<serverVars, filterVars, clusterVars, drawVars, viewVars, requests,
                gestures, focus, searchVars>>

Done ==
    /\ points < MaxPoints
    /\ points' = points + 1
    /\ UNCHANGED <<besideVars, panel>>
---------------------------------------------------------------------------
(* The chains of the selected node.                                        *)

SelectedNode(g, n) ==
    IF g = Nothing THEN NoId ELSE IF n \in Node(g) THEN n ELSE NoId

(* The places in the graph of the first nodes of the kinds that end chains. *)
Candidates(g, n) ==
    LET ends == {i \in DOMAIN Graphs[g].nodes :
                    Graphs[g].kind[Graphs[g].nodes[i]] \in Chain[Graphs[g].kind[n]].kinds}
    IN  {i \in ends : Cardinality({j \in ends : j < i}) < MaxCandidates}

(* GET /api/graph/paths, with at most eight edges.                         *)
Within8(g, from) ==
    LET within[d \in 0..8] ==
            IF d = 0 THEN {from} \cap Node(g)
            ELSE within[d - 1] \cup {e.target : e \in {f \in Graphs[g].edges : f.source \in within[d - 1]}}
    IN  within[8]

Connected(g, from, to) == to \in Within8(g, from)

HasChain(g, n, forward, c) == IF forward THEN Connected(g, n, c) ELSE Connected(g, c, n)

Forward(g, n) == Chain[Graphs[g].kind[n]].forward

Load(g, n) == [node |-> n, of |-> g, forward |-> Forward(g, n), left |-> Candidates(g, n),
               found |-> {}, exact |-> TRUE, answer |-> Nothing]

First(S) == CHOOSE i \in S : \A j \in S : i <= j

End(l) == Graphs[l.of].nodes[First(l.left)]

GoesOn(l) == l.left # {} /\ Cardinality(l.found) < MaxChains

BegunUnaborted(l) == Append(loads, l)

Begun(l) == <<l>>

(* A new load aborts the one before, which then writes nothing any more.   *)
LoadChainSummary(n) ==
    /\ chains' = {} /\ exact' = TRUE
    /\ loads' = IF GoesOn(Load(data', n)) THEN Begun(Load(data', n)) ELSE <<>>
    /\ loading' = GoesOn(Load(data', n))

(* A graph that is fetched again brings new nodes for the same ids; without *)
(* a node the load goes on, and nothing of it is on the screen.             *)
WatchSelectedNode ==
    LET before == SelectedNode(data, selected)
        now    == SelectedNode(data', selected') IN
    IF now = before /\ (now = NoId \/ data' = data)
    THEN UNCHANGED <<chainVars, loading>>
    ELSE IF now # NoId THEN LoadChainSummary(now)
    ELSE chains' = {} /\ UNCHANGED <<loads, exact, loading>>

SelectBeside ==
    /\ panel = "chains" /\ data # Nothing
    /\ Done
    /\ \/ \E n \in Node(data) \cup {NoId} : SelectNode(n)
       \/ index > 1 /\ NavBack
       \/ index < Len(history) /\ NavForward
    /\ WatchSelectedNode
    /\ UNCHANGED askVars

GraphBeside ==
    /\ panel = "chains"
    /\ NextGraph \/ GraphFetched
    /\ WatchSelectedNode
    /\ UNCHANGED <<panel, askVars>>

ServePath ==
    /\ \E i \in DOMAIN loads :
        /\ loads[i].answer = Nothing
        /\ loads' = [loads EXCEPT ![i].answer =
               [graph |-> served,
                found |-> HasChain(served, loads[i].node, loads[i].forward, End(loads[i]))]]
    /\ UNCHANGED <<vars, panel, askVars, loading, chains, exact>>

(* The next candidate, or the end; one that fails is passed over.          *)
PathAnswered ==
    /\ \E i \in DOMAIN loads, ok \in BOOLEAN :
        LET l == loads[i]
            next == [l EXCEPT !.left = @ \ {First(@)}, !.answer = Nothing,
                              !.found = IF ok /\ l.answer.found
                                        THEN @ \cup {[node |-> l.node, end |-> End(l)]} ELSE @,
                              !.exact = @ /\ ok /\ l.answer.graph = data] IN
        /\ ok => l.answer # Nothing
        /\ IF GoesOn(next)
           THEN loads' = [loads EXCEPT ![i] = next] /\ UNCHANGED <<loading, chains, exact>>
           ELSE /\ loads' = RemoveAt(loads, i)
                /\ loading' = FALSE
                /\ chains' = next.found /\ exact' = next.exact
    /\ UNCHANGED <<vars, panel, askVars>>
---------------------------------------------------------------------------
(* The panels that show one answer at a time.                              *)

Request(k) == [about |-> k, mine |-> TRUE, half |-> FALSE]

(* Late is an answer that is not the only one on its way.                  *)
Ask(k) ==
    /\ asked' = Append(asked, Request(k))
    /\ late' = (asked # <<>>)

Shows(x) ==
    /\ shown' = x
    /\ late' = (asked # <<>>)
    /\ UNCHANGED asked

AskNow(k) ==
    /\ want' = k
    /\ loading' = TRUE
    /\ Ask(k)
    /\ UNCHANGED <<shown, marks, due>>

(* MatrixView: the slider of the depth.                                    *)
FetchMatrix(k) == panel = "matrix" /\ k # want /\ AskNow(k)

(* ChangeImpactPanel: the radio buttons and the number of commits, and     *)
(* Reload, which is off while the panel says that it loads.                *)
RefreshGit(k) == panel = "git" /\ (k # want \/ ~loading) /\ AskNow(k)

(* NodeDetail: a place whose source is opened.                             *)
LoadSnippet(k) == panel = "snippet" /\ AskNow(k)

(* FeatureView: what was shown goes at once.                               *)
Pick(k) ==
    /\ panel = "slice"
    /\ want' = k
    /\ loading' = TRUE
    /\ shown' = Nothing
    /\ Ask(k)
    /\ UNCHANGED <<marks, due>>

(* TimeTravelView: a slider moves the labels and loads when it is let go.  *)
Slide(k) ==
    /\ panel = "diff"
    /\ want' = k /\ due' = k
    /\ UNCHANGED <<shown, marks, asked, loading, late>>

LoadDiff ==
    /\ panel = "diff" /\ due # Nothing
    /\ due' = Nothing
    /\ IF want[1] = want[2]
       THEN Shows(Nothing) /\ UNCHANGED loading
       ELSE Ask(want) /\ loading' = TRUE /\ UNCHANGED shown
    /\ UNCHANGED <<want, marks>>

(* PathfinderPanel: a box and its timer.                                   *)
SearchFrom(k) ==
    /\ panel = "box"
    /\ want' = k /\ due' = k
    /\ UNCHANGED <<shown, marks, asked, loading, late>>

(* Choosing from the list leaves the timer set.                            *)
SelectFrom(k) ==
    /\ panel = "box" /\ shown # Nothing
    /\ want' = k
    /\ shown' = Nothing
    /\ late' = (asked # <<>> \/ due # Nothing)
    /\ UNCHANGED <<marks, due, asked, loading>>

(* CommandPalette: typing shows the commands that match, without nodes;    *)
(* closing empties the text.                                               *)
TypeInPalette(k) ==
    /\ panel = "palette" /\ k # want
    /\ want' = k
    /\ due' = IF k = Blank THEN Nothing ELSE k
    /\ Shows(Nothing)
    /\ UNCHANGED <<marks, loading>>

TimerFires ==
    /\ panel \in {"box", "palette"} /\ due # Nothing
    /\ due' = Nothing
    /\ IF due = Blank
       THEN shown' = Nothing /\ UNCHANGED asked
       ELSE asked' = Append(asked, Request(due)) /\ UNCHANGED shown
    /\ late' = (asked # <<>> \/ due # want)
    /\ UNCHANGED <<want, marks, loading>>

(* ChangeImpactPanel: the button is off while it loads.                    *)
AnalyzeImpact(k) ==
    /\ panel = "impact" /\ ~loading
    /\ want' = k
    /\ loading' = TRUE
    /\ shown' = Nothing
    /\ Ask(k)
    /\ UNCHANGED <<marks, due>>

ClearImpact ==
    /\ panel = "impact"
    /\ marks' = Nothing
    /\ Shows(Nothing)
    /\ UNCHANGED <<want, due, loading>>

(* The panel is closed and opened again; what it marked stays.             *)
ReopenImpact ==
    /\ panel = "impact"
    /\ want' = Nothing /\ shown' = Nothing /\ loading' = FALSE
    /\ asked' = [i \in DOMAIN asked |-> [asked[i] EXCEPT !.mine = FALSE]]
    /\ late' = (asked # <<>>)
    /\ UNCHANGED <<marks, due>>

UserAsks ==
    /\ Done
    /\ \/ \E k \in Key : FetchMatrix(k) \/ RefreshGit(k) \/ LoadSnippet(k) \/ Pick(k)
                       \/ SelectFrom(k) \/ AnalyzeImpact(k)
       \/ \E k \in Key \X Key : Slide(k)
       \/ \E k \in Key \cup {Blank} : SearchFrom(k) \/ TypeInPalette(k)
       \/ ClearImpact \/ ReopenImpact
    /\ UNCHANGED <<trailVars, chainVars>>

DueComes ==
    /\ LoadDiff \/ TimerFires
    /\ UNCHANGED <<vars, panel, chainVars>>

(* The answer is shown as it comes; what an answer that is not one leaves  *)
(* differs: a slice was cleared before, and the time travel does not catch *)
(* what is thrown.                                                         *)
Answer ==
    /\ panel # "impact"
    /\ \E i \in DOMAIN asked, outcome \in {"ok", "refused", "thrown"} :
        /\ asked' = RemoveAt(asked, i)
        /\ shown' = CASE outcome = "ok" -> asked[i].about
                      [] outcome # "ok" /\ (panel = "slice" \/ (panel = "diff" /\ outcome = "thrown"))
                           -> shown
                      [] OTHER -> Nothing
        /\ late' = (late \/ (panel = "diff" /\ outcome = "thrown"))
    /\ loading' = FALSE
    /\ UNCHANGED <<vars, panel, want, marks, due, chainVars>>

(* The result is shown, the report on breaking changes awaited, and then   *)
(* the impact is marked, also for a panel that is gone.                    *)
ImpactShown(i) ==
    /\ ~asked[i].half
    /\ asked' = [asked EXCEPT ![i].half = TRUE]
    /\ shown' = IF asked[i].mine THEN asked[i].about ELSE shown
    /\ UNCHANGED <<marks, loading>>

ImpactMarked(i) ==
    /\ asked[i].half
    /\ asked' = RemoveAt(asked, i)
    /\ marks' = asked[i].about
    /\ loading' = (loading /\ ~asked[i].mine)
    /\ UNCHANGED shown

(* An answer that refuses has no nodes to mark.                            *)
ImpactFails(i) ==
    /\ asked' = RemoveAt(asked, i)
    /\ marks' \in IF asked[i].half THEN {marks} ELSE {marks, Nothing}
    /\ shown' = IF asked[i].mine THEN Nothing ELSE shown
    /\ loading' = (loading /\ ~asked[i].mine)

ImpactAnswer ==
    /\ panel = "impact"
    /\ \E i \in DOMAIN asked : ImpactShown(i) \/ ImpactMarked(i) \/ ImpactFails(i)
    /\ UNCHANGED <<vars, panel, want, due, late, chainVars>>
---------------------------------------------------------------------------
(* What a panel asks for when it is opened.                                *)
Opening(p) ==
    CASE p \in {"matrix", "git", "slice"} -> {FirstKey}
      [] p = "diff" -> {k \in Key \X Key : k[1] = FirstKey /\ k[2] # FirstKey}
      [] OTHER -> {}

OpenPanel ==
    /\ panel = "none"
    /\ view = "none" /\ served = 1 /\ data = Nothing /\ gestures = 0 /\ points = 0
    /\ panel' \in {"chains", "matrix", "git", "snippet", "slice", "diff", "box", "palette", "impact"}
    /\ IF Opening(panel') = {}
       THEN UNCHANGED <<askVars, loading>>
       ELSE /\ want' \in Opening(panel')
            /\ loading' = TRUE
            /\ Ask(want')
            /\ UNCHANGED <<shown, marks, due>>
    /\ UNCHANGED <<vars, chainVars>>

PanelNext ==
    \/ panel = "none" /\ Next /\ UNCHANGED panelVars
    \/ OpenPanel
    \/ SelectBeside \/ GraphBeside \/ ServePath \/ PathAnswered
    \/ UserAsks \/ DueComes \/ Answer \/ ImpactAnswer

PanelSpec == PanelInit /\ [][PanelNext]_<<vars, panelVars>>
---------------------------------------------------------------------------
(* The chains of a node: those to the candidates it is connected with,     *)
(* until there are as many as are enough.                                  *)
ChainsTo(g, n, I) ==
    {[node |-> n, end |-> Graphs[g].nodes[i]]
        : i \in {i \in I : HasChain(g, n, Forward(g, n), Graphs[g].nodes[i])}}

ChainsOf(g, n) ==
    LET places == Candidates(g, n)
    IN  ChainsTo(g, n, {i \in places :
            Cardinality(ChainsTo(g, n, {j \in places : j < i})) < MaxChains})

(* However fast the user moves from node to node, while the graph changes  *)
(* and answers come late, the chains under the name of a node are its own, *)
(* and the panel says that it loads as long as it does.                    *)
ChainsOwn ==
    LET n == SelectedNode(data, selected) IN
    panel = "chains" /\ n # NoId =>
        /\ \A c \in chains : c.node = n
        /\ loading = (loads # <<>>)

(* Once nothing is awaited and nothing failed they are exactly those the   *)
(* graph on the screen has.                                                *)
ChainsWhole ==
    LET n == SelectedNode(data, selected) IN
    panel = "chains" /\ n # NoId /\ loads = <<>> /\ exact => chains = ChainsOf(data, n)

(* What a panel says it shows is what it shows, or it shows nothing, and   *)
(* the impact on the graph is that of the result beside it: unless more    *)
(* than one answer was under way, which no panel but NodeDetail.vue tells  *)
(* apart.  And no panel goes on saying that it loads.                      *)
AnswersCurrent ==
    asked = <<>> /\ due = Nothing =>
        /\ panel # "chains" => ~loading
        /\ ~late => /\ shown \in {want, Nothing}
                    /\ panel = "impact" /\ shown # Nothing => marks = shown

PanelsCurrent == ChainsOwn /\ ChainsWhole /\ AnswersCurrent
=============================================================================
