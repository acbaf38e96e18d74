------------------------------ MODULE LayerDsl ------------------------------
(***************************************************************************)
(* The layers of an architecture: LayerDsl.ts compiles them into rules     *)
(* about edges, which RuleEngine.ts evaluates one edge at a time, and the  *)
(* server's getLayerCompliance() draws the same layers as a matrix.        *)
(*                                                                         *)
(* A `where` predicate over the metadata is the set of the nodes that      *)
(* satisfy it; all nodes when there is none.                               *)
(***************************************************************************)
EXTENDS Analyzers

CONSTANTS
    Layers,       \* the sequence of layers: [name, match, where]
    LayerRules    \* the layer rules a config may choose from: [from, to, policy]

ASSUME LayersAssumption ==
    /\ Layers \in Seq({Layers[i] : i \in DOMAIN Layers})
    /\ \A i \in DOMAIN Layers : Layers[i].where \subseteq NodeId
    /\ \A lr \in LayerRules : lr.policy \in {"deny", "allow-only"}

---------------------------------------------------------------------------
(* The rules.  A violation names the nodes in order and the edges.         *)

Violation(r, nodes, edges) == [ruleType |-> r.type, nodes |-> nodes, edges |-> edges]

(* No edgeKinds in the rule: every kind.                                   *)
Applies(r, e) == r.edgeKinds = {} \/ Kind[e] \in r.edgeKinds

CheckDenyDirect(g, r) ==
    {Violation(r, <<Src[e], g.target[e]>>, {e}) :
        e \in {d \in EdgesOf(g) :
                  /\ Applies(r, d) /\ HasNode(g, Src[d]) /\ HasNode(g, g.target[d])
                  /\ NodeKind[Src[d]] \in r.from /\ NodeKind[g.target[d]] \in r.to
                  /\ Src[d] \in r.fromWhere /\ g.target[d] \in r.toWhere}}

(* An empty list of allowed kinds checks nothing.                          *)
CheckAllowOnly(g, r) ==
    {Violation(r, <<Src[e], g.target[e]>>, {e}) :
        e \in {d \in EdgesOf(g) :
                  /\ r.allowed # {}
                  /\ Applies(r, d) /\ HasNode(g, Src[d]) /\ HasNode(g, g.target[d])
                  /\ NodeKind[Src[d]] \in r.from /\ Src[d] \in r.fromWhere
                  /\ \/ NodeKind[g.target[d]] \notin r.allowed
                     \/ g.target[d] \notin r.toWhere}}

CheckLayerRule(g, r) ==
    IF r.type = "deny-direct" THEN CheckDenyDirect(g, r) ELSE CheckAllowOnly(g, r)

---------------------------------------------------------------------------
(* The layers.                                                             *)

LayerNamed(name) ==
    Layers[Max({i \in DOMAIN Layers : Layers[i].name = name})]

LayerNames == {Layers[i].name : i \in DOMAIN Layers}

Compile(lr) ==
    LET from == LayerNamed(lr.from)
        to   == LayerNamed(lr.to) IN
    [type |-> IF lr.policy = "deny" THEN "deny-direct" ELSE "allow-only",
     from |-> from.match, fromWhere |-> from.where, toWhere |-> to.where,
     to |-> IF lr.policy = "deny" THEN to.match ELSE {},
     allowed |-> IF lr.policy = "deny" THEN {} ELSE to.match,
     edgeKinds |-> {}, value |-> 0]

TupleKey(r) == <<r.type, r.from, r.to>>

(* A hand-written rule with the same key wins; an allow-only rule has no   *)
(* `to`, whatever it allows.                                               *)
CompileLayerRules(layerRules, userRules) ==
    LET known == {lr \in layerRules : {lr.from, lr.to} \subseteq LayerNames}
        user  == {TupleKey(r) : r \in userRules}
        kept  == {lr \in known : TupleKey(Compile(lr)) \notin user} IN
    [rules |-> {Compile(lr) : lr \in kept}, dropped |-> known \ kept]

MergeWithLayerRules(baseRules, layerRules) ==
    baseRules \cup CompileLayerRules(layerRules, baseRules).rules

(* The first layer that has the kind.                                      *)
LayerOf(n) ==
    LET i == SelectInSeq(Layers, LAMBDA l : NodeKind[n] \in l.match) IN
    IF i = 0 THEN Absent ELSE Layers[i].name

LayerCompliance(g, layerRules) ==
    LET layer == [n \in NodesOf(g) |-> LayerOf(n)]
        allowed(from) == {lr.to : lr \in {r \in layerRules : r.from = from
                                                             /\ r.policy = "allow-only"}}
        denied == {<<lr.from, lr.to>> : lr \in {r \in layerRules : r.policy = "deny"}} IN
    [cell \in LayerNames \X LayerNames |->
        [edges |-> {e \in EdgesOf(g) : /\ HasNode(g, Src[e]) /\ HasNode(g, g.target[e])
                                       /\ layer[Src[e]] = cell[1]
                                       /\ layer[g.target[e]] = cell[2]},
         status |-> IF cell \in denied THEN "denied"
                    ELSE IF allowed(cell[1]) = {} THEN "undefined"
                    ELSE IF cell[2] \in allowed(cell[1]) THEN "allowed" ELSE "denied"]]

---------------------------------------------------------------------------
(* The two readings of the layers.  A node belongs to a layer iff its kind *)
(* is in `match` and the metadata satisfy `where` (LayerDsl.ts:22-33); the *)
(* rules are compiled so.  The matrix leaves `where` out and gives a kind  *)
(* of several layers to the first.                                         *)
OfOneLayer(n) ==
    \E i \in DOMAIN Layers :
        /\ {j \in DOMAIN Layers : NodeKind[n] \in Layers[j].match} = {i}
        /\ {j \in DOMAIN Layers : Layers[j].name = Layers[i].name} = {i}

Unconditional(n) == LayerNamed(LayerOf(n)).where = NodeId

(* A layer rule about a layer there is not colours cells and is compiled   *)
(* to nothing, and one that allows a layer without kinds checks nothing.   *)
Enforced == {lr \in LayerRules : /\ {lr.from, lr.to} \subseteq LayerNames
                                 /\ LayerNamed(lr.to).match # {}}

(* The matrix joins two allow-only rules of a layer; the rules each forbid *)
(* what the other allows.                                                  *)
OneAllowOnly(layerRules) ==
    \A r1, r2 \in layerRules :
        r1.policy = "allow-only" /\ r2.policy = "allow-only" /\ r1.from = r2.from => r1 = r2

(* The matrix of the server and the rules compiled for the linter judge    *)
(* every edge alike as far as they read the layers alike, which is where   *)
(* the kinds of its ends are of one layer each and that of its target has  *)
(* no predicate: there an edge that is reported is drawn in a red cell,    *)
(* and an edge of a red cell is reported if its source's has none either.  *)
LayersAgree ==
    Asked =>
        LET reported == [lr \in LayerRules |-> UNION {v.edges :
                            v \in UNION {CheckLayerRule(graph, r) :
                                r \in MergeWithLayerRules({}, {lr})}}]
            comparable == {e \in EdgesWithin(graph, NodesOf(graph)) :
                /\ OfOneLayer(Src[e]) /\ OfOneLayer(graph.target[e])
                /\ Unconditional(graph.target[e])}
            unconditional == {e \in comparable : Unconditional(Src[e])} IN
        \A layerRules \in {S \in SUBSET Enforced : OneAllowOnly(S)} :
            LET compliance == LayerCompliance(graph, layerRules)
                red    == UNION {compliance[cell].edges :
                             cell \in {c \in DOMAIN compliance : compliance[c].status = "denied"}}
                broken == UNION {reported[lr] : lr \in layerRules} IN
            /\ comparable \cap broken \subseteq red
            /\ unconditional \cap red \subseteq broken
=============================================================================
