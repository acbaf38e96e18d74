------------------------------- MODULE Rules -------------------------------
(***************************************************************************)
(* The architecture rules of a project: RuleEngine.ts evaluates them (the  *)
(* two kinds that layers compile to are in LayerDsl), WaiverEngine.ts      *)
(* lifts them, AntiPatternClassifier.ts tags the nodes from the same       *)
(* counts, and the server marks the graph and sums it up.                  *)
(***************************************************************************)
EXTENDS Views, Cycles

CONSTANTS
    Large         \* the nodes of many lines and packages

---------------------------------------------------------------------------
(* The rules that are not about layers, and the choice between all.        *)

CheckDenyCircular(g, r) ==
    LET target == IF r.edgeKinds = {} THEN g
                  ELSE FilterByKind(g, {NodeKind[n] : n \in NodeId}, r.edgeKinds) IN
    {Violation(r, SetToSeq(cycle), {}) : cycle \in FindCircularDependencies(target)}

KindsOf(r) == IF r.edgeKinds = {} THEN Kinds ELSE r.edgeKinds

CheckMaxDepth(g, r) ==
    {Violation(r, <<n>>, {}) :
        n \in {m \in NodesOf(g) : MeasureDepth(g, m, KindsOf(r)) > r.value}}

CheckMaxDependents(g, r) ==
    LET in(n) == {e \in GetInEdges(g, n) : Applies(r, e)} IN
    {Violation(r, <<n>>, in(n)) : n \in {m \in NodesOf(g) : Cardinality(in(m)) > r.value}}

CheckNoCrossServiceDb(g, r) ==
    LET kinds == IF r.edgeKinds = {} THEN {"service-shares-db"} ELSE r.edgeKinds IN
    {Violation(r, <<Src[e], g.target[e]>>, {e}) : e \in {d \in EdgesOf(g) : Kind[d] \in kinds}}

CheckRule(g, r) ==
    CASE r.type = "deny-circular"  -> CheckDenyCircular(g, r)
      [] r.type \in {"deny-direct", "allow-only"} -> CheckLayerRule(g, r)
      [] r.type = "max-depth"      -> CheckMaxDepth(g, r)
      [] r.type = "max-dependents" -> CheckMaxDependents(g, r)
      [] OTHER                     -> CheckNoCrossServiceDb(g, r)

---------------------------------------------------------------------------
(* Waivers: [ruleId, target, file, expires], the last two Absent if not    *)
(* given.  Dates are numbers.                                              *)

WaiverTarget(g, v) ==
    IF /\ v.ruleType = "deny-direct" /\ Len(v.nodes) = 2
       /\ \A i \in 1..2 : HasNode(g, v.nodes[i])
    THEN <<NodeKind[v.nodes[1]], NodeKind[v.nodes[2]]>>
    ELSE <<v.nodes[1]>>

WaiverFile(g, v) ==
    LET i == SelectInSeq(v.nodes, LAMBDA n : g.node[n] \notin {Absent, Virtual}) IN
    IF i = 0 THEN Absent ELSE g.node[v.nodes[i]]

IsWaived(waivers, ruleType, target, file, today) ==
    \E w \in waivers :
        /\ w.ruleId = ruleType /\ w.target = target
        /\ w.file = Absent \/ file = Absent \/ w.file = file
        /\ w.expires = Absent \/ today <= w.expires

(* Of .vdaignore, and of the comments in the files of the graph: those     *)
(* without a file are for the one they stand in.                           *)
LoadWaivers(g, vdaignore, inline) ==
    vdaignore \cup
    UNION {{[w EXCEPT !.file = IF @ = Absent THEN f ELSE @] : w \in inline[f]} :
              f \in DOMAIN inline \cap {g.node[n] : n \in NodesOf(g)}}

EvaluateRulesWithWaivers(g, rules, waivers, today) ==
    LET raw == UNION {CheckRule(g, r) : r \in rules}
        waived == {v \in raw : IsWaived(waivers, v.ruleType, WaiverTarget(g, v),
                                        WaiverFile(g, v), today)} IN
    [violations |-> raw \ waived, waived |-> waived]

---------------------------------------------------------------------------
(* classifyAntiPatterns() with thresholds t: the tags of each node.        *)
AntiPatterns(g, t) ==
    LET cyclic == UNION FindCircularDependencies(g) IN
    [n \in NodesOf(g) |->
        LET in  == FanIn(g, n)
            out == FanOut(g, n) IN
        (IF out >= t.godObjectFanOut /\ n \in Large THEN {"god-object"} ELSE {})
        \cup (IF in >= t.entryHubFanIn /\ out <= t.entryHubFanOutMax
              THEN {"entry-hub"} ELSE {})
        \cup (IF in >= t.utilitySinkFanIn /\ out = 0 THEN {"utility-sink"} ELSE {})
        \cup (IF n \in cyclic /\ in >= t.cyclicClusterMinFan /\ out >= t.cyclicClusterMinFan
              THEN {"cyclic-cluster"} ELSE {})]
---------------------------------------------------------------------------
(* The marks on the graph, its numbers and the lines of a source.          *)

GetAnalysisOverlays(g) ==
    [circular |-> UNION FindCircularDependencies(g),
     orphans |-> FindOrphanNodes(g),
     hubs |-> FindHubs(g, 5)]

GetStats(g) ==
    [nodesByKind |-> CountBy(NodesOf(g), LAMBDA n : NodeKind[n]),
     edgesByKind |-> CountBy(EdgesOf(g), LAMBDA e : Kind[e]),
     circularDeps |-> FindCircularDependencies(g),
     orphanNodes |-> FindOrphanNodes(g),
     unusedEndpoints |-> FindUnusedEndpoints(g)]

(* The numbers of the lines shown around a line, in a file of so many.     *)
GetSourceSnippet(length, line, context) ==
    LET start == Max({0, line - context - 1})
        end   == Min({length, line + context}) IN
    start + 1 .. end
---------------------------------------------------------------------------
(* Tarjan's low links give the cycles: the components reported are the     *)
(* classes of nodes that reach each other, for every graph and wherever    *)
(* the search enters it.                                                   *)
CyclesExact ==
    LET reach == [n \in NodesOf(graph) |->
                     ReachableFrom(graph, n, "out", Unlimited) \cup {n}]
        class == [n \in NodesOf(graph) |-> {m \in reach[n] \cap NodesOf(graph) : n \in reach[m]}]
    IN  Asked => FindCircularDependencies(graph) = {C \in {class[n] : n \in NodesOf(graph)} :
                                              Cardinality(C) > 1}

(* The linter's limit on the depth of chains and the pathfinder measure    *)
(* alike, and a node is tagged a member of a cyclic cluster only if the    *)
(* linter reports a cycle it is on.                                        *)
Rule(type, value) ==
    [type |-> type, from |-> {}, to |-> {}, allowed |-> {}, edgeKinds |-> {}, value |-> value,
     fromWhere |-> NodeId, toWhere |-> NodeId]

ReportedBy(r) == UNION {ToSet(v.nodes) : v \in CheckRule(graph, r)}

LimitsAgree ==
    Asked =>
        /\ ReportedBy(Rule("max-depth", 4)) =
              {n \in NodesOf(graph) : \E m \in NodeId :
                  \E p \in FindPaths(graph, n, m, 4, Kinds, "forward") : Len(p) = 4}
        /\ LET tags == AntiPatterns(graph, [godObjectFanOut |-> 3, entryHubFanIn |-> 2,
                            entryHubFanOutMax |-> 1, utilitySinkFanIn |-> 2,
                            cyclicClusterMinFan |-> 1]) IN
           {n \in DOMAIN tags : "cyclic-cluster" \in tags[n]} =
               ReportedBy(Rule("deny-circular", 0))

(* A waiver puts a violation off and never away: the day it expires the    *)
(* violation is reported again, whatever other waivers there are, unless   *)
(* one of them has no such day.                                            *)
WaiversLapse ==
    Asked =>
        LET direct == [Rule("deny-direct", 0) EXCEPT !.from = {"spring-service"},
                           !.to = {"spring-event", "mybatis-statement"}]
            Waiver(to, file, day) == [ruleId |-> "deny-direct", file |-> file, expires |-> day,
                                      target |-> <<"spring-service", to>>]
            inline == [f \in {"Service.java", "Audit.java"} |->
                IF f = "Service.java" THEN {Waiver("spring-event", Absent, 2)}
                ELSE {Waiver("mybatis-statement", Absent, Absent)}]
            waivers == LoadWaivers(graph, {Waiver("mybatis-statement", Absent, 1)}, inline)
            Report(day) == EvaluateRulesWithWaivers(graph, {direct}, waivers, day) IN
        /\ Report(3) = EvaluateRulesWithWaivers(graph, {direct},
                          {w \in waivers : w.expires = Absent}, 3)
        /\ \A day \in 1..2 : Report(day).violations \subseteq Report(day + 1).violations

(* The numbers of the summary are of the same graph as the marks on it:    *)
(* every node and edge is of one kind, who is in a cycle or a hub is not   *)
(* an orphan, and an orphan of a kind that is to be used is among the      *)
(* unused; and the source shown around a line is that many lines before    *)
(* and after it, at either end of the file too.                            *)
SummariesAgree ==
    LET stats == GetStats(graph)
        marks == GetAnalysisOverlays(graph)
        Total(counts) == FoldFunction(+, 0, counts) IN
    /\ Total(stats.nodesByKind) = Cardinality(NodesOf(graph))
    /\ Total(stats.edgesByKind) = Cardinality(EdgesOf(graph))
    /\ marks.orphans = stats.orphanNodes
    /\ marks.orphans \cap (marks.circular \cup marks.hubs) = {}
    /\ NodesOfKind(graph, {"spring-endpoint"}) \cap marks.orphans \subseteq stats.unusedEndpoints
    /\ NodesOfKind(graph, {"vue-component"}) \cap marks.orphans
          \subseteq FindUnusedComponents(graph) \cap FindDeadNodes(graph)
    /\ \A length, line, context \in 0..3 :
          GetSourceSnippet(length, line, context) =
              {n \in 1..length : line - context <= n /\ n <= line + context}

RulesAgree == CyclesExact /\ LimitsAgree /\ WaiversLapse /\ (Asked => SummariesAgree)
===========================================================================
