---------------------------- MODULE MCForceGraph ----------------------------
(* The instances TLC checks: a project whose file a, which imports b, is   *)
(* replaced by e, which b imports: as many nodes and edges, the clusters   *)
(* with the same ids and other members, and no chain from the new file.    *)
EXTENDS Panels

Edge(a, b, k) == [source |-> a, target |-> b, kind |-> k]

Project(a, cluster, edge) ==
    [nodes   |-> <<a, "b", "c">>,
     kind    |-> [n \in {a, "b", "c"} |-> IF n = "c" THEN "db-table" ELSE "spring-controller"],
     edges   |-> {edge, Edge("b", "c", "imports")},
     members |-> [c \in {"c1"} |-> cluster]]

MCGraphs  == <<Project("a", {"a", "b"}, Edge("a", "b", "imports")),
               Project("e", {"b", "c"}, Edge("b", "e", "imports"))>>
MCPresets == {AllKinds, [nodes |-> {"db-table"}, edges |-> {}]}

(* getChainTargets()                                                       *)
MCChain == [k \in NodeKinds |->
    IF k = "db-table" THEN [kinds |-> {"spring-controller"}, forward |-> FALSE]
                      ELSE [kinds |-> {"db-table"}, forward |-> TRUE]]
=============================================================================
