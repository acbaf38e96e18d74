--------------------------- MODULE MCGraphRoutes ---------------------------
(* A browser that looks at the graph and at clusters, and another that     *)
(* asks for clusters of its own depth.                                     *)
EXTENDS GraphRoutes

View(v)    == [view |-> v, depth |-> 0]
Cluster(d) == [view |-> "cluster", depth |-> d]

CONSTANTS c1, c2

MCClients  == {c1, c2}
MCViews    == {View("full"), View("service"), Cluster(1), Cluster(3)}
MCAsks     == [c \in {c1, c2} |->
    IF c = c1 THEN {View("full"), View("service"), Cluster(3)} ELSE {Cluster(1)}]
===========================================================================
