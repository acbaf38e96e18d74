------------------------------- MODULE Cycles -------------------------------
(***************************************************************************)
(* The two recursive algorithms of packages/core/src/analyzers: Tarjan's   *)
(* strongly connected components, of CircularDependencyAnalyzer.ts, and    *)
(* the depth of the chains, of RuleEngine.ts.                              *)
(*                                                                         *)
(* A call of either is a function of what it is called with, given the     *)
(* function for the calls it makes.  Each call visits a node that those    *)
(* under way have not, so that they are at most as many as the nodes.      *)
(***************************************************************************)
EXTENDS Queries

Lesser(a, b) == IF a < b THEN a ELSE b

Unvisited == 2 * Cardinality(NodeId)    \* no entry in indices

(* The variables of the search.                                            *)
Search == [index : Nat, stack : Seq(NodeId), sccs : SUBSET SUBSET NodeId,
           indices : [NodeId -> Nat], lowLinks : [NodeId -> Nat]]

Unvisiting == [index |-> 0, stack |-> <<>>, sccs |-> {},
               indices |-> [n \in NodeId |-> Unvisited],
               lowLinks |-> [n \in NodeId |-> Unvisited]]

(* The component of n is complete: it is what is on the stack from n on.   *)
PopComponent(s, n) ==
    LET under == {i \in DOMAIN s.stack : \E k \in DOMAIN s.stack : k > i /\ s.stack[k] = n}
        scc   == {s.stack[i] : i \in DOMAIN s.stack \ under} IN
    [s EXCEPT !.stack = SubSeq(@, 1, Cardinality(under)),
              !.sccs = IF Cardinality(scc) > 1 THEN @ \cup {scc} ELSE @]

Enter(s, n) ==
    [s EXCEPT !.index = @ + 1, !.stack = Append(@, n),
              !.indices[n] = s.index, !.lowLinks[n] = s.index]

Lower(s, n, link) == [s EXCEPT !.lowLinks[n] = Lesser(@, link)]

(* Mutation of Visit: a node of a finished component counts too.           *)
VisitAnyStack(deeper, n, t, s) ==
    IF s.indices[t] = Unvisited
    THEN LET left == deeper[<<s, t>>] IN Lower(left, n, left.lowLinks[t])
    ELSE Lower(s, n, s.indices[t])

(* An edge from n to t.                                                    *)
Visit(deeper, n, t, s) ==
    IF s.indices[t] = Unvisited
    THEN LET left == deeper[<<s, t>>] IN Lower(left, n, left.lowLinks[t])
    ELSE IF t \in ToSet(s.stack) THEN Lower(s, n, s.indices[t]) ELSE s

StrongConnect(g, deeper) ==
    [at \in Search \X NodeId |->
        LET n    == at[2]
            left == FoldSet(LAMBDA t, s : Visit(deeper, n, t, s),
                            Enter(at[1], n), Neighbours(g, n, "out")) IN
        IF left.lowLinks[n] = left.indices[n] THEN PopComponent(left, n) ELSE left]

Connect(g) ==
    LET connect[left \in Nat] ==
            IF left = 0 THEN [at \in Search \X NodeId |-> at[1]]
            ELSE StrongConnect(g, connect[left - 1]) IN
    connect[Cardinality(NodeId)]

(* The components with more than one node.                                 *)
FindCircularDependencies(g) ==
    LET connect == Connect(g) IN
    FoldSet(LAMBDA n, s : IF s.indices[n] = Unvisited THEN connect[<<s, n>>] ELSE s,
            Unvisiting, NodesOf(g)).sccs

(* The nodes of the longest chain from at[1]; at[2] is what is on the way. *)
Deepen(g, edgeKinds, deeper) ==
    [at \in NodeId \X SUBSET NodeId |->
        LET next == {g.target[e] : e \in {o \in GetOutEdges(g, at[1]) : Kind[o] \in edgeKinds}}
            way  == at[2] \cup {at[1]} IN
        1 + Max({0} \cup {deeper[<<m, way>>] : m \in next \ way})]

MeasureDepth(g, n, edgeKinds) ==
    LET depth[left \in Nat] ==
            IF left = 0 THEN [at \in NodeId \X SUBSET NodeId |-> 0]
            ELSE Deepen(g, edgeKinds, depth[left - 1]) IN
    depth[Cardinality(NodeId)][<<n, {}>>]
===========================================================================
