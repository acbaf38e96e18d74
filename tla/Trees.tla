------------------------------- MODULE Trees --------------------------------
(***************************************************************************)
(* The trees of the web client: TreeView.vue, what a node needs or what    *)
(* needs it, and BottomUpView.vue, the trace from a table of the database  *)
(* up to the components.  Both walk the graph depth first, and list a tree *)
(* as rows; a row is known by the nodes on the way to it.                  *)
(*                                                                         *)
(* Two kinds of edges point from what needs to what is needed, and are     *)
(* walked both ways; an edge of a kind in SkipInTree repeats another.      *)
(* The edges of a node are taken in some order, which the code has from    *)
(* the server.                                                             *)
(***************************************************************************)
EXTENDS Linking

ReverseSemanticKinds == {"api-serves", "mybatis-maps"}
SkipInTree           == {"dto-flows", "api-implements"}

(* filteredNodes and filteredEdges: what the filter leaves of the graph.   *)
Filtered(g, kinds) ==
    LET nodes == {n \in g.nodes : n.kind \in kinds.nodes}
        ids   == {n.id : n \in nodes} IN
    [nodes |-> nodes,
     edges |-> {e \in g.edges : e.kind \in kinds.edges /\ {e.source, e.target} \subseteq ids}]

Sources(E) == [i \in DOMAIN E |-> E[i].source]
Targets(E) == [i \in DOMAIN E |-> E[i].target]

(* The other direction of the reverse kinds forgotten in one of the walks. *)
BelowOneWay(g, direction) ==
    LET ids     == {n.id : n \in g.nodes}
        known   == {e \in g.edges : {e.source, e.target} \subseteq ids}
        plain   == {e \in known : e.kind \notin SkipInTree}
        reverse == {e \in known : e.kind \in ReverseSemanticKinds}
        out(E, id)  == Targets(SetToSeq({e \in E : e.source = id}))
        into(E, id) == Sources(SetToSeq({e \in E : e.target = id})) IN
    [id \in ids |-> IF direction = "dependencies"
                    THEN out(plain, id) \o into(reverse, id)
                    ELSE into(plain, id) \o into(reverse, id)]

(* The nodes below a node: along its edges first, then against those that  *)
(* are walked both ways.                                                   *)
Below(g, direction) ==
    LET ids     == {n.id : n \in g.nodes}
        known   == {e \in g.edges : {e.source, e.target} \subseteq ids}
        plain   == {e \in known : e.kind \notin SkipInTree}
        reverse == {e \in known : e.kind \in ReverseSemanticKinds}
        out(E, id)  == Targets(SetToSeq({e \in E : e.source = id}))
        into(E, id) == Sources(SetToSeq({e \in E : e.target = id})) IN
    [id \in ids |-> IF direction = "dependencies"
                    THEN out(plain, id) \o into(reverse, id)
                    ELSE into(plain, id) \o out(reverse, id)]

(* A tree is the list of its nodes in the order in which the walk meets    *)
(* them, each with the nodes on the way to it, itself the last.            *)
Under(id, tree) == [i \in DOMAIN tree |-> [tree[i] EXCEPT !.key = <<id>> \o @]]

(* The children, one after the other, each with what was met before it.    *)
Children(id, start, ids, deeper) ==
    LET after[k \in 0..Len(ids)] ==
            IF k = 0 THEN start
            ELSE LET t == deeper[<<ids[k], after[k - 1].visited>>] IN
                 [tree |-> after[k - 1].tree \o Under(id, t.tree), visited |-> t.visited] IN
    after[Len(ids)]

(* A node that is met again is a leaf, and so is one at the end of the     *)
(* depth; deeper is the walk with one edge less to go.                     *)
Walks(below, last, deeper) ==
    LET start(id, visited) ==
            [tree |-> <<[key |-> <<id>>, id |-> id, duplicate |-> id \in visited]>>,
             visited |-> visited \cup {id}] IN
    [at \in (DOMAIN below) \X SUBSET (DOMAIN below) |->
        IF at[1] \in at[2] \/ last THEN start(at[1], at[2])
        ELSE Children(at[1], start(at[1], at[2]), below[at[1]], deeper)]

Traverse(below, depth) ==
    LET walk[left \in 0..depth] == Walks(below, left = 0, walk[left - 1]) IN walk[depth]

BuildTree(g, id, direction, depth) == Traverse(Below(g, direction), depth)[<<id, {}>>].tree

(* The rows of a set of positions, in their order.                        *)
Only(tree, S) == LET kept == InOrder(S) IN [k \in DOMAIN kept |-> tree[kept[k]]]

(* The trace has no leaves for nodes that are met again, and no end.       *)
BuildTrace(g, table) ==
    LET tree == BuildTree(g, table, "dependents", Cardinality(g.nodes)) IN
    Only(tree, {i \in DOMAIN tree : ~tree[i].duplicate})

(* What is below a row that is collapsed is no row.                        *)
Rows(tree, collapsed) ==
    Only(tree, {i \in DOMAIN tree :
                   \A k \in 1..Len(tree[i].key) - 1 : SubSeq(tree[i].key, 1, k) \notin collapsed})

AffectedComponents(g, table) ==
    LET trace == ToSet(Rows(BuildTrace(g, table), {})) IN
    {n \in g.nodes : /\ n.kind \in {"vue-component", "vue-composable", "pinia-store"}
                     /\ \E row \in trace : row.id = n.id}
---------------------------------------------------------------------------
(* What a node needs: the ends of its edges, and what is written against   *)
(* the direction of the need, as the mapper of a statement.                *)
Needs(g) ==
    {<<e.source, e.target>> : e \in {x \in g.edges : x.kind \notin SkipInTree}}
        \cup {<<e.target, e.source>> : e \in {x \in g.edges : x.kind \in ReverseSemanticKinds}}

(* The rows under a root are the nodes that can be reached from it by      *)
(* `needs`, and the way to each is one of `needs`.                          *)
Exact(rows, root, needs, nodes) ==
    LET first == {i \in DOMAIN rows : ~rows[i].duplicate}
        shown == {rows[i].id : i \in first} IN
    /\ root \in shown
    /\ \A p \in needs : p[1] \in shown /\ p[2] \in nodes => p[2] \in shown
    /\ \A i \in DOMAIN rows : LET key == rows[i].key IN
          /\ Len(key) > 1 => <<key[Len(key) - 1], rows[i].id>> \in needs
          /\ rows[i].id \in shown

(* A node that is met again is a leaf, marked as such.                     *)
Unfolded(rows) ==
    LET first == {i \in DOMAIN rows : ~rows[i].duplicate} IN
    Cardinality({rows[i].id : i \in first}) = Cardinality(first)

(* The trees say the same whichever way they are walked: what a root needs *)
(* is all there, unfolded in one place (TreeView.vue), whether or not a    *)
(* kind of nodes is filtered; the trace from a table (BottomUpView.vue),   *)
(* walked the other way, has all that needs it, in rows that can be told   *)
(* apart by their keys; and a component is affected by a table exactly     *)
(* when the table is in its own tree.  By how many ways the trace shows a  *)
(* node is not said: BottomUpView.vue:92-95 expects it under each of its   *)
(* parents, and traverse() leaves out all but the first.                   *)
TreesExact ==
    phase = "watching" =>
        LET all    == {n.kind : n \in graph.nodes}
            kinds(hidden) == [nodes |-> all \ {hidden}, edges |-> {e.kind : e \in graph.edges}]
            shown(g) == {n.id : n \in g.nodes}
            inverse(needs) == {<<p[2], p[1]>> : p \in needs}
            rows(g, id, direction) ==
                Rows(BuildTree(g, id, direction, Cardinality(g.nodes)), {})
            tables == {n.id : n \in {x \in graph.nodes : x.kind = "db-table"}} IN
        /\ \A hidden \in {"none", "spring-endpoint"} : LET g == Filtered(graph, kinds(hidden)) IN
              \A id \in shown(g) :
                  /\ Exact(rows(g, id, "dependencies"), id, Needs(g), shown(g))
                  /\ Exact(rows(g, id, "dependents"), id, inverse(Needs(g)), shown(g))
                  /\ Unfolded(rows(g, id, "dependencies"))
                  /\ Unfolded(rows(g, id, "dependents"))
        /\ \A t \in tables :
              LET trace == Rows(BuildTrace(graph, t), {}) IN
              /\ Exact(trace, t, inverse(Needs(graph)), shown(graph))
              /\ Cardinality({r.key : r \in ToSet(trace)}) = Len(trace)
              /\ AffectedComponents(graph, t) =
                    {n \in graph.nodes :
                        /\ n.kind \in {"vue-component", "vue-composable", "pinia-store"}
                        /\ \E r \in ToSet(rows(graph, n.id, "dependencies")) : r.id = t}
=============================================================================
