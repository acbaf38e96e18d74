------------------------------ MODULE Linkers ------------------------------
(***************************************************************************)
(* What is done to a graph once the parsers have filled it: the nine steps *)
(* of CrossBoundaryResolver.resolve() and buildMsaServiceGraph(), for a    *)
(* project without services[].                                             *)
(*                                                                         *)
(* A parser cannot know the node behind a name, so it emits the edge to a  *)
(* placeholder: unresolved:<path>, component:<name>, store:<name>,         *)
(* composable:<name>, spring-service:<type>, native:<interface>.<method>.  *)
(* Which node has the name is decided from the metadata; here a name has   *)
(* one node, and the constants say which.                                  *)
(***************************************************************************)
EXTENDS DependencyGraph, FiniteSetsExt

CONSTANTS
    Resolved,   \* what an edge to a placeholder becomes once the name is known
    ByPath,     \* those of them whose name is a path, looked up on disk
    Derived,    \* the edges the linkers add between two nodes
    Shadows,    \* the nodes that make the linker choose another derived edge
    Listened,   \* the two edges that replace a listens-event edge
    EventId,    \* event:<class>, which no parser emits as a node
    Unassigned  \* msa-service:unassigned

ASSUME LinkAssumption ==
    /\ Resolved \in [DOMAIN Resolved -> Edge] /\ DOMAIN Resolved \subseteq Edge
    /\ ByPath \subseteq DOMAIN Resolved
    /\ Derived \subseteq Edge \ Native
    /\ Shadows \in [Derived -> SUBSET NodeId]
    /\ DOMAIN Listened \subseteq Edge
    /\ Listened \in [DOMAIN Listened -> [emits : Edge \ Native, listens : Edge \ Native]]
    /\ EventId \subseteq NodeId
    /\ Unassigned \in NodeId

(* The name of e is that of a node there is.  An import also needs the     *)
(* node that imports, and the imported file to exist on disk now: there    *)
(* is the set of the files that do.                                        *)
Known(g, e, there) ==
    LET n == Dst[Resolved[e]] IN
    /\ HasNode(g, n)
    /\ e \in ByPath => HasNode(g, Src[e]) /\ g.node[n] \in there

(* resolveImports(), the four functions it calls, resolveSpringInjects().  *)
ResolveNames(g, there) ==
    FoldSet(LAMBDA e, h : AddEdge(RemoveEdge(h, e), Resolved[e]), g,
            {e \in EdgesOf(g) \cap DOMAIN Resolved : Known(g, e, there)})

LinkNatives(g) ==
    FoldSet(LAMBDA e, h : LinkNative(h, e), g, EdgesOf(g) \cap Native)

(* resolveEmitListeners(): the event node is filed under the child.        *)
ResolveEmitListeners(g) ==
    LET Link(e, h) ==
            LET l == Listened[e]
                child == Src[l.emits]
                withEvent == AddNode(h, Dst[l.emits], g.node[child]) IN
            AddEdge(RemoveEdge(AddEdge(withEvent, l.emits), e), l.listens) IN
    FoldSet(Link, g, {e \in EdgesOf(g) \cap DOMAIN Listened :
                          HasNode(g, Src[Listened[e].emits])})

CreateSpringEventNodes(g) ==
    FoldSet(LAMBDA n, h : AddNode(h, n, Virtual), g,
            {n \in EventId : ~HasNode(g, n)
                             /\ \E e \in EdgesOf(g) : n \in {Src[e], g.target[e]}})

(* ApiCallLinker, MyBatisLinker, resolveRepositoryToMapper, DtoFlowLinker: *)
(* an edge between two nodes that match, unless one that is tried before   *)
(* matches.  An edge that is there stays.                                  *)
LinkDerived(g) ==
    FoldSet(LAMBDA d, h : AddEdge(h, d), g,
            {d \in Derived : HasNode(g, Src[d]) /\ HasNode(g, Dst[d])
                             /\ \A n \in Shadows[d] : ~HasNode(g, n)})

Resolve(g, there) ==
    LinkDerived(CreateSpringEventNodes(ResolveEmitListeners(
        LinkNatives(ResolveNames(g, there)))))

(* No node has a serviceId without services[].                             *)
BuildMsaServiceGraph(g) ==
    IF NodesOf(g) = {} \/ HasNode(g, Unassigned) THEN g
    ELSE AddNode(g, Unassigned, Virtual)
===========================================================================
