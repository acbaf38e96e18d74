-------------------------- MODULE MCAnalysisEngine --------------------------
(* A page that imports, uses and listens to a child component, which in one *)
(* version uses itself, calls native code and publishes an event, and two   *)
(* mappers that share a table until one of them stops reading it.           *)
EXTENDS AnalysisEngine, TLC

MCSorted == <<"a.xml", "b.xml", "child", "page">>
MCFile   == {"a.xml", "b.xml", "child", "page", ""}

MCNodeId == {"a", "b", "table", "child", "page", "Child", "clicked", "native", "method",
             "bridge", "event:saved", "unassigned"}

MCEnds ==  \* edge :> <<source, target, kind>>
    [aReads   |-> <<"a", "table", "reads-table">>,
     bReads   |-> <<"b", "table", "reads-table">>,
     aToB     |-> <<"a", "b", "spring-injects">>,
     import   |-> <<"page", "Child", "imports">>,
     imports  |-> <<"page", "child", "imports">>,
     nest     |-> <<"child", "Child", "uses-component">>,
     nests    |-> <<"child", "child", "uses-component">>,
     listen   |-> <<"page", "Child", "listens-event">>,
     listens  |-> <<"page", "clicked", "listens-event">>,
     emits    |-> <<"child", "clicked", "emits-event">>,
     calls    |-> <<"child", "native", "native-call">>,
     serves   |-> <<"bridge", "method", "api-serves">>,
     saves    |-> <<"child", "event:saved", "emits-event">>]

MCEdge  == DOMAIN MCEnds
MCSrc   == [e \in MCEdge |-> MCEnds[e][1]]
MCDst   == [e \in MCEdge |-> MCEnds[e][2]]
MCKind  == [e \in MCEdge |-> MCEnds[e][3]]
MCKinds == {MCKind[e] : e \in MCEdge}

MCMethod   == [calls |-> "method"]
MCBridge   == [calls |-> "bridge"]
MCServes   == [calls |-> "serves"]
MCResolved == [import |-> "imports", nest |-> "nests"]
MCByPath   == {"import"}
MCDerived  == {"aToB"}
MCShadows  == [aToB |-> {"page"}]
MCListened == [listen |-> [emits |-> "emits", listens |-> "listens"]]
MCEventId  == {"event:saved"}

MCNodesIn ==
    <<"a.xml", 1>> :> {"a", "table"} @@ <<"a.xml", 2>> :> {"a"}
    @@ <<"b.xml", 1>> :> {"b", "table"}
    @@ <<"child", 1>> :> {"child"} @@ <<"child", 2>> :> {"child"}
    @@ <<"page", 1>> :> {"page"}
MCEdgesIn ==
    <<"a.xml", 1>> :> {"aReads"} @@ <<"a.xml", 2>> :> {}
    @@ <<"b.xml", 1>> :> {"bReads"}
    @@ <<"child", 1>> :> {} @@ <<"child", 2>> :> {"nest", "calls", "saves"}
    @@ <<"page", 1>> :> {"import", "listen"}
MCCheckout == [f \in {"a.xml", "b.xml", "child", "page"} |-> 1]
===========================================================================
