--------------------------- MODULE AnalysisEngine ---------------------------
(***************************************************************************)
(* packages/server/src/engine.ts: one graph that full runs rebuild and the *)
(* file watcher changes in place, while the files change underneath.       *)
(*                                                                         *)
(* A handler of the event loop is one action.  runAnalysis() is cut where  *)
(* it awaits: the listing of the files, and the workers of the parser if   *)
(* enough files need them (ParallelParser.tla has what happens there).     *)
(* From the scan of the files to the end of the run there is no await when *)
(* they are not needed, so no other handler runs then (InTurn).            *)
(***************************************************************************)
EXTENDS Linkers, SequencesExt

CONSTANTS
    Sorted,            \* the files of the project in the order of their paths
    Text,              \* what a file may contain
    NodesIn, EdgesIn,  \* what the parser finds in a file with a text
    Checkout,          \* the texts of the files when the server starts
    Watch,             \* started with --watch
    WORKER_THRESHOLD,
    MaxEdits, MaxRuns  \* bounds of the model

SourceFile == Range(Sorted)

ASSUME EngineAssumption ==
    /\ Sorted \in Seq(File \ {Virtual})
    /\ Absent \notin Text
    /\ DOMAIN NodesIn \subseteq SourceFile \X Text
    /\ DOMAIN EdgesIn = DOMAIN NodesIn
    /\ \A v \in DOMAIN NodesIn : NodesIn[v] \subseteq NodeId /\ NodesIn[v] # {}
    /\ \A v \in DOMAIN EdgesIn : EdgesIn[v] \subseteq Edge
    /\ Checkout \in [SourceFile -> Text \cup {Absent}]
    /\ \A f \in SourceFile : Checkout[f] # Absent => <<f, Checkout[f]>> \in DOMAIN NodesIn
    /\ Watch \in BOOLEAN
    /\ MaxEdits \in Nat /\ MaxRuns \in Nat

(* The node of an event, "vue-event:<component>:<event>", is emitted by no *)
(* parser, and that of a component, "vue:<path>", by the parser of its     *)
(* file alone.                                                             *)
ASSUME EventAssumption ==
    \A l \in Range(Listened) :
        LET child == Src[l.emits] IN
        /\ \A v \in DOMAIN NodesIn : Dst[l.emits] \notin NodesIn[v]
        /\ \A k \in Range(Listened) : Dst[k.emits] # child
        /\ \A v, w \in DOMAIN NodesIn :
              child \in NodesIn[v] \cap NodesIn[w] => v[1] = w[1]

VARIABLES
    disk,       \* the text of each file
    events,     \* what chokidar has reported and the engine not handled
    watching,   \* this.watcher is set
    graph,      \* this.graph
    cache,      \* ParseCache: the text whose parse result is stored
    phase,      \* where runAnalysis() is suspended
    batch,      \* the text of each file listed that the scan has read
    hits,       \* the files whose result came from the cache
    aborted,    \* the signal of abortController
    outcome,    \* what the last run came to
    errors,     \* graph.metadata.parseErrors
    closed,     \* dispose() was called
    since,      \* history: what happened since the last run began
    edits, runs \* how much of the bounds is used

fsVars  == <<disk, events, watching, edits>>
runVars == <<phase, batch, hits, aborted, outcome, errors, runs>>
vars    == <<fsVars, runVars, graph, cache, closed, since>>

Maybe == Text \cup {Absent}

EngineTypeOK ==
    /\ disk \in [SourceFile -> Maybe]
    /\ events \in Seq([file : SourceFile, unlinked : BOOLEAN])
    /\ watching \in BOOLEAN
    /\ graph \in Graph
    /\ cache \in [SourceFile -> Maybe]
    /\ phase \in {"idle", "listing", "scanning", "merging", "parsing"}
    /\ \E S \in SUBSET SourceFile : batch \in [S -> Maybe]
    /\ hits \subseteq DOMAIN batch
    /\ aborted \in BOOLEAN
    /\ outcome \in {"none", "running", "complete", "cancelled"}
    /\ errors \subseteq SourceFile
    /\ closed \in BOOLEAN
    /\ since \subseteq {"edit", "unreported", "overlap", "update"}
    /\ edits \in 0..MaxEdits
    /\ runs \in 0..MaxRuns

Init ==
    /\ disk = Checkout
    /\ events = <<>>
    /\ watching = FALSE
    /\ graph = EmptyGraph
    /\ cache = [f \in SourceFile |-> Absent]
    /\ phase = "idle"
    /\ batch = <<>>
    /\ hits = {}
    /\ aborted = FALSE
    /\ outcome = "none"
    /\ errors = {}
    /\ closed = FALSE
    /\ since = {}
    /\ edits = 0
    /\ runs = 0

Analyzing == phase # "idle"
InTurn    == phase = "merging"
OnDisk    == {f \in SourceFile : disk[f] # Absent}
Happened(what) == since' = since \cup what
---------------------------------------------------------------------------
(* Somebody writes or removes a file.                                      *)
Edit(f) ==
    /\ edits < MaxEdits
    /\ edits' = edits + 1
    /\ \E t \in Maybe :
          /\ t # disk[f] /\ (t = Absent \/ <<f, t>> \in DOMAIN NodesIn)
          /\ disk' = [disk EXCEPT ![f] = t]
          /\ events' = IF watching
                       THEN Append(events, [file |-> f, unlinked |-> t = Absent])
                       ELSE events
    /\ Happened({"edit"} \cup IF watching THEN {} ELSE {"unreported"})
    /\ UNCHANGED <<watching, runVars, graph, cache, closed>>

---------------------------------------------------------------------------
(* The parse cache.  An entry is keyed by the hash of the content, so the  *)
(* result found is that of the text asked for, or there is none.  After    *)
(* dispose() every statement fails, and the failure is caught.             *)

(* Mutation of Cached: the hash is not compared.                           *)
CachedByPath(f, t) == ~closed /\ cache[f] # Absent

Cached(f, t) == ~closed /\ cache[f] = t

Store(c, f, t) == IF closed THEN c ELSE [c EXCEPT ![f] = t]
Invalidate(S)  == [f \in SourceFile |-> IF f \in S THEN Absent ELSE cache[f]]

---------------------------------------------------------------------------
(* Building a graph.                                                       *)

(* The nodes and then the edges of the files of the sequence, each with    *)
(* the text given.                                                         *)
AddParsed(g, files, text) ==
    LET AddNodes(h, f) == FoldSet(LAMBDA n, k : AddNode(k, n, f), h, NodesIn[<<f, text[f]>>])
        AddEdges(h, f) == FoldSet(LAMBDA e, k : AddEdge(k, e), h, EdgesIn[<<f, text[f]>>])
    IN FoldLeft(AddEdges, FoldLeft(AddNodes, g, files), files)

(* The files of S as the listing has them.                                 *)
InOrder(S) == FoldLeft(LAMBDA q, f : IF f \in S THEN Append(q, f) ELSE q, <<>>, Sorted)

Link(g) == BuildMsaServiceGraph(Resolve(g, OnDisk))

(* What a run on an empty cache makes of the files as they are now.        *)
ColdRun == Link(AddParsed(EmptyGraph, InOrder(OnDisk), disk))

---------------------------------------------------------------------------
(* runAnalysis().                                                          *)

(* initialize(), or POST /api/analyze once initialize() is over; a call    *)
(* that finds the engine analyzing returns at once.                        *)
RunAnalysis ==
    /\ runs < MaxRuns
    /\ runs' = runs + 1
    /\ ~Analyzing /\ ~closed
    /\ runs > 0 => watching = Watch
    /\ phase' = "listing"
    /\ outcome' = "running"
    /\ aborted' = FALSE
    /\ graph' = EmptyGraph
    /\ errors' = {}
    /\ since' = {}
    /\ UNCHANGED <<fsVars, batch, hits, cache, closed>>

(* discoverFiles(): the directories are walked asynchronously.             *)
DiscoverFiles ==
    /\ phase = "listing"
    /\ phase' = "scanning"
    /\ batch' = [f \in OnDisk |-> Absent]
    /\ hits' = {}
    /\ UNCHANGED <<fsVars, aborted, outcome, errors, runs, graph, cache, closed, since>>

(* Mutation of Cancelled: there is no finally.                             *)
CancelledForGood ==
    /\ phase' = phase
    /\ outcome' = "cancelled"
    /\ UNCHANGED <<fsVars, batch, aborted, errors, runs, graph, cache, closed, since>>

(* The progress callback threw.  The graph stays as the run had begun it.  *)
Cancelled ==
    /\ phase' = "idle"
    /\ outcome' = "cancelled"
    /\ UNCHANGED <<fsVars, batch, aborted, errors, runs, graph, cache, closed, since>>

(* parseAll() reads every file listed and looks it up.  The progress       *)
(* callback is called for the files that need no parsing, and throws when  *)
(* the run was cancelled.                                                  *)
Unread == {f \in DOMAIN batch : batch[f] = Absent}
Fresh  == DOMAIN batch \ (hits \cup Unread)

Found == {f \in DOMAIN batch \cap OnDisk : Cached(f, disk[f])}

Scan ==
    /\ phase = "scanning"
    /\ LET listed == DOMAIN batch
           toParse == (listed \cap OnDisk) \ Found IN
       IF aborted /\ listed # toParse
       THEN Cancelled /\ UNCHANGED hits
       ELSE /\ hits' = Found
            /\ batch' = [f \in listed |->
                            IF f \in Found THEN cache[f] ELSE disk[f]]
            /\ phase' = IF Cardinality(toParse) >= WORKER_THRESHOLD
                        THEN "parsing" ELSE "merging"
            /\ UNCHANGED <<fsVars, aborted, outcome, errors, runs, graph, cache,
                           closed, since>>

(* The rest of the run.  A worker that dies takes its file along: the file *)
(* is in lost.  Results from the cache come before fresh ones.             *)
Finish ==
    /\ phase \in {"merging", "parsing"}
    /\ IF aborted /\ Fresh # {}
       THEN Cancelled /\ UNCHANGED hits
       ELSE \E lost \in SUBSET Fresh :
            LET parsed == Fresh \ lost
                order == InOrder(hits) \o InOrder(parsed) IN
            /\ phase = "merging" => lost = {}
            /\ graph' = Link(AddParsed(graph, order, batch))
            /\ cache' = [f \in SourceFile |->
                            IF f \in parsed /\ ~closed THEN batch[f] ELSE cache[f]]
            /\ errors' = Unread \cup lost
            /\ phase' = "idle"
            /\ outcome' = "complete"
            /\ UNCHANGED <<fsVars, batch, hits, aborted, runs, closed, since>>

(* cancelAnalysis().                                                       *)
CancelAnalysis ==
    /\ ~InTurn
    /\ Analyzing /\ ~aborted
    /\ runs > 1                \* the server listens once initialize() is over
    /\ aborted' = TRUE
    /\ UNCHANGED <<fsVars, phase, batch, hits, outcome, errors, runs, graph, cache,
                   closed, since>>

---------------------------------------------------------------------------
(* The watcher.                                                            *)

StartWatching ==
    /\ Watch /\ ~watching /\ ~closed
    /\ runs = 1 /\ ~Analyzing
    /\ watching' = TRUE
    /\ UNCHANGED <<disk, events, edits, runVars, graph, cache, closed, since>>

(* Mutation of Due: reading a file that is gone is an uncaught error, and  *)
(* the watcher stays where it is.                                          *)
DueIfReadable ==
    /\ ~InTurn /\ watching /\ events # <<>>
    /\ Head(events).unlinked \/ disk[Head(events).file] # Absent

Due == ~InTurn /\ watching /\ events # <<>>

(* Mutation of Reparse: the graph is left to a run that is going on.       *)
ReparseWhenIdle(f) ==
    LET rest == RemoveByFile(graph, f) IN
    IF Analyzing THEN graph
    ELSE Link(IF disk[f] = Absent THEN rest ELSE AddParsed(rest, <<f>>, disk))

(* handleFileChange(): the file may be gone again when it is read.         *)
Reparse(f) ==
    LET rest == RemoveByFile(graph, f) IN
    Link(IF disk[f] = Absent THEN rest ELSE AddParsed(rest, <<f>>, disk))

(* The handlers of 'change' and 'add', and of 'unlink', which does not     *)
(* link again.  The files that depend on this one leave the cache.         *)
HandleEvent ==
    /\ Due
    /\ events' = Tail(events)
    /\ LET e == Head(events)
           kept == Invalidate({e.file} \cup Dependents(graph, e.file)) IN
       IF e.unlinked
       THEN /\ graph' = RemoveByFile(graph, e.file)
            /\ cache' = kept
       ELSE /\ graph' = Reparse(e.file)
            /\ cache' = Store(kept, e.file, disk[e.file])
    /\ Happened({"update"} \cup IF Analyzing THEN {"overlap"} ELSE {})
    /\ UNCHANGED <<disk, watching, edits, runVars, closed>>

(* dispose(), when the server shuts down: the parser, the cache and the    *)
(* watcher.                                                                *)
Dispose ==
    /\ ~InTurn /\ ~closed
    /\ runs > 0 /\ watching = Watch
    /\ closed' = TRUE
    /\ watching' = FALSE
    /\ events' = <<>>
    /\ UNCHANGED <<disk, edits, runVars, graph, cache, since>>

Next ==
    \/ \E f \in SourceFile : Edit(f)
    \/ RunAnalysis
    \/ DiscoverFiles
    \/ Scan
    \/ Finish
    \/ CancelAnalysis
    \/ StartWatching
    \/ HandleEvent
    \/ Dispose

Spec == Init /\ [][Next]_vars

Finishing == phase \in {"merging", "parsing"} /\ (InTurn \/ ~closed)

(* The event loop gets round to what is due.  The workers answer or die    *)
(* (ParseAllReturns), unless dispose() takes the pool away.  Of the last   *)
(* two actions, which build graphs, weak fairness is written with their    *)
(* guards instead of ENABLED.                                              *)
Fairness ==
    /\ WF_vars(DiscoverFiles)
    /\ WF_vars(Scan)
    /\ WF_vars(StartWatching)
    /\ []<>~Finishing \/ []<><<Finish>>_vars
    /\ []<>~Due \/ []<><<HandleEvent>>_vars

FairSpec == Spec /\ Fairness
---------------------------------------------------------------------------
(* Properties.                                                             *)

(* A run that was not disturbed makes the same graph with a warm cache as  *)
(* with a cold one ("cold run, warm run", phase-x-requirements-spec.md     *)
(* :361): whatever the earlier runs and the watcher have left in the       *)
(* cache, what it answers is what the files say now.                       *)
WarmEqualsCold ==
    outcome = "complete" /\ since = {} /\ errors = {}
        => Content(graph) = Content(ColdRun)

(* The watcher has reported every change since the run and the engine has  *)
(* handled every report.                                                   *)
UpToDate ==
    /\ outcome = "complete" /\ ~closed
    /\ events = <<>> /\ "unreported" \notin since

Private(f) ==
    {n \in NodeId : \A v \in DOMAIN NodesIn : n \in NodesIn[v] => v[1] = f}

(* No change is lost between a run and the watcher: the engine may be      *)
(* listing, reading or parsing when a file changes, and once all reports   *)
(* are handled the nodes only that file has are in the graph, or the file  *)
(* is listed under parseErrors.                                            *)
NothingMissing ==
    UpToDate =>
        \A f \in OnDisk \ errors : \A n \in NodesIn[<<f, disk[f]>>] \cap Private(f) :
            graph.node[n] = f

EventNodesOf(f) ==
    {Dst[l.emits] : l \in {k \in Range(Listened) : graph.node[Src[k.emits]] = f}}

Ghosts ==
    {n \in NodesOf(graph) : \E f \in SourceFile :
        /\ graph.node[n] = f
        /\ disk[f] = Absent \/ n \notin NodesIn[<<f, disk[f]>>]
        /\ n \notin EventNodesOf(f)}

(* A node of a file is in the graph only as long as the file has it, if no *)
(* report was handled while the run was going on.                          *)
NoGhosts == UpToDate /\ "overlap" \notin since => Ghosts = {}

(* With the types: once all reports are handled the graph is of the files  *)
(* on the disk.                                                            *)
MirrorsDisk == EngineTypeOK /\ NothingMissing /\ NoGhosts

(* Every secondary index stays in sync with the nodes and the edges        *)
(* ("keeps every secondary index in sync", DependencyGraph.ts:55), through *)
(* all the runs, linkers and reports: an edge is listed under its source,  *)
(* its target and its kind and nowhere else, and a node can be found by    *)
(* its file, also one that was emitted by two files, or that the linkers   *)
(* made.  The edges whose target the native linker moves are not found by  *)
(* their target, which NativeBridgeLinker.ts leaves as it was.             *)
IndexesInSync ==
    /\ OutIndexed(graph)
    /\ InIndexed(graph)
    /\ KindIndexed(graph)
    /\ FileIndexed(graph)

(* Whatever the linkers have made of the edges, removeByFile() reports     *)
(* every file that has one into what it is about to remove, or its cached  *)
(* parse result would not be invalidated.                                  *)
DependentsComplete ==
    \A f \in SourceFile : \A e \in EdgesOf(graph) \ Native :
        LET h == graph.node[Src[e]] IN
        graph.target[e] \in GetNodesByFile(graph, f) /\ h \notin {f, Virtual, Absent}
            => h \in Dependents(graph, f)

(* A node that is removed takes its edges along: an edge that had both     *)
(* ends in the graph is not left there without one of them by a report or  *)
(* the next run, or the client would draw a link to nothing.               *)
NoEdgeLeftBehind ==
    [][\A e \in Edge \ Native :
          Linked(graph, e) => Linked(graph', e) \/ ~HasEdge(graph', e)]_graph

(* Whoever saw the graph under the revision "analyzedAt:version" and finds *)
(* the same revision again has the same nodes and edges: no run, update or *)
(* linker changes them and leaves the revision.  GraphRoutes.tla builds on *)
(* this.                                                                   *)
RevisionExact ==
    [][Content(graph') # Content(graph) =>
          runs' > runs \/ graph'.version > graph.version]_vars

(* A run comes to an end, whatever is cancelled, deleted or crashes; until *)
(* then every other one is refused.                                        *)
RunEnds == Analyzing ~> ~Analyzing \/ closed

(* The engine never stops at a report, not even at one of a file that is   *)
(* gone by the time it is handled.                                         *)
ReportsHandled == (events # <<>>) ~> (events = <<>>)

---------------------------------------------------------------------------
(* "cold run, warm run, incremental run" are to give the same result       *)
(* (docs/phase-x-requirements-spec.md:361).                                *)

(* After an update nothing distinguishes the graph from that of a new run. *)
IncrementalEqualsFull ==
    UpToDate /\ "overlap" \notin since /\ errors = {}
        => Content(graph) = Content(ColdRun)
===========================================================================
