# Vue dependency analyzer: TLA+ models, checks and proofs

The repository reads a project (Vue, TypeScript, Java, Kotlin, MyBatis, SQL), builds one dependency
graph of it, and serves, watches, queries, reports on and displays that graph. This directory models it:
the parts that keep state under concurrency, failure or change as state machines, the algorithms as
operators that are compared with what they are for. TLC checks them on small instances, TLAPS proves
the most important facts for every instance. Paths below are relative to `packages/` unless they start
with `docs/`; line numbers are those of the modelled commit.

1. [The system](#1-the-system)
2. [Modules and how they correspond to the code](#2-modules-and-how-they-correspond-to-the-code)
3. [Runs](#3-runs)
4. [Where the code does not do what the repository says, or what one would expect](#4-where-the-code-does-not-do-what-the-repository-says-or-what-one-would-expect)
5. [Fairness](#5-fairness)
6. [Proofs](#6-proofs)
7. [Abstractions, and what is not modelled](#7-abstractions-and-what-is-not-modelled)
8. [What is left](#8-what-is-left)

## 1. The system

### Components

| Component | State it keeps | Operations | What makes it correct |
|---|---|---|---|
| Parser threads: `WorkerPool`, `parseWorker` (`core/src/engine`) | queue of tasks, workers with ready/busy/inflight, the promise of each `run()` | `warmup`, `run`, `dispatch`, `dispose`; handlers of `ready`, `task-done`, `error`, `exit` | every promise is settled once, with the result of its own file, whatever threads crash; no task waits beside a free worker |
| `ParallelParser.parseAll` | the pool, the outputs of the call that is running | cache phase, choice of pool or main thread, fallback, cancellation by a throwing callback, `dispose` | the result accounts for every file once; a cancelled call returns no result; every call returns |
| `DependencyGraph` (`core/src/graph`) | nodes, edges, four indexes, version | `addNode`, `addEdge`, `removeNode(s)`, `removeEdge`, `removeByFile`, degree and edge queries | the indexes agree with nodes and edges; `removeByFile` reports every dependent file |
| File parsers (`core/src/parsers`) | none | text to nodes and edges | what they emit is what the linkers and stores expect |
| Linkers (`core/src/linkers`) | none; they change the graph | `resolve()` and its nine steps, `buildMsaServiceGraph` | links are exactly those the sources justify, whatever order the files came in |
| `AnalysisEngine` (`server/src/engine.ts`) | the graph, the run that is going on, abort signal, watcher, cluster cache, sockets | `initialize`, `runAnalysis`, `cancelAnalysis`, `handleFileChange`, `expandCluster`, `dispose`; some thirty read-only views | no change is lost between runs and watcher; a warm run equals a cold one; every run ends; a revision names one content; the parts it shows add up to the whole |
| Graph routes (`server/src/routes/graphRoutes.ts`) | 16 cached bodies; browsers keep ETags | `GET /api/graph`, `/service/:id`, `/cluster/:id` | an answer, cached or revalidated, is that of the current graph; ids of clusters stay valid while the graph does |
| `ParseCache` (`core/src/engine`) | an SQLite file with rows and a configuration stamp, shared by processes; a JSON file of an earlier release | open, migrate, bust, `get`, `set`, `setMany`, `invalidate` | no process uses a result of another text or configuration, wherever another one dies |
| Queries and analyzers (`core/src/graph/query.ts`, `core/src/analyzers`, `core/src/git`) | none | reachability, paths, cycles, impact, orphans, dead code, decommissioning, rules, layers, waivers, anti-patterns, DTO report | equal to their definitions; advice is safe to follow |
| Snapshot stores, breaking changes (`core/src/engine`) | rows in `.vda-cache` by label | save, compare, report; used by server and command line | rows of two projects never mix; a report is exactly what broke |
| Command line (`cli/src`) | the same caches | one run per process; snapshots, reports, advice | its rows are those a parser would give |
| Web client (`web-ui/src`) | the graph shown, progress, sockets, session; selection and its history, filters, clusters, the drawing; what each panel shows | fetches, socket events, login, gestures, panels | it ends up with the latest graph, reconnects; the drawing is what the stores say; a panel shows what it says it shows |
| Server start, authentication, audit log, health, telemetry, bench | counters, a bounded list | - | not modelled |

### How they interact

```
browser --HTTP--> graphRoutes --calls--> AnalysisEngine --awaits--> ParallelParser --messages--> threads
   ^                 |cache                | graph, linkers                |
   |  <--socket messages (broadcast)-------+  views, rules, reports        +--> ParseCache (SQLite)
   +-- timers, login, panels               ^ watcher reports          snapshot stores (SQLite)
                                        file system                       ^ other processes, CLI
```

The server is one JavaScript event loop: a handler runs until it awaits. `runAnalysis()` awaits the
listing of the files and, if there are enough of them to parse, the workers; file reports, requests,
cancellations and `dispose()` are handled in between and work on the same graph. The threads, the files
on disk, other processes with the same cache, sockets and HTTP answers move independently.

### What is hard here

Every hazard is listed in `PROJECT.json` at its line with the properties that would catch it. In short:

- *threads*: a worker dies with a task, dies before it is ready, answers after its task was given up,
  or exits after an error event already removed it (both handlers fire);
- *await points*: the watcher updates the graph a run is about to add older results to; `dispose()` takes
  the pool away from a running `parseAll()`; a cancellation is only seen in a progress callback;
- *stale state*: indexes after an edge was retargeted in place, bodies cached under a revision that does
  not move, cluster ids from an earlier partition, rows of another configuration, a file read twice;
- *order*: messages and answers of overlapping fetches, a reload of the page's session in mid-life; files
  whose parses end in any order while name lookups take the first or the last of several nodes;
- *crashes*: a process that dies between the statements that empty and re-stamp the cache, or between
  the rows it writes under a shared label and the comparison that reads them;
- *whole-graph algorithms*: a search that marks what it visited on a longer way first, advice to delete
  files that cycles keep alive, two implementations of one question that must agree.

## 2. Modules and how they correspond to the code

`PROJECT.json` maps each definition to the lines it stands for.

| Module | Models | Uses |
|---|---|---|
| `ParseService` | what the pool promises: abstract specification | - |
| `WorkerPool` | class `WorkerPool` and `parseWorker.ts` | implements `ParseService` |
| `ParallelParser` | `parseAll()`, `dispose()` | extends `WorkerPool` |
| `DependencyGraph` | the class as operators on a graph value | - |
| `Linkers` | the resolvers and linkers with the outcome of each lookup as a parameter | extends `DependencyGraph` |
| `AnalysisEngine` | runs, watcher, cancellation, shutdown | extends `Linkers` |
| `GraphRoutes` | body cache, ETags, cluster ids | builds on `RevisionExact` of `AnalysisEngine` |
| `ParseCache` | the SQLite cache and the processes that share it | - |
| `WebClient` | one page, its sockets, requests, session | builds on `RevisionExact`, `RunEnds` |
| `Selection`, `ForceGraph`, `Panels` | selection and search; stores, clusters and drawing; the panels that ask the server | each extends the one before |
| `JvmParsers`, `FrontParsers` | what each parser emits for a file | `FrontParsers` extends `JvmParsers` |
| `Resolver`, `DtoFlow`, `Linking` | the lookups of the linkers; the way of a DTO; files in any order, resolved again and again | each extends the one before |
| `Trees` | the tree and the trace of the web client, over `Linking`'s graphs | extends `Linking` |
| `Queries`, `Cycles` | `query.ts` and the counting analyzers; Tarjan and the depth of chains | extend `DependencyGraph` |
| `Analyzers`, `LayerDsl`, `Views` | entry points, dead code, decommission, impact, services; layers and the rules they compile to; the engine's read-only methods | each extends the one before |
| `Rules` | the rules of the linter, waivers, anti-patterns, the server's summaries | extends `Views` and `Cycles` |
| `BreakingChanges`, `SnapshotStores` | the surface of a project and what breaks; the stores and their processes | extend `JvmParsers` |
| `*Proofs` | theorems | the module they are named after; `WorkerPoolProofs` also `ParallelParser`, `PanelsProofs` also `Selection` and `ForceGraph`, `AnalysisEngineProofs` also `DependencyGraphProofs`; `ServerProofs` is about `GraphRoutes`, `Analyzers`, `Views` and `Rules`, `CoreProofs` about `ParseCache`, `Linking` and `Trees`, both with `DependencyGraphProofs` |
| `MC*` | the instances TLC checks | |

**WorkerPool.** The main thread's handlers (`Warmup`, `WarmupTimeout`, `Run`, `OnReady`, `OnTaskDone`,
`OnError`, `OnExit`, `Dispose`) are one action each; each includes the `dispatch()` at its end. A thread
boots, finishes, raises or quits at any moment (`Boot`, `Finish`, `Raise`, `Quit`); what it has posted
and the main thread not handled is `hello` and `done`. `postMessage` to a dead thread is dropped.

**ParallelParser.** `phase` is where the call is suspended. A turn of the event loop is split at the
branches of the code, and `InTurn` keeps every other handler out while a turn lasts. `Collect` takes the
answers of the pool one by one; one with an error, or without a result, becomes an error of its file.

**DependencyGraph, Linkers.** A graph is a record with the fields of the class. An edge's id
is made of its source, kind and target name, so `Src`, `Dst` and `Kind` are functions of the id; the
native-bridge linker assigns `edge.target` afterwards, which `graph.target` records. The methods are called
by `AnalysisEngine`'s runs, linkers and reports, and by `Analyzers`. Which names match is data here:
`Resolved`, `Listened`, `Derived`, `Shadows`.

**AnalysisEngine.** `RunAnalysis`, `DiscoverFiles`, `Scan`, `Finish` are the stretches of
`runAnalysis()` between awaits; `HandleEvent` is the watcher's handler with its relinking and its cache
invalidation; `Edit` is anybody changing a file. `since` is a history variable that says what happened
since the last run began: the properties use it to speak of undisturbed runs.

**GraphRoutes.** The graph is its revision (`analyzedAt:version`), whether it has nodes, and the two
metadata fields that are assigned without a new revision. A body is what it was computed from.
(`engine` is that record; the actions are `RoutesNext`, so that the module can stand beside `Analyzers`.)
`length` stands for the body length in the ETag: it tells apart one file count from another of a
different number of digits. The cache is a set of entries with their age, which is what a `Map` in
insertion order is.

**ParseCache.** Every SQL statement outside a transaction and every file-system call is a step; `End`
may happen anywhere and is both the normal end and a crash. A result is named by its text and
configuration, by whether its edges are all there, and by the file whose path and metadata its table node
has. `FindUncached` and `SaveFile` are the command line's loop (`cli/src/config.ts:173-184`), which reads a
file once to ask whether it is cached and once more for the hash, and which saves what the *graph* has of the file
(`FromGraph`): a table that several files emit is, in the graph, the object that was added last, and is found by
the path that any of these objects has. `past` is a history of the four circumstances that can spoil a row:
`mixed`, `edited`, `loose`, `shared`; each excuses one part of a result, until a process that is alone empties
the rows.

**WebClient.** `pending` counts requests by kind and progress, since they are answered in any order;
`link` and `inbox` are the sockets of the page. `missed` is a history of what the page cannot know.

**JvmParsers, FrontParsers.** A file is a record of what its syntax has (for a Java class its
annotations, mappings, fields, injections, events; for a component its imports, calls, tags, emits), and
the parser is the function from it to nodes and edges: every condition on what is emitted, every id,
every piece of metadata later steps read. How tree-sitter, Babel or a regular expression finds these
things in a text is left out. The two SQL parsers are here too: statements grouped by kind within a file
and files ordered by version.

**Resolver, DtoFlow, Linking.** The graph is `[nodes, edges, order]`, `order` being the files in the
order in which they were added, because `Map`s keep the last node of a name and `find()` the first. Each
step of `CrossBoundaryResolver.resolve()` is an operator on such a graph, with the real lookups: aliases,
paths from the directory of the file, its parents or the root, extensions and index files, component names, store
needles, URL templates, class names. A URL is a sequence of pieces, cut at each slash, and also where the base of the API ends
and where a query begins, since the code cuts the base by characters (`ApiCallLinker.ts:63`) and never cuts a query:
pieces with no slash between them are one segment. `Linking` adds
the files in every order, resolves, and lets files arrive later by the watcher. `DtoFlow` has both
readers of a DTO's fields, the linker that describes the flow and the checker that reports differences.

**Trees.** `Traverse` is the depth-first walk that `TreeView.vue` and `BottomUpView.vue` both make, with
the kinds of edges that are skipped or walked both ways. A tree is the list of its nodes in the order in
which the walk meets them, each with its key, the nodes on the way to it; `Rows` leaves out what is below a
row that is collapsed. A trace is the tree without the leaves for nodes that are met again.

**Queries, Cycles.** Breadth-first searches are written by layers: after k rounds a search has seen
what is k edges away, whatever its queue's order. A call of Tarjan's `strongConnect` or of `measureDepth` is
a function of what it is called with, given the function for the calls it makes (`StrongConnect`, `Deepen`);
each call visits a node that those under way have not, so that as many layers of them as there are nodes are all of them.

**Analyzers, LayerDsl, Views, Rules.** The state is a graph to which the edges of a small shop are added one by
one and from which files are removed; services are built and built again. Every graph on the way is
asked everything: the state machine is there to enumerate graphs that files can give, with what
`buildMsaServiceGraph` leaves in them.

**BreakingChanges, SnapshotStores.** What a signature row is, how two sets of rows, of tables and of
counts differ, which differences are breaking and what waivers lift. The machine is a developer who
edits, the server that analyses, and two reporters (command line and server) that write under the same
label `__pending__`; every SQLite transaction is a step and a process may be killed between two.

**Selection, ForceGraph, Panels.** A graph of the server is its number. `requests` are answered in any
order or not at all. `filtered` is what the filter store computed last, `Built` what
`buildElements()` would build now, `drawn` what cytoscape holds after the differences were applied. The
flags `unseen`, `orphaned` and `late` are histories of the three ways in which the code loses track,
listed in section 4. `Panels` opens one panel beside a drawing that rests: what it asks for (`want`),
what is under way (`asked`), what it shows (`shown`); `chains` is `NodeDetail` with its loads of up to
ten requests and their abort flags.

## 3. Runs

| Run | Bounds | Distinct states | Properties |
|---|---|---|---|
| `WorkerPool` | 2 workers, 3 tasks, exit code 1 | 27,050 | `Accounted`, `WorkConserving`, `TaskSettles`, `ImplementsService` |
| `ParallelParser` | 2 workers, two calls with 0, 1 or 3 files, threshold 2 | 330,049 | `ResultComplete`, `ParseAllReturns` |
| `AnalysisEngine` | 4 files, 2 edits, 2 runs, threshold 2 | 330,838 | `WarmEqualsCold`, `MirrorsDisk`, `IndexesInSync`, `DependentsComplete`, `NoEdgeLeftBehind`, `RevisionExact`, `RunEnds`, `ReportsHandled` |
| `AnalysisEngine_incremental` | the same with 1 edit and 1 run | about 1,000 | `IncrementalEqualsFull`, which TLC finds violated |
| `GraphRoutes` | 2 clients that ask for clusters of different depths, 2 cache entries, 2 runs, 2 versions | 1,923,282 | `CacheBounded`, `ContentExact`, `ClusterIdsValid` |
| `GraphRoutes_depths` | the same | about 2,000 | `ClusterIdsUntilAnalysis`, which TLC finds violated |
| `ParseCache` | 1 server, 1 command line, 2 configurations (symmetric), 2 files, 2 texts, one with an event and a table, one without nodes, 3 starts, 1 edit | 2,523,866 | `ResultsAreOwn`, `RowsAreStamped` |
| `WebClient` | 1 run, 1 update, 1 fault, 1 login, 2 requests, 2 sockets | 610,054 | `ShowsLatest`, `ProgressEnds`, `SocketsBounded`, `Reconnects` |
| `Analyzers` | 9 nodes of a shop and its services, 11 edges, 1 removal | 20,736 | `TablesTied`, `QueriesAgree`, `ImpactComplete`, `DecommissionSafe`, `RulesAgree`, `ViewsAgree` |
| `SnapshotStores` | 2 labels besides `__pending__`, 1 edit | 101,660 | `RowsWhole`, `ReportExact`, `DiffsLossless`, `SchemaExact` |
| `ForceGraph` | 2 graphs of 3 nodes and 1 cluster, 3 gestures, 4 selections, 2 of them beside a gesture, 2 keys, 2 candidates, 1 chain | 136,753 | `ResultsOfQuery`, `DrawingExact`, `PanelsCurrent`, `TrailKept` |
| `Linking` | 5 projects of 4 or 5 files, 2 watched | 3,356 | `LinksExact`, `DtoExact`, `TreesExact` |

What they show, beyond the sentence `PROJECT.json` has for each:

- *Accounted*: a promise that is not settled has its task in one place of the pool, and only there, and
  is answered with its own result. *ImplementsService* is the refinement of `ParseService`.
- *WarmEqualsCold*: after a run nothing disturbed, the graph is the one an empty cache would have given.
  *MirrorsDisk*: once every report is handled, the nodes of every file on disk are in the graph, and no
  ghosts of others unless a report was handled in the middle of a run.
- *IndexesInSync*, *DependentsComplete*, *NoEdgeLeftBehind*: whatever runs, linkers and reports have done to the
  graph, the indexes are those of its nodes and edges, a removal reports every dependent file, and no link is
  left with one end. Native calls, whose target is moved in place, are excused (section 4).
- *ContentExact*: no answer a browser shows is of an earlier graph than the one there was when it asked.
  *ClusterIdsValid*: what is shown can be expanded until the graph changes or another depth is asked for.
- *ResultsAreOwn*, *RowsAreStamped*: what a process works with is what it would have parsed itself. Each of the
  four circumstances in which that is false of the code spoils one part of a result only: the configuration (two at a time),
  the text (an edit between scan and save), the edges of an event, the table of two files.
- *QueriesAgree*: forward and backward searches, paths, neighbourhoods and impact are one relation seen
  from two ends. *ImpactComplete*: what a change touches does not depend on the order of its files.
  *DecommissionSafe*: what can be deleted with a file leaves everything else as alive as it was.
  *RulesAgree*: Tarjan's components are mutual reachability, chains are as deep as paths are long, a
  waiver lapses on its day, the numbers of the summary and the marks on the graph agree. *ViewsAgree*:
  overview, service, directory and matrix count the same nodes and edges, a feature is whole, and
  the compliance matrix and the rules compiled from the layers judge an edge alike wherever they read its
  layers alike; layers with predicates and kinds of two layers are in the instance.
- *ReportExact*: a report lists what the sources say broke, each once, no more and no less, outside the known
  holes that section 4 lists. *DiffsLossless*: the difference of two snapshots applied to the first is the
  second. *SchemaExact*: the tables of a snapshot are those that executing the migrations in the order of
  their versions as numbers gives, but for tables that a file drops and names again, since the parser puts
  the drops of a file last (section 4).
- *LinksExact*: no link is lost and none invented, whatever order the files came in, and to resolve
  again changes nothing; calls whose URL the linker mistakes (section 4) are excused. Of several files of a
  name any will do. *DtoExact*: what the checker reports is what the two declarations say.
  *TreesExact*: a tree has exactly what its root needs, or what needs it, and nothing that
  is filtered; in `TreeView` each node is unfolded once; the trace of a table has every component whose own tree
  has the table, and no other. By how many ways a trace shows a node is not said (section 4).
- *DrawingExact*: when nothing is under way the drawing has the nodes and edges the filter leaves, or
  those of the clusters, each node on the screen once. *PanelsCurrent*: what a panel shows is what it was
  last asked for, unless two answers overlapped; an aborted load of chains never writes.

Why the bounds are enough for the interesting cases:

- *WorkerPool*: with three tasks and two workers there is always a moment with a task queued while every
  worker is busy, so a worker that dies frees nobody and one that answers is given the next task.
- *ParallelParser*: threshold 2 of 3 files makes all three of the branches occur (few uncached files,
  pool, fallback); the second call meets the pool the first one left, in whatever state.
- *AnalysisEngine*: a page and its child with imports, events, native calls and a use of itself, and two mappers sharing a
  table, so that edges are added twice, moved, in place and by index, and removed from both ends; two edits allow an edit and its reversal, or an edit during each of two runs; threshold 2 makes
  a run await the workers or not, depending on the cache.
- *GraphRoutes*: the clients' depths differ, and no client asks for both, so that only the other one can take
  the partition away; two entries make the cache evict; two versions and two runs give two bodies of the same
  version number from different runs.
- *ParseCache*: three starts are two generations of one process beside the other, with a crash at every
  statement; a third configuration would be like one of the two. With two files, the one that was added last and the one before
  both occur, cached and fresh.
- *WebClient*: a second socket exists after a login in mid-life; a run and an update overlap; two
  requests overtake each other. The safety properties were also checked with two runs, two updates or one
  of each and without a bound on requests (6.7 million states), too many for the temporal property.
- *Analyzers*: eleven edges include two cycles, two ways to a node of different lengths, calls between
  services, a table two services use, nodes of no service, and files with several nodes; all 2,048 subsets
  of them occur, with and without services, and after a removal and a second build of these.
- *SnapshotStores*: the projects of `MCSnapshotStores` differ from each other in every way a row can; one
  edit between any two steps of two reporters that may be killed is what mixes rows if anything does.
- *ForceGraph*: the second graph has as many nodes and edges, the same cluster id with other members, and
  reverses an import; threshold 2 of 3 nodes lets a filter switch the mode of the drawing.
- *Linking*: an interface and an XML of one name, two modules that fit one store, a lazy and a named route
  to one view, endpoints with literal and variable segments, a DTO with differing interfaces.

`CHECK_DEADLOCK FALSE` stands where a system may stop: a pool that is disposed, a parser whose calls are
used up, a graph at its version bound, an engine that was disposed, processes that are not started
again, a page with nothing to happen, a graph with all its edges. `GraphRoutes`, `SnapshotStores` and
`Linking` never stop (clients and commands come again) and are checked for it.

## 4. Where the code does not do what the repository says, or what one would expect

Two disagreements are runs of one property that TLC finds violated:

- `AnalysisEngine_incremental`: the requirements (`docs/phase-x-requirements-spec.md:361`) want cold, warm
  and incremental runs to agree; removing a file removes the resolved edges into it, which a full run
  would keep as unresolved. More ways to the same disagreement: derived edges and the unassigned service
  node are only ever added; a db-table node two mappers share disappears with one of them until the other
  is parsed again; name lookups take the first or last node of a name, so they depend on the order in
  which files came (`Linking` checks that each order's answer is one the sources justify).
- `GraphRoutes_depths`: the ids of clusters are to be valid "until the next analysis bumps the graph
  version" (`server/src/engine.ts:74-77`). One partition is kept per engine, shared by all clients: asking for another
  depth makes the ids others hold mean other clusters, or none, at the same version. The web client always asks for
  one depth; the route takes any.

The following were met while modelling. Each is part of the model as the code has it; where a property
would otherwise be violated, its comment names the circumstance it excuses.

*Core and server*

- After `NativeBridgeLinker` retargets an edge in place, the reverse index keeps it under its old name,
  so `getInDegree()` is not the number of edges with that target.
- `fileCount` and `parseErrors` are assigned without a new revision (`engine.ts:148`): a body cached in
  between is served with old metadata.
- The command line reads a file again to hash the row it saves, so that the row of a file that was just edited
  has the old result under the new hash. It saves what the graph has under the file's path
  (`cli/src/config.ts:174-183`): only edges that start at a node of the file, so those of Spring event listeners are missing from
  its rows; and of a `db-table` that two files emit the object that was added last, with the other file's path and metadata,
  in the rows of both.
- A worker that never gets ready stays in the pool although the comment says it is dropped
  (`ParallelParser.ts:131-132`, `191`). A file deleted while a run parses it reappears with its nodes until
  the next run. Two processes with different configurations at the same time share one table.
- Pure DTOs with events or injections get edges from a service node that does not exist; a base path and a
  path are joined without a slash; Java 17 records never reach `extractDtoFields`
  (`JavaFileParser.ts:153`; `docs/phase-ultra/phase4-benchmark.md:28` says they do); DDL columns are injected only through
  an option of `runAnalysis()` that no command passes (`docs/phase-ultra/phase13-benchmark.md:13`).
- `SqlDdlParser.ts:30-34` promises an ordered list; CREATE, ALTER and DROP are grouped.
- Two API calls on one line share an id; `fetch` with `POST` is recorded as GET; TypeScript files drop
  URLs in template literals; two routes to one view keep one edge; the label fallback for composables can
  never match (`CrossBoundaryResolver.ts:464-467`); a store needle that is empty matches the first store;
  stripping comments from a tsconfig (`ImportResolver.ts:28`) breaks on `"@/*"` beside `"src/**/*"`.
- `ApiCallLinker.normalizeUrl` cuts the base of the API by characters: with the base `/api` a call of `/apiusers`
  becomes `/users` and is linked to an endpoint that does not serve it. It never cuts a query: `/users/me?page=1`
  is linked to `/users/{id}` and not to `/users/me`, and `/users?page=1` to nothing but a variable.
- `List<String>` is compatible with `string`; of interfaces of one name the flow takes the first and the
  report the last; interfaces in components, stores, composables and route files are never seen.

*Analyses and reports*

- In `ChangeImpactAnalyzer` a node may be in both lists or in one, depending on the order of the files.
- A layer with two allow-only rules is compiled to both, and each forbids what the other allows. No
  command calls `mergeWithLayerRules`, though `docs/layer-dsl-examples.md:3-10` says that layers in the
  configuration are compiled into the rules that are evaluated, and no command passes waivers to
  `evaluateRules`. `tupleKey` ignores `allowed`.
- `getLayerCompliance()` (`server/src/engine.ts:953-1030`) gives a kind of several layers to the first one and ignores
  `where`, although a layer's predicate decides who belongs to it (`core/src/analyzers/LayerDsl.ts:22-33`) and the
  rules are compiled with it: an edge of a red cell may break no rule, and one that breaks a rule may be in no red
  cell. A rule about a layer that does not exist colours cells and is compiled to nothing. It joins the
  allow-only rules of a layer.
- Migrations: `MODIFY` of a column keeps the default it had (`FlywayMigrationParser.ts:88`), as the tables of a snapshot then do.
- `getOverview()` lists untagged nodes under `__root__`, while the unassigned service has a node of its
  own. `findPaths` lists a route once per parallel edge.
- A rename pairs what went and what came by name only, so a change of type at the same time is hidden; a
  table that gains column metadata yields a false B4; a dropped table is counted twice with its columns;
  B2 counts a change from required to unknown; porting a controller to Kotlin breaks all its endpoints;
  endpoints of two services with one path overwrite each other; an empty baseline cannot be told from none.
- `schema-snapshot` of a project whose tables are all gone exits with 1 and keeps the old rows.
- A report on unchanged sources lists the whole surface while the server re-analyses, and through the
  shared label `__pending__` (`docs/phase-ultra/phase8-benchmark.md:29`).

*Web client*

- A page never learns that a run was aborted or of what happened while it had no socket, and shows
  whichever answer arrives last (`missed`); `search()` has no defence against overlapping answers, nor
  against a blank query that overtakes one (`raced`).
- `ForceGraphView.vue:674` watches the sum of the numbers of nodes and edges: a change that keeps the sum
  is not drawn (`unseen`). Removing an expanded cluster takes its children out of the drawing and the
  difference of ids does not put them back (535-572); an answer to an unmounted view changes the shared
  clusters without a redraw (`orphaned`). Expansions are cached by cluster id for the life of the page,
  and the clusters are not fetched again after a new graph in cluster mode. A cluster expanded by a double
  tap (`OnboardingGuide.vue:8`) keeps `isExpanded` unset.
- No panel but `NodeDetail` tells overlapping answers apart (`late`). `TimeTravelView` keeps the old
  difference under new labels after an error; impact marks survive the panel and a failed analysis; of two
  answers of git the first clears "loading"; the timer of the pathfinder's box is not cleared by a choice,
  so a late search opens the list again; the chosen path index survives a new search.
- `BottomUpView.vue:92-95` says a node "legitimately appears under multiple parents" and that collapsing such
  rows "would hide real dependency paths", while `traverse()` leaves out what it met, so that a trace shows one way to each node;
  its trace is not rebuilt when the graph changes. `TreeView` with a depth below the length of
  the graph may miss nodes within that depth, because a node met first at the limit is not walked again;
  keys of rows are not unique for parallel edges; a click on the node that is selected already makes the
  tree ignore the next selection from elsewhere (321-330). `ServicesView.vue:54-66` sets a filter nobody
  reads. `FeatureView` reads the features when it is mounted only.

## 5. Fairness

- *WorkerPool, ParallelParser*: weak fairness of each handler whose event is waiting (the event loop
  turns), of `Finish` of a thread that has a task (it answers, unless it dies) and of `ComesUp` of one that boots (it
  comes up or dies: a worker whose script fails to load raises an error). A thread that is up is never forced to die, idle or
  not, and one that never answers as ready is not either: what waits beside it must be served without
  that. No fairness for calls of the owner, cancellations, crashes or `dispose()`.
- *AnalysisEngine*: the stretches of a run and of the watcher are eventually executed; `Finish` also
  stands for the workers' answers, justified by `ParseAllReturns`, and is not asked of a disposed
  engine. It is written with the guards instead of `WF`, since TLC would build a graph for each
  `ENABLED`; the guards are equivalent to it because both actions change something whenever enabled.
- *WebClient*: requests are answered or fail, runs end (`RunEnds`), events of sockets and timers are
  handled. Nothing is assumed of users or the network: `Reconnects` needs that faults are finitely many,
  which their bound provides, and that the token is accepted from some time on.
- All others state no liveness, so none is assumed.

## 6. Proofs

TLAPS proves for every number of workers, tasks, nodes, edges, files, processes, clients and texts:

| Theorem | From | Statement |
|---|---|---|
| `WorkerPoolProofs!TypeCorrect`, `OneOwnerAlways`, `OwnAnswerAlways`, `NoOrphanAlways`, `AccountedAlways`, `WorkConservingAlways` | `NoTask \notin Task`, exit codes are numbers | the safety invariants of the pool; `Accounted` is the first three facts together |
| `WorkerPoolProofs!Refinement` | the same | the pool implements `ParseService` |
| `DependencyGraphProofs!MethodsSound` | the ends and kinds of edges are functions of their ids, the ids of nodes and edges are finitely many | every method keeps the indexes those of nodes and edges, and leaves no edge with an end less |
| `CoreProofs!CacheTypeCorrect` | the typing assumption | types |
| `CoreProofs!ResultsAreOwnAlways`, `RowsAreStampedAlways` | the typing assumption | no foreign result is used, rows belong to their stamp, each but for the part that one of the four circumstances spoils |
| `ServerProofs!CacheBoundedAlways`, `ContentExactAlways` | the typing assumptions | the cache is bounded; nobody is shown a body of an earlier graph |
| `ServerProofs!ClusterIdsValidAlways` | the typing assumptions; any clients and depths | what is shown can be expanded until the graph changes or another depth is asked for |
| `SnapshotStoresProofs!RowsWholeAlways`, `ReportsComparedAlways` | none about the projects | rows are those of one project; a report is the difference of the two whose rows it read |
| `SnapshotStoresProofs!DiffsLosslessAlways` | migrations are read to tables of columns that have the fields of `SqlColumn` | a snapshot with the difference to another one applied is that other one |
| `WorkerPoolProofs!ResultCompleteAlways`, `AccountedAcrossCalls` | the files are finitely many, listings are sets of them | a result of `parseAll()` accounts for every file once; the pool keeps its promises through all calls |
| `WebClientProofs!SocketsBoundedAlways`, `ProgressEndsAlways`, `ShowsLatestAlways` | bounds are numbers, more sockets than logins | sockets do not multiply; the progress display ends; a page that missed nothing is current |
| `AnalysisEngineProofs!EngineBasic`, `RevisionExactAlways`, `IndexesInSyncAlways`, `DependentsCompleteAlways` | ids are finitely many, a file that parses has a node, `EventAssumption`, `LinkAssumption` | types and a sound graph; a revision names one content of the graph; its indexes and the dependents read from them are right |
| `AnalysisEngineProofs!MirrorsDiskAlways`, `WarmEqualsColdAlways` | the same | when all reports are handled the graph has the nodes of the files on the disk; an undisturbed warm run is a cold run |
| `ServerProofs!TablesTiedAlways` | ids are finitely many; no native calls; the ids of services' nodes and edges are their own | each build ties all services of a table to one owner |
| `ServerProofs!QueriesAgreeAlways`, `ImpactCompleteAlways` | the same | searches, paths, neighbourhoods and impact are one relation; impact does not depend on the order of files |
| `ServerProofs!DecommissionSafeAlways` | the same, `ListensAssumption` | what goes with a file leaves everything else as alive as it was |
| `ServerProofs!ViewsAgreeAlways` | the same as for `QueriesAgree`; any layers | the views count the same; features are whole; matrix and rules judge alike wherever they read the layers alike |
| `ServerProofs!RulesAgreeAlways` | the same as for `QueriesAgree` | the cycles reported are the classes that reach each other; the limits measure alike; waivers lapse; the summary and the marks are of one graph |
| `SnapshotStoresProofs!ReportExactAlways` | `FilesAssumption`, `ProjectsUnambiguous` | a report is exactly what broke between the sources of the two projects it names |
| `SnapshotStoresProofs!SchemaExactAlways` | `ProjectsExecutable` | the tables of a snapshot are those that executing the migrations gives |
| `CoreProofs!TreesExactAlways` | `ProjectsAssumption`: a file has finitely many declarations | the trees and traces of every graph that linking can give are exact |
| `PanelsProofs!TrailAlwaysKept`, `ResultsOfQueryAlways` | none about graphs, filters and bounds | the trail of selections; results belong to the query unless two requests overlapped |
| `PanelsProofs!DrawingExactAlways` | graphs are finite, edges join their nodes, ids of clusters are no ids of nodes | the drawing is what the stores say; every node is on the screen once |
| `PanelsProofs!PanelsCurrentAlways` | the same, and every kind has the kinds at the ends of its chains | the chains are the selected node's and all of them; a panel shows what it says it shows |

**WorkerPool.** `OneOwner` is not inductive: that a worker that is not busy may be handed a task needs
`Slots` (not busy means nothing in flight and no answer on its way), that a new pool may be filled needs
`Cold`, and that nothing enters a disposed pool needs `Closed`. `dispatch()` is proved once, as
`DispatchStep`, for any queue and fields, and each handler cites it. The refinement maps every handler
to `Submit`, `Resolve`, `Fail`, `Close` or a stutter; a handler that settles several tasks, such as the
one that removes the last worker, is why these actions may reject a set.

**DependencyGraph.** The indexes are proved by one lemma per method; `RemoveNodes` and `LinkNative` are
compositions of simpler ones. The strengthening is `Anchored`: only a native call has another target
than the one it was added with; without it adding an edge again could leave it under two targets.

**ParseCache.** Between the statements of opening, the stamp in `meta` does not describe the rows.
`Opening(p)` says for each place of a process what does: that rows being imported are of its own
configuration, that none are left after the bust, that an opened database carries the stamp. `Agreement`
keeps it true for the other processes, as long as no two with different configurations have run together (`Stamped`). What
does not depend on that is `Honesty`: a row or a result is of its text, whole, and with its own table, each
unless the one circumstance that spoils it has occurred. The history is emptied by a bust of a process that is alone; that
nobody then still works with a spoilt result is `Stage`, by where a process is.

**AnalysisEngine.** A run and a report of the watcher are compositions of folds: over the nodes and edges
of a file, over the files, over what each linker selects, more than ten in `Link` alone. A fold of the
community modules is a recursive function; `FoldIs` (with the lemmas that follow from it in `DependencyGraphProofs`) shows that it is the iteration of its step over a finite set, by
the library's theorem on well-founded orders used on a set of naturals, so that no theorem with an
operator for a parameter is needed. From it follow `FoldHolds` (what holds at first and after
every step holds of the result) and `FoldsAgree` (what relates two graphs and is kept by
both steps relates the results, if the order of the elements is the same).
`Links(g, h)` is what every linker does to a graph: the indexes stay in order, a change of content
has a new version, and nodes and their files stay but for event nodes, which come with the file
of their component. Each linker is shown to be such a step, `Link` their composition.

The assumptions: nodes and edges have finitely many ids; what parses has a node; `EventAssumption`:
no parser emits the node of an event (`CrossBoundaryResolver.ts:229` makes it) and that of a component comes
from its own file (its id is made of the path, `VueSfcParser.ts:32`); `LinkAssumption`: the edges that linkers
derive and those of listeners are no native calls. The first theorem needs no more than `Basic`:
indexes, types, that a node is filed under a file that emits it, that native calls point at their method as
soon as they are linked (otherwise linking again would change an edge without a version).

`MirrorsDisk` speaks of rest: no run, no report that waits. It is not inductive, and four invariants
say where a file's present text is while things move. `Reported`: the last report of a
file says whether it exists. `Covered`: of every file on the disk the run that goes on will read it or has
read it as it is, or a report of it waits, or the graph has its nodes; this is where a report
handled during the run matters, since the run may have read the file before the change. `Clean` is the
converse for nodes that must be gone, and holds unless a report was handled during a
run (`overlap`), which is the ghost of section 4. `Basic` gives the rest: a file is removed
by what is filed under it. `WarmEqualsCold` compares the run with one on an empty cache. The two parse
the same files in different orders, cached ones first, so that files which emit the same node file it differently, and
the two graphs differ in that. `Twins` is what they share after each step of the linking: nodes, edges and
the targets of edges, which is all that linkers read. `Undisturbed` says that such a run reads what the
disk has, `Clean` that it begins with an empty graph. TLC checked each of these invariants first, on the instance of
the run `AnalysisEngine`.

**GraphRoutes.** `CacheInv` says of each of the three places a body can rest (the cache, a browser's
store, a request under way with its ETag) that the body is the one of its revision; with revisions only
growing, a body whose ETag is of now is of now. `ClusterInv` ties what is shown, what is cached and
the snapshot of the partition together, through the depths for which clusters were computed at this revision: as long as that
is one depth, the snapshot is what is shown.

**Analyzers.** The three invariants about queries and advice speak of one graph, and hold of every graph whose indexes
are in order. What makes such a graph is the invariant of the machine, `OfProject`: the indexes are in order, every node
is in the file that emits it or, as events and services are, in none, a file's index lists nothing else,
and every edge was emitted or is a link between services. The tables are a property of the last build, and `IInvProject`
adds `TablesTied` itself. `BuildServicesIs` says what a build leaves: the graph before, a node for each
service seen and an edge for each link, since nodes come first and the links join nodes that are there
(`ServiceLinksNamed`). `TiedByBuild` finds the owner: the first writer in the order of the edges or, if no
one writes, the first reader.

Searches are recursive functions on numbers. `LayersExist` and `LayersUnique` show that such a function exists and is the
iteration of its step, so that each round can be reasoned about. `SearchesMirror`: what is reached in
k steps forward is what reaches it in k steps backward, which is an induction in both directions because
a search extends at its far end only. `FindPathsAre`: the paths that the stack yields are all sequences of
edges, no longer than the limit, that go from node to node without meeting one twice (`Walked`);
`BackwardIsReversed` follows by reading the nodes backwards. `PathIffReached` says that a
shortest way of the search has no node twice. A search without limit stops after as many rounds as there are
nodes: `Settles`, by counting the nodes that are seen. `ImpactComplete` is an invariant of the fold over the
changed nodes, whatever their order.

`DecommissionSafe` compares two graphs. `FilesRemovedIs` says what is left when files are removed one
after the other, in any order: the nodes of other files, and the edges between them. The heart of it is
`SameWalk`: a walk from the entry points that does not enter the file meets no node of the files
that go with it, as these would be dead, and hence is, round by round, the walk in the graph that is left.
That an entry point is one in both graphs needs `ListensAssumption`: a service is an entry point when it
listens to an event, and the event's node has no file that could be removed. In the
code it has none (`JavaFileParser.ts:490`, `CrossBoundaryResolver.ts:280`).

The assumptions are those of `Analyzers`: there are no native calls, whose edges change their targets
(`SearchesAgree` is false with them); the id of a service's node is no id of a parsed one (`msa-service:`); an edge between two
services has an id made of its kind and ends, and each pair that calls or shares something has one
(`ServiceEdgeAssumption`).

**Views.** The drill-downs are facts about sets of edges: an edge within a service joins two nodes of one key,
and a finer cell of the matrix is the coarser one with longer prefixes (`GetDirectoryAtDepth` is a prefix, and
prefixes of prefixes are unique). `FeaturesWhole` rests on the searches of `Analyzers`: what a feature
reaches is closed under edges, so that a walk that starts inside it stays, and one that starts alive meets
nothing dead. `LayersAgree` takes apart the two readings of a layer: the server classifies a node by the
first layer that matches, the compiled rules by sets of kinds and a predicate. For an edge whose ends are of one layer each by
their kinds, the predicate of the source only makes the rules report less, so that what they report is in a red cell;
one of the target would make an allow-only rule report more.

**Rules, Cycles.** Tarjan's search is proved correct for every graph, with the set of nodes reached as the least closed
one (`Closes`). `Searching` is the invariant between calls, for a set G of nodes whose call is under way ("grey"):
nodes are numbered in the order in which they are met, and the stack is in that order (`Numbered`); what has left the
stack leads only to what has left it, and what a node on it leads to has been met unless it is grey (`Explored`); a grey node reaches all
that is above it on the stack, and each node on the stack reaches a grey one not above it (`Stacked`); the components found are the classes of the nodes that have left
the stack. `Connected` says what a call does, `Following` what holds after each of a node's edges, in any order:
the low link of the node is a number on the stack that it reaches, and no higher than what its edges tried so far lead to. A node whose low link
is its own number leads to nothing lower on the stack (`LinksOut`), hence what is above it is its class (`ComponentIs`), and
is taken off; otherwise a grey node below it is reached. Calls are layers of functions, the induction is on how
many nodes have not been met (`ConnectsDeeper`). That only nodes of the graph are in a component needs that no
edge starts outside it, `Sourced`, which `IInvSourced` shows of graphs from which no file was removed.

`MeasureMeasures`: the depth of a node exceeds k exactly if a chain of k edges starts at it which meets no node
twice, by the same induction on the nodes left to meet, one edge taken off the front of the chain (`ChainedLonger`); the
paths of the pathfinder are such chains by `FindPathsAre`. A node on a cycle has another one in its class, hence
an edge in and an edge out (`CyclicFans`): the thresholds of the tag exclude none. `CountedOnce` shows that
what is counted by kind adds up to the whole. An orphan component is not an entry point and nothing leads to it,
so no walk meets it (`OrphanDead`).

**SnapshotStores.** `StoresInv` says of each place of a reporter what it has in hand and of which project
it is. The pending rows may be written again by the other process in between: what is proved is that
they are always of one project, and that the report names the project whose rows were read.
`SnapshotsInv` types what is stored under the other labels, and `DiffsLossless` follows from it: a column is compared by its
type, nullability and default, so that `UnchangedColumn` needs that it has no other fields but its name
(`MigrationsAssumption`), and that `ByName` keeps the last column of a name needs that there is a last one (`LastOfName`).

`ReportExact` says that a report on two labels is what broke between their projects. `Faithful` is the
heart: the rows of a project and what its sources declare are in bijection, where normalised paths tell
paths apart because a path is spelled in words between slashes (`FilesAssumption`), and the parsers emit in
an order, so that the last of a name is the only one. The difference of the rows is then the difference
of the declarations, the pairing of renamed fields a move of a class, and each code of a break a kind of difference.
`KnownInv` says of each reporter which two projects its rows are of. `ProjectsUnambiguous` is what
the compiler and Spring refuse otherwise: a field declared twice in a class, two handlers of one request.
Without it the store keeps whichever row came last, and the two would disagree. Several mappers of one table are
allowed if a waiver lifts the break in all of them or in none.

`SchemaExact` compares two executions of one list of statements. Both are recursive functions on numbers,
which exist and are unique by induction over sets of naturals. The proof follows one table at a time (`Same`): its
statements are the same ones in both orders as long as the file does not drop it and go on (`Regrouped`),
and statements about other tables change nothing of it. That the files are in the order of their
versions is shown for versions compared part by part, as `FlywayMigrationParser` does, against the order of
the numbers they spell; files of one version have a place each (`Earlier` is total, by the pigeonhole principle
every turn is taken). `ProjectsExecutable` excludes a `CREATE TABLE` after an `ALTER` of the same table with no drop
in between, which a database refuses, and which the two readings execute differently.

**Trees.** A walk with a depth of edges to go and a set of nodes already met is a function of both. `Met`: it lists
each node that was not met once, as the first of its rows, and every other row is a leaf. `Closed`: of a
node it lists first, all that is below it is met. That needs enough depth, `Room`: as long as the
nodes not met are no more than what is left of the depth, a walk never stops at the limit (the number of nodes
is enough from the root, and each step meets one). From the three the shown nodes are those that can be
reached. Keys are ways: each is a sequence of edges walked forward or against; a trace has every node once, hence its
keys differ. That a component is affected exactly when the table is in its tree is the same way read from its
end: what `Below` says in one direction it says, reversed, in the other. Of the graph all this needs only that
nodes and edges are finitely many; `LinkingInv` says that, and each of the nine steps of `resolve()` keeps
it, whatever it looks up. That a file has finitely many declarations is the only assumption.

**ParallelParser.** The module extends `WorkerPool`, and so does its proof: the pool's invariant is
preserved by every step of a call, those that open, fill and dispose of a pool included, and is one
conjunct of `ParserInv`. `ResultComplete` speaks of a call that has returned; it is not inductive, since
what is collected are the promises of the pool. `Outstanding` says that a suspended call holds a promise
for exactly the files the cache did not have, `Scanned` that the others are in the output and no file
is in it twice, `PoolState` that a pool a call waits for was warmed up with success. That a fallback
loses nothing is counted: the files of the listing are finitely many (`TaskAssumption`).

**WebClient.** Requests under way are a bag, and `SocketsBounded` counts kinds of them. Counting kinds is not inductive: a kind
may be there twice, and the answer to one leaves the other. `CallsCounted` counts every request, and the property follows.
`ProgressEnds` needs `Announced`, that in a socket that stays open the message of a begin is followed by
the one of its end, and `EndComes`, that a display that is open will see it. `ShowsLatest` needs
`Coming`: as long as the page has missed nothing, a revision it does not show is on its way (a message
in a socket, a request not answered yet, or a run that will broadcast), and `Known`, that no
answer is from the future.

**Selection.** `TrailInv`: the history points at what is selected. `RaceInv`: unless two requests were
under way at once, the one that is asks what the box says.

**ForceGraph.** Two operators draw, one for a mount and one that adds and removes elements;
`RefreshKeeps` shows that removing what is not to be drawn and adding what is missing gives a drawing
with the same ids and edges as building it, provided both are closed under the ends of edges.
`DrawInv` is then: a drawing that is there and not stale is what is to be drawn, or an answer of this
view that redraws is under way; a view that is gone waits for nothing; what is cached for an expanded
cluster is that cluster's content in one graph. That every node is on the screen once follows from the
partition alone (`ClustersPartition`). The ids of clusters have to be disjoint from those of nodes,
which the code gets from the prefix `cluster:`.

**Panels.** `ChainInv` says of the one load that goes on for the selected node: what it has found is
what the graph has for the candidates tried, which are those before all that are left. At the end it
has tried all, or found as many as are enough: `ChainsOf` takes the first candidates whose predecessors
give fewer than enough chains, and `OneTriedMore` relates the two, by the order of the
candidates instead of by induction over a list. `AskInv` says of the other panels that as long as no
answer is late, at most one is under way, is the panel's own and is for what it wants; and that a panel
that says it loads has an answer of its own under way. A timer that is set counts as something
under way.

Only model-checked: `NoEdgeLeftBehind` of the engine's steps, which compose many calls of methods (`MethodsSound` proves it
of each call); all liveness (`RunEnds`, `ReportsHandled`, `TaskSettles`, `ParseAllReturns` and the
others of section 3), as it rests on fairness and `ENABLED`, which this prover does not treat; and two
statements about one state:

- `LinksExact` and `DtoExact` say what nine steps of matching names have done together. They are not true for
  all projects: a store whose needle is empty, two beans of one label or a DTO suffix shared by two classes
  (section 4) make a link the sources do not justify, and the hypotheses that exclude all such names would
  state most of the linkers again.

`SearchesAgree` is proved for the depths that the run asks for, but the lemmas it rests on are about any depth.

## 7. Abstractions, and what is not modelled

- In `Linkers` a name that a linker looks up has one node, and how names match is a parameter; in
  `Resolver` several nodes have a name and the lookups are the code's.
- `analyzedAt` differs from run to run (milliseconds).
- The command line saves a file in two steps, at the two reads of the file; between them is no other call.
- `WebClient`: the three counts fetched beside the graph are left out; a page's `onopen` and the server's
  acceptance are one step; a graph under construction has no revision.
- A hash is its input: equal rows have equal hashes, and 64 bits are taken to tell unequal ones apart.
- Finding things in texts (tree-sitter, Babel, regular expressions) is left out of the parsers; a record
  of what is found stands for the text. Sorting, labels and messages are left out of views and reports.
- The communities of Louvain come from a library that compares floating-point gains; `GraphRoutes` and
  `ForceGraph` take any partition. The projection to weights that the code hands it changes no state.
- Positions, layout, styles, overlays, export and canvas drawing of the web client; the service list, the
  root of the tree that follows the selection, the list of paths and its scores.
- The readers of git's output, the trace reader, the benchmark harness, the generators of fixtures, the
  audit log (a bounded list), the token check (a library), health, and the printing of commands: none
  keeps state that anything else depends on. Reasons per part are in `PROJECT.json`.
- A large part of the repository's lines, and of what is counted as implementation, is fixtures: sample
  projects in Java, Vue and SQL that the tests analyse, and scripts that generate them. They are input of
  the program and have no behaviour of their own, so they are not modelled. Of the rest, what stays
  uncovered is mostly templates and styles of the web client, option tables, type declarations, schemas,
  and printing.

## 8. What is left

1. Proofs: `LinksExact` step by step, from hypotheses on the names of a project.
2. `PanelsCurrent` for overlapping answers, once the panels tell them apart as `NodeDetail` does.
3. The watcher together with the routes: `GraphRoutes` takes `RevisionExact` from `AnalysisEngine`; a
   composition would check both with one graph.
4. Parameters and status codes of the read-only routes.
