---------------------------- MODULE GraphRoutes ----------------------------
(***************************************************************************)
(* What packages/server/src/routes/graphRoutes.ts answers: bodies are kept *)
(* under the revision of the graph and the query, browsers revalidate what *)
(* they have with If-None-Match, and the ids of the clusters a client was  *)
(* sent are looked up in the partition the engine computed last.           *)
(*                                                                         *)
(* The engine is reduced to what a revision is made of.  That the nodes    *)
(* and edges are a function of it is checked in AnalysisEngine.tla         *)
(* (RevisionExact), so the revision stands for them here.  The metadata is *)
(* not: fileCount and parseErrors are assigned, without a new revision.    *)
(***************************************************************************)
EXTENDS Naturals, FiniteSets

CONSTANTS
    Client,
    Query,               \* [view : {"full", "filter", "service", "cluster"}, depth : Nat]
    Asks,                \* the queries a client makes
    MAX_CACHE_ENTRIES,
    None,
    MaxRuns, MaxVersion  \* bounds of the model

ASSUME RoutesAssumption ==
    /\ Query \subseteq [view : {"full", "filter", "service"}, depth : {0}]
                      \cup [view : {"cluster"}, depth : Nat]
    /\ Asks \in [Client -> SUBSET Query]
    /\ MAX_CACHE_ENTRIES \in Nat \ {0}
    /\ MaxRuns \in Nat /\ MaxVersion \in Nat

VARIABLES
    engine,        \* engine.graph: analyzedAt, version, metadata, and whether it has nodes
    analyzing,     \* what runAnalysis() is waiting for
    clusterCache,  \* engine.clusterCache: the key of its partition
    graphCache,    \* graphCache: entries, and how many keys came after each
    asked,         \* the request a client has under way
    stored,        \* what its browser keeps for If-None-Match
    shown,         \* what it was last answered
    expanded,      \* the partition its last expansion was answered from
    resolutions    \* history: the depths clusters were computed for at this revision

engineVars == <<engine, analyzing>>
serverVars == <<clusterCache, graphCache>>
clientVars == <<asked, stored, shown, expanded>>
routesVars == <<engineVars, serverVars, clientVars, resolutions>>

Rev == <<engine.analyzedAt, engine.version>>

Revision  == (0..MaxRuns) \X (0..MaxVersion)
Partition == [rev : Revision, depth : Nat]
Body  == [of : Partition, hasNodes : BOOLEAN, fileCount : 0..1, parseErrors : 0..1]
ETag  == [rev : Revision, query : Query, length : 0..1]
Entry == [etag : ETag, body : Body]
Slot  == [entry : Entry, age : Nat]

ASSUME NoneAssumption == None \notin Partition \cup ETag

RoutesTypeOK ==
    /\ engine \in [analyzedAt : 0..MaxRuns, version : 0..MaxVersion, hasNodes : BOOLEAN,
                   fileCount : 0..1, parseErrors : 0..1]
    /\ analyzing \in {"no", "files", "results"}
    /\ clusterCache \in Partition \cup {None}
    /\ graphCache \subseteq Slot /\ IsFiniteSet(graphCache)
    /\ asked \in [Client -> [query : Query, etag : ETag \cup {None}] \cup {None}]
    /\ stored \in [Client -> [Query -> Entry \cup {None}]]
    /\ shown \in [Client -> [query : Query, body : Body] \cup {None}]
    /\ expanded \in [Client -> Partition \cup {None}]
    /\ resolutions \subseteq Nat

RoutesInit ==
    /\ engine = [analyzedAt |-> 0, version |-> 0, hasNodes |-> FALSE,
                 fileCount |-> 0, parseErrors |-> 0]
    /\ analyzing = "no"
    /\ clusterCache = None
    /\ graphCache = {}
    /\ asked = [c \in Client |-> None]
    /\ stored = [c \in Client |-> [q \in Query |-> None]]
    /\ shown = [c \in Client |-> None]
    /\ expanded = [c \in Client |-> None]
    /\ resolutions = {}
---------------------------------------------------------------------------
(* The engine.                                                             *)

NothingComputedSince == resolutions' = IF Rev' = Rev THEN resolutions ELSE {}

BeginRun ==
    /\ analyzing = "no" /\ engine.analyzedAt < MaxRuns
    /\ analyzing' = "files"
    /\ engine' = [analyzedAt |-> engine.analyzedAt + 1, version |-> 0, hasNodes |-> FALSE,
                  fileCount |-> 0, parseErrors |-> 0]
    /\ NothingComputedSince
    /\ UNCHANGED <<serverVars, clientVars>>

FilesListed ==
    /\ analyzing = "files"
    /\ analyzing' = "results"
    /\ engine' = [engine EXCEPT !.fileCount = 1]
    /\ NothingComputedSince
    /\ UNCHANGED <<serverVars, clientVars>>

(* The nodes are added and the errors assigned.  A project of which no     *)
(* file can be parsed has errors and no node.                              *)
EndRun ==
    /\ analyzing = "results"
    /\ analyzing' = "no"
    /\ \E found \in BOOLEAN, errors \in 0..1 :
          /\ found => engine.version < MaxVersion
          /\ engine' = [engine EXCEPT !.version = IF found THEN @ + 1 ELSE @,
                                      !.hasNodes = @ \/ found,
                                      !.parseErrors = errors]
    /\ NothingComputedSince
    /\ UNCHANGED <<serverVars, clientVars>>

AbortRun ==
    /\ analyzing = "results" /\ engine.analyzedAt > 1
    /\ analyzing' = "no"
    /\ UNCHANGED <<engine, serverVars, clientVars, resolutions>>

(* initialize() is over: the watcher runs and the server listens.          *)
Listening == engine.analyzedAt > 1 \/ (engine.analyzedAt = 1 /\ analyzing = "no")

(* A report of the watcher changed nodes or edges.                         *)
Update ==
    /\ Listening
    /\ engine.version < MaxVersion
    /\ \E left \in BOOLEAN :
          engine' = [engine EXCEPT !.version = @ + 1, !.hasNodes = left]
    /\ NothingComputedSince
    /\ UNCHANGED <<analyzing, serverVars, clientVars>>
---------------------------------------------------------------------------
(* The partition of the graph as it is now, computed when it is not the    *)
(* one that is cached.                                                     *)
GetOrComputeClusters(depth) ==
    IF clusterCache # None /\ clusterCache = [rev |-> Rev, depth |-> depth]
    THEN clusterCache ELSE [rev |-> Rev, depth |-> depth]

(* expandCluster() computes the partition of depth 1 if there is none yet. *)
(* Mutation of Lookup: it always does.                                     *)
LookupAtDefault == GetOrComputeClusters(1)

Lookup == IF clusterCache = None THEN GetOrComputeClusters(1) ELSE clusterCache

(* Mutation of CacheKey: the run alone.                                    *)
KeyByRun(q) == [rev |-> <<engine.analyzedAt, 0>>, query |-> q]

CacheKey(q) == [rev |-> Rev, query |-> q]

Key(entry) == [rev |-> entry.etag.rev, query |-> entry.etag.query]

Hits(q) == {s \in graphCache : Key(s.entry) = CacheKey(q)}

Payload(q) ==
    [of |-> IF q.view = "cluster" THEN GetOrComputeClusters(q.depth)
            ELSE [rev |-> Rev, depth |-> 0],
     hasNodes    |-> engine.hasNodes,
     fileCount   |-> IF q.view = "full" THEN engine.fileCount ELSE 0,
     parseErrors |-> IF q.view \in {"full", "service"} THEN engine.parseErrors ELSE 0]

(* The length of the body tells errors from none; the number of the files  *)
(* is one digit before and after.                                          *)
NewEntry(q) ==
    [etag |-> [rev |-> CacheKey(q).rev, query |-> q, length |-> Payload(q).parseErrors],
     body |-> Payload(q)]

Purged(rev) == {s \in graphCache : s.entry.etag.rev = rev}

Younger(s, slots) == {t \in slots : t.age < s.age}

(* Mutation of Evicted: the oldest is deleted one too late.                *)
EvictedLate(slots) == {s \in slots : Cardinality(Younger(s, slots)) < MAX_CACHE_ENTRIES}

(* The oldest are deleted until there is room for one more.                *)
Evicted(slots) == {s \in slots : Cardinality(Younger(s, slots)) < MAX_CACHE_ENTRIES - 1}

SetCached(entry) ==
    {[s EXCEPT !.age = @ + 1] : s \in Evicted(Purged(entry.etag.rev))}
        \cup {[entry |-> entry, age |-> 0]}

---------------------------------------------------------------------------
Ask(c, q) ==
    /\ Listening
    /\ asked[c] = None
    /\ asked' = [asked EXCEPT ![c] =
                    [query |-> q,
                     etag |-> IF stored[c][q] = None THEN None ELSE stored[c][q].etag]]
    /\ shown' = [shown EXCEPT ![c] = None]
    /\ expanded' = [expanded EXCEPT ![c] = None]
    /\ UNCHANGED <<engineVars, serverVars, stored, resolutions>>

(* sendWithEtag(): 304 makes the browser use what it has stored.           *)
Send(c, entry) ==
    LET q == asked[c].query
        mine == IF asked[c].etag = entry.etag THEN stored[c][q] ELSE entry IN
    /\ stored' = [stored EXCEPT ![c][q] = mine]
    /\ shown' = [shown EXCEPT ![c] = [query |-> q, body |-> mine.body]]
    /\ asked' = [asked EXCEPT ![c] = None]
    /\ UNCHANGED expanded

AnswerFromCache(c) ==
    /\ asked[c] # None
    /\ \E s \in Hits(asked[c].query) : Send(c, s.entry)
    /\ UNCHANGED <<engineVars, serverVars, resolutions>>

(* A service without nodes is not found, and that is not cached.           *)
NotFound(c) ==
    /\ asked[c] # None
    /\ asked[c].query.view = "service" /\ ~engine.hasNodes
    /\ Hits(asked[c].query) = {}
    /\ asked' = [asked EXCEPT ![c] = None]
    /\ UNCHANGED <<engineVars, serverVars, stored, shown, expanded, resolutions>>

Answer(c) ==
    /\ asked[c] # None
    /\ LET q == asked[c].query IN
       /\ Hits(q) = {}
       /\ q.view = "service" => engine.hasNodes
       /\ graphCache' = SetCached(NewEntry(q))
       /\ clusterCache' = IF q.view = "cluster" THEN Payload(q).of ELSE clusterCache
       /\ resolutions' = IF q.view = "cluster" THEN resolutions \cup {q.depth} ELSE resolutions
       /\ Send(c, NewEntry(q))
    /\ UNCHANGED engineVars

(* GET /api/graph/cluster/:clusterId, with an id of the clusters shown.    *)
ExpandCluster(c) ==
    /\ asked[c] = None /\ expanded[c] = None
    /\ shown[c] # None /\ shown[c].query.view = "cluster" /\ shown[c].body.hasNodes
    /\ clusterCache' = Lookup
    /\ expanded' = [expanded EXCEPT ![c] = Lookup]
    /\ resolutions' = IF clusterCache = None THEN resolutions \cup {1} ELSE resolutions
    /\ UNCHANGED <<engineVars, graphCache, asked, stored, shown>>

RoutesNext ==
    \/ BeginRun
    \/ FilesListed
    \/ EndRun
    \/ AbortRun
    \/ Update
    \/ \E c \in Client : \/ \E q \in Asks[c] : Ask(c, q)
                         \/ AnswerFromCache(c)
                         \/ NotFound(c)
                         \/ Answer(c)
                         \/ ExpandCluster(c)

RoutesSpec == RoutesInit /\ [][RoutesNext]_routesVars
---------------------------------------------------------------------------
(* Properties.                                                             *)

(* Whether it comes from the graph, from the cache or, after a 304, from   *)
(* the browser: what a client is answered are the nodes and edges, or the  *)
(* clusters, of the graph at this moment.                                  *)
Answered(c) == shown'[c] # shown[c] /\ shown'[c] # None

ContentExact ==
    [][\A c \in Client : Answered(c) =>
          shown'[c].body.of = [rev |-> Rev, depth |-> shown'[c].query.depth]]_routesVars

(* The cache never holds more than it may, nor bodies of two revisions:    *)
(* the first body that is stored after a change drops all others.          *)
CacheBounded ==
    /\ RoutesTypeOK
    /\ Cardinality(graphCache) <= MAX_CACHE_ENTRIES
    /\ \A s, t \in graphCache :
          /\ s.entry.etag.rev = t.entry.etag.rev
          /\ Key(s.entry) = Key(t.entry) => s = t

(* An id is expanded in the partition it was taken from, until the graph   *)
(* changes; but for one thing: somebody asks for clusters of another depth *)
(* at the same revision.  The engine keeps one partition, that of whoever  *)
(* had one computed last.                                                  *)
ClusterIdsValid ==
    [][\A c \in Client : expanded'[c] # expanded[c] /\ expanded'[c] # None =>
          \/ shown[c].body.of.rev # Rev
          \/ resolutions \ {shown[c].query.depth} # {}
          \/ expanded'[c] = shown[c].body.of]_routesVars

(* "the cluster ids the client received remain valid until the next        *)
(* analysis bumps the graph version" (engine.ts:74).                       *)
ClusterIdsUntilAnalysis ==
    [][\A c \in Client : expanded'[c] # expanded[c] /\ expanded'[c] # None =>
          \/ shown[c].body.of.rev # Rev
          \/ expanded'[c] = shown[c].body.of]_routesVars
===========================================================================
