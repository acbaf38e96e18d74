---------------------------- MODULE ServerProofs ----------------------------
(***************************************************************************)
(* What the server answers, proved for any values of the constants: the    *)
(* bodies of GraphRoutes.tla are those of the graph at that moment, and    *)
(* the analyses of Analyzers.tla, the views of LayerDsl.tla and Views.tla, *)
(* and the rules of Rules.tla with the searches of Cycles.tla, over every  *)
(* graph a project may have, say what they promise.                        *)
(***************************************************************************)
EXTENDS GraphRoutes, Rules, DependencyGraphProofs

---------------------------------------------------------------------------
(* GraphRoutes: what is kept is exact at the revision it is kept under,    *)
(* wherever it is kept; revisions only grow, so that none comes back with  *)
(* another meaning; and a client that sends an ETag still has the body it  *)
(* came with.                                                              *)

Exact(entry) == entry.body.of = [rev |-> entry.etag.rev, depth |-> entry.etag.query.depth]

Kept ==
    /\ \A s \in graphCache : Exact(s.entry)
    /\ \A c \in Client, q \in Query :
          stored[c][q] # None => Exact(stored[c][q]) /\ stored[c][q].etag.query = q
    /\ \A c \in Client :
          asked[c] # None /\ asked[c].etag # None =>
             /\ stored[c][asked[c].query] # None
             /\ stored[c][asked[c].query].etag = asked[c].etag

LEMMA RevType == ASSUME RoutesTypeOK PROVE Rev \in Revision
  BY DEF RoutesTypeOK, Rev, Revision

LEMMA PayloadType ==
  ASSUME RoutesTypeOK, NEW q \in Query
  PROVE  /\ Payload(q) \in Body
         /\ Payload(q).of = [rev |-> Rev, depth |-> q.depth]
<1>1. q.depth \in Nat /\ (q.view # "cluster" => q.depth = 0)
  BY RoutesAssumption
<1>2. GetOrComputeClusters(q.depth) = [rev |-> Rev, depth |-> q.depth]
  BY DEF GetOrComputeClusters
<1>3. Payload(q).of = [rev |-> Rev, depth |-> q.depth]
  BY <1>1, <1>2 DEF Payload
<1>4. [rev |-> Rev, depth |-> q.depth] \in Partition
  BY <1>1, RevType DEF Partition
<1>5. engine.hasNodes \in BOOLEAN /\ engine.fileCount \in 0..1 /\ engine.parseErrors \in 0..1
  BY DEF RoutesTypeOK
<1>6. /\ (IF q.view = "full" THEN engine.fileCount ELSE 0) \in 0..1
      /\ (IF q.view \in {"full", "service"} THEN engine.parseErrors ELSE 0) \in 0..1
  BY <1>5
<1>7. Payload(q) \in Body
  BY <1>1, <1>2, <1>4, <1>5, <1>6 DEF Payload, Body
<1> QED
  BY <1>3, <1>7

LEMMA NewEntryType ==
  ASSUME RoutesTypeOK, NEW q \in Query
  PROVE  /\ NewEntry(q) \in Entry
         /\ Exact(NewEntry(q))
         /\ NewEntry(q).etag.rev = Rev /\ NewEntry(q).etag.query = q
         /\ NewEntry(q).body = Payload(q)
<1>1. Payload(q).parseErrors \in 0..1
  BY PayloadType DEF Body
<1>2. NewEntry(q).etag \in ETag
  BY <1>1, RevType DEF NewEntry, ETag, CacheKey
<1>3. NewEntry(q) \in Entry
  BY <1>1, <1>2, RevType, PayloadType DEF NewEntry, Entry, ETag, CacheKey
<1> QED
  BY <1>3, PayloadType DEF NewEntry, Exact, CacheKey

(* What is kept of the cache, and how much.                                *)
LEMMA EvictedSmaller ==
  ASSUME NEW slots, IsFiniteSet(slots), \A s \in slots : s.age \in Nat,
         \A s, t \in slots : s.age = t.age => s = t
  PROVE  /\ IsFiniteSet(Evicted(slots)) /\ Evicted(slots) \subseteq slots
         /\ Cardinality(Evicted(slots)) <= MAX_CACHE_ENTRIES - 1
<1> DEFINE kept == Evicted(slots)
           rank == [s \in kept |-> Cardinality(Younger(s, slots))]
<1>1. IsFiniteSet(kept) /\ kept \subseteq slots
  BY FS_Subset DEF Evicted
<1>2. ASSUME NEW s \in slots
      PROVE  IsFiniteSet(Younger(s, slots)) /\ Cardinality(Younger(s, slots)) \in Nat
  BY <1>2, FS_Subset, FS_CardinalityType DEF Younger
<1>3. ASSUME NEW s \in slots, NEW t \in slots, t.age < s.age
      PROVE  Cardinality(Younger(t, slots)) < Cardinality(Younger(s, slots))
  <2>1. Younger(t, slots) \subseteq Younger(s, slots)
    BY <1>3 DEF Younger
  <2>2. t \in Younger(s, slots) /\ t \notin Younger(t, slots)
    BY <1>3 DEF Younger
  <2> QED
    BY <1>2, <2>1, <2>2, FS_Subset
<1>4. rank \in [kept -> 0..(MAX_CACHE_ENTRIES - 2)]
  BY <1>1, <1>2, RoutesAssumption DEF Evicted
<1>5. \A s, t \in kept : rank[s] = rank[t] => s = t
  <2> SUFFICES ASSUME NEW s \in kept, NEW t \in kept, rank[s] = rank[t]
               PROVE  s = t
    OBVIOUS
  <2>1. s.age \in Nat /\ t.age \in Nat /\ s \in slots /\ t \in slots
    BY <1>1
  <2>2. ~(t.age < s.age) /\ ~(s.age < t.age)
    BY <1>2, <1>3, <2>1
  <2> QED
    BY <2>1, <2>2
<1>6. rank \in Injection(kept, 0..(MAX_CACHE_ENTRIES - 2))
  BY <1>4, <1>5 DEF Injection, IsInjective
<1>7. /\ IsFiniteSet(0..(MAX_CACHE_ENTRIES - 2))
      /\ Cardinality(0..(MAX_CACHE_ENTRIES - 2)) = MAX_CACHE_ENTRIES - 1
  BY FS_Interval, RoutesAssumption
<1>8. Cardinality(kept) <= MAX_CACHE_ENTRIES - 1
  BY <1>1, <1>6, <1>7, FS_Injection
<1> QED
  BY <1>1, <1>8

Bounded ==
    /\ IsFiniteSet(graphCache)
    /\ Cardinality(graphCache) <= MAX_CACHE_ENTRIES
    /\ \A s, t \in graphCache :
          /\ s.entry.etag.rev = t.entry.etag.rev
          /\ Key(s.entry) = Key(t.entry) => s = t
          /\ s.age = t.age => s = t

LEMMA SetCachedBounded ==
  ASSUME RoutesTypeOK, Bounded, NEW entry \in Entry,
         \A s \in graphCache : Key(s.entry) # Key(entry),
         graphCache' = SetCached(entry)
  PROVE  /\ graphCache' \subseteq Slot
         /\ Bounded'
         /\ \A s \in graphCache' : s.entry = entry \/ \E t \in graphCache : s.entry = t.entry
<1> DEFINE purged == Purged(entry.etag.rev)
           kept == Evicted(purged)
           aged(s) == [s EXCEPT !.age = @ + 1]
           older == {aged(s) : s \in kept}
           new == [entry |-> entry, age |-> 0]
<1>1. /\ IsFiniteSet(purged) /\ purged \subseteq graphCache
      /\ \A s \in purged : s.entry.etag.rev = entry.etag.rev
  BY FS_Subset DEF Purged, Bounded
<1>2. \A s \in purged : s \in Slot /\ s.age \in Nat
  BY <1>1 DEF RoutesTypeOK, Slot
<1>3. \A s, t \in purged : s.age = t.age => s = t
  BY <1>1 DEF Bounded
<1>4. IsFiniteSet(kept) /\ kept \subseteq purged /\ Cardinality(kept) <= MAX_CACHE_ENTRIES - 1
  BY <1>1, <1>2, <1>3, EvictedSmaller
<1> HIDE DEF purged, kept
<1>5. ASSUME NEW s \in kept
      PROVE  /\ aged(s) \in Slot /\ aged(s).entry = s.entry /\ aged(s).age = s.age + 1
             /\ s.age \in Nat /\ s \in graphCache /\ s.entry.etag.rev = entry.etag.rev
  BY <1>1, <1>2, <1>4, <1>5 DEF Slot
<1>6. IsFiniteSet(older) /\ Cardinality(older) <= Cardinality(kept)
  <2> DEFINE f == [s \in kept |-> aged(s)]
  <2>1. f \in Surjection(kept, older)
    BY DEF Surjection
  <2> HIDE DEF f, older
  <2> QED
    BY <1>4, <2>1, FS_Surjection
<1>7. new \in Slot /\ new.entry = entry /\ new.age = 0
  BY DEF Slot
<1>8. graphCache' = older \cup {new}
  BY DEF SetCached, kept, purged
<1> HIDE DEF older, new
<1>9. /\ IsFiniteSet(graphCache') /\ Cardinality(graphCache') <= MAX_CACHE_ENTRIES
  <2>1. Cardinality(older) \in Nat /\ Cardinality(kept) \in Nat
    BY <1>4, <1>6, FS_CardinalityType
  <2>2. /\ IsFiniteSet(older \cup {new})
        /\ Cardinality(older \cup {new}) <= Cardinality(older) + 1
    <3>1. /\ IsFiniteSet(older \cup {new})
          /\ Cardinality(older \cup {new}) =
                IF new \in older THEN Cardinality(older) ELSE Cardinality(older) + 1
      BY ONLY <1>6, FS_AddElement, Zenon
    <3> QED
      BY <2>1, <3>1
  <2>3. Cardinality(older \cup {new}) \in Nat
    BY <2>2, FS_CardinalityType
  <2> QED
    <3>1. Cardinality(graphCache') = Cardinality(older \cup {new}) /\ IsFiniteSet(graphCache')
      BY <1>8, <2>2
    <3> QED
      BY ONLY <1>4, <1>6, <2>1, <2>2, <2>3, <3>1, RoutesAssumption
<1>10. ASSUME NEW s \in graphCache'
       PROVE  \/ s = new
              \/ \E t \in kept : s = aged(t)
  BY <1>8, <1>10 DEF older
<1>11. graphCache' \subseteq Slot
  BY <1>5, <1>7, <1>10
<1>12. ASSUME NEW s \in graphCache', NEW t \in graphCache'
       PROVE  /\ s.entry.etag.rev = t.entry.etag.rev
              /\ Key(s.entry) = Key(t.entry) => s = t
              /\ s.age = t.age => s = t
  <2>1. CASE s = new /\ t = new
    BY <2>1
  <2>2. ASSUME s = new, NEW u \in kept, t = aged(u)
        PROVE  s.entry.etag.rev = t.entry.etag.rev /\ Key(s.entry) # Key(t.entry) /\ s.age # t.age
    BY <1>5, <1>7, <2>2
  <2>3. ASSUME t = new, NEW u \in kept, s = aged(u)
        PROVE  s.entry.etag.rev = t.entry.etag.rev /\ Key(s.entry) # Key(t.entry) /\ s.age # t.age
    BY <1>5, <1>7, <2>3
  <2>4. ASSUME NEW u \in kept, s = aged(u), NEW v \in kept, t = aged(v)
        PROVE  /\ s.entry.etag.rev = t.entry.etag.rev
               /\ Key(s.entry) = Key(t.entry) => s = t
               /\ s.age = t.age => s = t
    <3>1. /\ s.entry = u.entry /\ t.entry = v.entry /\ s.age = u.age + 1 /\ t.age = v.age + 1
          /\ u.age \in Nat /\ v.age \in Nat /\ u \in graphCache /\ v \in graphCache
          /\ u.entry.etag.rev = v.entry.etag.rev
      BY <1>5, <2>4
    <3>2. Key(u.entry) = Key(v.entry) => u = v
      BY <3>1 DEF Bounded
    <3>3. u.age = v.age => u = v
      BY <3>1 DEF Bounded
    <3> QED
      BY <2>4, <3>1, <3>2, <3>3
  <2> QED
    BY <1>10, <2>1, <2>2, <2>3, <2>4
<1>13. ASSUME NEW s \in graphCache'
       PROVE  s.entry = entry \/ \E t \in graphCache : s.entry = t.entry
  <2>1. CASE s = new
    BY <1>7, <2>1
  <2>2. ASSUME NEW t \in kept, s = aged(t)
        PROVE  s.entry = t.entry /\ t \in graphCache
    BY <1>5, <2>2
  <2> QED
    BY <1>10, <2>1, <2>2
<1>14. /\ \A s, t \in graphCache' : s.entry.etag.rev = t.entry.etag.rev
       /\ \A s, t \in graphCache' : Key(s.entry) = Key(t.entry) => s = t
       /\ \A s, t \in graphCache' : s.age = t.age => s = t
  BY ONLY <1>12
<1>15. Bounded'
  BY ONLY <1>9, <1>14 DEF Bounded, Key
<1> QED
  BY ONLY <1>11, <1>13, <1>15

---------------------------------------------------------------------------
CacheInv == RoutesTypeOK /\ Bounded /\ Kept

(* The parts of the state that a step of the engine leaves alone.          *)
LEMMA EngineStep ==
  ASSUME CacheInv, BeginRun \/ FilesListed \/ EndRun \/ AbortRun \/ Update
  PROVE  CacheInv'
<1>1. UNCHANGED <<serverVars, clientVars>>
  BY DEF BeginRun, FilesListed, EndRun, AbortRun, Update
<1>2. /\ engine' \in [analyzedAt : 0..MaxRuns, version : 0..MaxVersion, hasNodes : BOOLEAN,
                      fileCount : 0..1, parseErrors : 0..1]
      /\ analyzing' \in {"no", "files", "results"}
  <2>1. CASE BeginRun
    BY <2>1, RoutesAssumption DEF BeginRun, CacheInv, RoutesTypeOK
  <2>2. CASE FilesListed
    BY <2>2 DEF FilesListed, CacheInv, RoutesTypeOK
  <2>3. CASE EndRun
    <3>1. PICK found \in BOOLEAN, errors \in 0..1 :
             /\ found => engine.version < MaxVersion
             /\ engine' = [engine EXCEPT !.version = IF found THEN @ + 1 ELSE @,
                                        !.hasNodes = @ \/ found,
                                        !.parseErrors = errors]
      BY <2>3 DEF EndRun
    <3> DEFINE version == IF found THEN engine.version + 1 ELSE engine.version
               hasNodes == engine.hasNodes \/ found
    <3>2. /\ engine' = [engine EXCEPT !.version = version, !.hasNodes = hasNodes,
                                     !.parseErrors = errors]
          /\ version \in 0..MaxVersion
      BY <3>1, RoutesAssumption DEF CacheInv, RoutesTypeOK
    <3>3. hasNodes \in BOOLEAN
      OBVIOUS
    <3> HIDE DEF version, hasNodes
    <3> QED
      BY <2>3, <3>2, <3>3 DEF EndRun, CacheInv, RoutesTypeOK
  <2>4. CASE AbortRun
    BY <2>4 DEF AbortRun, CacheInv, RoutesTypeOK
  <2>5. CASE Update
    <3> DEFINE version == engine.version + 1
    <3>1. PICK left \in BOOLEAN :
             engine' = [engine EXCEPT !.version = version, !.hasNodes = left]
      BY <2>5 DEF Update, CacheInv, RoutesTypeOK
    <3>2. engine.version \in 0..MaxVersion /\ engine.version < MaxVersion
      BY <2>5 DEF Update, CacheInv, RoutesTypeOK
    <3>3. version \in 0..MaxVersion
      BY <3>2, RoutesAssumption
    <3> HIDE DEF version
    <3> QED
      BY <2>5, <3>1, <3>3 DEF Update, CacheInv, RoutesTypeOK
  <2> QED
    BY <2>1, <2>2, <2>3, <2>4, <2>5
<1>3. resolutions' \subseteq Nat
  BY DEF BeginRun, FilesListed, EndRun, AbortRun, Update, NothingComputedSince, CacheInv, RoutesTypeOK
<1>5. RoutesTypeOK'
  BY <1>1, <1>2, <1>3 DEF CacheInv, RoutesTypeOK, serverVars, clientVars
<1>4. Bounded' /\ Kept'
  BY <1>1 DEF CacheInv, Bounded, Kept, serverVars, clientVars, Key, Exact
<1> QED
  BY <1>4, <1>5 DEF CacheInv

LEMMA AskStep ==
  ASSUME CacheInv, NEW c \in Client, NEW q \in Query, Ask(c, q)
  PROVE  CacheInv'
<1> DEFINE etag == IF stored[c][q] = None THEN None ELSE stored[c][q].etag
           request == [query |-> q, etag |-> etag]
<1>1. /\ asked' = [asked EXCEPT ![c] = request]
      /\ shown' = [shown EXCEPT ![c] = None]
      /\ expanded' = [expanded EXCEPT ![c] = None]
      /\ UNCHANGED <<engineVars, serverVars, stored, resolutions>>
  BY DEF Ask
<1>2. etag \in ETag \cup {None}
  BY DEF CacheInv, RoutesTypeOK, Entry
<1>3. request \in [query : Query, etag : ETag \cup {None}]
  BY <1>2
<1>4. RoutesTypeOK'
  <2> HIDE DEF request
  <2> QED
    BY <1>1, <1>3 DEF CacheInv, RoutesTypeOK, engineVars, serverVars
<1>5. Bounded'
  BY <1>1 DEF CacheInv, Bounded, serverVars, Key
<1>6. Kept'
  <2>1. request.query = q /\ request.etag = etag
    OBVIOUS
  <2> HIDE DEF request
  <2>2. \A d \in Client : asked'[d] = IF d = c THEN request ELSE asked[d]
    BY <1>1 DEF CacheInv, RoutesTypeOK
  <2>3. ASSUME NEW d \in Client, asked'[d] # None, asked'[d].etag # None
        PROVE  /\ stored[d][asked'[d].query] # None
               /\ stored[d][asked'[d].query].etag = asked'[d].etag
    BY <2>1, <2>2, <2>3 DEF CacheInv, Kept
  <2> QED
    BY <1>1, <2>3 DEF CacheInv, Kept, serverVars, Exact
<1> QED
  BY <1>4, <1>5, <1>6 DEF CacheInv

(* What a client keeps and is shown when it is sent an entry that is exact *)
(* now: with a 304 its own body, which came with the same ETag.            *)
LEMMA SendStep ==
  ASSUME CacheInv, NEW c \in Client, asked[c] # None,
         NEW entry \in Entry, Exact(entry), entry.etag.query = asked[c].query,
         entry.etag.rev = Rev, Send(c, entry)
  PROVE  /\ asked' \in [Client -> [query : Query, etag : ETag \cup {None}] \cup {None}]
         /\ stored' \in [Client -> [Query -> Entry \cup {None}]]
         /\ shown' \in [Client -> [query : Query, body : Body] \cup {None}]
         /\ expanded' = expanded
         /\ \A d \in Client, q \in Query :
               stored'[d][q] # None => Exact(stored'[d][q]) /\ stored'[d][q].etag.query = q
         /\ \A d \in Client :
               asked'[d] # None /\ asked'[d].etag # None =>
                  /\ stored'[d][asked'[d].query] # None
                  /\ stored'[d][asked'[d].query].etag = asked'[d].etag
         /\ \A d \in Client : d # c => shown'[d] = shown[d]
         /\ shown'[c].query = asked[c].query
         /\ shown'[c].body.of = [rev |-> Rev, depth |-> asked[c].query.depth]
<1> DEFINE q == asked[c].query
           mine == IF asked[c].etag = entry.etag THEN stored[c][q] ELSE entry
<1>1. q \in Query /\ asked[c].etag \in ETag \cup {None} /\ entry.etag \in ETag
  BY DEF CacheInv, RoutesTypeOK, Entry
<1>2. asked[c].etag # None => stored[c][q] \in Entry /\ stored[c][q].etag = asked[c].etag
                              /\ Exact(stored[c][q])
  BY <1>1 DEF CacheInv, RoutesTypeOK, Kept
<1>3. /\ mine \in Entry /\ Exact(mine)
      /\ mine.etag = entry.etag
  BY <1>1, <1>2, NoneAssumption
<1>4. /\ stored' = [stored EXCEPT ![c][q] = mine]
      /\ shown' = [shown EXCEPT ![c] = [query |-> q, body |-> mine.body]]
      /\ asked' = [asked EXCEPT ![c] = None]
      /\ expanded' = expanded
  BY DEF Send
<1>5. mine.body \in Body /\ mine.body.of = [rev |-> Rev, depth |-> q.depth]
  BY <1>3 DEF Entry, Exact
<1> HIDE DEF mine, q
<1>6. /\ asked' \in [Client -> [query : Query, etag : ETag \cup {None}] \cup {None}]
      /\ shown' \in [Client -> [query : Query, body : Body] \cup {None}]
  BY <1>1, <1>4, <1>5 DEF CacheInv, RoutesTypeOK
<1>7. /\ stored' \in [Client -> [Query -> Entry \cup {None}]]
      /\ \A d \in Client, p \in Query :
            stored'[d][p] = IF d = c /\ p = q THEN mine ELSE stored[d][p]
  BY <1>1, <1>3, <1>4 DEF CacheInv, RoutesTypeOK
<1>8. ASSUME NEW d \in Client, NEW p \in Query, stored'[d][p] # None
      PROVE  Exact(stored'[d][p]) /\ stored'[d][p].etag.query = p
  BY <1>3, <1>7, <1>8 DEF CacheInv, Kept, q
<1>9. /\ shown'[c] = [query |-> q, body |-> mine.body]
      /\ \A d \in Client : d # c => shown'[d] = shown[d] /\ asked'[d] = asked[d]
      /\ asked'[c] = None
  BY <1>4 DEF CacheInv, RoutesTypeOK
<1>10. ASSUME NEW d \in Client, asked'[d] # None, asked'[d].etag # None
       PROVE  /\ stored'[d][asked'[d].query] # None
              /\ stored'[d][asked'[d].query].etag = asked'[d].etag
  <2>1. d # c /\ asked'[d] = asked[d] /\ asked[d].query \in Query
    BY <1>9, <1>10 DEF CacheInv, RoutesTypeOK
  <2> QED
    BY <1>7, <1>10, <2>1 DEF CacheInv, Kept
<1>11. shown'[c].query = q /\ shown'[c].body.of = [rev |-> Rev, depth |-> q.depth]
  BY <1>5, <1>9
<1> QED
  BY <1>4, <1>6, <1>7, <1>8, <1>9, <1>10, <1>11 DEF q

LEMMA AnswerFromCacheStep ==
  ASSUME CacheInv, NEW c \in Client, AnswerFromCache(c)
  PROVE  /\ CacheInv'
         /\ \A d \in Client : d # c => shown'[d] = shown[d]
         /\ shown'[c].query = asked[c].query
         /\ shown'[c].body.of = [rev |-> Rev, depth |-> asked[c].query.depth]
<1>1. PICK s \in Hits(asked[c].query) : Send(c, s.entry)
  BY DEF AnswerFromCache
<1>2. /\ s.entry \in Entry /\ Exact(s.entry)
      /\ s.entry.etag.query = asked[c].query /\ s.entry.etag.rev = Rev
  BY <1>1 DEF Hits, Key, CacheKey, CacheInv, RoutesTypeOK, Slot, Kept
<1>3. asked[c] # None /\ UNCHANGED <<engineVars, serverVars, resolutions>>
  BY DEF AnswerFromCache
<1> DEFINE entry == s.entry
<1>4. entry \in Entry /\ Exact(entry) /\ entry.etag.query = asked[c].query
      /\ entry.etag.rev = Rev /\ Send(c, entry)
  BY <1>1, <1>2
<1> HIDE DEF entry
<1>5. RoutesTypeOK'
  BY <1>3, <1>4, SendStep DEF CacheInv, RoutesTypeOK, engineVars, serverVars
<1>6. Bounded'
  BY <1>3 DEF CacheInv, Bounded, serverVars, Key
<1>7. Kept'
  BY <1>3, <1>4, SendStep DEF CacheInv, Kept, serverVars, Exact
<1> QED
  BY <1>3, <1>4, <1>5, <1>6, <1>7, SendStep DEF CacheInv

LEMMA AnswerStep ==
  ASSUME CacheInv, NEW c \in Client, Answer(c)
  PROVE  /\ CacheInv'
         /\ \A d \in Client : d # c => shown'[d] = shown[d]
         /\ shown'[c].query = asked[c].query
         /\ shown'[c].body.of = [rev |-> Rev, depth |-> asked[c].query.depth]
         /\ \A s \in graphCache' :
               \/ s.entry.etag.query = asked[c].query /\ s.entry.etag.rev = Rev
               \/ \E t \in graphCache : s.entry = t.entry
<1> DEFINE q == asked[c].query
           entry == NewEntry(q)
<1>1. /\ asked[c] # None /\ Hits(q) = {} /\ graphCache' = SetCached(entry)
      /\ clusterCache' = IF q.view = "cluster" THEN Payload(q).of ELSE clusterCache
      /\ Send(c, entry) /\ UNCHANGED engineVars
  BY DEF Answer
<1>2. q \in Query
  BY <1>1 DEF CacheInv, RoutesTypeOK
<1>3. /\ entry \in Entry /\ Exact(entry) /\ entry.etag.query = q /\ entry.etag.rev = Rev
      /\ Payload(q).of \in Partition
  BY <1>2, NewEntryType, PayloadType DEF CacheInv, Body
<1>4. \A s \in graphCache : Key(s.entry) # Key(entry)
  BY <1>1, <1>3 DEF Hits, Key, CacheKey
<1> HIDE DEF entry
<1>5. /\ graphCache' \subseteq Slot
      /\ Bounded'
      /\ \A s \in graphCache' : s.entry = entry \/ \E t \in graphCache : s.entry = t.entry
  BY <1>1, <1>3, <1>4, SetCachedBounded DEF CacheInv
<1>6. /\ clusterCache' \in Partition \cup {None}
      /\ resolutions' \subseteq Nat
  BY <1>1, <1>2, <1>3, RoutesAssumption DEF Answer, CacheInv, RoutesTypeOK
<1>7. RoutesTypeOK'
  BY <1>1, <1>3, <1>5, <1>6, SendStep DEF CacheInv, RoutesTypeOK, Bounded, engineVars
<1>8. Kept'
  <2>1. \A s \in graphCache' : Exact(s.entry)
    BY <1>3, <1>5 DEF CacheInv, Kept
  <2> QED
    BY <1>1, <1>3, <2>1, SendStep DEF Kept, Exact
<1> QED
  BY <1>1, <1>3, <1>5, <1>7, <1>8, SendStep DEF CacheInv

LEMMA NotFoundStep ==
  ASSUME CacheInv, NEW c \in Client, NotFound(c)
  PROVE  CacheInv'
<1>1. /\ asked' = [asked EXCEPT ![c] = None]
      /\ UNCHANGED <<engineVars, serverVars, stored, shown, expanded, resolutions>>
  BY DEF NotFound
<1>2. RoutesTypeOK'
  BY <1>1 DEF CacheInv, RoutesTypeOK, engineVars, serverVars
<1>3. Bounded'
  BY <1>1 DEF CacheInv, Bounded, serverVars, Key
<1>4. Kept'
  BY <1>1 DEF CacheInv, RoutesTypeOK, Kept, serverVars, Exact
<1> QED
  BY <1>2, <1>3, <1>4 DEF CacheInv

LEMMA ExpandClusterStep ==
  ASSUME CacheInv, NEW c \in Client, ExpandCluster(c)
  PROVE  CacheInv'
<1>1. /\ clusterCache' = Lookup
      /\ expanded' = [expanded EXCEPT ![c] = Lookup]
      /\ UNCHANGED <<engineVars, graphCache, asked, stored, shown>>
      /\ resolutions' \subseteq Nat
  BY DEF ExpandCluster, CacheInv, RoutesTypeOK
<1>2. Lookup \in Partition
  BY RevType DEF Lookup, GetOrComputeClusters, CacheInv, RoutesTypeOK, Partition
<1>3. RoutesTypeOK'
  BY <1>1, <1>2 DEF CacheInv, RoutesTypeOK, engineVars
<1>4. Bounded'
  BY <1>1 DEF CacheInv, Bounded, Key
<1>5. Kept'
  BY <1>1 DEF CacheInv, Kept, Exact
<1> QED
  BY <1>3, <1>4, <1>5 DEF CacheInv

LEMMA CacheInvInit == RoutesInit => CacheInv
<1> SUFFICES ASSUME RoutesInit PROVE CacheInv
  OBVIOUS
<1>1. RoutesTypeOK
  BY FS_EmptySet, RoutesAssumption DEF RoutesInit, RoutesTypeOK
<1>2. Bounded
  BY FS_EmptySet, RoutesAssumption DEF RoutesInit, Bounded
<1>3. Kept
  BY DEF RoutesInit, Kept
<1> QED
  BY <1>1, <1>2, <1>3 DEF CacheInv

LEMMA CacheInvNext ==
  ASSUME CacheInv, [RoutesNext]_routesVars
  PROVE  CacheInv'
<1>1. CASE UNCHANGED routesVars
  BY <1>1 DEF routesVars, engineVars, serverVars, clientVars, CacheInv, RoutesTypeOK, Bounded,
     Kept, Key, Exact
<1>2. CASE BeginRun \/ FilesListed \/ EndRun \/ AbortRun \/ Update
  BY <1>2, EngineStep
<1>3. ASSUME NEW c \in Client, NEW q \in Asks[c], Ask(c, q)
      PROVE  CacheInv'
  BY <1>3, AskStep, RoutesAssumption
<1>4. ASSUME NEW c \in Client,
             AnswerFromCache(c) \/ NotFound(c) \/ Answer(c) \/ ExpandCluster(c)
      PROVE  CacheInv'
  BY <1>4, AnswerFromCacheStep, AnswerStep, NotFoundStep, ExpandClusterStep
<1> QED
  BY <1>1, <1>2, <1>3, <1>4 DEF RoutesNext

(* The cache of the routes never grows past MAX_CACHE_ENTRIES nor mixes    *)
(* revisions, whatever is asked (graphRoutes.ts setCached).                *)
THEOREM CacheBoundedAlways == RoutesSpec => []CacheBounded
<1>1. CacheInv => CacheBounded
  BY DEF CacheInv, Bounded, CacheBounded
<1> QED
  BY <1>1, CacheInvInit, CacheInvNext, PTL DEF RoutesSpec

(* The answer a client gets, sent, cached or confirmed by 304, is that of  *)
(* the graph at that moment.                                               *)
ContentStep ==
    \A c \in Client : Answered(c) =>
        shown'[c].body.of = [rev |-> Rev, depth |-> shown'[c].query.depth]

LEMMA ContentPreserved ==
  ASSUME CacheInv, [RoutesNext]_routesVars
  PROVE  ContentStep
<1> SUFFICES ASSUME NEW d \in Client, Answered(d)
             PROVE  shown'[d].body.of = [rev |-> Rev, depth |-> shown'[d].query.depth]
  BY DEF ContentStep
<1>1. shown'[d] # shown[d] /\ shown'[d] # None
  BY DEF Answered
<1>2. CASE UNCHANGED shown
  BY <1>1, <1>2
<1>3. ASSUME NEW c \in Client, AnswerFromCache(c) \/ Answer(c)
      PROVE  shown'[d].body.of = [rev |-> Rev, depth |-> shown'[d].query.depth]
  <2>1. /\ d # c => shown'[d] = shown[d]
        /\ shown'[c].query = asked[c].query
        /\ shown'[c].body.of = [rev |-> Rev, depth |-> asked[c].query.depth]
    BY <1>3, AnswerFromCacheStep, AnswerStep
  <2> QED
    BY <1>1, <2>1
<1>4. ASSUME NEW c \in Client, NEW q \in Asks[c], Ask(c, q)
      PROVE  FALSE
  BY <1>1, <1>4 DEF Ask, CacheInv, RoutesTypeOK
<1>5. ASSUME NEW c \in Client, NotFound(c) \/ ExpandCluster(c)
      PROVE  UNCHANGED shown
  BY <1>5 DEF NotFound, ExpandCluster
<1>6. CASE UNCHANGED routesVars
  BY <1>2, <1>6 DEF routesVars, clientVars
<1>7. CASE BeginRun \/ FilesListed \/ EndRun \/ AbortRun \/ Update
  BY <1>2, <1>7 DEF BeginRun, FilesListed, EndRun, AbortRun, Update, clientVars
<1> QED
  BY <1>2, <1>3, <1>4, <1>5, <1>6, <1>7 DEF RoutesNext

(* Whatever is edited, run, evicted or revalidated in between: nobody is   *)
(* ever answered with an earlier graph (graphRoutes.ts, engine.ts:428).    *)
THEOREM ContentExactAlways == RoutesSpec => ContentExact
<1>1. CacheInv /\ [RoutesNext]_routesVars => [ContentStep]_routesVars
  BY ContentPreserved
<1>2. RoutesSpec => [][ContentStep]_routesVars
  BY <1>1, CacheInvInit, CacheInvNext, PTL DEF RoutesSpec
<1> QED
  BY <1>2 DEF ContentExact, ContentStep

---------------------------------------------------------------------------
(* The cluster ids.  The engine keeps one partition: what a client has     *)
(* been shown is it as long as nothing else was computed.                  *)
Past(rev, g) ==
    \/ rev[1] < g.analyzedAt
    \/ rev[1] = g.analyzedAt /\ rev[2] <= g.version

(* A body with clusters was computed once; when no other depth was, at the *)
(* same revision, it is the one that is kept.                              *)
Tied(query, of, g, cached, depths) ==
    query.view = "cluster" =>
       /\ Past(of.rev, g)
       /\ of.rev = <<g.analyzedAt, g.version>> =>
             of.depth \in depths /\ (depths = {of.depth} => cached = of)

TiedNow(query, of)  == Tied(query, of, engine, clusterCache, resolutions)
TiedNext(query, of) == Tied(query, of, engine', clusterCache', resolutions')

ClusterInv ==
    /\ \A s \in graphCache : TiedNow(s.entry.etag.query, s.entry.body.of)
    /\ \A c \in Client : shown[c] # None =>
          /\ shown[c].body.of.depth = shown[c].query.depth
          /\ TiedNow(shown[c].query, shown[c].body.of)

(* A revision never comes back.                                            *)
LEMMA RevisionGrows ==
  ASSUME RoutesTypeOK, BeginRun \/ FilesListed \/ EndRun \/ AbortRun \/ Update,
         NEW rev \in Revision, Past(rev, engine)
  PROVE  Past(rev, engine') /\ (rev = Rev' => rev = Rev)
<1>1. /\ rev[1] \in Nat /\ rev[2] \in Nat /\ engine.analyzedAt \in Nat /\ engine.version \in Nat
      /\ rev = <<rev[1], rev[2]>>
  BY RoutesAssumption DEF Revision, RoutesTypeOK
<1>2. \/ engine'.analyzedAt = engine.analyzedAt + 1 /\ engine'.version = 0
      \/ engine'.analyzedAt = engine.analyzedAt /\ engine'.version = engine.version + 1
      \/ engine'.analyzedAt = engine.analyzedAt /\ engine'.version = engine.version
  <2>1. CASE BeginRun
    BY <2>1 DEF BeginRun
  <2>2. CASE FilesListed
    BY <2>2 DEF FilesListed, RoutesTypeOK
  <2>3. CASE EndRun
    BY <2>3 DEF EndRun, RoutesTypeOK
  <2>4. CASE AbortRun
    BY <2>4 DEF AbortRun
  <2>5. CASE Update
    <3>1. PICK left \in BOOLEAN : engine' = [engine EXCEPT !.version = @ + 1, !.hasNodes = left]
      BY <2>5 DEF Update
    <3> QED
      BY <3>1 DEF RoutesTypeOK
  <2> QED
    BY <2>1, <2>2, <2>3, <2>4, <2>5
<1>3. Past(rev, engine')
  BY <1>1, <1>2 DEF Past
<1>4. Rev = <<engine.analyzedAt, engine.version>> /\ Rev' = <<engine'.analyzedAt, engine'.version>>
  BY DEF Rev
<1>5. ASSUME rev = Rev'
      PROVE  rev = Rev
  <2>1. rev[1] = engine'.analyzedAt /\ rev[2] = engine'.version
    BY <1>4, <1>5
  <2>2. rev[1] = engine.analyzedAt /\ rev[2] = engine.version
    BY <1>1, <1>2, <2>1 DEF Past
  <2> QED
    BY <1>1, <1>4, <2>2
<1> QED
  BY <1>3, <1>5

LEMMA TypesOfBodies ==
  ASSUME CacheInv
  PROVE  /\ \A s \in graphCache : s.entry.etag.query \in Query /\ s.entry.body.of \in Partition
         /\ \A c \in Client : shown[c] # None =>
               shown[c].query \in Query /\ shown[c].body.of \in Partition
  BY DEF CacheInv, RoutesTypeOK, Slot, Entry, ETag, Body

LEMMA NowIsPast == ASSUME RoutesTypeOK PROVE Past(Rev, engine)
  BY RoutesAssumption DEF RoutesTypeOK, Rev, Past

LEMMA ClusterPreserved ==
  ASSUME CacheInv, ClusterInv, [RoutesNext]_routesVars
  PROVE  ClusterInv'
<1>1. CASE UNCHANGED <<Rev, engine, clusterCache, graphCache, shown, resolutions>>
  BY <1>1 DEF ClusterInv, TiedNow, Tied, Past
<1>2. CASE BeginRun \/ FilesListed \/ EndRun \/ AbortRun \/ Update
  <2>1. UNCHANGED <<clusterCache, graphCache, shown>>
    BY <1>2 DEF BeginRun, FilesListed, EndRun, AbortRun, Update, serverVars, clientVars
  <2>2. ASSUME NEW q \in Query, NEW of \in Partition, TiedNow(q, of)
        PROVE  TiedNext(q, of)
    <3>1. of.rev \in Revision
      BY DEF Partition
    <3> QED
      <4>1. /\ Past(of.rev, engine) => Past(of.rev, engine') /\ (of.rev = Rev' => of.rev = Rev)
            /\ Rev' = Rev => resolutions' = resolutions
        BY <1>2, <3>1, RevisionGrows DEF CacheInv, BeginRun, FilesListed, EndRun, AbortRun, Update,
           NothingComputedSince, Rev
      <4> QED
        BY <2>1, <2>2, <4>1 DEF TiedNow, TiedNext, Tied, Rev
  <2> QED
    BY <2>1, <2>2, TypesOfBodies DEF ClusterInv, TiedNow, TiedNext
<1>3. ASSUME NEW c \in Client, NEW q \in Asks[c], Ask(c, q)
      PROVE  ClusterInv'
  <2>1. /\ shown' = [shown EXCEPT ![c] = None]
        /\ UNCHANGED <<engine, clusterCache, graphCache, resolutions>>
    BY <1>3 DEF Ask, engineVars, serverVars
  <2>2. \A d \in Client : shown'[d] # None => shown'[d] = shown[d]
    BY <2>1 DEF CacheInv, RoutesTypeOK
  <2> QED
    BY <2>1, <2>2 DEF ClusterInv, TiedNow, Tied, Past
<1>4. ASSUME NEW c \in Client, NotFound(c)
      PROVE  ClusterInv'
  BY <1>4, <1>1 DEF NotFound, engineVars, serverVars, Rev
<1>5. ASSUME NEW c \in Client, AnswerFromCache(c)
      PROVE  ClusterInv'
  <2>1. UNCHANGED <<engine, clusterCache, graphCache, resolutions>>
    BY <1>5 DEF AnswerFromCache, engineVars, serverVars
  <2>2. /\ \A d \in Client : d # c => shown'[d] = shown[d]
        /\ shown'[c].query = asked[c].query
        /\ shown'[c].body.of = [rev |-> Rev, depth |-> asked[c].query.depth]
    BY <1>5, AnswerFromCacheStep
  <2>3. PICK s \in Hits(asked[c].query) : Send(c, s.entry)
    BY <1>5 DEF AnswerFromCache
  <2>4. /\ s \in graphCache /\ s.entry.etag.query = asked[c].query
        /\ s.entry.body.of = [rev |-> Rev, depth |-> asked[c].query.depth]
    BY <2>3 DEF Hits, Key, CacheKey, CacheInv, Kept, Exact
  <2>5. TiedNow(shown'[c].query, shown'[c].body.of)
    BY <2>2, <2>4 DEF ClusterInv
  <2>6. \A q, of : TiedNow(q, of) => TiedNext(q, of)
    BY <2>1 DEF TiedNow, TiedNext
  <2>7. shown'[c].body.of.depth = shown'[c].query.depth
    BY <2>2
  <2> QED
    BY <2>1, <2>2, <2>5, <2>6, <2>7 DEF ClusterInv, TiedNow, TiedNext
<1>6. ASSUME NEW c \in Client, Answer(c)
      PROVE  ClusterInv'
  <2> DEFINE q == asked[c].query
  <2>1. /\ q \in Query /\ UNCHANGED engine /\ Rev' = Rev
        /\ clusterCache' = IF q.view = "cluster" THEN Payload(q).of ELSE clusterCache
        /\ Payload(q).of = [rev |-> Rev, depth |-> q.depth]
        /\ resolutions' = IF q.view = "cluster" THEN resolutions \cup {q.depth} ELSE resolutions
    BY <1>6, PayloadType DEF Answer, CacheInv, RoutesTypeOK, engineVars, Rev
  <2>2. /\ CacheInv'
        /\ \A d \in Client : d # c => shown'[d] = shown[d]
        /\ shown'[c].query = q
        /\ shown'[c].body.of = [rev |-> Rev, depth |-> q.depth]
        /\ \A s \in graphCache' :
              \/ s.entry.etag.query = q /\ s.entry.etag.rev = Rev
              \/ \E t \in graphCache : s.entry = t.entry
    BY <1>6, AnswerStep
  <2> HIDE DEF q
  <2>3. ASSUME NEW p \in Query, NEW of, TiedNow(p, of), of.depth = p.depth,
               of = [rev |-> of.rev, depth |-> of.depth]
        PROVE  TiedNext(p, of)
    BY <2>1, <2>3 DEF TiedNow, TiedNext, Tied, Rev
  <2>4. TiedNext(q, [rev |-> Rev, depth |-> q.depth])
    BY <2>1, NowIsPast DEF TiedNext, Tied, CacheInv, Rev
  <2>5. ASSUME NEW s \in graphCache'
        PROVE  TiedNext(s.entry.etag.query, s.entry.body.of)
    <3>1. CASE s.entry.etag.query = q /\ s.entry.etag.rev = Rev
      BY <2>2, <2>4, <2>5, <3>1 DEF CacheInv, Kept, Exact
    <3>2. ASSUME NEW t \in graphCache, s.entry = t.entry
          PROVE  TiedNext(s.entry.etag.query, s.entry.body.of)
      <4>1. /\ t.entry.body.of = [rev |-> t.entry.etag.rev, depth |-> t.entry.etag.query.depth]
            /\ t.entry.etag.query \in Query
            /\ TiedNow(t.entry.etag.query, t.entry.body.of)
        BY TypesOfBodies DEF CacheInv, Kept, Exact, ClusterInv
      <4>2. TiedNext(t.entry.etag.query, t.entry.body.of)
        BY <2>3, <4>1
      <4> QED
        BY <3>2, <4>2
    <3> QED
      BY <2>2, <3>1, <3>2
  <2>6. ASSUME NEW d \in Client, shown'[d] # None
        PROVE  /\ shown'[d].body.of.depth = shown'[d].query.depth
               /\ TiedNext(shown'[d].query, shown'[d].body.of)
    <3>1. CASE d = c
      BY <2>2, <2>4, <3>1
    <3>2. CASE d # c
      <4>1. /\ shown'[d] = shown[d] /\ shown[d] # None
            /\ shown[d].query \in Query /\ shown[d].body.of \in Partition
            /\ shown[d].body.of.depth = shown[d].query.depth
            /\ TiedNow(shown[d].query, shown[d].body.of)
        BY <2>2, <2>6, <3>2, TypesOfBodies DEF ClusterInv
      <4>2. shown[d].body.of = [rev |-> shown[d].body.of.rev, depth |-> shown[d].body.of.depth]
        BY <4>1 DEF Partition
      <4>3. TiedNext(shown[d].query, shown[d].body.of)
        BY <2>3, <4>1, <4>2
      <4> QED
        BY <4>1, <4>3
    <3> QED
      BY <3>1, <3>2
  <2> QED
    BY <2>5, <2>6 DEF ClusterInv, TiedNow, TiedNext
<1>7. ASSUME NEW c \in Client, ExpandCluster(c)
      PROVE  ClusterInv'
  <2>1. /\ clusterCache' = IF clusterCache = None THEN GetOrComputeClusters(1) ELSE clusterCache
        /\ resolutions' = IF clusterCache = None THEN resolutions \cup {1} ELSE resolutions
        /\ UNCHANGED <<engine, graphCache, shown>>
    BY <1>7 DEF ExpandCluster, Lookup, engineVars
  <2>2. ASSUME NEW q, NEW of \in Partition, TiedNow(q, of)
        PROVE  TiedNext(q, of)
    BY <2>1, <2>2, NoneAssumption DEF TiedNow, TiedNext, Tied
  <2> QED
    BY <2>1, <2>2, TypesOfBodies DEF ClusterInv, TiedNow, TiedNext
<1>8. CASE UNCHANGED routesVars
  BY <1>1, <1>8 DEF routesVars, engineVars, serverVars, clientVars, Rev
<1> QED
  BY <1>2, <1>3, <1>4, <1>5, <1>6, <1>7, <1>8 DEF RoutesNext

ExpansionStep ==
    \A c \in Client : expanded'[c] # expanded[c] /\ expanded'[c] # None =>
        \/ shown[c].body.of.rev # Rev
        \/ resolutions \ {shown[c].query.depth} # {}
        \/ expanded'[c] = shown[c].body.of

LEMMA ExpansionPreserved ==
  ASSUME CacheInv, ClusterInv, [RoutesNext]_routesVars
  PROVE  ExpansionStep
<1> SUFFICES ASSUME NEW d \in Client, expanded'[d] # expanded[d], expanded'[d] # None,
                    shown[d].body.of.rev = Rev, resolutions \ {shown[d].query.depth} = {}
             PROVE  expanded'[d] = shown[d].body.of
  BY DEF ExpansionStep
<1>1. ASSUME NEW c \in Client, ExpandCluster(c)
      PROVE  expanded'[d] = shown[d].body.of
  <2>1. d = c /\ expanded'[c] = Lookup
    BY <1>1 DEF ExpandCluster, CacheInv, RoutesTypeOK
  <2>2. /\ shown[c] # None /\ shown[c].query.view = "cluster"
        /\ TiedNow(shown[c].query, shown[c].body.of)
        /\ shown[c].body.of.depth = shown[c].query.depth
        /\ shown[c].body.of \in Partition
    BY <1>1, TypesOfBodies DEF ExpandCluster, ClusterInv
  <2>3. shown[c].body.of.depth \in resolutions /\ resolutions = {shown[c].body.of.depth}
    BY <2>1, <2>2 DEF TiedNow, Tied, Rev
  <2>4. clusterCache = shown[c].body.of
    BY <2>1, <2>2, <2>3 DEF TiedNow, Tied, Rev
  <2> QED
    BY <2>1, <2>2, <2>4, NoneAssumption DEF Lookup
<1>2. ASSUME NEW c \in Client, NEW q \in Asks[c], Ask(c, q)
      PROVE  FALSE
  BY <1>2 DEF Ask, CacheInv, RoutesTypeOK
<1>3. ASSUME NEW c \in Client, AnswerFromCache(c) \/ Answer(c) \/ NotFound(c)
      PROVE  UNCHANGED expanded
  BY <1>3 DEF AnswerFromCache, Answer, NotFound, Send
<1>4. CASE BeginRun \/ FilesListed \/ EndRun \/ AbortRun \/ Update
  BY <1>4 DEF BeginRun, FilesListed, EndRun, AbortRun, Update, clientVars
<1>5. CASE UNCHANGED routesVars
  BY <1>5 DEF routesVars, clientVars
<1> QED
  BY <1>1, <1>2, <1>3, <1>4, <1>5 DEF RoutesNext

(* Whatever depths are asked for, by however many clients, and whatever is *)
(* evicted, revalidated or analysed in between: the ids a client was sent  *)
(* are looked up in the partition they came from, unless the graph has     *)
(* changed or another depth was computed for it since (engine.ts:535-571). *)
THEOREM ClusterIdsValidAlways == RoutesSpec => ClusterIdsValid
<1>1. RoutesInit => CacheInv /\ ClusterInv
  BY CacheInvInit DEF RoutesInit, ClusterInv
<1>2. CacheInv /\ ClusterInv /\ [RoutesNext]_routesVars => (CacheInv /\ ClusterInv)'
  BY CacheInvNext, ClusterPreserved
<1>3. CacheInv /\ ClusterInv /\ [RoutesNext]_routesVars => [ExpansionStep]_routesVars
  BY ExpansionPreserved
<1>4. RoutesSpec => [][ExpansionStep]_routesVars
  BY <1>1, <1>2, <1>3, PTL DEF RoutesSpec
<1> QED
  BY <1>4 DEF ClusterIdsValid, ExpansionStep

---------------------------------------------------------------------------
(* A search by layers is the iteration of its step.                        *)

Rounds(f, G, base, o) ==
    /\ f \in [Nat -> G]
    /\ f[0] = base
    /\ \A k \in Nat : f[k + 1] = o[f[k]]

LEMMA LayersExist ==
  ASSUME NEW G, NEW base \in G, NEW o \in [G -> G]
  PROVE  \E f : Rounds(f, G, base, o)
<1> DEFINE Good(f, n) == f[0] = base /\ \A k \in Nat : k < n => f[k + 1] = o[f[k]]
           N == {n \in Nat : \E f \in [Nat -> G] : Good(f, n)}
<1>1. 0 \in N
  <2>1. Good([k \in Nat |-> base], 0)
    OBVIOUS
  <2>2. [k \in Nat |-> base] \in [Nat -> G]
    OBVIOUS
  <2> HIDE DEF Good
  <2> QED
    BY <2>1, <2>2
<1>2. ASSUME NEW n \in Nat, n \in N
      PROVE  n + 1 \in N
  <2>1. PICK f \in [Nat -> G] : Good(f, n)
    BY <1>2
  <2> DEFINE h == [k \in Nat |-> IF k = n + 1 THEN o[f[n]] ELSE f[k]]
  <2>2. h \in [Nat -> G]
    OBVIOUS
  <2>3. Good(h, n + 1)
    BY <2>1
  <2> HIDE DEF Good, h
  <2> QED
    BY <2>2, <2>3
<1>3. Nat \subseteq N
  <2> HIDE DEF N
  <2> QED
    BY <1>1, <1>2, AllNaturals
<1> DEFINE F(n) == CHOOSE f \in [Nat -> G] : Good(f, n)
           r == [n \in Nat |-> F(n)[n]]
<1>4. ASSUME NEW n \in Nat
      PROVE  F(n) \in [Nat -> G] /\ Good(F(n), n)
  <2>1. \E f \in [Nat -> G] : Good(f, n)
    BY <1>3
  <2> HIDE DEF Good
  <2> QED
    BY <2>1
<1>5. ASSUME NEW n \in Nat, NEW f \in [Nat -> G], NEW h \in [Nat -> G], Good(f, n), Good(h, n)
      PROVE  f[n] = h[n]
  <2> DEFINE T == {k \in Nat : k <= n => f[k] = h[k]}
  <2>1. 0 \in T
    BY <1>5
  <2>2. \A k \in Nat : k \in T => k + 1 \in T
    BY <1>5
  <2>3. Nat \subseteq T
    <3> HIDE DEF T
    <3> QED
      BY <2>1, <2>2, AllNaturals
  <2> QED
    BY <2>3
<1> HIDE DEF F
<1>6. r \in [Nat -> G] /\ r[0] = base
  BY <1>4
<1>7. ASSUME NEW n \in Nat
      PROVE  r[n + 1] = o[r[n]]
  <2>1. Good(F(n + 1), n + 1) /\ F(n + 1) \in [Nat -> G]
    BY <1>4
  <2>2. Good(F(n + 1), n)
    BY <2>1
  <2>3. F(n + 1)[n] = F(n)[n]
    BY <1>4, <1>5, <2>1, <2>2
  <2>4. F(n + 1)[n + 1] = o[F(n + 1)[n]]
    BY <2>1
  <2> QED
    BY <2>3, <2>4
<1> QED
  BY <1>6, <1>7 DEF Rounds

(* What takes its values from the layers before are these layers.          *)
LEMMA LayersAre ==
  ASSUME NEW G, NEW base \in G, NEW o \in [G -> G], NEW f,
         f = [k \in Nat |-> f[k]], f[0] = base,
         \A k \in Nat : f[k] \in G => f[k + 1] = o[f[k]]
  PROVE  Rounds(f, G, base, o)
<1> DEFINE T == {k \in Nat : f[k] \in G}
<1>1. 0 \in T /\ \A k \in Nat : k \in T => k + 1 \in T
  OBVIOUS
<1>2. Nat \subseteq T
  <2> HIDE DEF T
  <2> QED
    BY <1>1, AllNaturals
<1> QED
  BY <1>2 DEF Rounds

(* Two searches keep what relates their layers at first and after a step.  *)
LEMMA LayersRelate ==
  ASSUME NEW G, NEW b, NEW o, NEW f, Rounds(f, G, b, o),
         NEW H, NEW c, NEW p, NEW h, Rounds(h, H, c, p),
         NEW R, <<b, c>> \in R,
         \A x \in G, y \in H : <<x, y>> \in R => <<o[x], p[y]>> \in R
  PROVE  \A k \in Nat : <<f[k], h[k]>> \in R
<1> DEFINE T == {k \in Nat : <<f[k], h[k]>> \in R}
<1>1. 0 \in T /\ \A k \in Nat : k \in T => k + 1 \in T
  BY DEF Rounds
<1>2. Nat \subseteq T
  <2> HIDE DEF T
  <2> QED
    BY <1>1, AllNaturals
<1> QED
  BY <1>2

LEMMA LayersUnique ==
  ASSUME NEW G, NEW base, NEW o, NEW f, Rounds(f, G, base, o), NEW h, Rounds(h, G, base, o)
  PROVE  f = h
<1>1. \A k \in Nat : f[k] = h[k]
  <2> DEFINE T == {k \in Nat : f[k] = h[k]}
  <2>1. 0 \in T /\ \A k \in Nat : k \in T => k + 1 \in T
    BY DEF Rounds
  <2>2. Nat \subseteq T
    <3> HIDE DEF T
    <3> QED
      BY <2>1, AllNaturals
  <2> QED
    BY <2>2
<1> QED
  BY <1>1 DEF Rounds

(* The ends of the edges, in both directions.                              *)
Arc(g, n, m) == \E e \in Edge : HasEdge(g, e) /\ Src[e] = n /\ g.target[e] = m

LEMMA EdgeEnds ==
  ASSUME NEW g, Sound(g), NEW e \in Edge, HasEdge(g, e)
  PROVE  /\ Src[e] \in NodeId /\ g.target[e] \in NodeId /\ Kind[e] \in Kinds
         /\ g.target[e] = Dst[e]
         /\ e \in GetOutEdges(g, Src[e]) /\ e \in GetInEdges(g, g.target[e])
<1>1. Src[e] \in NodeId /\ g.target[e] \in NodeId /\ Kind[e] \in Kinds
  BY GraphAssumption, SoundFields DEF HasEdge
<1>2. g.target[e] = Dst[e]
  BY AnalyzerAssumption DEF Sound, Anchored
<1>3. e \in g.adjacency[Src[e]]
  BY <1>1 DEF Sound, OutIndexed
<1>4. e \in g.reverseAdjacency[g.target[e]]
  BY <1>1, AnalyzerAssumption DEF Sound, InIndexed
<1> QED
  BY <1>1, <1>2, <1>3, <1>4 DEF GetOutEdges, GetInEdges

LEMMA IndexedEdges ==
  ASSUME NEW g, Sound(g), NEW n \in NodeId
  PROVE  /\ GetOutEdges(g, n) = {e \in Edge : HasEdge(g, e) /\ Src[e] = n}
         /\ GetInEdges(g, n) = {e \in Edge : HasEdge(g, e) /\ g.target[e] = n}
<1>1. g.adjacency[n] = {e \in Edge : HasEdge(g, e) /\ Src[e] = n}
  BY DEF Sound, OutIndexed
<1>2. g.reverseAdjacency[n] = {e \in Edge : HasEdge(g, e) /\ g.target[e] = n}
  BY AnalyzerAssumption DEF Sound, InIndexed
<1> QED
  BY <1>1, <1>2 DEF GetOutEdges, GetInEdges

LEMMA NeighboursAre ==
  ASSUME NEW g, Sound(g), NEW n \in NodeId
  PROVE  /\ Neighbours(g, n, "out") = {m \in NodeId : Arc(g, n, m)}
         /\ Neighbours(g, n, "in") = {m \in NodeId : Arc(g, m, n)}
<1>1. Neighbours(g, n, "out") = {g.target[e] : e \in GetOutEdges(g, n)}
  BY DEF Neighbours
<1>2. Neighbours(g, n, "in") = {Src[e] : e \in GetInEdges(g, n)}
  BY DEF Neighbours
<1>3. \A e \in Edge : HasEdge(g, e) => Src[e] \in NodeId /\ g.target[e] \in NodeId
  BY EdgeEnds
<1>4. Neighbours(g, n, "out") = {m \in NodeId : Arc(g, n, m)}
  BY <1>1, <1>3, IndexedEdges DEF Arc
<1>5. Neighbours(g, n, "in") = {m \in NodeId : Arc(g, m, n)}
  BY <1>2, <1>3, IndexedEdges DEF Arc
<1> QED
  BY <1>4, <1>5

---------------------------------------------------------------------------
(* reachableFrom().                                                        *)

Spread(g, direction) ==
    [S \in SUBSET NodeId |-> S \cup UNION {Neighbours(g, m, direction) : m \in S}]

Visited(g, n, direction) ==
    CHOOSE f : Rounds(f, SUBSET NodeId, {n}, Spread(g, direction))

LEMMA SpreadType ==
  ASSUME NEW g, Sound(g), NEW direction \in {"out", "in"}
  PROVE  Spread(g, direction) \in [SUBSET NodeId -> SUBSET NodeId]
<1>1. \A m \in NodeId : Neighbours(g, m, direction) \in SUBSET NodeId
  BY NeighboursAre
<1> QED
  BY <1>1 DEF Spread

LEMMA VisitedLayers ==
  ASSUME NEW g, Sound(g), NEW n \in NodeId, NEW direction \in {"out", "in"}
  PROVE  Rounds(Visited(g, n, direction), SUBSET NodeId, {n}, Spread(g, direction))
<1>1. \E f : Rounds(f, SUBSET NodeId, {n}, Spread(g, direction))
  BY SpreadType, LayersExist
<1> QED
  BY <1>1 DEF Visited

LEMMA ReachableIs ==
  ASSUME NEW g, Sound(g), NEW n \in NodeId, NEW direction \in {"out", "in"}, NEW d \in Nat
  PROVE  ReachableFrom(g, n, direction, d) = Visited(g, n, direction)[d] \ {n}
<1> DEFINE o == Spread(g, direction)
           G == SUBSET NodeId
           Layer(f, k) ==
               IF k = 0 THEN {n}
               ELSE f[k - 1] \cup UNION {Neighbours(g, m, direction) : m \in f[k - 1]}
           Eq(f) == f = [k \in Nat |-> Layer(f, k)]
           visited == CHOOSE f : Eq(f)
<1>1. ReachableFrom(g, n, direction, d) = visited[d] \ {n}
  BY DEF ReachableFrom
<1>2. o \in [G -> G] /\ {n} \in G
  BY SpreadType
<1>3. \A S \in G : o[S] = S \cup UNION {Neighbours(g, m, direction) : m \in S}
  BY DEF Spread
<1>4. ASSUME NEW f, NEW k \in Nat, f[k] \in G
      PROVE  Layer(f, k + 1) = o[f[k]]
  <2>1. k + 1 # 0 /\ (k + 1) - 1 = k
    OBVIOUS
  <2>2. Layer(f, k + 1) = f[k] \cup UNION {Neighbours(g, m, direction) : m \in f[k]}
    BY <2>1
  <2> QED
    BY <1>3, <1>4, <2>2
<1>5. \A f : Layer(f, 0) = {n}
  OBVIOUS
<1> HIDE DEF o, Layer
<1>6. \E f : Eq(f)
  <2>1. PICK f : Rounds(f, G, {n}, o)
    BY Zenon, <1>2, LayersExist
  <2>2. ASSUME NEW k \in Nat
        PROVE  f[k] = Layer(f, k)
    <3>1. CASE k = 0
      BY <1>5, <2>1, <3>1 DEF Rounds
    <3>2. CASE k # 0
      <4>1. PICK j \in Nat : k = j + 1
        <5>1. k - 1 \in Nat /\ k = (k - 1) + 1
          BY <3>2
        <5> QED
          BY <5>1
      <4>2. f[j] \in G /\ f[j + 1] = o[f[j]]
        BY <2>1 DEF Rounds
      <4> QED
        BY <1>4, <4>1, <4>2
    <3> QED
      BY <3>1, <3>2
  <2>3. f = [k \in Nat |-> f[k]]
    BY <2>1 DEF Rounds
  <2> QED
    BY Zenon, <2>2, <2>3
<1>7. Eq(visited)
  <2> HIDE DEF Eq
  <2> QED
    BY <1>6
<1> HIDE DEF visited
<1>8. /\ visited = [k \in Nat |-> visited[k]]
      /\ visited[0] = {n}
      /\ \A k \in Nat : visited[k] \in G => visited[k + 1] = o[visited[k]]
  BY <1>4, <1>5, <1>7
<1>9. Rounds(visited, G, {n}, o)
  BY Zenon, <1>2, <1>8, LayersAre
<1>10. visited = Visited(g, n, direction)
  BY Zenon, <1>9, VisitedLayers, LayersUnique DEF o
<1> QED
  BY <1>1, <1>10

(* A search forgets nothing, and its first step goes to the neighbours.    *)
LEMMA VisitedGrows ==
  ASSUME NEW g, Sound(g), NEW n \in NodeId, NEW direction \in {"out", "in"}
  PROVE  LET f == Visited(g, n, direction) IN
         /\ f \in [Nat -> SUBSET NodeId]
         /\ f[0] = {n}
         /\ \A k \in Nat :
               f[k + 1] = f[k] \cup UNION {Neighbours(g, m, direction) : m \in f[k]}
         /\ \A k \in Nat : n \in f[k] /\ Neighbours(g, n, direction) \subseteq f[k + 1]
<1> DEFINE f == Visited(g, n, direction)
<1>1. Rounds(f, SUBSET NodeId, {n}, Spread(g, direction))
  BY VisitedLayers
<1> HIDE DEF f
<1>2. f \in [Nat -> SUBSET NodeId] /\ f[0] = {n}
  BY <1>1 DEF Rounds
<1>3. ASSUME NEW k \in Nat
      PROVE  f[k + 1] = f[k] \cup UNION {Neighbours(g, m, direction) : m \in f[k]}
  BY <1>1, <1>2 DEF Rounds, Spread
<1>4. \A k \in Nat : n \in f[k]
  <2> DEFINE T == {k \in Nat : n \in f[k]}
  <2>1. 0 \in T /\ \A k \in Nat : k \in T => k + 1 \in T
    BY <1>2, <1>3
  <2>2. Nat \subseteq T
    <3> HIDE DEF T
    <3> QED
      BY <2>1, AllNaturals
  <2> QED
    BY <2>2
<1>5. \A k \in Nat : Neighbours(g, n, direction) \subseteq f[k + 1]
  BY <1>3, <1>4
<1> QED
  BY <1>2, <1>3, <1>4, <1>5 DEF f

LEMMA UnlimitedIs == Unlimited \in Nat /\ (NodeId # {} => Unlimited > 0)
<1>1. Unlimited \in Nat
  BY FiniteAssumption, FS_CardinalityType DEF Unlimited
<1>2. ASSUME NodeId # {}
      PROVE  Unlimited # 0
  BY <1>2, FiniteAssumption, FS_EmptySet DEF Unlimited
<1> QED
  BY <1>1, <1>2

LEMMA DirectReached ==
  ASSUME NEW g, Sound(g), NEW n \in NodeId
  PROVE  /\ Neighbours(g, n, "in") \ {n} \subseteq ReachableFrom(g, n, "in", Unlimited)
         /\ ReachableFrom(g, n, "in", Unlimited) \in SUBSET (NodeId \ {n})
         /\ Neighbours(g, n, "in") \in SUBSET NodeId
<1> DEFINE f == Visited(g, n, "in")
<1>1. Unlimited - 1 \in Nat /\ Unlimited = (Unlimited - 1) + 1 /\ Unlimited \in Nat
  BY UnlimitedIs
<1>2. Neighbours(g, n, "in") \subseteq f[Unlimited] /\ f[Unlimited] \in SUBSET NodeId
  <2>1. f \in [Nat -> SUBSET NodeId]
        /\ \A k \in Nat : Neighbours(g, n, "in") \subseteq f[k + 1]
    BY VisitedGrows
  <2> HIDE DEF f
  <2> QED
    BY <1>1, <2>1
<1>3. ReachableFrom(g, n, "in", Unlimited) = f[Unlimited] \ {n}
  BY <1>1, ReachableIs
<1> HIDE DEF f
<1> QED
  BY <1>2, <1>3

---------------------------------------------------------------------------
(* The impact of a change.                                                 *)

Impacts == [direct : SUBSET NodeId, transitive : SUBSET NodeId]

WithImpactOf(g, C, n, impact) ==
    LET direct == impact.direct \cup ({Src[e] : e \in GetInEdges(g, n)} \ C)
        reachable == ReachableFrom(g, n, "in", Unlimited) IN
    [direct |-> direct,
     transitive |-> impact.transitive \cup (reachable \ (C \cup direct))]

AddingImpacts(g, q) ==
    [p \in (DOMAIN q) \X Impacts |-> WithImpactOf(g, ToSet(q), q[p[1]], p[2])]

NoImpact == [direct |-> {}, transitive |-> {}]

LEMMA WithImpactType ==
  ASSUME NEW g, Sound(g), NEW C, NEW n \in NodeId, NEW impact \in Impacts
  PROVE  WithImpactOf(g, C, n, impact) \in Impacts
<1> DEFINE direct == impact.direct \cup ({Src[e] : e \in GetInEdges(g, n)} \ C)
           transitive ==
               impact.transitive
                   \cup (ReachableFrom(g, n, "in", Unlimited) \ (C \cup direct))
<1>1. {Src[e] : e \in GetInEdges(g, n)} = Neighbours(g, n, "in")
  BY DEF Neighbours
<1>2. direct \in SUBSET NodeId
  BY <1>1, DirectReached DEF Impacts
<1>3. transitive \in SUBSET NodeId
  BY DirectReached DEF Impacts
<1>4. WithImpactOf(g, C, n, impact) = [direct |-> direct, transitive |-> transitive]
  BY DEF WithImpactOf
<1> HIDE DEF direct, transitive
<1> QED
  BY <1>2, <1>3, <1>4 DEF Impacts

LEMMA ChangeImpactFold ==
  ASSUME NEW g, Sound(g), NEW q \in Seq(NodeId)
  PROVE  IsFold(ChangeImpact(g, q), DOMAIN q, Impacts, NoImpact, Latest(DOMAIN q),
                AddingImpacts(g, q))
<1> DEFINE D == DOMAIN q
           G == Impacts
           pick == Latest(D)
           o == AddingImpacts(g, q)
           Step(f, s) ==
               IF s = {} THEN [direct |-> {}, transitive |-> {}]
               ELSE WithImpactOf(g, ToSet(q), q[Max(s)], f[s \ {Max(s)}])
           Eq(f) == f = [s \in SUBSET D |-> Step(f, s)]
           iter == CHOOSE f : Eq(f)
<1>1. ChangeImpact(g, q) = iter[D]
  BY DEF ChangeImpact, FoldLeft, MapThenFoldSet, WithImpactOf
<1>2. IsFiniteSet(D) /\ Picks(pick, D) /\ \A s \in SUBSET D : pick[s] = Max(s)
  BY LatestPicks DEF Latest
<1>3. \A x \in D, h \in G : o[<<x, h>>] = WithImpactOf(g, ToSet(q), q[x], h)
  BY DEF AddingImpacts
<1>4. Within(o, D, G) /\ NoImpact \in G
  <2>1. \A x \in D : q[x] \in NodeId
    OBVIOUS
  <2>2. NoImpact \in G
    BY DEF NoImpact, Impacts
  <2> HIDE DEF o, D, G
  <2>3. \A x \in D, h \in G : o[<<x, h>>] \in G
    BY <1>3, <2>1, WithImpactType DEF G
  <2> QED
    BY <2>2, <2>3 DEF Within
<1> HIDE DEF pick, o
<1>5. ASSUME NEW f, NEW s \in SUBSET D, s # {}, f[s \ {pick[s]}] \in G
      PROVE  Step(f, s) = o[<<pick[s], f[s \ {pick[s]}]>>]
  <2>1. pick[s] \in D
    BY <1>2, <1>5 DEF Picks
  <2> QED
    BY <1>2, <1>3, <1>5, <2>1
<1>6. \A f : Step(f, {}) = NoImpact
  BY DEF NoImpact
<1> HIDE DEF Step, G
<1>7. \E f : Eq(f)
  <2>1. PICK f \in [SUBSET D -> G] : Iterates(f, D, NoImpact, pick, o)
    BY Zenon, <1>2, <1>4, IterationExists
  <2>2. ASSUME NEW s \in SUBSET D
        PROVE  f[s] = Step(f, s)
    <3>1. s # {} => f[s \ {pick[s]}] \in G
      BY <1>2 DEF Picks
    <3> QED
      BY <1>5, <1>6, <2>1, <3>1 DEF Iterates
  <2>3. f = [s \in SUBSET D |-> f[s]]
    OBVIOUS
  <2> QED
    BY Zenon, <2>2, <2>3
<1>8. Eq(iter)
  <2> HIDE DEF Eq
  <2> QED
    BY <1>7
<1> HIDE DEF iter
<1>9. /\ iter = [s \in SUBSET D |-> iter[s]]
      /\ iter[{}] = NoImpact
      /\ \A s \in SUBSET D : s # {} /\ iter[s \ {pick[s]}] \in G =>
            iter[s] = o[<<pick[s], iter[s \ {pick[s]}]>>]
  BY <1>5, <1>6, <1>8
<1>10. IsFold(iter[D], D, G, NoImpact, pick, o)
  BY Zenon, <1>2, <1>4, <1>9, FoldIs
<1> QED
  BY <1>1, <1>10 DEF pick, o, G

(* After the nodes of an index set s: both lists, and the direct ones.     *)
Listed(g, q, s, impact) ==
    /\ impact.direct = (UNION {Neighbours(g, q[i], "in") : i \in s}) \ ToSet(q)
    /\ impact.direct \cup impact.transitive =
          (UNION {ReachableFrom(g, q[i], "in", Unlimited) : i \in s}) \ ToSet(q)

LEMMA WithImpactListed ==
  ASSUME NEW g, Sound(g), NEW q \in Seq(NodeId), NEW s \in SUBSET DOMAIN q, NEW x \in s,
         NEW impact \in Impacts, Listed(g, q, s \ {x}, impact)
  PROVE  Listed(g, q, s, WithImpactOf(g, ToSet(q), q[x], impact))
<1> DEFINE C == ToSet(q)
           n == q[x]
           near == Neighbours(g, n, "in")
           far == ReachableFrom(g, n, "in", Unlimited)
           new == WithImpactOf(g, C, n, impact)
           near0 == UNION {Neighbours(g, q[i], "in") : i \in s \ {x}}
           far0 == UNION {ReachableFrom(g, q[i], "in", Unlimited) : i \in s \ {x}}
<1>1. n \in NodeId /\ n \in C
  BY DEF ToSet
<1>2. near = {Src[e] : e \in GetInEdges(g, n)}
  BY DEF Neighbours
<1>3. near \ {n} \subseteq far
  BY <1>1, DirectReached
<1>4. /\ new.direct = impact.direct \cup (near \ C)
      /\ new.transitive = impact.transitive \cup (far \ (C \cup new.direct))
  BY <1>2 DEF WithImpactOf
<1>5. impact.direct = near0 \ C /\ impact.direct \cup impact.transitive = far0 \ C
  BY DEF Listed
<1>6. /\ UNION {Neighbours(g, q[i], "in") : i \in s} = near0 \cup near
      /\ UNION {ReachableFrom(g, q[i], "in", Unlimited) : i \in s} = far0 \cup far
  OBVIOUS
<1> HIDE DEF n, near, far, new, near0, far0, C
<1>7. new.direct = (near0 \cup near) \ C
  BY <1>4, <1>5
<1>8. new.direct \cup new.transitive = (far0 \cup far) \ C
  BY <1>1, <1>3, <1>4, <1>5
<1>9. Listed(g, q, s, new)
  BY <1>6, <1>7, <1>8 DEF Listed, C
<1> QED
  BY <1>9 DEF new, C, n

LEMMA ChangeImpactIs ==
  ASSUME NEW g, Sound(g), NEW q \in Seq(NodeId)
  PROVE  Listed(g, q, DOMAIN q, ChangeImpact(g, q))
<1> DEFINE D == DOMAIN q
           o == AddingImpacts(g, q)
           r == ChangeImpact(g, q)
           R == {p \in (SUBSET D) \X Impacts : Listed(g, q, p[1], p[2])}
<1>1. IsFold(r, D, Impacts, NoImpact, Latest(D), o)
  BY ChangeImpactFold
<1>2. IsFiniteSet(D) /\ Picks(Latest(D), D)
  BY LatestPicks
<1>3. \A x \in D, h \in Impacts : o[<<x, h>>] = WithImpactOf(g, ToSet(q), q[x], h)
  BY DEF AddingImpacts
<1>4. \A x \in D : q[x] \in NodeId
  OBVIOUS
<1> HIDE DEF o, r
<1>5. <<{}, NoImpact>> \in R
  BY DEF Listed, NoImpact, Impacts
<1>6. ASSUME NEW s \in SUBSET D, NEW x \in s, NEW h \in Impacts, <<s \ {x}, h>> \in R
      PROVE  <<s, o[<<x, h>>]>> \in R
  <2>1. o[<<x, h>>] = WithImpactOf(g, ToSet(q), q[x], h)
    BY <1>3
  <2>2. Listed(g, q, s, o[<<x, h>>])
    BY <1>6, <2>1, WithImpactListed
  <2>3. o[<<x, h>>] \in Impacts
    BY <1>4, <2>1, WithImpactType
  <2> QED
    BY <2>2, <2>3
<1>7. <<D, r>> \in R
  <2> HIDE DEF R, D
  <2>1. Carries(R, D, Impacts, o)
    BY <1>6 DEF Carries
  <2> QED
    BY Zenon, <1>1, <1>2, <1>5, <2>1, FoldHolds
<1> QED
  BY <1>7 DEF r

(* The sequences of the members of a finite set have all of them.          *)
LEMMA SequencesOf ==
  ASSUME NEW C, IsFiniteSet(C), NEW q \in SetToSeqs(C)
  PROVE  q \in Seq(C) /\ C = {q[i] : i \in DOMAIN q} /\ ToSet(q) = C
<1> DEFINE D == 1..Cardinality(C)
<1>1. q \in [D -> C] /\ \A i, j \in D : i # j => q[i] # q[j]
  BY DEF SetToSeqs
<1>2. Cardinality(C) \in Nat
  BY FS_CardinalityType
<1>3. q \in Injection(D, C)
  BY <1>1 DEF Injection, IsInjective
<1>4. IsFiniteSet(D) /\ Cardinality(D) = Cardinality(C)
  BY <1>2, FS_Interval
<1>5. q \in Surjection(D, C)
  BY <1>3, <1>4, FS_Injection
<1>6. \A c \in C : \E i \in D : q[i] = c
  BY <1>5 DEF Surjection
<1>7. q \in Seq(C)
  BY <1>1, <1>2
<1> QED
  BY <1>1, <1>6, <1>7 DEF ToSet

LEMMA ImpactCompleteIn ==
  ASSUME Sound(graph)
  PROVE  ImpactComplete
<1> SUFFICES ASSUME NEW files \in {{f, h} : f, h \in File \ {Virtual}}
             PROVE  LET C == ChangedNodes(graph, files)
                        reached ==
                            (UNION {ReachableFrom(graph, n, "in", Unlimited) : n \in C}) \ C IN
                    \A changed \in SetToSeqs(C) :
                        LET impact == ChangeImpact(graph, changed) IN
                        /\ impact.direct \cup impact.transitive = reached
                        /\ impact.direct = (UNION {Neighbours(graph, n, "in") : n \in C}) \ C
                        /\ \A kind \in {"vue-component", "spring-endpoint"} :
                              AffectedOf(graph, changed, kind) =
                                  NodesOfKind(graph, {kind}) \cap (reached \cup C)
  BY DEF ImpactComplete
<1> DEFINE C == ChangedNodes(graph, files)
           reached == (UNION {ReachableFrom(graph, n, "in", Unlimited) : n \in C}) \ C
<1>1. C \in SUBSET NodeId
  BY SoundFields DEF ChangedNodes, GetNodesByFile
<1>2. IsFiniteSet(C)
  BY <1>1, FiniteNodes
<1> HIDE DEF C
<1>3. ASSUME NEW changed \in SetToSeqs(C)
      PROVE  LET impact == ChangeImpact(graph, changed) IN
             /\ impact.direct \cup impact.transitive = reached
             /\ impact.direct = (UNION {Neighbours(graph, n, "in") : n \in C}) \ C
             /\ \A kind \in {"vue-component", "spring-endpoint"} :
                   AffectedOf(graph, changed, kind) =
                       NodesOfKind(graph, {kind}) \cap (reached \cup C)
  <2> DEFINE impact == ChangeImpact(graph, changed)
             D == DOMAIN changed
  <2>1. /\ changed \in Seq(C)
        /\ C = {changed[i] : i \in D}
        /\ ToSet(changed) = C
    BY <1>2, SequencesOf
  <2>2. changed \in Seq(NodeId)
    BY <1>1, <2>1
  <2>3. Listed(graph, changed, D, impact)
    BY <2>2, ChangeImpactIs
  <2>4. /\ UNION {Neighbours(graph, changed[i], "in") : i \in D}
              = UNION {Neighbours(graph, n, "in") : n \in C}
        /\ UNION {ReachableFrom(graph, changed[i], "in", Unlimited) : i \in D}
              = UNION {ReachableFrom(graph, n, "in", Unlimited) : n \in C}
    BY <2>1
  <2> HIDE DEF impact
  <2>5. /\ impact.direct \cup impact.transitive = reached
        /\ impact.direct = (UNION {Neighbours(graph, n, "in") : n \in C}) \ C
    BY <2>1, <2>3, <2>4 DEF Listed
  <2>6. ASSUME NEW kind \in {"vue-component", "spring-endpoint"}
        PROVE  AffectedOf(graph, changed, kind) =
                   NodesOfKind(graph, {kind}) \cap (reached \cup C)
    <3>1. AffectedOf(graph, changed, kind) =
             NodesOfKind(graph, {kind})
                 \cap (ToSet(changed) \cup impact.direct \cup impact.transitive)
      BY DEF AffectedOf, impact
    <3> HIDE DEF reached
    <3> QED
      BY <2>1, <2>5, <3>1
  <2> QED
    BY <2>5, <2>6 DEF impact
<1> QED
  BY <1>3 DEF C

---------------------------------------------------------------------------
(* The graphs of a project.  A node that a parser emitted keeps its file,  *)
(* the node of a service has none; an edge comes from a parser, a linker   *)
(* or the service builder; and the file index leads to nodes of the file.  *)

Home(n) == IF n \in DOMAIN FileOf THEN FileOf[n] ELSE Virtual

OfProject(g) ==
    /\ Sound(g)
    /\ \A n \in NodeId : HasNode(g, n) => g.node[n] = Home(n)
    /\ \A f \in File \ {Virtual} :
          g.fileIndex[f] \subseteq {n \in DOMAIN FileOf : FileOf[n] = f}
    /\ \A e \in Edge : HasEdge(g, e) =>
          e \in Parsed \/ \E t \in DOMAIN ServiceEdge : e = ServiceEdge[t]

NodesFiled(g, S) == FoldSet(LAMBDA n, h : AddNode(h, n, FileOf[n]), g, S)

FilingNodes(S, G) == [p \in S \X G |-> AddNode(p[2], p[1], FileOf[p[1]])]

LEMMA NodesFiledFold ==
  ASSUME NEW S, IsFiniteSet(S), NEW G, NEW g \in G,
         \A x \in S, h \in G : AddNode(h, x, FileOf[x]) \in G
  PROVE  IsFold(NodesFiled(g, S), S, G, g, First(S), FilingNodes(S, G))
<1> DEFINE pick == First(S)
           o == FilingNodes(S, G)
           Step(f, s) ==
               IF s = {} THEN g
               ELSE AddNode(f[s \ {CHOOSE x \in s : TRUE}], (CHOOSE x \in s : TRUE),
                            FileOf[(CHOOSE x \in s : TRUE)])
           Eq(f) == f = [s \in SUBSET S |-> Step(f, s)]
           iter == CHOOSE f : Eq(f)
<1>1. NodesFiled(g, S) = iter[S]
  BY DEF NodesFiled, FoldSet, MapThenFoldSet
<1>2. Picks(pick, S) /\ \A s \in SUBSET S : pick[s] = CHOOSE x \in s : TRUE
  BY FirstPicks DEF First
<1>3. \A x \in S, h \in G : o[<<x, h>>] = AddNode(h, x, FileOf[x])
  BY DEF FilingNodes
<1>4. Within(o, S, G)
  BY <1>3 DEF Within
<1> HIDE DEF pick, o
<1>5. ASSUME NEW f, NEW s \in SUBSET S, s # {}, f[s \ {pick[s]}] \in G
      PROVE  Step(f, s) = o[<<pick[s], f[s \ {pick[s]}]>>]
  <2>1. pick[s] \in S
    BY <1>2, <1>5 DEF Picks
  <2> QED
    BY <1>2, <1>3, <1>5, <2>1
<1>6. \A f : Step(f, {}) = g
  OBVIOUS
<1> HIDE DEF Step
<1>7. \E f : Eq(f)
  <2>1. PICK f \in [SUBSET S -> G] : Iterates(f, S, g, pick, o)
    BY Zenon, <1>2, <1>4, IterationExists
  <2>2. ASSUME NEW s \in SUBSET S
        PROVE  f[s] = Step(f, s)
    <3>1. s # {} => f[s \ {pick[s]}] \in G
      BY <1>2 DEF Picks
    <3> QED
      BY <1>5, <1>6, <2>1, <3>1 DEF Iterates
  <2>3. f = [s \in SUBSET S |-> f[s]]
    OBVIOUS
  <2> QED
    BY Zenon, <2>2, <2>3
<1>8. Eq(iter)
  <2> HIDE DEF Eq
  <2> QED
    BY <1>7
<1> HIDE DEF iter
<1>9. /\ iter = [s \in SUBSET S |-> iter[s]]
      /\ iter[{}] = g
      /\ \A s \in SUBSET S : s # {} /\ iter[s \ {pick[s]}] \in G =>
            iter[s] = o[<<pick[s], iter[s \ {pick[s]}]>>]
  BY <1>5, <1>6, <1>8
<1>10. IsFold(iter[S], S, G, g, pick, o)
  BY Zenon, <1>2, <1>4, <1>9, FoldIs
<1> QED
  BY <1>1, <1>10 DEF pick, o

(* The graph of the nodes of s and no edge.                                *)
Filed(s, h) ==
    /\ Sound(h)
    /\ \A e \in Edge : h.target[e] = Absent
    /\ \A n \in NodeId : h.node[n] = IF n \in s THEN FileOf[n] ELSE Absent
    /\ \A j \in File : h.fileIndex[j] \subseteq {n \in s : FileOf[n] = j}

LEMMA NodesFiledIs == Filed(DOMAIN FileOf, NodesFiled(EmptyGraph, DOMAIN FileOf))
<1> DEFINE S == DOMAIN FileOf
           o == FilingNodes(S, SoundGraph)
           r == NodesFiled(EmptyGraph, S)
           R == {p \in (SUBSET S) \X SoundGraph : Filed(p[1], p[2])}
<1>1. S \in SUBSET NodeId /\ \A n \in S : FileOf[n] \in File
  BY AnalyzerAssumption
<1>2. IsFiniteSet(S) /\ EmptyGraph \in SoundGraph
  BY <1>1, FiniteNodes, SoundFields, EmptyGraphSound
<1>3. \A x \in S, h \in SoundGraph : AddNode(h, x, FileOf[x]) \in SoundGraph
  BY <1>1, AddNodeSound, SoundFields DEF SoundGraph
<1>4. IsFold(r, S, SoundGraph, EmptyGraph, First(S), o)
  BY <1>2, <1>3, NodesFiledFold
<1>5. \A x \in S : \A h \in SoundGraph : o[<<x, h>>] = AddNode(h, x, FileOf[x])
  BY DEF FilingNodes
<1>6. <<{}, EmptyGraph>> \in R
  BY <1>2, EmptyGraphSound DEF Filed, EmptyGraph
<1> HIDE DEF o, r, S
<1>7. ASSUME NEW s \in SUBSET S, NEW x \in s, NEW h \in SoundGraph, <<s \ {x}, h>> \in R
      PROVE  <<s, o[<<x, h>>]>> \in R
  <2> DEFINE i == FileOf[x]
             k == AddNode(h, x, i)
  <2>1. Filed(s \ {x}, h) /\ Sound(h) /\ x \in NodeId /\ i \in File
    BY <1>1, <1>7 DEF SoundGraph
  <2>2. k = AddNode(h, x, i) /\ o[<<x, h>>] = k
    BY <1>5
  <2> HIDE DEF k
  <2>3. /\ Sound(k)
        /\ k.target = h.target
        /\ \A m \in NodeId : k.node[m] = IF m = x THEN i ELSE h.node[m]
        /\ k.fileIndex[i] = h.fileIndex[i] \cup {x}
        /\ \A j \in File : j # i => k.fileIndex[j] = h.fileIndex[j]
    BY <2>1, <2>2, AddNodeIs
  <2>4. \A n \in NodeId : k.node[n] = IF n \in s THEN FileOf[n] ELSE Absent
    BY <2>1, <2>3 DEF Filed
  <2>5. ASSUME NEW j \in File
        PROVE  k.fileIndex[j] \subseteq {n \in s : FileOf[n] = j}
    <3>1. h.fileIndex[j] \subseteq {n \in s \ {x} : FileOf[n] = j}
      BY <2>1 DEF Filed
    <3> QED
      BY <1>7, <2>3, <3>1
  <2>6. Filed(s, k)
    BY <2>1, <2>3, <2>4, <2>5 DEF Filed
  <2> QED
    BY <2>2, <2>3, <2>6, SoundFields
<1>8. <<S, r>> \in R
  <2> HIDE DEF R
  <2>1. Carries(R, S, SoundGraph, o)
    BY <1>7 DEF Carries
  <2> QED
    BY Zenon, <1>2, <1>4, <1>6, <2>1, FirstPicks, FoldHolds
<1> QED
  BY <1>8 DEF r, S

LEMMA EmittedOfProject ==
  ASSUME NEW g, OfProject(g), NEW e \in Parsed
  PROVE  OfProject(AddEdge(g, e))
<1> DEFINE h == AddEdge(g, e)
<1>1. h = AddEdge(g, e) /\ e \in Edge
  BY AnalyzerAssumption DEF Parsed, ToSet
<1> HIDE DEF h
<1>2. /\ Sound(h)
      /\ h.node = g.node
      /\ h.fileIndex = g.fileIndex
      /\ \A d \in Edge : h.target[d] = IF d = e THEN Dst[e] ELSE g.target[d]
  BY <1>1, AddEdgeIs DEF OfProject
<1>3. OfProject(h)
  BY <1>2 DEF OfProject, HasNode, HasEdge
<1> QED
  BY <1>1, <1>3

LEMMA RemovedOfProject ==
  ASSUME NEW g, OfProject(g), NEW f \in File \ {Virtual}
  PROVE  OfProject(RemoveByFile(g, f))
<1> DEFINE h == RemoveByFile(g, f)
<1>1. h = RemoveByFile(g, f)
  OBVIOUS
<1> HIDE DEF h
<1>2. /\ Sound(h)
      /\ \A n \in NodeId : h.node[n] = IF n \in g.fileIndex[f] THEN Absent ELSE g.node[n]
      /\ \A e \in Edge : h.target[e] \in {Absent, g.target[e]}
      /\ \A i \in File : h.fileIndex[i] \subseteq g.fileIndex[i]
  BY <1>1, RemoveByFileIs DEF OfProject
<1>3. \A n \in NodeId : HasNode(h, n) => h.node[n] = g.node[n] /\ HasNode(g, n)
  BY <1>2 DEF HasNode
<1>4. \A e \in Edge : HasEdge(h, e) => HasEdge(g, e)
  BY <1>2 DEF HasEdge
<1>5. OfProject(h)
  BY <1>2, <1>3, <1>4 DEF OfProject
<1> QED
  BY <1>1, <1>5

---------------------------------------------------------------------------
(* The services.                                                           *)

LEMMA ServicesAre ==
  /\ \A n : HomeOf(n) \in Service
  /\ \A n : HomeOf(n) # Absent
  /\ \A g, n : NodeServiceId(g, n) \in {HomeOf(n), Unassigned}
  /\ \A g, n : NodeServiceId(g, n) # Unassigned =>
        NodeServiceId(g, n) = HomeOf(n) /\ HasNode(g, n)
<1>1. \A n : HomeOf(n) \in Service
  BY AnalyzerAssumption DEF HomeOf
<1>2. \A g, n : NodeServiceId(g, n) \in {HomeOf(n), Unassigned}
  BY DEF NodeServiceId
<1>3. \A g, n : NodeServiceId(g, n) # Unassigned =>
         NodeServiceId(g, n) = HomeOf(n) /\ HasNode(g, n)
  BY DEF NodeServiceId
<1> QED
  BY <1>1, <1>2, <1>3, AnalyzerAssumption

(* Some edge of the project accesses the table in this way.                *)
Accessed(g, kind, table) == \E d \in Parsed : Accesses(g, d, kind, table)

OwnedBy(g, kind, table, owner) ==
    \E d \in Parsed : Accesses(g, d, kind, table) /\ owner = NodeServiceId(g, Src[d])

FirstAccess(g, kind, table) == SelectInSeq(Order, LAMBDA e : Accesses(g, e, kind, table))

LEMMA FirstAccessIs ==
  ASSUME NEW g, NEW kind, NEW table
  PROVE  LET w == FirstAccess(g, kind, table) IN
         /\ w # 0 => OwnedBy(g, kind, table, NodeServiceId(g, Src[Order[w]]))
         /\ w = 0 => ~Accessed(g, kind, table)
<1> DEFINE I == {i \in 1..Len(Order) : Accesses(g, Order[i], kind, table)}
           w == FirstAccess(g, kind, table)
<1>1. w = IF I # {} THEN Min(I) ELSE 0
  BY DEF FirstAccess, SelectInSeq
<1>2. Order \in Seq(Edge) /\ DOMAIN Order = 1..Len(Order)
  BY AnalyzerAssumption
<1>3. \A d : d \in Parsed <=> \E i \in 1..Len(Order) : d = Order[i]
  BY <1>2 DEF Parsed, ToSet
<1>4. CASE I = {}
  <2>1. w = 0
    BY <1>1, <1>4
  <2>2. ~Accessed(g, kind, table)
    BY <1>3, <1>4 DEF Accessed
  <2> QED
    BY Zenon, <2>1, <2>2
<1>5. CASE I # {}
  <2>1. I \in SUBSET Nat
    BY <1>2
  <2>2. \E i \in I : \A j \in I : i <= j
    <3> HIDE DEF I
    <3> QED
      BY <1>5, <2>1, LeastNatural
  <2>3. Min(I) \in I
    <3> HIDE DEF I
    <3> QED
      BY <2>2 DEF Min
  <2>4. w \in I
    BY <1>1, <1>5, <2>3
  <2>5. w # 0 /\ w \in 1..Len(Order) /\ Accesses(g, Order[w], kind, table)
    <3> HIDE DEF w
    <3> QED
      BY <1>2, <2>4
  <2> HIDE DEF w, I
  <2>6. OwnedBy(g, kind, table, NodeServiceId(g, Src[Order[w]]))
    BY <1>3, <2>5 DEF OwnedBy
  <2> QED
    BY Zenon, <2>5, <2>6 DEF w
<1> QED
  BY Zenon, <1>4, <1>5

LEMMA TableOwnerIs ==
  ASSUME NEW g, NEW table
  PROVE  LET owner == TableOwner(g, table) IN
         CASE Accessed(g, "writes-table", table) -> OwnedBy(g, "writes-table", table, owner)
           [] ~Accessed(g, "writes-table", table) /\ Accessed(g, "reads-table", table) ->
                 OwnedBy(g, "reads-table", table, owner)
           [] OTHER -> owner = Absent
<1> DEFINE w == FirstAccess(g, "writes-table", table)
           r == FirstAccess(g, "reads-table", table)
<1>1. TableOwner(g, table) =
        CASE w # 0 -> NodeServiceId(g, Src[Order[w]])
          [] w = 0 /\ r # 0 -> NodeServiceId(g, Src[Order[r]])
          [] OTHER -> Absent
  BY DEF TableOwner, FirstAccess
<1>2. /\ w # 0 => OwnedBy(g, "writes-table", table, NodeServiceId(g, Src[Order[w]]))
      /\ w = 0 => ~Accessed(g, "writes-table", table)
      /\ r # 0 => OwnedBy(g, "reads-table", table, NodeServiceId(g, Src[Order[r]]))
      /\ r = 0 => ~Accessed(g, "reads-table", table)
  BY FirstAccessIs
<1>3. \A kind, owner : OwnedBy(g, kind, table, owner) => Accessed(g, kind, table)
  BY DEF OwnedBy, Accessed
<1> HIDE DEF w, r
<1> QED
  BY <1>1, <1>2, <1>3

LEMMA ServiceLinksNamed ==
  ASSUME NEW g, Sound(g), NEW t \in ServiceLinks(g)
  PROVE  t \in DOMAIN ServiceEdge
<1> DEFINE Sid(n) == NodeServiceId(g, n)
           calls == {<<Sid(Src[e]), "service-calls", Sid(g.target[e])>> :
                     e \in {c \in GetEdgesByKind(g, "api-call") :
                               HasNode(g, Src[c]) /\ HasNode(g, g.target[c])
                               /\ NodeKind[g.target[c]] = "spring-endpoint"}}
           tables == {<<Sid(Src[e]), "service-shares-db", TableOwner(g, g.target[e])>> :
                     e \in {a \in EdgesOf(g) : Kind[a] \in TableKinds /\ Sid(Src[a]) # Unassigned}}
           dtos == {<<Sid(n), "service-shares-dto", Sid(DtoOf[n])>> :
                     n \in {m \in NodesOf(g) \cap DOMAIN DtoOf :
                               HasNode(g, DtoOf[m])
                               /\ Unassigned \notin {Sid(m), Sid(DtoOf[m])}}}
<1>1. t \in calls \cup tables \cup dtos /\ t[1] # t[3] /\ t[3] # Absent
  BY DEF ServiceLinks
<1>2. CASE t \in calls
  <2>1. PICK e \in GetEdgesByKind(g, "api-call") :
          /\ HasNode(g, Src[e]) /\ HasNode(g, g.target[e])
          /\ t = <<Sid(Src[e]), "service-calls", Sid(g.target[e])>>
    BY <1>2
  <2>2. e \in Edge /\ HasEdge(g, e) /\ Kind[e] = "api-call"
    BY AnalyzerAssumption DEF GetEdgesByKind, Sound, KindIndexed
  <2>3. g.target[e] = Dst[e]
    BY <2>2, EdgeEnds
  <2>4. Sid(Src[e]) = HomeOf(Src[e]) /\ Sid(g.target[e]) = HomeOf(Dst[e])
    BY <2>1, <2>3 DEF NodeServiceId
  <2>5. Named(HomeOf(Src[e]), "service-calls", HomeOf(Dst[e]))
    BY <2>2, ServiceEdgeAssumption
  <2>6. t = <<HomeOf(Src[e]), "service-calls", HomeOf(Dst[e])>>
    BY <2>1, <2>4
  <2> HIDE DEF Sid
  <2> QED
    BY <1>1, <2>5, <2>6 DEF Named
<1>3. CASE t \in tables
  <2>1. PICK e \in EdgesOf(g) :
          /\ Kind[e] \in TableKinds /\ Sid(Src[e]) # Unassigned
          /\ t = <<Sid(Src[e]), "service-shares-db", TableOwner(g, g.target[e])>>
    BY <1>3
  <2>2. e \in Edge /\ HasEdge(g, e)
    BY DEF EdgesOf
  <2>3. g.target[e] = Dst[e]
    BY <2>2, EdgeEnds
  <2>4. TableOwner(g, g.target[e]) # Absent
    BY <1>1, <2>1
  <2>5. PICK kind \in TableKinds : OwnedBy(g, kind, g.target[e], TableOwner(g, g.target[e]))
    BY <2>4, TableOwnerIs DEF TableKinds
  <2>6. PICK d \in Parsed : /\ Accesses(g, d, kind, g.target[e])
                            /\ TableOwner(g, g.target[e]) = NodeServiceId(g, Src[d])
    BY <2>5 DEF OwnedBy
  <2>7. d \in Edge /\ HasEdge(g, d) /\ Kind[d] = kind /\ g.target[d] = g.target[e]
        /\ NodeServiceId(g, Src[d]) # Unassigned
    BY <2>6, AnalyzerAssumption DEF Accesses, Parsed, ToSet
  <2>8. Dst[d] = Dst[e]
    BY <2>3, <2>7, EdgeEnds
  <2>9. Sid(Src[e]) = HomeOf(Src[e]) /\ NodeServiceId(g, Src[d]) = HomeOf(Src[d])
    BY <2>1, <2>7, ServicesAre
  <2>10. Named(HomeOf(Src[e]), "service-shares-db", HomeOf(Src[d]))
    BY <2>1, <2>2, <2>5, <2>7, <2>8, ServiceEdgeAssumption
  <2>11. t = <<HomeOf(Src[e]), "service-shares-db", HomeOf(Src[d])>>
    BY <2>1, <2>6, <2>9
  <2> HIDE DEF Sid
  <2> QED
    BY <1>1, <2>10, <2>11 DEF Named
<1>4. CASE t \in dtos
  <2>1. PICK n \in NodesOf(g) \cap DOMAIN DtoOf :
          /\ HasNode(g, DtoOf[n])
          /\ t = <<Sid(n), "service-shares-dto", Sid(DtoOf[n])>>
    BY <1>4
  <2>2. Sid(n) = HomeOf(n) /\ Sid(DtoOf[n]) = HomeOf(DtoOf[n])
    BY <2>1 DEF NodeServiceId, NodesOf
  <2>3. Named(HomeOf(n), "service-shares-dto", HomeOf(DtoOf[n]))
    BY ServiceEdgeAssumption
  <2>4. t = <<HomeOf(n), "service-shares-dto", HomeOf(DtoOf[n])>>
    BY <2>1, <2>2
  <2> HIDE DEF Sid
  <2> QED
    BY <1>1, <2>3, <2>4 DEF Named
<1> HIDE DEF calls, tables, dtos
<1> QED
  BY <1>1, <1>2, <1>3, <1>4

(* What a build adds: the nodes of services, and their links.              *)
ServiceNodes(g) == {ServiceNode[s] : s \in ServicesSeen(g)} \ NodesOf(g)

LinkEdges(g) == {ServiceEdge[t] : t \in ServiceLinks(g)} \ EdgesOf(g)

LEMMA BuildServicesIs ==
  ASSUME NEW g, Sound(g), NEW h, h = BuildServices(g)
  PROVE  /\ Sound(h)
         /\ ServiceNodes(g) \in SUBSET (NodeId \ DOMAIN FileOf)
         /\ LinkEdges(g) \in SUBSET Edge
         /\ \A n \in NodeId : h.node[n] = IF n \in ServiceNodes(g) THEN Virtual ELSE g.node[n]
         /\ \A e \in Edge : h.target[e] = IF e \in LinkEdges(g) THEN Dst[e] ELSE g.target[e]
         /\ \A f \in File \ {Virtual} : h.fileIndex[f] \subseteq g.fileIndex[f]
<1> DEFINE N == ServiceNodes(g)
           L == LinkEdges(g)
           k == NodesAdded(g, N, Virtual)
<1>1. h = EdgesAdded(k, L)
  BY DEF BuildServices, EdgesAdded, NodesAdded, ServiceNodes, LinkEdges
<1>2. \A s \in ServicesSeen(g) : s \in Service
  BY AnalyzerAssumption, ServicesAre DEF ServicesSeen
<1>3. N \in SUBSET (NodeId \ DOMAIN FileOf)
  BY <1>2, AnalyzerAssumption DEF ServiceNodes
<1>4. L \in SUBSET Edge
  BY ServiceLinksNamed, ServiceEdgeAssumption DEF LinkEdges
<1> HIDE DEF N, L
<1>5. NodesGrown(g, N, Virtual, k)
  BY <1>3, NodesAddedIs, GraphAssumption
<1> HIDE DEF k
<1>6. EdgesGrown(k, L, h)
  BY <1>1, <1>4, <1>5, EdgesAddedIs DEF NodesGrown
<1>7. \A f \in File \ {Virtual} : h.fileIndex[f] \subseteq g.fileIndex[f]
  BY <1>5, <1>6 DEF NodesGrown, EdgesGrown
<1>8. /\ \A n \in NodeId : h.node[n] = IF n \in N THEN Virtual ELSE g.node[n]
      /\ \A e \in Edge : h.target[e] = IF e \in L THEN Dst[e] ELSE g.target[e]
  BY <1>5, <1>6 DEF NodesGrown, EdgesGrown
<1>9. Sound(h)
  BY <1>6 DEF EdgesGrown
<1> QED
  BY <1>3, <1>4, <1>7, <1>8, <1>9 DEF N, L

LEMMA BuiltOfProject ==
  ASSUME NEW g, OfProject(g), NEW h, h = BuildServices(g)
  PROVE  OfProject(h)
<1>1. /\ Sound(h)
      /\ ServiceNodes(g) \in SUBSET (NodeId \ DOMAIN FileOf)
      /\ \A n \in NodeId : h.node[n] = IF n \in ServiceNodes(g) THEN Virtual ELSE g.node[n]
      /\ \A e \in Edge : h.target[e] = IF e \in LinkEdges(g) THEN Dst[e] ELSE g.target[e]
      /\ \A f \in File \ {Virtual} : h.fileIndex[f] \subseteq g.fileIndex[f]
  BY BuildServicesIs DEF OfProject
<1>2. \A e \in LinkEdges(g) : \E t \in DOMAIN ServiceEdge : e = ServiceEdge[t]
  BY ServiceLinksNamed DEF LinkEdges, OfProject
<1>3. ASSUME NEW n \in NodeId, HasNode(h, n)
      PROVE  h.node[n] = Home(n)
  <2>1. CASE n \in ServiceNodes(g)
    BY <1>1, <2>1 DEF Home
  <2>2. CASE n \notin ServiceNodes(g)
    BY <1>1, <1>3, <2>2 DEF OfProject, HasNode
  <2> QED
    BY <2>1, <2>2
<1>4. ASSUME NEW e \in Edge, HasEdge(h, e)
      PROVE  e \in Parsed \/ \E t \in DOMAIN ServiceEdge : e = ServiceEdge[t]
  <2>1. CASE e \in LinkEdges(g)
    BY <1>2, <2>1
  <2>2. CASE e \notin LinkEdges(g)
    BY <1>1, <1>4, <2>2 DEF OfProject, HasEdge
  <2> QED
    BY <2>1, <2>2
<1>5. \A f \in File \ {Virtual} : h.fileIndex[f] \subseteq {n \in DOMAIN FileOf : FileOf[n] = f}
  BY <1>1 DEF OfProject
<1> QED
  BY <1>1, <1>3, <1>4, <1>5 DEF OfProject

(* Nothing that a build adds changes who touches a table.                  *)
LEMMA TiedByBuild ==
  ASSUME OfProject(graph), graph' = BuildServices(graph), built'
  PROVE  TablesTied'
<1> DEFINE g == graph
           h == graph'
<1>1. /\ Sound(g) /\ Sound(h) /\ OfProject(h)
      /\ ServiceNodes(g) \in SUBSET (NodeId \ DOMAIN FileOf)
      /\ LinkEdges(g) \in SUBSET Edge
      /\ \A n \in NodeId : h.node[n] = IF n \in ServiceNodes(g) THEN Virtual ELSE g.node[n]
      /\ \A e \in Edge : h.target[e] = IF e \in LinkEdges(g) THEN Dst[e] ELSE g.target[e]
  BY BuildServicesIs, BuiltOfProject DEF OfProject
<1>2. \A n \in NodeId : NodeServiceId(h, n) = NodeServiceId(g, n)
  <2>1. ASSUME NEW n \in NodeId
        PROVE  NodeServiceId(h, n) = NodeServiceId(g, n)
    <3>1. CASE n \in ServiceNodes(g)
      <4>1. n \notin DOMAIN FileOf
        BY <1>1, <3>1
      <4>2. HomeOf(n) = Unassigned
        BY <4>1 DEF HomeOf
      <4> QED
        BY <4>2 DEF NodeServiceId
    <3>2. CASE n \notin ServiceNodes(g)
      BY <1>1, <3>2 DEF NodeServiceId, HasNode
    <3> QED
      BY <3>1, <3>2
  <2> QED
    BY <2>1
<1>3. ASSUME NEW e \in Edge, Kind[e] \in TableKinds, HasEdge(h, e)
      PROVE  e \in Parsed /\ HasEdge(g, e) /\ h.target[e] = g.target[e]
  <2>1. \A t \in DOMAIN ServiceEdge : e # ServiceEdge[t]
    BY <1>3, ServiceEdgeAssumption DEF TableKinds, LinkKinds
  <2>2. e \in Parsed
    BY <1>1, <1>3, <2>1 DEF OfProject
  <2>3. e \notin LinkEdges(g)
    BY <1>1, <2>1, ServiceLinksNamed DEF LinkEdges
  <2> QED
    BY <1>1, <1>3, <2>2, <2>3 DEF HasEdge
<1>4. ASSUME NEW e \in LinkEdges(g)
      PROVE  HasEdge(h, e)
  BY <1>1, <1>4, GraphAssumption DEF HasEdge
<1>5. ASSUME NEW t \in ServiceLinks(g)
      PROVE  HasEdge(h, ServiceEdge[t])
  <2>1. ServiceEdge[t] \in Edge
    BY <1>1, ServiceLinksNamed, ServiceEdgeAssumption
  <2>2. ServiceEdge[t] \in LinkEdges(g) \/ HasEdge(g, ServiceEdge[t])
    BY <2>1 DEF LinkEdges, EdgesOf
  <2> QED
    BY <1>1, <1>4, <2>1, <2>2 DEF HasEdge
<1>6. ASSUME NEW table \in NodeId, NEW kinds \in SUBSET TableKinds
      PROVE  \A s : s \in Touching(table, kinds)' <=>
                    \E kind \in kinds : OwnedBy(g, kind, table, s)
  <2>0. Parsed \subseteq Edge
    BY AnalyzerAssumption DEF Parsed, ToSet
  <2>1. \A s : s \in Touching(table, kinds)' <=>
           /\ s # Unassigned
           /\ \E a \in Edge : /\ HasEdge(h, a) /\ Kind[a] \in kinds /\ h.target[a] = table
                              /\ s = NodeServiceId(h, Src[a])
    BY DEF Touching, EdgesOf
  <2>2. \A a \in Edge : Src[a] \in NodeId
    BY GraphAssumption
  <2>3. ASSUME NEW a \in Edge, HasEdge(h, a), Kind[a] \in kinds
        PROVE  a \in Parsed /\ HasEdge(g, a) /\ h.target[a] = g.target[a]
    BY <1>3, <1>6, <2>3
  <2>4. ASSUME NEW a \in Edge, HasEdge(g, a), Kind[a] \in kinds
        PROVE  HasEdge(h, a) /\ h.target[a] = g.target[a]
    <3>1. HasEdge(h, a)
      BY <1>1, <1>4, <2>4 DEF HasEdge
    <3> QED
      BY <2>3, <2>4, <3>1
  <2>5. ASSUME NEW s, s \in Touching(table, kinds)'
        PROVE  \E kind \in kinds : OwnedBy(g, kind, table, s)
    <3>1. PICK a \in Edge : /\ HasEdge(h, a) /\ Kind[a] \in kinds /\ h.target[a] = table
                            /\ s = NodeServiceId(h, Src[a]) /\ s # Unassigned
      BY <2>1, <2>5
    <3>2. /\ a \in Parsed /\ HasEdge(g, a) /\ g.target[a] = table
          /\ s = NodeServiceId(g, Src[a])
      BY <1>2, <2>2, <2>3, <3>1
    <3>3. Accesses(g, a, Kind[a], table)
      BY <3>1, <3>2 DEF Accesses
    <3> QED
      BY <3>1, <3>2, <3>3 DEF OwnedBy
  <2>6. ASSUME NEW s, NEW kind \in kinds, OwnedBy(g, kind, table, s)
        PROVE  s \in Touching(table, kinds)'
    <3>1. PICK d \in Parsed : Accesses(g, d, kind, table) /\ s = NodeServiceId(g, Src[d])
      BY <2>6 DEF OwnedBy
    <3>2. /\ d \in Edge /\ HasEdge(g, d) /\ Kind[d] \in kinds /\ g.target[d] = table
          /\ s # Unassigned
      BY <2>0, <3>1 DEF Accesses
    <3>3. /\ HasEdge(h, d) /\ h.target[d] = table /\ s = NodeServiceId(h, Src[d])
      BY <1>2, <2>2, <2>4, <3>1, <3>2
    <3> QED
      BY <2>1, <3>2, <3>3
  <2> QED
    BY <2>5, <2>6
<1>7. ASSUME NEW table \in NodeId,
             NEW s, s \in Touching(table, TableKinds)'
      PROVE  LET owner == TableOwner(g, table) IN
             /\ owner # Absent /\ owner \in Touching(table, TableKinds)'
             /\ Touching(table, {"writes-table"})' # {} =>
                   owner \in Touching(table, {"writes-table"})'
             /\ s # owner => <<s, "service-shares-db", owner>> \in ServiceLinks(g)
  <2> DEFINE owner == TableOwner(g, table)
  <2>1. PICK kind \in TableKinds : OwnedBy(g, kind, table, s)
    BY <1>6, <1>7
  <2>2. PICK d \in Parsed : Accesses(g, d, kind, table) /\ s = NodeServiceId(g, Src[d])
    BY <2>1 DEF OwnedBy
  <2>3. Accessed(g, kind, table)
    BY <2>2 DEF Accessed
  <2>4. /\ Accessed(g, "writes-table", table) => OwnedBy(g, "writes-table", table, owner)
        /\ ~Accessed(g, "writes-table", table) => OwnedBy(g, "reads-table", table, owner)
    BY <2>1, <2>3, TableOwnerIs DEF TableKinds
  <2>5. \A k, s1 : OwnedBy(g, k, table, s1) => Accessed(g, k, table) /\ s1 # Absent
    BY ServicesAre, AnalyzerAssumption DEF OwnedBy, Accessed, Accesses
  <2> HIDE DEF owner
  <2>6. owner # Absent /\ owner \in Touching(table, TableKinds)'
    BY <1>6, <2>4, <2>5 DEF TableKinds
  <2>7. Touching(table, {"writes-table"})' # {} => owner \in Touching(table, {"writes-table"})'
    BY <1>6, <2>4, <2>5 DEF TableKinds
  <2>8. ASSUME s # owner
        PROVE  <<s, "service-shares-db", owner>> \in ServiceLinks(g)
    <3>1. d \in EdgesOf(g) /\ g.target[d] = table /\ Kind[d] \in TableKinds
          /\ NodeServiceId(g, Src[d]) # Unassigned
      BY <2>2, AnalyzerAssumption DEF Accesses, EdgesOf, Parsed, ToSet
    <3> DEFINE t == <<s, "service-shares-db", owner>>
    <3>2. t = <<NodeServiceId(g, Src[d]), "service-shares-db", TableOwner(g, g.target[d])>>
      BY <2>2, <3>1 DEF owner
    <3>3. t[1] # t[3] /\ t[3] # Absent
      BY <2>6, <2>8
    <3> HIDE DEF t
    <3>4. t \in ServiceLinks(g)
      BY <3>1, <3>2, <3>3 DEF ServiceLinks
    <3> QED
      BY <3>4 DEF t
  <2> QED
    BY <2>6, <2>7, <2>8 DEF owner
<1>8. ASSUME NEW table \in NodeId,
             Touching(table, TableKinds)' # {}
      PROVE  \E owner \in Touching(table, TableKinds)' :
                /\ Touching(table, {"writes-table"})' # {} =>
                      owner \in Touching(table, {"writes-table"})'
                /\ \A s \in Touching(table, TableKinds)' \ {owner} :
                      HasEdge(h, ServiceEdge[<<s, "service-shares-db", owner>>])
  <2> DEFINE owner == TableOwner(g, table)
  <2>1. /\ owner \in Touching(table, TableKinds)'
        /\ Touching(table, {"writes-table"})' # {} =>
              owner \in Touching(table, {"writes-table"})'
    BY <1>7, <1>8
  <2>2. \A s \in Touching(table, TableKinds)' \ {owner} :
           HasEdge(h, ServiceEdge[<<s, "service-shares-db", owner>>])
    BY <1>5, <1>7
  <2> HIDE DEF owner
  <2> QED
    BY <2>1, <2>2
<1>9. (NodesOf(graph) \subseteq NodeId)'
  BY DEF NodesOf
<1> QED
  BY <1>8, <1>9 DEF TablesTied, TableKinds

---------------------------------------------------------------------------
(* The invariants of a project.                                            *)

IInvProject == OfProject(graph) /\ TablesTied

LEMMA ProjectInit == Init => IInvProject
<1> SUFFICES ASSUME Init
             PROVE  IInvProject
  OBVIOUS
<1>1. graph = NodesFiled(EmptyGraph, DOMAIN FileOf) /\ built = FALSE
  BY DEF Init, NodesFiled
<1>2. Filed(DOMAIN FileOf, graph)
  BY <1>1, NodesFiledIs
<1>3. OfProject(graph)
  BY <1>2 DEF Filed, OfProject, Home, HasNode, HasEdge
<1>4. TablesTied
  BY <1>1 DEF TablesTied
<1> QED
  BY <1>3, <1>4 DEF IInvProject

LEMMA ProjectNext == IInvProject /\ [Next]_vars => IInvProject'
<1> SUFFICES ASSUME IInvProject, [Next]_vars
             PROVE  IInvProject'
  OBVIOUS
<1> USE DEF IInvProject
<1>1. ASSUME NEW e \in Parsed, Emit(e)
      PROVE  IInvProject'
  <2>1. OfProject(graph')
    BY <1>1, EmittedOfProject DEF Emit
  <2>2. TablesTied'
    BY <1>1 DEF Emit, TablesTied
  <2> QED
    BY <2>1, <2>2
<1>2. CASE Build
  BY <1>2, BuiltOfProject, TiedByBuild DEF Build
<1>3. ASSUME NEW f \in File \ {Virtual}, RemoveFile(f)
      PROVE  IInvProject'
  <2>1. OfProject(graph')
    BY <1>3, RemovedOfProject DEF RemoveFile
  <2>2. TablesTied'
    BY <1>3 DEF RemoveFile, TablesTied
  <2> QED
    BY <2>1, <2>2
<1>4. CASE UNCHANGED vars
  BY <1>4 DEF vars, OfProject, TablesTied, Touching, NodeServiceId
<1> QED
  BY <1>1, <1>2, <1>3, <1>4 DEF Next

LEMMA ProjectInvariant == Spec => []IInvProject
  BY ProjectInit, ProjectNext, PTL DEF Spec

(* The services that touch a table are tied together by every build.       *)
THEOREM TablesTiedAlways == Spec => []TablesTied
<1>1. IInvProject => TablesTied
  BY DEF IInvProject
<1> QED
  BY <1>1, ProjectInvariant, PTL

(* What a change touches is the same whatever order its files come in.     *)
THEOREM ImpactCompleteAlways == Spec => []ImpactComplete
<1>1. IInvProject => ImpactComplete
  BY ImpactCompleteIn DEF IInvProject, OfProject
<1> QED
  BY <1>1, ProjectInvariant, PTL


---------------------------------------------------------------------------
(* findPaths(): a path is walked from one node to the next, and never twice *)
(* to the same node.                                                       *)

StepStart(g, e, direction) == IF direction = "forward" THEN Src[e] ELSE g.target[e]

Stepped(g, p, s, direction) ==
    \A i \in 1..Len(p) :
        HasEdge(g, p[i]) /\ StepStart(g, p[i], direction) = s[i - 1]
                         /\ StepEnd(g, p[i], direction) = s[i]

Distinct(s, k) == \A i, j \in 0..k : s[i] = s[j] => i = j

Walked(g, p, s, from, to, direction) ==
    /\ s[0] = from
    /\ Stepped(g, p, s, direction)
    /\ Distinct(s, Len(p))
    /\ \A i \in 0..Len(p) : i < Len(p) => s[i] # to

TriedPaths(g, from, to, direction, k) ==
    {p \in Seq(Edge) : Len(p) = k /\ \E s \in [0..k -> NodeId] : Walked(g, p, s, from, to, direction)}

Longer(g, from, to, direction, p) ==
    LET n == PathEnd(g, from, p, direction) IN
    IF n = to THEN {}
    ELSE {Append(p, e) : e \in {s \in (IF direction = "forward" THEN GetOutEdges(g, n)
                                       ELSE GetInEdges(g, n)) :
             Kind[s] \in Kinds
             /\ StepEnd(g, s, direction) \notin OnPath(g, from, p, direction)}}

LEMMA StepIs ==
  ASSUME NEW g, Sound(g), NEW n \in NodeId, NEW direction \in {"forward", "reverse"}
  PROVE  /\ (IF direction = "forward" THEN GetOutEdges(g, n) ELSE GetInEdges(g, n))
              = {e \in Edge : HasEdge(g, e) /\ StepStart(g, e, direction) = n}
         /\ \A e \in Edge : HasEdge(g, e) =>
               Kind[e] \in Kinds /\ StepEnd(g, e, direction) \in NodeId
                                 /\ StepStart(g, e, direction) \in NodeId
<1>1. /\ GetOutEdges(g, n) = {e \in Edge : HasEdge(g, e) /\ Src[e] = n}
      /\ GetInEdges(g, n) = {e \in Edge : HasEdge(g, e) /\ g.target[e] = n}
  BY IndexedEdges
<1>2. \A e \in Edge : HasEdge(g, e) =>
         Src[e] \in NodeId /\ g.target[e] \in NodeId /\ Kind[e] \in Kinds
  BY EdgeEnds
<1> QED
  BY <1>1, <1>2 DEF StepStart, StepEnd

(* Where a walked path has been and where it ends.                         *)
LEMMA WalkedNodes ==
  ASSUME NEW g, NEW p \in Seq(Edge), NEW s \in [0..Len(p) -> NodeId], NEW from, NEW to,
         NEW direction, Walked(g, p, s, from, to, direction)
  PROVE  /\ PathEnd(g, from, p, direction) = s[Len(p)]
         /\ OnPath(g, from, p, direction) = {s[i] : i \in 0..Len(p)}
<1>1. PathEnd(g, from, p, direction) = s[Len(p)]
  <2>1. CASE p = <<>>
    BY <2>1 DEF PathEnd, Walked
  <2>2. CASE p # <<>>
    <3>1. Len(p) \in 1..Len(p)
      BY <2>2
    <3> QED
      BY <2>2, <3>1 DEF PathEnd, Last, Walked, Stepped
  <2> QED
    BY <2>1, <2>2
<1>2. DOMAIN p = 1..Len(p)
  OBVIOUS
<1>3. OnPath(g, from, p, direction) = {s[0]} \cup {s[i] : i \in 1..Len(p)}
  BY <1>2 DEF OnPath, Walked, Stepped
<1>4. 0..Len(p) = {0} \cup 1..Len(p)
  OBVIOUS
<1>5. {s[i] : i \in 0..Len(p)} = {s[0]} \cup {s[i] : i \in 1..Len(p)}
  BY <1>4
<1> QED
  BY <1>1, <1>3, <1>5

LEMMA LongerIs ==
  ASSUME NEW g, Sound(g), NEW p \in Seq(Edge), NEW s \in [0..Len(p) -> NodeId],
         NEW from, NEW to,
         NEW direction \in {"forward", "reverse"}, Walked(g, p, s, from, to, direction)
  PROVE  \A q : q \in Longer(g, from, to, direction, p) <=>
            /\ s[Len(p)] # to
            /\ \E e \in Edge : /\ HasEdge(g, e) /\ StepStart(g, e, direction) = s[Len(p)]
                               /\ \A i \in 0..Len(p) : StepEnd(g, e, direction) # s[i]
                               /\ q = Append(p, e)
<1> DEFINE n == s[Len(p)]
<1>1. n \in NodeId
  OBVIOUS
<1>2. /\ PathEnd(g, from, p, direction) = n
      /\ OnPath(g, from, p, direction) = {s[i] : i \in 0..Len(p)}
  BY WalkedNodes
<1>3. /\ (IF direction = "forward" THEN GetOutEdges(g, n) ELSE GetInEdges(g, n))
              = {e \in Edge : HasEdge(g, e) /\ StepStart(g, e, direction) = n}
      /\ \A e \in Edge : HasEdge(g, e) => Kind[e] \in Kinds
  BY <1>1, StepIs
<1> HIDE DEF n
<1>4. CASE n = to
  BY <1>2, <1>4 DEF Longer, n
<1>5. CASE n # to
  <2>1. Longer(g, from, to, direction, p) =
          {Append(p, e) : e \in {d \in Edge : /\ HasEdge(g, d) /\ StepStart(g, d, direction) = n
                                              /\ StepEnd(g, d, direction) \notin {s[i] : i \in 0..Len(p)}}}
    BY <1>2, <1>3, <1>5 DEF Longer
  <2> QED
    BY <1>5, <2>1 DEF n
<1> QED
  BY <1>4, <1>5

LEMMA TriedStart ==
  ASSUME NEW g, NEW from \in NodeId, NEW to, NEW direction
  PROVE  TriedPaths(g, from, to, direction, 0) = {<<>>}
<1> DEFINE s == [i \in 0..0 |-> from]
<1>1. s \in [0..0 -> NodeId]
  OBVIOUS
<1>2. Walked(g, <<>>, s, from, to, direction)
  BY DEF Walked, Stepped, Distinct
<1>3. <<>> \in Seq(Edge) /\ Len(<<>>) = 0 /\ \A p \in Seq(Edge) : Len(p) = 0 => p = <<>>
  OBVIOUS
<1> QED
  BY <1>1, <1>2, <1>3 DEF TriedPaths

LEMMA TriedLonger ==
  ASSUME NEW g, Sound(g), NEW from \in NodeId, NEW to,
         NEW direction \in {"forward", "reverse"}, NEW k \in Nat
  PROVE  TriedPaths(g, from, to, direction, k + 1) =
            UNION {Longer(g, from, to, direction, p) : p \in TriedPaths(g, from, to, direction, k)}
<1>1. ASSUME NEW p \in TriedPaths(g, from, to, direction, k),
             NEW q \in Longer(g, from, to, direction, p)
      PROVE  q \in TriedPaths(g, from, to, direction, k + 1)
  <2>1. PICK s \in [0..k -> NodeId] :
          p \in Seq(Edge) /\ Len(p) = k /\ Walked(g, p, s, from, to, direction)
    BY <1>1 DEF TriedPaths
  <2>2. PICK e \in Edge :
          /\ HasEdge(g, e) /\ StepStart(g, e, direction) = s[k]
          /\ \A i \in 0..k : StepEnd(g, e, direction) # s[i]
          /\ q = Append(p, e) /\ s[k] # to
    BY <1>1, <2>1, LongerIs
  <2>3. StepEnd(g, e, direction) \in NodeId
    BY <2>2, StepIs
  <2> DEFINE t == [i \in 0..(k + 1) |-> IF i = k + 1 THEN StepEnd(g, e, direction) ELSE s[i]]
  <2>4. t \in [0..(k + 1) -> NodeId]
    BY <2>3
  <2>5. /\ q \in Seq(Edge) /\ Len(q) = k + 1
        /\ q[k + 1] = e /\ \A i \in 1..k : q[i] = p[i]
    BY <2>1, <2>2
  <2>6. t[0] = from
    BY <2>1 DEF Walked
  <2>7. Stepped(g, q, t, direction)
    <3> SUFFICES ASSUME NEW i \in 1..(k + 1)
                 PROVE  HasEdge(g, q[i]) /\ StepStart(g, q[i], direction) = t[i - 1]
                           /\ StepEnd(g, q[i], direction) = t[i]
      BY <2>5 DEF Stepped
    <3>1. CASE i = k + 1
      BY <2>2, <2>5, <3>1
    <3>2. CASE i \in 1..k
      <4>1. t[i] = s[i] /\ t[i - 1] = s[i - 1] /\ q[i] = p[i]
        BY <2>5, <3>2
      <4> QED
        BY <2>1, <3>2, <4>1 DEF Walked, Stepped
    <3> QED
      BY <3>1, <3>2
  <2>8. Distinct(t, k + 1)
    BY <2>1, <2>2 DEF Walked, Distinct
  <2>9. \A i \in 0..(k + 1) : i < k + 1 => t[i] # to
    BY <2>1, <2>2 DEF Walked
  <2> HIDE DEF t
  <2>10. Walked(g, q, t, from, to, direction)
    BY <2>5, <2>6, <2>7, <2>8, <2>9 DEF Walked
  <2> QED
    BY <2>4, <2>5, <2>10 DEF TriedPaths
<1>2. ASSUME NEW q \in TriedPaths(g, from, to, direction, k + 1)
      PROVE  \E p \in TriedPaths(g, from, to, direction, k) :
                q \in Longer(g, from, to, direction, p)
  <2>1. PICK t \in [0..(k + 1) -> NodeId] :
          q \in Seq(Edge) /\ Len(q) = k + 1 /\ Walked(g, q, t, from, to, direction)
    BY <1>2 DEF TriedPaths
  <2> DEFINE p == [i \in 1..k |-> q[i]]
             s == [i \in 0..k |-> t[i]]
             e == q[k + 1]
  <2>2. e \in Edge /\ \A i \in 1..k : q[i] \in Edge
    BY <2>1
  <2>3. p \in Seq(Edge) /\ Len(p) = k /\ q = Append(p, e) /\ \A i \in 1..k : p[i] = q[i]
    BY <2>1, <2>2
  <2>4. s \in [0..k -> NodeId] /\ \A i \in 0..k : s[i] = t[i]
    BY <2>1
  <2> HIDE DEF p, s
  <2>5. s[0] = from
    BY <2>1, <2>4 DEF Walked
  <2>6. Stepped(g, p, s, direction)
    <3> SUFFICES ASSUME NEW i \in 1..k
                 PROVE  HasEdge(g, p[i]) /\ StepStart(g, p[i], direction) = s[i - 1]
                           /\ StepEnd(g, p[i], direction) = s[i]
      BY <2>3 DEF Stepped
    <3>1. s[i] = t[i] /\ s[i - 1] = t[i - 1] /\ p[i] = q[i] /\ i \in 1..(k + 1)
      BY <2>3, <2>4
    <3> QED
      BY <2>1, <3>1 DEF Walked, Stepped
  <2>7. Distinct(s, k)
    BY <2>1, <2>4 DEF Walked, Distinct
  <2>8. \A i \in 0..k : i < k => s[i] # to
    BY <2>1, <2>4 DEF Walked
  <2>9. Walked(g, p, s, from, to, direction)
    BY <2>3, <2>5, <2>6, <2>7, <2>8 DEF Walked
  <2>10. p \in TriedPaths(g, from, to, direction, k)
    BY <2>3, <2>4, <2>9 DEF TriedPaths
  <2>11. /\ HasEdge(g, e) /\ StepStart(g, e, direction) = s[k]
         /\ StepEnd(g, e, direction) = t[k + 1] /\ s[k] # to
    BY <2>1, <2>4 DEF Walked, Stepped
  <2>12. \A i \in 0..k : t[k + 1] # s[i]
    BY <2>1, <2>4 DEF Walked, Distinct
  <2> HIDE DEF e
  <2>13. q \in Longer(g, from, to, direction, p)
    <3>1. p \in Seq(Edge) /\ s \in [0..Len(p) -> NodeId] /\ e \in Edge
      BY <2>2, <2>3, <2>4
    <3>2. \A i \in 0..Len(p) : StepEnd(g, e, direction) # s[i]
      BY <2>3, <2>11, <2>12
    <3>3. HasEdge(g, e) /\ StepStart(g, e, direction) = s[Len(p)] /\ s[Len(p)] # to
      BY <2>3, <2>11
    <3>4. q \in Longer(g, from, to, direction, p) <=>
            /\ s[Len(p)] # to
            /\ \E d \in Edge : /\ HasEdge(g, d) /\ StepStart(g, d, direction) = s[Len(p)]
                               /\ \A i \in 0..Len(p) : StepEnd(g, d, direction) # s[i]
                               /\ q = Append(p, d)
      BY SMTT(60), <2>9, <3>1, LongerIs
    <3> QED
      BY <2>3, <3>1, <3>2, <3>3, <3>4
  <2> QED
    BY <2>10, <2>13
<1> QED
  BY <1>1, <1>2

(* The paths that findPaths() finds.                                       *)
Routes(g, from, to, direction, p) ==
    \E s \in [0..Len(p) -> NodeId] :
        Walked(g, p, s, from, to, direction) /\ s[Len(p)] = to

LEMMA FindPathsAre ==
  ASSUME NEW g, Sound(g), NEW from \in NodeId, NEW to \in NodeId, NEW d \in Nat,
         NEW direction \in {"forward", "reverse"}
  PROVE  FindPaths(g, from, to, d, Kinds, direction) =
            {p \in Seq(Edge) : Len(p) <= d /\ Routes(g, from, to, direction, p)}
<1> DEFINE G == SUBSET Seq(Edge)
           Tried(k) == TriedPaths(g, from, to, direction, k)
           h == [k \in Nat |-> Tried(k)]
           Layer(f, k) ==
               IF k = 0 THEN {<<>>}
               ELSE UNION {Longer(g, from, to, direction, p) : p \in f[k - 1]}
           Eq(f) == f = [k \in Nat |-> Layer(f, k)]
           tried == CHOOSE f : Eq(f)
<1>1. FindPaths(g, from, to, d, Kinds, direction) =
        {p \in UNION {tried[k] : k \in 0..d} : PathEnd(g, from, p, direction) = to}
  BY DEF FindPaths, Longer
<1>2. h[0] = {<<>>} /\ \A k \in Nat : h[k] = Tried(k)
  BY TriedStart
<1>3. \A k \in Nat :
         h[k + 1] = UNION {Longer(g, from, to, direction, p) : p \in h[k]}
  BY TriedLonger
<1> HIDE DEF h, Tried
<1>4. ASSUME NEW f, NEW k \in Nat
      PROVE  Layer(f, k + 1) = UNION {Longer(g, from, to, direction, p) : p \in f[k]}
  <2>1. k + 1 # 0 /\ (k + 1) - 1 = k
    OBVIOUS
  <2> QED
    BY <2>1
<1>5. \A f : Layer(f, 0) = {<<>>}
  OBVIOUS
<1> HIDE DEF Layer
<1>6. \E f : Eq(f)
  <2>1. ASSUME NEW k \in Nat
        PROVE  h[k] = Layer(h, k)
    <3>1. CASE k = 0
      BY <1>2, <1>5, <3>1
    <3>2. CASE k # 0
      <4>1. k - 1 \in Nat /\ k = (k - 1) + 1
        BY <3>2
      <4>2. PICK j \in Nat : k = j + 1
        BY <4>1
      <4> QED
        BY <1>3, <1>4, <4>2
    <3> QED
      BY <3>1, <3>2
  <2>2. h = [k \in Nat |-> h[k]]
    BY DEF h
  <2> QED
    BY Zenon, <2>1, <2>2
<1>7. Eq(tried)
  <2> HIDE DEF Eq
  <2> QED
    BY <1>6
<1> HIDE DEF tried
<1>8. \A k \in Nat : tried[k] = h[k]
  <2> DEFINE T == {k \in Nat : tried[k] = h[k]}
  <2>1. \A k \in Nat : tried[k] = Layer(tried, k)
    BY <1>7
  <2>2. 0 \in T
    BY <1>2, <1>5, <2>1
  <2>3. ASSUME NEW k \in Nat, k \in T
        PROVE  k + 1 \in T
    <3>1. k + 1 \in Nat /\ tried[k + 1] = Layer(tried, k + 1)
      BY <2>1
    <3>2. tried[k + 1] = UNION {Longer(g, from, to, direction, p) : p \in tried[k]}
      BY <1>4, <3>1
    <3>3. tried[k] = h[k]
      BY <2>3
    <3>4. tried[k + 1] = UNION {Longer(g, from, to, direction, p) : p \in h[k]}
      BY Zenon, <3>2, <3>3
    <3>5. tried[k + 1] = h[k + 1]
      BY Zenon, <1>3, <3>4
    <3> QED
      BY <3>1, <3>5
  <2>4. Nat \subseteq T
    <3> HIDE DEF T
    <3> QED
      BY <2>2, <2>3, AllNaturals
  <2> QED
    BY <2>4
<1>9. ASSUME NEW p
      PROVE  p \in FindPaths(g, from, to, d, Kinds, direction) <=>
                \E k \in 0..d : p \in Tried(k) /\ PathEnd(g, from, p, direction) = to
  BY <1>1, <1>2, <1>8
<1>10. ASSUME NEW p
       PROVE  p \in FindPaths(g, from, to, d, Kinds, direction) <=>
                p \in Seq(Edge) /\ Len(p) <= d /\ Routes(g, from, to, direction, p)
  <2>1. ASSUME NEW k \in 0..d, p \in Tried(k), PathEnd(g, from, p, direction) = to
        PROVE  p \in Seq(Edge) /\ Len(p) <= d /\ Routes(g, from, to, direction, p)
    <3>1. PICK s \in [0..k -> NodeId] :
            p \in Seq(Edge) /\ Len(p) = k /\ Walked(g, p, s, from, to, direction)
      BY <2>1 DEF Tried, TriedPaths
    <3>2. s[k] = to
      BY <2>1, <3>1, WalkedNodes
    <3> QED
      BY <3>1, <3>2 DEF Routes
  <2>2. ASSUME p \in Seq(Edge), Len(p) <= d, Routes(g, from, to, direction, p)
        PROVE  \E k \in 0..d : p \in Tried(k) /\ PathEnd(g, from, p, direction) = to
    <3>1. PICK s \in [0..Len(p) -> NodeId] :
            Walked(g, p, s, from, to, direction) /\ s[Len(p)] = to
      BY <2>2 DEF Routes
    <3>2. PathEnd(g, from, p, direction) = to
      BY <2>2, <3>1, WalkedNodes
    <3>3. Len(p) \in 0..d
      BY <2>2
    <3>4. p \in Tried(Len(p))
      BY <2>2, <3>1 DEF Tried, TriedPaths
    <3> QED
      BY <3>2, <3>3, <3>4
  <2> QED
    BY <1>9, <2>1, <2>2
<1> QED
  BY <1>10

(* A path read backward.                                                   *)
Opposite(direction) == IF direction = "forward" THEN "reverse" ELSE "forward"

LEMMA ReversedRoute ==
  ASSUME NEW g, NEW p \in Seq(Edge), NEW from, NEW to,
         NEW direction \in {"forward", "reverse"}, Routes(g, from, to, direction, p)
  PROVE  /\ Reverse(p) \in Seq(Edge) /\ Len(Reverse(p)) = Len(p)
         /\ Reverse(Reverse(p)) = p
         /\ Routes(g, to, from, Opposite(direction), Reverse(p))
<1> DEFINE k == Len(p)
           q == Reverse(p)
<1>1. PICK s \in [0..k -> NodeId] : Walked(g, p, s, from, to, direction) /\ s[k] = to
  BY DEF Routes
<1>2. k \in Nat /\ \A i \in 1..k : p[i] \in Edge
  OBVIOUS
<1> DEFINE t == [i \in 0..k |-> s[k - i]]
<1>3. t \in [0..k -> NodeId] /\ \A i \in 0..k : t[i] = s[k - i]
  BY <1>2
<1>4. q = [i \in 1..k |-> p[(k - i) + 1]]
  BY DEF Reverse
<1>5. q \in Seq(Edge) /\ Len(q) = k /\ \A i \in 1..k : q[i] = p[(k - i) + 1]
  BY <1>2, <1>4
<1> HIDE DEF q, t
<1>6. Reverse(q) = p
  <2>1. Reverse(q) = [i \in 1..k |-> q[(k - i) + 1]]
    BY <1>5 DEF Reverse
  <2>2. \A i \in 1..k : q[(k - i) + 1] = p[i]
    <3> SUFFICES ASSUME NEW i \in 1..k
                 PROVE  q[(k - i) + 1] = p[i]
      OBVIOUS
    <3>1. (k - i) + 1 \in 1..k /\ (k - ((k - i) + 1)) + 1 = i
      BY <1>2
    <3> QED
      BY <1>5, <3>1
  <2>3. p = [i \in 1..k |-> p[i]]
    OBVIOUS
  <2> QED
    BY <2>1, <2>2, <2>3
<1>7. t[0] = to /\ t[k] = from
  BY <1>1, <1>2, <1>3 DEF Walked
<1>8. Stepped(g, q, t, Opposite(direction))
  <2> SUFFICES ASSUME NEW i \in 1..k
               PROVE  /\ HasEdge(g, q[i])
                      /\ StepStart(g, q[i], Opposite(direction)) = t[i - 1]
                      /\ StepEnd(g, q[i], Opposite(direction)) = t[i]
    BY <1>5 DEF Stepped
  <2> DEFINE j == (k - i) + 1
  <2>1. j \in 1..k /\ j - 1 = k - i /\ k - (i - 1) = j /\ i - 1 \in 0..k /\ i \in 0..k
    BY <1>2
  <2>2. q[i] = p[j] /\ t[i] = s[j - 1] /\ t[i - 1] = s[j]
    BY <1>3, <1>5, <2>1
  <2>3. HasEdge(g, p[j]) /\ StepStart(g, p[j], direction) = s[j - 1]
                         /\ StepEnd(g, p[j], direction) = s[j]
    BY <1>1, <2>1 DEF Walked, Stepped
  <2> HIDE DEF j
  <2>4. \A e : /\ StepStart(g, e, Opposite(direction)) = StepEnd(g, e, direction)
               /\ StepEnd(g, e, Opposite(direction)) = StepStart(g, e, direction)
    BY DEF StepStart, StepEnd, Opposite
  <2> QED
    BY <2>2, <2>3, <2>4
<1>9. Distinct(t, k)
  <2> SUFFICES ASSUME NEW i \in 0..k, NEW j \in 0..k, t[i] = t[j]
               PROVE  i = j
    BY DEF Distinct
  <2>1. k - i \in 0..k /\ k - j \in 0..k /\ s[k - i] = s[k - j]
    BY <1>2, <1>3
  <2>2. k - i = k - j
    BY <1>1, <2>1 DEF Walked, Distinct
  <2> QED
    BY <1>2, <2>2
<1>10. \A i \in 0..k : i < k => t[i] # from
  <2> SUFFICES ASSUME NEW i \in 0..k, i < k, t[i] = from
               PROVE  FALSE
    OBVIOUS
  <2>1. k \in 0..k
    BY <1>2
  <2> QED
    BY <1>7, <1>9, <2>1 DEF Distinct
<1>11. Walked(g, q, t, to, from, Opposite(direction)) /\ t[Len(q)] = from
  BY <1>5, <1>7, <1>8, <1>9, <1>10 DEF Walked
<1>12. Routes(g, to, from, Opposite(direction), q)
  BY <1>3, <1>5, <1>11 DEF Routes
<1> QED
  BY <1>5, <1>6, <1>12 DEF q

LEMMA BackwardIsReversed ==
  ASSUME NEW g, Sound(g), NEW n \in NodeId, NEW m \in NodeId, NEW d \in Nat
  PROVE  FindPaths(g, m, n, d, Kinds, "reverse") =
            {Reverse(p) : p \in FindPaths(g, n, m, d, Kinds, "forward")}
<1> DEFINE B == FindPaths(g, m, n, d, Kinds, "reverse")
           F == FindPaths(g, n, m, d, Kinds, "forward")
<1>1. /\ B = {p \in Seq(Edge) : Len(p) <= d /\ Routes(g, m, n, "reverse", p)}
      /\ F = {p \in Seq(Edge) : Len(p) <= d /\ Routes(g, n, m, "forward", p)}
  BY FindPathsAre
<1> HIDE DEF B, F
<1>2. ASSUME NEW p \in F
      PROVE  Reverse(p) \in B
  BY <1>1, ReversedRoute DEF Opposite
<1>3. ASSUME NEW p \in B
      PROVE  p \in {Reverse(q) : q \in F}
  <2>1. Reverse(p) \in F /\ Reverse(Reverse(p)) = p
    BY <1>1, ReversedRoute DEF Opposite
  <2> QED
    BY <2>1
<1> QED
  BY <1>2, <1>3 DEF B, F

---------------------------------------------------------------------------
(* What is found forward is found backward.                                *)

Near(g, n, direction) == {n} \cup Neighbours(g, n, direction)

LEMMA VisitedNear ==
  ASSUME NEW g, Sound(g), NEW n \in NodeId, NEW direction \in {"out", "in"}
  PROVE  LET f == Visited(g, n, direction) IN
         /\ f \in [Nat -> SUBSET NodeId]
         /\ f[0] = {n}
         /\ \A k \in Nat : \A m : m \in f[k + 1] <=> \E x \in f[k] : m \in Near(g, x, direction)
         /\ \A k \in Nat : f[k] \subseteq f[k + 1]
<1> DEFINE f == Visited(g, n, direction)
<1>0. Rounds(f, SUBSET NodeId, {n}, Spread(g, direction))
  BY VisitedLayers
<1> HIDE DEF f
<1>1. /\ f \in [Nat -> SUBSET NodeId] /\ f[0] = {n}
      /\ \A k \in Nat : f[k + 1] = f[k] \cup UNION {Neighbours(g, m, direction) : m \in f[k]}
  BY <1>0 DEF Rounds, Spread
<1>2. \A k \in Nat : \A m : m \in f[k + 1] <=> \E x \in f[k] : m \in Near(g, x, direction)
  BY <1>1 DEF Near
<1>3. \A k \in Nat : f[k] \subseteq f[k + 1]
  BY <1>1
<1> QED
  BY <1>1, <1>2, <1>3 DEF f

LEMMA VisitedMonotone ==
  ASSUME NEW g, Sound(g), NEW n \in NodeId, NEW direction \in {"out", "in"},
         NEW i \in Nat, NEW j \in Nat, i <= j
  PROVE  Visited(g, n, direction)[i] \subseteq Visited(g, n, direction)[j]
<1> DEFINE f == Visited(g, n, direction)
           T == {k \in Nat : f[i] \subseteq f[i + k]}
<1>1. \A k \in Nat : f[k] \subseteq f[k + 1]
  BY VisitedNear
<1> HIDE DEF f
<1>2. 0 \in T /\ \A k \in Nat : k \in T => k + 1 \in T
  <2>1. 0 \in T
    OBVIOUS
  <2>2. ASSUME NEW k \in Nat, k \in T
        PROVE  k + 1 \in T
    <3>1. f[i + k] \subseteq f[(i + k) + 1]
      BY <1>1
    <3> QED
      BY <2>2, <3>1
  <2> QED
    BY <2>1, <2>2
<1>3. Nat \subseteq T
  <2> HIDE DEF T
  <2> QED
    BY <1>2, AllNaturals
<1>4. j - i \in Nat /\ i + (j - i) = j
  OBVIOUS
<1>5. f[i] \subseteq f[i + (j - i)]
  BY <1>3, <1>4
<1> QED
  BY <1>4, <1>5 DEF f

(* The first step of a search may as well be its last.                     *)
LEMMA VisitedFromNear ==
  ASSUME NEW g, Sound(g), NEW n \in NodeId, NEW direction \in {"out", "in"}, NEW k \in Nat
  PROVE  \A m : m \in Visited(g, n, direction)[k + 1] <=>
                   \E x \in Near(g, n, direction) : m \in Visited(g, x, direction)[k]
<1> DEFINE N == Near(g, n, direction)
           f == Visited(g, n, direction)
           T == {i \in Nat : \A m : m \in f[i + 1] <=>
                                \E x \in N : m \in Visited(g, x, direction)[i]}
<1>0. N \in SUBSET NodeId
  BY NeighboursAre DEF Near
<1>1. /\ f[0] = {n}
      /\ \A i \in Nat : \A m : m \in f[i + 1] <=> \E y \in f[i] : m \in Near(g, y, direction)
  BY VisitedNear
<1>2. ASSUME NEW x \in N
      PROVE  /\ Visited(g, x, direction)[0] = {x}
             /\ \A i \in Nat : \A m : m \in Visited(g, x, direction)[i + 1] <=>
                   \E y \in Visited(g, x, direction)[i] : m \in Near(g, y, direction)
  BY <1>0, VisitedNear
<1> HIDE DEF f
<1>3. 0 \in T
  <2>1. \A m : m \in f[0 + 1] <=> m \in N
    BY <1>1
  <2> HIDE DEF N
  <2> QED
    BY <1>2, <2>1
<1> HIDE DEF N
<1>4. ASSUME NEW i \in Nat, i \in T
      PROVE  i + 1 \in T
  <2>1. \A m : m \in f[i + 1] <=> \E x \in N : m \in Visited(g, x, direction)[i]
    BY <1>4
  <2>2. ASSUME NEW m
        PROVE  m \in f[(i + 1) + 1] <=>
                  \E x \in N : m \in Visited(g, x, direction)[i + 1]
    <3>1. m \in f[(i + 1) + 1] <=> \E y \in f[i + 1] : m \in Near(g, y, direction)
      BY <1>1
    <3>2. \A x \in N : m \in Visited(g, x, direction)[i + 1] <=>
             \E y \in Visited(g, x, direction)[i] : m \in Near(g, y, direction)
      BY <1>2
    <3> QED
      BY <2>1, <3>1, <3>2
  <2> QED
    BY <2>2
<1>5. Nat \subseteq T
  <2> HIDE DEF T
  <2> QED
    BY <1>3, <1>4, AllNaturals
<1> QED
  BY <1>5 DEF f, N

LEMMA NearOpposite ==
  ASSUME NEW g, Sound(g), NEW n \in NodeId, NEW m \in NodeId
  PROVE  m \in Near(g, n, "out") <=> n \in Near(g, m, "in")
<1>1. /\ Neighbours(g, n, "out") = {x \in NodeId : Arc(g, n, x)}
      /\ Neighbours(g, m, "in") = {x \in NodeId : Arc(g, x, m)}
  BY NeighboursAre
<1> QED
  BY <1>1 DEF Near

LEMMA SearchesMirror ==
  ASSUME NEW g, Sound(g), NEW d \in Nat
  PROVE  \A n, m \in NodeId : m \in Visited(g, n, "out")[d] <=> n \in Visited(g, m, "in")[d]
<1> DEFINE T == {k \in Nat : \A n, m \in NodeId :
                    m \in Visited(g, n, "out")[k] <=> n \in Visited(g, m, "in")[k]}
<1>1. 0 \in T
  BY VisitedNear
<1>2. ASSUME NEW k \in Nat, k \in T
      PROVE  k + 1 \in T
  <2> SUFFICES ASSUME NEW n \in NodeId, NEW m \in NodeId
               PROVE  m \in Visited(g, n, "out")[k + 1] <=> n \in Visited(g, m, "in")[k + 1]
    OBVIOUS
  <2>1. m \in Visited(g, n, "out")[k + 1] <=>
           \E x \in Visited(g, n, "out")[k] : m \in Near(g, x, "out")
    BY VisitedNear
  <2>2. Visited(g, n, "out")[k] \subseteq NodeId
    BY VisitedNear
  <2>3. n \in Visited(g, m, "in")[k + 1] <=>
           \E x \in Near(g, m, "in") : n \in Visited(g, x, "in")[k]
    BY VisitedFromNear
  <2>4. Near(g, m, "in") \subseteq NodeId
    BY NeighboursAre DEF Near
  <2>5. \A x \in NodeId : /\ m \in Near(g, x, "out") <=> x \in Near(g, m, "in")
                          /\ x \in Visited(g, n, "out")[k] <=> n \in Visited(g, x, "in")[k]
    BY <1>2, NearOpposite
  <2> QED
    BY <2>1, <2>2, <2>3, <2>4, <2>5
<1>3. Nat \subseteq T
  <2> HIDE DEF T
  <2> QED
    BY <1>1, <1>2, AllNaturals
<1> QED
  BY <1>3

---------------------------------------------------------------------------
(* A path stays within the search of its length, and the search goes no    *)
(* further than the paths.                                                 *)

SearchOf(direction) == IF direction = "forward" THEN "out" ELSE "in"

LEMMA StepIsNear ==
  ASSUME NEW g, Sound(g), NEW e \in Edge, HasEdge(g, e),
         NEW direction \in {"forward", "reverse"}
  PROVE  StepEnd(g, e, direction) \in Near(g, StepStart(g, e, direction), SearchOf(direction))
<1>1. /\ Src[e] \in NodeId /\ g.target[e] \in NodeId
      /\ Arc(g, Src[e], g.target[e])
  BY EdgeEnds DEF Arc
<1>2. /\ g.target[e] \in Neighbours(g, Src[e], "out")
      /\ Src[e] \in Neighbours(g, g.target[e], "in")
  BY <1>1, NeighboursAre
<1> QED
  BY <1>2 DEF Near, StepEnd, StepStart, SearchOf

LEMMA WalkedVisited ==
  ASSUME NEW g, Sound(g), NEW p \in Seq(Edge), NEW s \in [0..Len(p) -> NodeId],
         NEW from \in NodeId, NEW to, NEW direction \in {"forward", "reverse"},
         Walked(g, p, s, from, to, direction)
  PROVE  \A i \in 0..Len(p) : s[i] \in Visited(g, from, SearchOf(direction))[i]
<1> DEFINE f == Visited(g, from, SearchOf(direction))
           T == {i \in Nat : i \in 0..Len(p) => s[i] \in f[i]}
<1>1. /\ f[0] = {from}
      /\ \A k \in Nat : \A m :
            m \in f[k + 1] <=> \E x \in f[k] : m \in Near(g, x, SearchOf(direction))
  BY VisitedNear DEF SearchOf
<1> HIDE DEF f
<1>2. 0 \in T
  BY <1>1 DEF Walked
<1>3. ASSUME NEW i \in Nat, i \in T
      PROVE  i + 1 \in T
  <2> SUFFICES ASSUME i + 1 \in 0..Len(p)
               PROVE  s[i + 1] \in f[i + 1]
    OBVIOUS
  <2>1. i + 1 \in 1..Len(p) /\ i \in 0..Len(p) /\ (i + 1) - 1 = i
    OBVIOUS
  <2>2. p[i + 1] \in Edge /\ HasEdge(g, p[i + 1])
        /\ StepStart(g, p[i + 1], direction) = s[i]
        /\ StepEnd(g, p[i + 1], direction) = s[i + 1]
    BY <2>1 DEF Walked, Stepped
  <2>3. s[i + 1] \in Near(g, s[i], SearchOf(direction))
    BY <2>2, StepIsNear
  <2> QED
    BY <1>1, <1>3, <2>1, <2>3
<1>4. Nat \subseteq T
  <2> HIDE DEF T
  <2> QED
    BY <1>2, <1>3, AllNaturals
<1> QED
  BY <1>4 DEF f

(* The nodes at a distance are each at the end of a path of that length,   *)
(* unless `to` is nearer.                                                  *)
LEMMA PathsToLayer ==
  ASSUME NEW g, Sound(g), NEW n \in NodeId, NEW to, NEW K \in Nat,
         \A j \in Nat : j < K => to \notin Visited(g, n, "out")[j]
  PROVE  \A k \in 0..K : \A x \in NodeId :
            /\ x \in Visited(g, n, "out")[k]
            /\ \A j \in Nat : j < k => x \notin Visited(g, n, "out")[j]
            => \E p \in TriedPaths(g, n, to, "forward", k) : PathEnd(g, n, p, "forward") = x
<1> DEFINE f == Visited(g, n, "out")
           Paths(k) == TriedPaths(g, n, to, "forward", k)
           End(p) == PathEnd(g, n, p, "forward")
           At(x, k) == x \in f[k] /\ \A j \in Nat : j < k => x \notin f[j]
           T == {k \in Nat : k <= K =>
                    \A x \in NodeId : At(x, k) => \E p \in Paths(k) : End(p) = x}
<1>1. /\ f \in [Nat -> SUBSET NodeId] /\ f[0] = {n}
      /\ \A k \in Nat : \A m : m \in f[k + 1] <=> \E x \in f[k] : m \in Near(g, x, "out")
  BY VisitedNear
<1>2. \A i, j \in Nat : i <= j => f[i] \subseteq f[j]
  BY VisitedMonotone
<1>3. 0 \in T
  <2>1. <<>> \in Paths(0)
    BY TriedStart
  <2>2. End(<<>>) = n
    BY DEF PathEnd
  <2> HIDE DEF Paths, End
  <2> QED
    BY <1>1, <2>1, <2>2
<1>4. ASSUME NEW k \in Nat, k \in T
      PROVE  k + 1 \in T
  <2> SUFFICES ASSUME k + 1 <= K, NEW x \in NodeId, At(x, k + 1)
               PROVE  \E q \in Paths(k + 1) : End(q) = x
    OBVIOUS
  <2>1. PICK y \in f[k] : x \in Near(g, y, "out")
    BY <1>1
  <2>2. y \in NodeId
    BY <1>1
  <2>3. \A j \in Nat : j <= k => x \notin f[j]
    OBVIOUS
  <2>4. At(y, k)
    <3> SUFFICES ASSUME NEW j \in Nat, j < k, y \in f[j]
                 PROVE  FALSE
      BY <2>1
    <3>1. x \in f[j + 1]
      BY <1>1, <2>1
    <3> QED
      BY <2>3, <3>1
  <2>5. PICK p \in Paths(k) : End(p) = y
    <3>1. k <= K
      OBVIOUS
    <3> HIDE DEF At, Paths, End
    <3> QED
      BY <1>4, <2>2, <2>4, <3>1
  <2>6. PICK s \in [0..k -> NodeId] :
          p \in Seq(Edge) /\ Len(p) = k /\ Walked(g, p, s, n, to, "forward")
    BY DEF TriedPaths
  <2>7. s[k] = y
    BY <2>5, <2>6, WalkedNodes
  <2>8. \A i \in 0..k : s[i] \in f[i]
    BY <2>6, WalkedVisited DEF SearchOf
  <2>9. \A i \in 0..k : s[i] # x
    BY <2>3, <2>8
  <2>10. s[k] # to
    <3>1. k < K
      OBVIOUS
    <3> QED
      BY <2>1, <2>7, <3>1
  <2>11. x \in Neighbours(g, y, "out")
    BY <2>1, <2>7, <2>9 DEF Near
  <2>12. PICK e \in Edge : HasEdge(g, e) /\ Src[e] = y /\ g.target[e] = x
    BY <2>2, <2>11, NeighboursAre DEF Arc
  <2> DEFINE q == Append(p, e)
  <2>13. q \in Longer(g, n, to, "forward", p)
    <3>1. StepStart(g, e, "forward") = s[k] /\ StepEnd(g, e, "forward") = x
      BY <2>7, <2>12 DEF StepStart, StepEnd
    <3>2. \A i \in 0..k : StepEnd(g, e, "forward") # s[i]
      BY <2>9, <3>1
    <3>3. q = Append(p, e)
      OBVIOUS
    <3> HIDE DEF q
    <3> QED
      BY <2>6, <2>10, <2>12, <3>1, <3>2, <3>3, LongerIs
  <2>14. q \in Paths(k + 1)
    <3> HIDE DEF q
    <3> QED
      BY <2>13, TriedLonger
  <2>15. End(q) = x
    <3>1. q # <<>> /\ Last(q) = e
      <4>1. Len(q) = k + 1 /\ q[k + 1] = e
        BY <2>6
      <4>2. Len(<<>>) = 0 /\ k + 1 # 0
        OBVIOUS
      <4> HIDE DEF q
      <4> QED
        BY <4>1, <4>2 DEF Last
    <3> HIDE DEF q
    <3> QED
      BY <2>12, <3>1 DEF PathEnd, StepEnd
  <2> HIDE DEF q, Paths, End
  <2> QED
    BY <2>14, <2>15
<1>5. Nat \subseteq T
  <2> HIDE DEF T
  <2> QED
    BY <1>3, <1>4, AllNaturals
<1>6. \A k \in 0..K : k \in T /\ k <= K
  BY <1>5
<1> QED
  BY <1>6

LEMMA PathIffReached ==
  ASSUME NEW g, Sound(g), NEW n \in NodeId, NEW m \in NodeId, NEW d \in Nat
  PROVE  m \in Visited(g, n, "out")[d] <=> FindPaths(g, n, m, d, Kinds, "forward") # {}
<1> DEFINE f == Visited(g, n, "out")
           F == FindPaths(g, n, m, d, Kinds, "forward")
<1>1. F = {p \in Seq(Edge) : Len(p) <= d /\ Routes(g, n, m, "forward", p)}
  BY FindPathsAre
<1>2. ASSUME F # {}
      PROVE  m \in f[d]
  <2>1. PICK p \in Seq(Edge) : Len(p) <= d /\ Routes(g, n, m, "forward", p)
    BY <1>1, <1>2
  <2>2. PICK s \in [0..Len(p) -> NodeId] :
          Walked(g, p, s, n, m, "forward") /\ s[Len(p)] = m
    BY <2>1 DEF Routes
  <2>3. Len(p) \in 0..Len(p) /\ Len(p) \in Nat
    OBVIOUS
  <2>4. m \in f[Len(p)]
    BY <2>2, <2>3, WalkedVisited DEF SearchOf
  <2> QED
    BY <2>1, <2>3, <2>4, VisitedMonotone
<1>3. ASSUME m \in f[d]
      PROVE  F # {}
  <2> DEFINE S == {k \in Nat : m \in f[k]}
  <2>1. PICK K \in S : \A j \in S : K <= j
    <3>1. d \in S
      BY <1>3
    <3>2. S \in SUBSET Nat
      OBVIOUS
    <3> HIDE DEF S
    <3> QED
      BY <3>1, <3>2, LeastNatural
  <2>2. K \in Nat /\ m \in f[K] /\ K <= d
    BY <1>3, <2>1
  <2>3. \A j \in Nat : j < K => m \notin f[j]
    <3> SUFFICES ASSUME NEW j \in Nat, j < K, m \in f[j]
                 PROVE  FALSE
      OBVIOUS
    <3>1. K <= j
      BY <2>1
    <3> QED
      BY <2>2, <3>1
  <2> HIDE DEF S
  <2>4. PICK p \in TriedPaths(g, n, m, "forward", K) : PathEnd(g, n, p, "forward") = m
    <3>1. K \in 0..K
      BY <2>2
    <3> QED
      BY <2>2, <2>3, <3>1, PathsToLayer
  <2>5. PICK s \in [0..K -> NodeId] :
          p \in Seq(Edge) /\ Len(p) = K /\ Walked(g, p, s, n, m, "forward")
    BY DEF TriedPaths
  <2>6. s[K] = m
    BY <2>4, <2>5, WalkedNodes
  <2>7. Routes(g, n, m, "forward", p)
    BY <2>5, <2>6 DEF Routes
  <2> QED
    BY <1>1, <2>2, <2>5, <2>7
<1> QED
  BY <1>2, <1>3

LEMMA SearchesAgreeIn ==
  ASSUME Sound(graph)
  PROVE  SearchesAgree
<1> SUFFICES ASSUME NEW n \in NodesOf(graph), NEW d \in {1, 3},
                    NEW m \in NodesOf(graph) \ {n}
             PROVE  /\ m \in ReachableFrom(graph, n, "out", d)
                          <=> n \in ReachableFrom(graph, m, "in", d)
                    /\ m \in ReachableFrom(graph, n, "out", d)
                          <=> FindPaths(graph, n, m, d, Kinds, "forward") # {}
                    /\ FindPaths(graph, m, n, d, Kinds, "reverse") =
                          {Reverse(p) : p \in FindPaths(graph, n, m, d, Kinds, "forward")}
  BY DEF SearchesAgree
<1>1. n \in NodeId /\ m \in NodeId /\ n # m /\ d \in Nat
  BY DEF NodesOf
<1>2. /\ m \in ReachableFrom(graph, n, "out", d) <=> m \in Visited(graph, n, "out")[d]
      /\ n \in ReachableFrom(graph, m, "in", d) <=> n \in Visited(graph, m, "in")[d]
  BY <1>1, ReachableIs
<1>3. m \in Visited(graph, n, "out")[d] <=> n \in Visited(graph, m, "in")[d]
  BY <1>1, SearchesMirror
<1>4. m \in Visited(graph, n, "out")[d] <=> FindPaths(graph, n, m, d, Kinds, "forward") # {}
  BY <1>1, PathIffReached
<1>5. FindPaths(graph, m, n, d, Kinds, "reverse") =
         {Reverse(p) : p \in FindPaths(graph, n, m, d, Kinds, "forward")}
  BY <1>1, BackwardIsReversed
<1> QED
  BY <1>2, <1>3, <1>4, <1>5

(* The edges of a route join nodes that a search as long has visited.      *)
LEMMA RouteWithin ==
  ASSUME NEW g, Sound(g), NEW n \in NodeId, NEW m \in NodeId, NEW d \in Nat,
         NEW direction \in {"forward", "reverse"},
         NEW p \in FindPaths(g, n, m, d, Kinds, direction)
  PROVE  \A e \in ToSet(p) :
            /\ e \in Edge /\ HasEdge(g, e)
            /\ Src[e] \in {n} \cup ReachableFrom(g, n, SearchOf(direction), d)
            /\ g.target[e] \in {n} \cup ReachableFrom(g, n, SearchOf(direction), d)
<1> DEFINE f == Visited(g, n, SearchOf(direction))
<1>1. p \in Seq(Edge) /\ Len(p) <= d /\ Routes(g, n, m, direction, p)
  BY FindPathsAre
<1>2. PICK s \in [0..Len(p) -> NodeId] : Walked(g, p, s, n, m, direction)
  BY <1>1 DEF Routes
<1>3. SearchOf(direction) \in {"out", "in"}
  BY DEF SearchOf
<1>4. ASSUME NEW i \in 0..Len(p)
      PROVE  s[i] \in {n} \cup ReachableFrom(g, n, SearchOf(direction), d)
  <2>1. s[i] \in f[i]
    BY <1>1, <1>2, WalkedVisited
  <2>2. i \in Nat /\ i <= d
    BY <1>1
  <2>3. f[i] \subseteq f[d]
    BY <1>3, <2>2, VisitedMonotone
  <2>4. ReachableFrom(g, n, SearchOf(direction), d) = f[d] \ {n}
    BY <1>3, ReachableIs
  <2> QED
    BY <2>1, <2>3, <2>4
<1>5. ASSUME NEW e \in ToSet(p)
      PROVE  /\ e \in Edge /\ HasEdge(g, e)
             /\ Src[e] \in {n} \cup ReachableFrom(g, n, SearchOf(direction), d)
             /\ g.target[e] \in {n} \cup ReachableFrom(g, n, SearchOf(direction), d)
  <2>1. PICK i \in 1..Len(p) : e = p[i]
    BY <1>1 DEF ToSet
  <2>2. /\ HasEdge(g, e) /\ StepStart(g, e, direction) = s[i - 1]
        /\ StepEnd(g, e, direction) = s[i] /\ e \in Edge
    BY <1>1, <1>2, <2>1 DEF Walked, Stepped
  <2>3. i - 1 \in 0..Len(p) /\ i \in 0..Len(p)
    BY <1>1
  <2>4. {Src[e], g.target[e]} = {s[i - 1], s[i]}
    BY <2>2 DEF StepStart, StepEnd
  <2>5. /\ s[i - 1] \in {n} \cup ReachableFrom(g, n, SearchOf(direction), d)
        /\ s[i] \in {n} \cup ReachableFrom(g, n, SearchOf(direction), d)
    BY <1>4, <2>3
  <2> QED
    BY <2>2, <2>4, <2>5
<1> QED
  BY <1>5

LEMMA PicturesCompleteIn ==
  ASSUME Sound(graph)
  PROVE  PicturesComplete
<1> SUFFICES ASSUME NEW n \in NodesOf(graph), NEW m \in NodesOf(graph),
                    NEW p \in FindPaths(graph, n, m, 2, Kinds, "forward")
             PROVE  /\ ToSet(p) \subseteq EdgesOf(SubgraphAround(graph, n, 2))
                    /\ ToSet(p) \subseteq ImpactOf(graph, m, 2).edges
  BY DEF PicturesComplete
<1>1. n \in NodeId /\ m \in NodeId
  BY DEF NodesOf
<1> DEFINE all == {n} \cup ReachableFrom(graph, n, "out", 2) \cup ReachableFrom(graph, n, "in", 2)
           drawn == EdgesWithin(graph, all)
<1>2. ASSUME NEW e \in ToSet(p)
      PROVE  e \in EdgesOf(SubgraphAround(graph, n, 2))
  <2>1. /\ e \in Edge /\ HasEdge(graph, e)
        /\ Src[e] \in {n} \cup ReachableFrom(graph, n, "out", 2)
        /\ graph.target[e] \in {n} \cup ReachableFrom(graph, n, "out", 2)
    BY <1>1, RouteWithin DEF SearchOf
  <2>2. e \in drawn
    BY <2>1 DEF EdgesWithin, EdgesOf
  <2> HIDE DEF drawn
  <2>3. SubgraphAround(graph, n, 2).target =
          [d \in Edge |-> IF d \in drawn THEN graph.target[d] ELSE Absent]
    BY DEF SubgraphAround, SubGraph, drawn
  <2>4. HasEdge(SubgraphAround(graph, n, 2), e)
    BY <2>1, <2>2, <2>3 DEF HasEdge
  <2> QED
    BY <2>1, <2>4 DEF EdgesOf
<1>3. ASSUME NEW e \in ToSet(p)
      PROVE  e \in ImpactOf(graph, m, 2).edges
  <2>1. p \in Seq(Edge) /\ Len(p) <= 2 /\ Routes(graph, n, m, "forward", p)
    BY <1>1, FindPathsAre
  <2>2. Reverse(p) \in FindPaths(graph, m, n, 2, Kinds, "reverse")
    BY <1>1, BackwardIsReversed
  <2>3. e \in ToSet(Reverse(p))
    <3>1. PICK i \in 1..Len(p) : e = p[i]
      BY <2>1 DEF ToSet
    <3> DEFINE j == (Len(p) - i) + 1
    <3>2. j \in 1..Len(p) /\ (Len(p) - j) + 1 = i
      BY <2>1
    <3> HIDE DEF j
    <3>3. Reverse(p)[j] = e /\ j \in DOMAIN Reverse(p)
      BY <3>1, <3>2 DEF Reverse
    <3> QED
      BY <3>3 DEF ToSet
  <2>4. /\ e \in Edge /\ HasEdge(graph, e)
        /\ Src[e] \in {m} \cup ReachableFrom(graph, m, "in", 2)
        /\ graph.target[e] \in {m} \cup ReachableFrom(graph, m, "in", 2)
    BY <1>1, <2>2, <2>3, RouteWithin DEF SearchOf
  <2> QED
    BY <2>4 DEF ImpactOf, EdgesWithin, EdgesOf
<1> QED
  BY <1>2, <1>3

(* Searches forward and backward, and the paths, answer the same question. *)
THEOREM QueriesAgreeAlways == Spec => []QueriesAgree
<1>1. IInvProject => QueriesAgree
  BY SearchesAgreeIn, PicturesCompleteIn DEF IInvProject, OfProject, QueriesAgree
<1> QED
  BY <1>1, ProjectInvariant, PTL


---------------------------------------------------------------------------
(* The walk of the dead code detector.                                     *)

WalkStep(g, shut) ==
    [S \in SUBSET NodeId |-> S \cup ((UNION {Followed(g, m) : m \in S}) \ shut)]

Walking(g, from, shut) ==
    CHOOSE f : Rounds(f, SUBSET NodeId, from, WalkStep(g, shut))

LEMMA FollowedIs ==
  ASSUME NEW g, Sound(g), NEW n \in NodeId
  PROVE  /\ Followed(g, n) \in SUBSET NodeId
         /\ \A m : m \in Followed(g, n) <=>
               \E e \in Edge : /\ HasEdge(g, e) /\ Src[e] = n /\ m = g.target[e]
                               /\ Kind[e] \notin {"dto-flows", "api-implements"}
<1>1. GetOutEdges(g, n) = {e \in Edge : HasEdge(g, e) /\ Src[e] = n}
  BY IndexedEdges
<1>2. \A e \in Edge : HasEdge(g, e) => g.target[e] \in NodeId
  BY EdgeEnds
<1> QED
  BY <1>1, <1>2 DEF Followed

LEMMA WalkLayers ==
  ASSUME NEW g, Sound(g), NEW from \in SUBSET NodeId, NEW shut
  PROVE  /\ WalkStep(g, shut) \in [SUBSET NodeId -> SUBSET NodeId]
         /\ Rounds(Walking(g, from, shut), SUBSET NodeId, from, WalkStep(g, shut))
<1>1. \A m \in NodeId : Followed(g, m) \in SUBSET NodeId
  BY FollowedIs
<1>2. WalkStep(g, shut) \in [SUBSET NodeId -> SUBSET NodeId]
  BY <1>1 DEF WalkStep
<1>3. \E f : Rounds(f, SUBSET NodeId, from, WalkStep(g, shut))
  BY <1>2, LayersExist
<1> QED
  BY <1>2, <1>3 DEF Walking

LEMMA WalkIs ==
  ASSUME NEW g, Sound(g), NEW from \in SUBSET NodeId, NEW shut
  PROVE  Walk(g, from, shut) = Walking(g, from, shut)[Unlimited]
<1> DEFINE o == WalkStep(g, shut)
           G == SUBSET NodeId
           Layer(f, k) ==
               IF k = 0 THEN from
               ELSE f[k - 1] \cup ((UNION {Followed(g, m) : m \in f[k - 1]}) \ shut)
           Eq(f) == f = [k \in Nat |-> Layer(f, k)]
           visited == CHOOSE f : Eq(f)
<1>1. Walk(g, from, shut) = visited[Unlimited]
  BY DEF Walk
<1>2. o \in [G -> G] /\ from \in G
  BY WalkLayers
<1>3. \A S \in G : o[S] = S \cup ((UNION {Followed(g, m) : m \in S}) \ shut)
  BY DEF WalkStep
<1>4. ASSUME NEW f, NEW k \in Nat, f[k] \in G
      PROVE  Layer(f, k + 1) = o[f[k]]
  <2>1. k + 1 # 0 /\ (k + 1) - 1 = k
    OBVIOUS
  <2>2. Layer(f, k + 1) = f[k] \cup ((UNION {Followed(g, m) : m \in f[k]}) \ shut)
    BY <2>1
  <2> QED
    BY <1>3, <1>4, <2>2
<1>5. \A f : Layer(f, 0) = from
  OBVIOUS
<1> HIDE DEF o, Layer
<1>6. \E f : Eq(f)
  <2>1. PICK f : Rounds(f, G, from, o)
    BY Zenon, <1>2, LayersExist
  <2>2. ASSUME NEW k \in Nat
        PROVE  f[k] = Layer(f, k)
    <3>1. CASE k = 0
      BY <1>5, <2>1, <3>1 DEF Rounds
    <3>2. CASE k # 0
      <4>1. PICK j \in Nat : k = j + 1
        <5>1. k - 1 \in Nat /\ k = (k - 1) + 1
          BY <3>2
        <5> QED
          BY <5>1
      <4>2. f[j] \in G /\ f[j + 1] = o[f[j]]
        BY <2>1 DEF Rounds
      <4> QED
        BY <1>4, <4>1, <4>2
    <3> QED
      BY <3>1, <3>2
  <2>3. f = [k \in Nat |-> f[k]]
    BY <2>1 DEF Rounds
  <2> QED
    BY Zenon, <2>2, <2>3
<1>7. Eq(visited)
  <2> HIDE DEF Eq
  <2> QED
    BY <1>6
<1> HIDE DEF visited
<1>8. /\ visited = [k \in Nat |-> visited[k]]
      /\ visited[0] = from
      /\ \A k \in Nat : visited[k] \in G => visited[k + 1] = o[visited[k]]
  BY <1>4, <1>5, <1>7
<1>9. Rounds(visited, G, from, o)
  BY Zenon, <1>2, <1>8, LayersAre
<1>10. visited = Walking(g, from, shut)
  BY Zenon, <1>9, WalkLayers, LayersUnique DEF o
<1> QED
  BY <1>1, <1>10

Walks(g, from, shut, f) ==
    /\ f \in [Nat -> SUBSET NodeId]
    /\ f[0] = from
    /\ \A k \in Nat : \A m : m \in f[k + 1] <=>
          m \in f[k] \/ (m \notin shut /\ \E n \in f[k] : m \in Followed(g, n))

LEMMA WalkingSteps ==
  ASSUME NEW g, Sound(g), NEW from \in SUBSET NodeId, NEW shut
  PROVE  Walks(g, from, shut, Walking(g, from, shut))
<1> DEFINE f == Walking(g, from, shut)
<1>1. Rounds(f, SUBSET NodeId, from, WalkStep(g, shut))
  BY WalkLayers
<1> HIDE DEF f
<1>2. f \in [Nat -> SUBSET NodeId] /\ f[0] = from
  BY <1>1 DEF Rounds
<1>3. ASSUME NEW k \in Nat
      PROVE  \A m : m \in f[k + 1] <=>
               m \in f[k] \/ (m \notin shut /\ \E n \in f[k] : m \in Followed(g, n))
  <2>1. f[k] \in SUBSET NodeId /\ f[k + 1] = WalkStep(g, shut)[f[k]]
    BY <1>1, <1>2 DEF Rounds
  <2>2. f[k + 1] = f[k] \cup ((UNION {Followed(g, m) : m \in f[k]}) \ shut)
    BY <2>1 DEF WalkStep
  <2> QED
    BY <2>2
<1> QED
  BY <1>2, <1>3 DEF f, Walks

(* A search that grows within NodeId has settled after |NodeId| steps.     *)
LEMMA Settles ==
  ASSUME NEW o, NEW f, NEW from, Rounds(f, SUBSET NodeId, from, o),
         \A k \in Nat : f[k] \subseteq f[k + 1]
  PROVE  f[Unlimited + 1] = f[Unlimited]
<1> DEFINE U == Unlimited
<1>1. U \in Nat /\ U = Cardinality(NodeId)
  BY UnlimitedIs DEF Unlimited
<1>2. \A k \in Nat : f[k] \in SUBSET NodeId /\ f[k + 1] = o[f[k]]
  BY DEF Rounds
<1>3. SUFFICES ASSUME f[U + 1] # f[U]
               PROVE  FALSE
  OBVIOUS
<1> HIDE DEF U
<1>4. ASSUME NEW k \in Nat, k <= U
      PROVE  f[k + 1] # f[k]
  <2> SUFFICES ASSUME f[k + 1] = f[k]
               PROVE  FALSE
    OBVIOUS
  <2> DEFINE T == {j \in Nat : f[k + j] = f[k]}
  <2>1. 0 \in T
    OBVIOUS
  <2>2. ASSUME NEW j \in Nat, j \in T
        PROVE  j + 1 \in T
    <3>1. f[(k + j) + 1] = o[f[k + j]] /\ f[k + 1] = o[f[k]]
      BY <1>2
    <3> QED
      BY <2>2, <3>1
  <2>3. Nat \subseteq T
    <3> HIDE DEF T
    <3> QED
      BY <2>1, <2>2, AllNaturals
  <2>4. U - k \in Nat /\ (U - k) + 1 \in Nat /\ k + (U - k) = U /\ k + ((U - k) + 1) = U + 1
    BY <1>1, <1>4
  <2>5. f[k + (U - k)] = f[k] /\ f[k + ((U - k) + 1)] = f[k]
    BY <2>3, <2>4
  <2> QED
    BY <1>3, <2>4, <2>5
<1> DEFINE T == {k \in Nat : k <= U + 1 => Cardinality(f[k]) >= k}
<1>5. \A k \in Nat : IsFiniteSet(f[k]) /\ Cardinality(f[k]) \in Nat
  BY <1>2, FiniteNodes, FS_CardinalityType
<1>6. 0 \in T
  BY <1>5
<1>7. ASSUME NEW k \in Nat, k \in T
      PROVE  k + 1 \in T
  <2> SUFFICES ASSUME k + 1 <= U + 1
               PROVE  Cardinality(f[k + 1]) >= k + 1
    OBVIOUS
  <2>1. k <= U /\ Cardinality(f[k]) >= k
    BY <1>1, <1>7
  <2>2. f[k] \subseteq f[k + 1] /\ f[k + 1] # f[k]
    BY <1>4, <2>1
  <2>3. Cardinality(f[k]) <= Cardinality(f[k + 1]) /\ Cardinality(f[k]) # Cardinality(f[k + 1])
    BY <1>5, <2>2, FS_Subset
  <2> QED
    BY <1>5, <2>1, <2>3
<1>8. Nat \subseteq T
  <2> HIDE DEF T
  <2> QED
    BY <1>6, <1>7, AllNaturals
<1>9. Cardinality(f[U + 1]) >= U + 1
  BY <1>1, <1>8
<1>10. Cardinality(f[U + 1]) <= Cardinality(NodeId)
  BY <1>1, <1>2, FiniteAssumption, FS_Subset
<1> QED
  BY <1>1, <1>5, <1>9, <1>10

(* W is all that a walk comes to.                                          *)
Fills(g, from, shut, f, W) ==
    /\ Walks(g, from, shut, f)
    /\ W = f[Unlimited]
    /\ \A k \in 0..Unlimited : f[k] \subseteq W
    /\ W \in SUBSET NodeId
    /\ \A n \in W : Followed(g, n) \ shut \subseteq W
    /\ from \cap shut = {} => W \cap shut = {}

LEMMA WalkGrows ==
  ASSUME NEW g, Sound(g), NEW from \in SUBSET NodeId, NEW shut
  PROVE  Fills(g, from, shut, Walking(g, from, shut), Walk(g, from, shut))
<1> DEFINE f == Walking(g, from, shut)
           U == Unlimited
           T == {j \in Nat : j <= U => f[U - j] \subseteq f[U]}
           S == {k \in Nat : f[k] \cap shut = {}}
<1>0. Walks(g, from, shut, f)
  BY WalkingSteps
<1>1. /\ f \in [Nat -> SUBSET NodeId] /\ f[0] = from
      /\ \A k \in Nat : \A m : m \in f[k + 1] <=>
            m \in f[k] \/ (m \notin shut /\ \E n \in f[k] : m \in Followed(g, n))
  <2> HIDE DEF f
  <2> QED
    BY <1>0 DEF Walks
<1>2. f[U + 1] = f[U] /\ U \in Nat
  <2>1. Rounds(f, SUBSET NodeId, from, WalkStep(g, shut))
    BY WalkLayers
  <2> HIDE DEF f
  <2>2. \A k \in Nat : f[k] \subseteq f[k + 1]
    BY <1>1
  <2> QED
    BY <2>1, <2>2, Settles, UnlimitedIs
<1>3. Walk(g, from, shut) = f[U]
  BY WalkIs
<1> HIDE DEF f, U
<1>4. 0 \in T
  BY <1>2
<1>5. ASSUME NEW j \in Nat, j \in T
      PROVE  j + 1 \in T
  <2> SUFFICES ASSUME j + 1 <= U
               PROVE  f[U - (j + 1)] \subseteq f[U]
    OBVIOUS
  <2>1. U - (j + 1) \in Nat /\ (U - (j + 1)) + 1 = U - j /\ j <= U
    BY <1>2
  <2>2. f[U - (j + 1)] \subseteq f[(U - (j + 1)) + 1]
    BY <1>1, <2>1
  <2> QED
    BY <1>5, <2>1, <2>2
<1>6. Nat \subseteq T
  <2> HIDE DEF T
  <2> QED
    BY <1>4, <1>5, AllNaturals
<1>7. ASSUME NEW k \in 0..U
      PROVE  f[k] \subseteq f[U]
  <2>1. U - k \in Nat /\ U - k <= U /\ U - (U - k) = k
    BY <1>2
  <2>2. f[U - (U - k)] \subseteq f[U]
    BY <1>6, <2>1
  <2> QED
    BY <2>1, <2>2
<1>8. \A n \in f[U] : Followed(g, n) \ shut \subseteq f[U]
  BY <1>1, <1>2
<1>9. ASSUME from \cap shut = {}
      PROVE  f[U] \cap shut = {}
  <2>1. 0 \in S /\ \A k \in Nat : k \in S => k + 1 \in S
    BY <1>1, <1>9
  <2>2. Nat \subseteq S
    <3> HIDE DEF S
    <3> QED
      BY <2>1, AllNaturals
  <2> QED
    BY <1>2, <2>2
<1>10. Fills(g, from, shut, f, f[U])
  BY <1>0, <1>1, <1>2, <1>7, <1>8, <1>9 DEF Fills, U
<1> QED
  BY <1>3, <1>10 DEF f, U

---------------------------------------------------------------------------
(* Files removed one after the other: their nodes go, and the edges of     *)
(* their nodes.                                                            *)

InFiles(g, n, S) == HasNode(g, n) /\ g.node[n] \in S

(* h is g without the files of S.                                          *)
Removed(g, S, h) ==
    /\ OfProject(h)
    /\ \A n \in NodeId : h.node[n] = IF InFiles(g, n, S) THEN Absent ELSE g.node[n]
    /\ \A e \in Edge : h.target[e] =
          IF HasEdge(g, e) /\ (InFiles(g, Src[e], S) \/ InFiles(g, g.target[e], S))
          THEN Absent ELSE g.target[e]

ProjectGraph == {h \in SoundGraph : OfProject(h)}

LEMMA RemoveByFileExact ==
  ASSUME NEW g, OfProject(g), NEW f \in File \ {Virtual}, NEW h, h = RemoveByFile(g, f)
  PROVE  Removed(g, {f}, h)
<1> DEFINE P == GetNodesByFile(g, f)
<1>0. Sound(g)
  BY DEF OfProject
<1>1. /\ \A n \in NodeId : h.node[n] = IF n \in g.fileIndex[f] THEN Absent ELSE g.node[n]
      /\ \A e \in Edge : h.target[e] = IF e \in Incident(g, P) THEN Absent ELSE g.target[e]
  BY <1>0, RemoveByFileIs
<1>2. P \in SUBSET NodeId /\ \A n \in NodeId : n \in P <=> InFiles(g, n, {f})
  <2>1. g.fileIndex[f] \in SUBSET NodeId
    BY <1>0, SoundFields
  <2>2. ASSUME NEW n \in NodeId, n \in P
        PROVE  InFiles(g, n, {f})
    <3>1. n \in DOMAIN FileOf /\ FileOf[n] = f /\ HasNode(g, n)
      BY <2>2 DEF OfProject, GetNodesByFile
    <3> QED
      BY <3>1 DEF OfProject, Home, InFiles
  <2>3. ASSUME NEW n \in NodeId, InFiles(g, n, {f})
        PROVE  n \in P
    BY <1>0, <2>3 DEF InFiles, Sound, FileIndexed, GetNodesByFile
  <2> QED
    BY <2>1, <2>2, <2>3 DEF GetNodesByFile
<1>3. ASSUME NEW n \in NodeId
      PROVE  h.node[n] = IF InFiles(g, n, {f}) THEN Absent ELSE g.node[n]
  <2>1. n \in P <=> n \in g.fileIndex[f] /\ HasNode(g, n)
    BY DEF GetNodesByFile
  <2>2. ~HasNode(g, n) => g.node[n] = Absent
    BY DEF HasNode
  <2> HIDE DEF P
  <2> QED
    BY <1>1, <1>2, <2>1, <2>2
<1> HIDE DEF P
<1>4. ASSUME NEW e \in Edge
      PROVE  e \in Incident(g, P) /\ HasEdge(g, e) <=>
                HasEdge(g, e) /\ (InFiles(g, Src[e], {f}) \/ InFiles(g, g.target[e], {f}))
  <2>1. e \in Incident(g, P) /\ HasEdge(g, e) <=>
           \E n \in P : e \in GetOutEdges(g, n) \/ e \in GetInEdges(g, n)
    BY DEF Incident, GetOutEdges, GetInEdges
  <2>2. \A n \in P : /\ e \in GetOutEdges(g, n) <=> HasEdge(g, e) /\ Src[e] = n
                     /\ e \in GetInEdges(g, n) <=> HasEdge(g, e) /\ g.target[e] = n
    BY <1>0, <1>2, IndexedEdges
  <2>3. HasEdge(g, e) => Src[e] \in NodeId /\ g.target[e] \in NodeId
    BY <1>0, EdgeEnds
  <2> QED
    BY <1>2, <2>1, <2>2, <2>3
<1>5. ASSUME NEW e \in Edge
      PROVE  h.target[e] =
               IF HasEdge(g, e) /\ (InFiles(g, Src[e], {f}) \/ InFiles(g, g.target[e], {f}))
               THEN Absent ELSE g.target[e]
  <2>1. ~HasEdge(g, e) => g.target[e] = Absent
    BY DEF HasEdge
  <2> QED
    BY <1>1, <1>4, <2>1
<1> QED
  BY <1>3, <1>5, RemovedOfProject DEF Removed

FilesRemoved(g, S) == FoldSet(LAMBDA f, h : RemoveByFile(h, f), g, S)

RemovingFiles(S, G) == [p \in S \X G |-> RemoveByFile(p[2], p[1])]

LEMMA FilesRemovedFold ==
  ASSUME NEW S, IsFiniteSet(S), NEW G, NEW g \in G,
         \A x \in S, h \in G : RemoveByFile(h, x) \in G
  PROVE  IsFold(FilesRemoved(g, S), S, G, g, First(S), RemovingFiles(S, G))
<1> DEFINE pick == First(S)
           o == RemovingFiles(S, G)
           Step(f, s) ==
               IF s = {} THEN g
               ELSE RemoveByFile(f[s \ {CHOOSE x \in s : TRUE}], (CHOOSE x \in s : TRUE))
           Eq(f) == f = [s \in SUBSET S |-> Step(f, s)]
           iter == CHOOSE f : Eq(f)
<1>1. FilesRemoved(g, S) = iter[S]
  BY DEF FilesRemoved, FoldSet, MapThenFoldSet
<1>2. Picks(pick, S) /\ \A s \in SUBSET S : pick[s] = CHOOSE x \in s : TRUE
  BY FirstPicks DEF First
<1>3. \A x \in S, h \in G : o[<<x, h>>] = RemoveByFile(h, x)
  BY DEF RemovingFiles
<1>4. Within(o, S, G)
  BY <1>3 DEF Within
<1> HIDE DEF pick, o
<1>5. ASSUME NEW f, NEW s \in SUBSET S, s # {}, f[s \ {pick[s]}] \in G
      PROVE  Step(f, s) = o[<<pick[s], f[s \ {pick[s]}]>>]
  <2>1. pick[s] \in S
    BY <1>2, <1>5 DEF Picks
  <2> QED
    BY <1>2, <1>3, <1>5, <2>1
<1>6. \A f : Step(f, {}) = g
  OBVIOUS
<1> HIDE DEF Step
<1>7. \E f : Eq(f)
  <2>1. PICK f \in [SUBSET S -> G] : Iterates(f, S, g, pick, o)
    BY Zenon, <1>2, <1>4, IterationExists
  <2>2. ASSUME NEW s \in SUBSET S
        PROVE  f[s] = Step(f, s)
    <3>1. s # {} => f[s \ {pick[s]}] \in G
      BY <1>2 DEF Picks
    <3> QED
      BY <1>5, <1>6, <2>1, <3>1 DEF Iterates
  <2>3. f = [s \in SUBSET S |-> f[s]]
    OBVIOUS
  <2> QED
    BY Zenon, <2>2, <2>3
<1>8. Eq(iter)
  <2> HIDE DEF Eq
  <2> QED
    BY <1>7
<1> HIDE DEF iter
<1>9. /\ iter = [s \in SUBSET S |-> iter[s]]
      /\ iter[{}] = g
      /\ \A s \in SUBSET S : s # {} /\ iter[s \ {pick[s]}] \in G =>
            iter[s] = o[<<pick[s], iter[s \ {pick[s]}]>>]
  BY <1>5, <1>6, <1>8
<1>10. IsFold(iter[S], S, G, g, pick, o)
  BY Zenon, <1>2, <1>4, <1>9, FoldIs
<1> QED
  BY <1>1, <1>10 DEF pick, o

LEMMA FilesRemovedIs ==
  ASSUME NEW g, OfProject(g), NEW S \in SUBSET (File \ {Virtual}), IsFiniteSet(S)
  PROVE  Removed(g, S, FilesRemoved(g, S))
<1> DEFINE o == RemovingFiles(S, ProjectGraph)
           r == FilesRemoved(g, S)
           R == {p \in (SUBSET S) \X ProjectGraph : Removed(g, p[1], p[2])}
<1>0. \A h : OfProject(h) <=> h \in ProjectGraph
  BY SoundFields DEF ProjectGraph, OfProject
<1>1. \A x \in S, h \in ProjectGraph : RemoveByFile(h, x) \in ProjectGraph
  BY <1>0, RemovedOfProject
<1>2. IsFold(r, S, ProjectGraph, g, First(S), o)
  BY <1>0, <1>1, FilesRemovedFold
<1>3. \A x \in S : \A h \in ProjectGraph : o[<<x, h>>] = RemoveByFile(h, x)
  BY DEF RemovingFiles
<1> HIDE DEF o, r
<1>4. <<{}, g>> \in R
  BY <1>0 DEF Removed, InFiles
<1>5. ASSUME NEW s \in SUBSET S, NEW x \in s, NEW h \in ProjectGraph, <<s \ {x}, h>> \in R
      PROVE  <<s, o[<<x, h>>]>> \in R
  <2> DEFINE k == RemoveByFile(h, x)
             w == s \ {x}
  <2>1. Removed(g, w, h) /\ OfProject(h) /\ x \in File \ {Virtual}
    BY <1>0, <1>5
  <2>2. k = RemoveByFile(h, x) /\ o[<<x, h>>] = k
    BY <1>3
  <2> HIDE DEF k
  <2>3. /\ OfProject(k)
        /\ \A n \in NodeId : k.node[n] = IF InFiles(h, n, {x}) THEN Absent ELSE h.node[n]
        /\ \A e \in Edge : k.target[e] =
              IF HasEdge(h, e) /\ (InFiles(h, Src[e], {x}) \/ InFiles(h, h.target[e], {x}))
              THEN Absent ELSE h.target[e]
    <3>1. Removed(h, {x}, k)
      BY <2>1, <2>2, RemoveByFileExact
    <3> QED
      BY <3>1 DEF Removed
  <2>4. \A n \in NodeId : /\ InFiles(h, n, {x}) <=> InFiles(g, n, {x})
                          /\ InFiles(g, n, s) <=> InFiles(g, n, w) \/ InFiles(g, n, {x})
    BY <1>5, <2>1 DEF Removed, InFiles, HasNode
  <2>5. \A n \in NodeId : k.node[n] = IF InFiles(g, n, s) THEN Absent ELSE g.node[n]
    BY <2>1, <2>3, <2>4 DEF Removed
  <2>6. ASSUME NEW e \in Edge
        PROVE  k.target[e] =
                 IF HasEdge(g, e) /\ (InFiles(g, Src[e], s) \/ InFiles(g, g.target[e], s))
                 THEN Absent ELSE g.target[e]
    <3>1. h.target[e] =
            IF HasEdge(g, e) /\ (InFiles(g, Src[e], w) \/ InFiles(g, g.target[e], w))
            THEN Absent ELSE g.target[e]
      BY <2>1 DEF Removed
    <3>2. k.target[e] =
            IF HasEdge(h, e) /\ (InFiles(h, Src[e], {x}) \/ InFiles(h, h.target[e], {x}))
            THEN Absent ELSE h.target[e]
      BY <2>3
    <3>3. CASE ~HasEdge(g, e)
      BY <3>1, <3>2, <3>3 DEF HasEdge
    <3>4. CASE HasEdge(g, e) /\ ~HasEdge(h, e)
      <4>1. InFiles(g, Src[e], w) \/ InFiles(g, g.target[e], w)
        BY <3>1, <3>4 DEF HasEdge
      <4>2. Src[e] \in NodeId /\ g.target[e] \in NodeId
        BY <3>4, EdgeEnds DEF OfProject
      <4>3. k.target[e] = Absent
        BY <3>2, <3>4 DEF HasEdge
      <4> QED
        BY <2>4, <3>4, <4>1, <4>2, <4>3
    <3>5. CASE HasEdge(g, e) /\ HasEdge(h, e)
      <4>1. h.target[e] = g.target[e] /\ ~(InFiles(g, Src[e], w) \/ InFiles(g, g.target[e], w))
        BY <3>1, <3>5 DEF HasEdge
      <4>2. Src[e] \in NodeId /\ g.target[e] \in NodeId
        BY <3>5, EdgeEnds DEF OfProject
      <4> QED
        BY <2>4, <3>2, <3>5, <4>1, <4>2
    <3> QED
      BY <3>3, <3>4, <3>5
  <2>7. Removed(g, s, k)
    BY <2>3, <2>5, <2>6 DEF Removed
  <2> QED
    BY <1>0, <2>2, <2>3, <2>7
<1>6. <<S, r>> \in R
  <2> HIDE DEF R
  <2>1. Carries(R, S, ProjectGraph, o)
    BY <1>5 DEF Carries
  <2> QED
    BY Zenon, <1>2, <1>4, <2>1, FirstPicks, FoldHolds
<1> QED
  BY <1>6 DEF r

---------------------------------------------------------------------------
(* vda decommission: what walks along once the file is shut out walks      *)
(* along in the graph that is left.                                        *)

Rooted(n) ==
    \/ NodeKind[n] \in {"spring-controller", "vue-router-route", "native-bridge"}
    \/ NodeKind[n] = "spring-service" /\ n \in Scheduled
    \/ NodeKind[n] = "ts-module" /\ n \in UnderEntry

Heard(g, n) ==
    \E e \in Edge : HasEdge(g, e) /\ Kind[e] = "listens-event" /\ g.target[e] = n

LEMMA EntrypointsAre ==
  ASSUME NEW g, Sound(g)
  PROVE  /\ CollectEntrypoints(g) \in SUBSET NodeId
         /\ \A n : n \in CollectEntrypoints(g) <=>
               /\ n \in NodesOf(g)
               /\ Rooted(n) \/ (NodeKind[n] = "spring-service" /\ Heard(g, n))
<1> DEFINE listens == {g.target[e] : e \in GetEdgesByKind(g, "listens-event")}
<1>1. GetEdgesByKind(g, "listens-event") =
         {e \in Edge : HasEdge(g, e) /\ Kind[e] = "listens-event"}
  BY AnalyzerAssumption DEF GetEdgesByKind, Sound, KindIndexed
<1>2. \A n : n \in listens <=> Heard(g, n)
  BY <1>1 DEF Heard
<1> HIDE DEF listens
<1>3. CollectEntrypoints(g) =
        {n \in NodesOf(g) :
            \/ NodeKind[n] \in {"spring-controller", "vue-router-route", "native-bridge"}
            \/ NodeKind[n] = "spring-service" /\ n \in Scheduled \cup listens
            \/ NodeKind[n] = "ts-module" /\ n \in UnderEntry}
  BY DEF CollectEntrypoints, listens
<1>4. NodesOf(g) \in SUBSET NodeId
  BY DEF NodesOf
<1> QED
  BY <1>2, <1>3, <1>4 DEF Rooted

LEMMA EntrypointsLeft ==
  ASSUME NEW g, OfProject(g), NEW S \in SUBSET (File \ {Virtual}), NEW h, Removed(g, S, h)
  PROVE  \A n : n \in CollectEntrypoints(h) <=> n \in CollectEntrypoints(g) /\ ~InFiles(g, n, S)
<1>1. Sound(g) /\ Sound(h)
  BY DEF Removed, OfProject
<1>2. Virtual \in File /\ Absent \notin File
  BY GraphAssumption
<1>3. \A n \in NodeId : n \in NodesOf(h) <=> n \in NodesOf(g) /\ ~InFiles(g, n, S)
  BY DEF Removed, NodesOf, HasNode, InFiles
<1>4. ASSUME NEW n \in NodeId, NodeKind[n] = "spring-service", ~InFiles(g, n, S)
      PROVE  Heard(h, n) <=> Heard(g, n)
  <2>1. ASSUME NEW e \in Edge, HasEdge(h, e)
        PROVE  HasEdge(g, e) /\ h.target[e] = g.target[e]
    BY <2>1 DEF Removed, HasEdge
  <2>2. ASSUME NEW e \in Edge, HasEdge(g, e), Kind[e] = "listens-event", g.target[e] = n
        PROVE  HasEdge(h, e) /\ h.target[e] = n
    <3>1. Src[e] \in NodeId /\ Dst[e] = n
      BY <1>1, <2>2, EdgeEnds
    <3>2. Home(Src[e]) = Virtual
      BY <1>4, <2>2, <3>1, ListensAssumption DEF Home
    <3>3. ~InFiles(g, Src[e], S)
      BY <3>1, <3>2 DEF InFiles, OfProject
    <3>4. h.target[e] = g.target[e]
      BY <1>4, <2>2, <3>3 DEF Removed
    <3> QED
      BY <2>2, <3>4 DEF HasEdge
  <2> QED
    BY <2>1, <2>2 DEF Heard
<1>5. /\ CollectEntrypoints(g) \in SUBSET NodeId /\ CollectEntrypoints(h) \in SUBSET NodeId
      /\ \A n : n \in CollectEntrypoints(g) <=>
            /\ n \in NodesOf(g)
            /\ Rooted(n) \/ (NodeKind[n] = "spring-service" /\ Heard(g, n))
      /\ \A n : n \in CollectEntrypoints(h) <=>
            /\ n \in NodesOf(h)
            /\ Rooted(n) \/ (NodeKind[n] = "spring-service" /\ Heard(h, n))
  BY <1>1, EntrypointsAre
<1> QED
  BY <1>3, <1>4, <1>5

LEMMA FollowedLeft ==
  ASSUME NEW g, OfProject(g), NEW S \in SUBSET (File \ {Virtual}), NEW h, Removed(g, S, h),
         NEW n \in NodeId, ~InFiles(g, n, S)
  PROVE  \A m : m \in Followed(h, n) <=> m \in Followed(g, n) /\ ~InFiles(g, m, S)
<1>1. Sound(g) /\ Sound(h)
  BY DEF Removed, OfProject
<1>2. /\ \A m : m \in Followed(g, n) <=>
            \E e \in Edge : /\ HasEdge(g, e) /\ Src[e] = n /\ m = g.target[e]
                            /\ Kind[e] \notin {"dto-flows", "api-implements"}
      /\ \A m : m \in Followed(h, n) <=>
            \E e \in Edge : /\ HasEdge(h, e) /\ Src[e] = n /\ m = h.target[e]
                            /\ Kind[e] \notin {"dto-flows", "api-implements"}
  BY <1>1, FollowedIs
<1>3. ASSUME NEW e \in Edge, Src[e] = n
      PROVE  /\ HasEdge(h, e) <=> HasEdge(g, e) /\ ~InFiles(g, g.target[e], S)
             /\ HasEdge(h, e) => h.target[e] = g.target[e]
  <2>1. h.target[e] =
          IF HasEdge(g, e) /\ (InFiles(g, Src[e], S) \/ InFiles(g, g.target[e], S))
          THEN Absent ELSE g.target[e]
    BY DEF Removed
  <2> QED
    BY <1>3, <2>1 DEF HasEdge
<1> QED
  BY <1>2, <1>3

(* As far as the walk that shuts the file out gets, it meets nothing of    *)
(* what is removed, so that it is the walk of what is left.                *)
LEMMA SameWalk ==
  ASSUME NEW g, OfProject(g), NEW S \in SUBSET (File \ {Virtual}), NEW h, Removed(g, S, h),
         NEW shut \in SUBSET NodeId, \A n \in shut : InFiles(g, n, S),
         \A n \in Walk(g, CollectEntrypoints(g) \ shut, shut) : ~InFiles(g, n, S)
  PROVE  Walk(h, CollectEntrypoints(h), {}) = Walk(g, CollectEntrypoints(g) \ shut, shut)
<1> DEFINE C == CollectEntrypoints(g) \ shut
           E == CollectEntrypoints(h)
           a == Walking(g, C, shut)
           b == Walking(h, E, {})
           W == Walk(g, C, shut)
           V == Walk(h, E, {})
           U == Unlimited
           T == {k \in Nat : k <= U => a[k] = b[k]}
<1>1. Sound(g) /\ Sound(h)
  BY DEF Removed, OfProject
<1>2. C \in SUBSET NodeId /\ E \in SUBSET NodeId
  BY <1>1, EntrypointsAre
<1>3. U \in Nat
  BY UnlimitedIs
<1>4. Fills(g, C, shut, a, W) /\ Fills(h, E, {}, b, V)
  BY <1>1, <1>2, WalkGrows
<1> HIDE DEF a, b, W, V, E, C
<1>5. /\ \A k \in 0..U : a[k] \subseteq W
      /\ W \in SUBSET NodeId /\ W = a[U] /\ V = b[U]
  BY <1>4 DEF Fills
<1>6. a[0] = C /\ b[0] = E
  BY <1>4 DEF Fills, Walks
<1>7. \A k \in Nat : \A m : m \in a[k + 1] <=>
         m \in a[k] \/ (m \notin shut /\ \E n \in a[k] : m \in Followed(g, n))
  BY <1>4 DEF Fills, Walks
<1>8. \A k \in Nat : \A m : m \in b[k + 1] <=>
         m \in b[k] \/ (m \notin {} /\ \E n \in b[k] : m \in Followed(h, n))
  BY <1>4 DEF Fills, Walks
<1>9. \A n : n \in E <=> n \in CollectEntrypoints(g) /\ ~InFiles(g, n, S)
  BY EntrypointsLeft DEF E
<1>10. \A n \in W : n \in NodeId /\ ~InFiles(g, n, S)
  BY <1>5 DEF W, C
<1> HIDE DEF U
<1>11. C = E
  <2>1. C \subseteq W
    BY <1>3, <1>5, <1>6
  <2> QED
    BY <1>9, <1>10, <2>1 DEF C
<1>12. 0 \in T
  BY <1>6, <1>11
<1>13. ASSUME NEW k \in Nat, k \in T
       PROVE  k + 1 \in T
  <2> SUFFICES ASSUME k + 1 <= U
               PROVE  a[k + 1] = b[k + 1]
    OBVIOUS
  <2>1. k \in 0..U /\ k + 1 \in 0..U
    BY <1>3
  <2>2. a[k] = b[k] /\ a[k] \subseteq W /\ a[k + 1] \subseteq W
    BY <1>5, <1>13, <2>1
  <2>3. \A n \in a[k] : \A m :
           m \in Followed(h, n) <=> m \in Followed(g, n) /\ ~InFiles(g, m, S)
    BY <1>10, <2>2, FollowedLeft
  <2>4. ASSUME NEW m
        PROVE  m \in a[k + 1] <=> m \in b[k + 1]
    <3>1. ASSUME m \in a[k + 1]
          PROVE  m \in b[k + 1]
      <4>1. ~InFiles(g, m, S)
        BY <1>10, <2>2, <3>1
      <4> QED
        BY <1>7, <1>8, <2>2, <2>3, <3>1, <4>1
    <3>2. ASSUME m \in b[k + 1]
          PROVE  m \in a[k + 1]
      BY <1>7, <1>8, <2>2, <2>3, <3>2
    <3> QED
      BY <3>1, <3>2
  <2> QED
    BY <2>4
<1>14. Nat \subseteq T
  <2> HIDE DEF T
  <2> QED
    BY <1>12, <1>13, AllNaturals
<1>15. a[U] = b[U]
  BY <1>3, <1>14
<1> QED
  BY <1>5, <1>15 DEF W, V, C, E

LEMMA ShutWalkIsLess ==
  ASSUME NEW g, Sound(g), NEW from \in SUBSET NodeId, NEW shut \in SUBSET NodeId
  PROVE  Walk(g, from \ shut, shut) \subseteq Walk(g, from, {})
<1> DEFINE a == Walking(g, from \ shut, shut)
           b == Walking(g, from, {})
           T == {k \in Nat : a[k] \subseteq b[k]}
           V == Walk(g, from \ shut, shut)
           W == Walk(g, from, {})
<1>1. from \ shut \in SUBSET NodeId
  OBVIOUS
<1>2. Fills(g, from \ shut, shut, a, V) /\ Fills(g, from, {}, b, W)
  BY <1>1, WalkGrows
<1> HIDE DEF a, b, V, W
<1>3. a[0] = from \ shut /\ b[0] = from /\ V = a[Unlimited] /\ W = b[Unlimited]
  BY <1>2 DEF Fills, Walks
<1>4. \A k \in Nat : \A m : m \in a[k + 1] <=>
         m \in a[k] \/ (m \notin shut /\ \E n \in a[k] : m \in Followed(g, n))
  BY <1>2 DEF Fills, Walks
<1>5. \A k \in Nat : \A m : m \in b[k + 1] <=>
         m \in b[k] \/ (m \notin {} /\ \E n \in b[k] : m \in Followed(g, n))
  BY <1>2 DEF Fills, Walks
<1>6. 0 \in T /\ \A k \in Nat : k \in T => k + 1 \in T
  BY <1>3, <1>4, <1>5
<1>7. Nat \subseteq T
  <2> HIDE DEF T
  <2> QED
    BY <1>6, AllNaturals
<1> QED
  BY <1>3, <1>7, UnlimitedIs DEF V, W

(* What goes with a file are finitely many files.                          *)
LEMMA GoneFiles ==
  ASSUME NEW g, NEW f \in File \ {Virtual}
  PROVE  /\ {f} \cup SafeToDelete(g, f) \in SUBSET (File \ {Virtual})
         /\ IsFiniteSet({f} \cup SafeToDelete(g, f))
<1> DEFINE S == SafeToDelete(g, f)
           P == {n \in NodeId : HasNode(g, n) /\ g.node[n] \in S}
           home == [n \in P |-> g.node[n]]
<1>1. /\ S \in SUBSET (File \ {Virtual})
      /\ \A h \in S : \E n \in NodeId : HasNode(g, n) /\ g.node[n] = h
  BY DEF SafeToDelete, NodesByFile, NodesOf
<1>2. IsFiniteSet(P)
  BY FiniteNodes
<1>3. home \in Surjection(P, S)
  <2>1. home \in [P -> S]
    OBVIOUS
  <2>2. \A h \in S : \E n \in P : home[n] = h
    BY <1>1
  <2> QED
    BY <2>1, <2>2 DEF Surjection
<1>4. IsFiniteSet(S)
  <2> HIDE DEF P, S, home
  <2> QED
    BY <1>2, <1>3, FS_Surjection
<1>5. IsFiniteSet(S \cup {f})
  <2> HIDE DEF S
  <2> QED
    BY <1>4, FS_AddElement
<1>6. S \cup {f} = {f} \cup S
  OBVIOUS
<1> QED
  BY <1>1, <1>5, <1>6

(* left is g without the files that go with f, living what walks there.    *)
AdviceHolds(g, f, left, living) ==
    LET alive == ReachableFromEntrypoints(g, CollectEntrypoints(g)) IN
    /\ living \cap NodesOf(left) = (alive \cap NodesOf(left)) \ WouldGoDead(g, f)
    /\ \A n \in living : Followed(g, n) \cap NodesOf(left) = Followed(left, n) \cap NodesOf(left)
    /\ \A n \in living : \A m \in Followed(g, n) :
          HasNode(g, m) /\ g.node[m] \in {f} \cup SafeToDelete(g, f) => g.node[m] = f
    /\ StillUsed(g, f) \subseteq living

LEMMA AdviceHoldsIn ==
  ASSUME NEW g, OfProject(g), NEW f \in File \ {Virtual},
         NEW left, left = FilesRemoved(g, {f} \cup SafeToDelete(g, f))
  PROVE  AdviceHolds(g, f, left, ReachableFromEntrypoints(left, CollectEntrypoints(left)))
<1> DEFINE C == CollectEntrypoints(g)
           T == NodesByFile(g, f)
           A == Walk(g, C, {})
           W == Walk(g, C \ T, T)
           gone == {f} \cup SafeToDelete(g, f)
           L == Walk(left, CollectEntrypoints(left), {})
           a == Walking(g, C \ T, T)
<1>1. Sound(g)
  BY DEF OfProject
<1>2. gone \in SUBSET (File \ {Virtual}) /\ f \in gone
  BY GoneFiles
<1>3. Removed(g, gone, left)
  BY GoneFiles, FilesRemovedIs
<1>4. /\ T \in SUBSET NodeId
      /\ \A n \in NodeId : n \in T <=> HasNode(g, n) /\ g.node[n] = f
  BY DEF NodesByFile, NodesOf
<1>5. C \in SUBSET NodeId
  BY <1>1, EntrypointsAre
<1>6. WouldGoDead(g, f) = (A \ T) \ W
  BY DEF WouldGoDead, ReachableFromEntrypoints
<1>7. \A n \in NodeId : InFiles(g, n, gone) => n \in T \/ n \in (A \ T) \ W
  <2>1. \A h \in SafeToDelete(g, f) : NodesByFile(g, h) \subseteq WouldGoDead(g, f)
    BY DEF SafeToDelete
  <2>2. ASSUME NEW n \in NodeId, InFiles(g, n, gone)
        PROVE  n \in T \/ n \in (A \ T) \ W
    <3>1. CASE g.node[n] = f
      BY <1>4, <2>2, <3>1 DEF InFiles
    <3>2. CASE g.node[n] \in SafeToDelete(g, f)
      <4>1. n \in NodesByFile(g, g.node[n])
        BY <2>2 DEF InFiles, NodesByFile, NodesOf
      <4> QED
        BY <1>6, <2>1, <3>2, <4>1
    <3> QED
      BY <2>2, <3>1, <3>2 DEF InFiles
  <2> QED
    BY <2>2
<1>8. StillUsed(g, f) \subseteq W
  BY DEF StillUsed
<1>9. Fills(g, C \ T, T, a, W)
  BY <1>1, <1>5, WalkGrows
<1>10. W \subseteq A
  BY <1>1, <1>4, <1>5, ShutWalkIsLess
<1> HIDE DEF C, T, A, W, gone, L, a
<1>11. /\ W \in SUBSET NodeId
       /\ \A n \in W : Followed(g, n) \ T \subseteq W
       /\ W \cap T = {}
  BY <1>9 DEF Fills
<1>12. \A n \in W : ~InFiles(g, n, gone)
  BY <1>7, <1>11
<1>13. L = W
  <2>1. \A n \in T : InFiles(g, n, gone)
    BY <1>2, <1>4 DEF InFiles
  <2> QED
    BY <1>2, <1>3, <1>4, <1>12, <2>1, SameWalk DEF L, W, C
<1>14. \A n : n \in NodesOf(left) <=> n \in NodesOf(g) /\ ~InFiles(g, n, gone)
  BY <1>3 DEF Removed, NodesOf, HasNode, InFiles
<1>15. W \cap NodesOf(left) = (A \cap NodesOf(left)) \ WouldGoDead(g, f)
  <2>1. T \cap NodesOf(left) = {}
    BY <1>2, <1>4, <1>14 DEF InFiles
  <2> QED
    BY <1>6, <1>10, <2>1
<1>16. ASSUME NEW n \in W
       PROVE  Followed(g, n) \cap NodesOf(left) = Followed(left, n) \cap NodesOf(left)
  <2>1. \A m : m \in Followed(left, n) <=> m \in Followed(g, n) /\ ~InFiles(g, m, gone)
    BY <1>2, <1>3, <1>11, <1>12, FollowedLeft
  <2> QED
    BY <1>14, <2>1
<1>17. ASSUME NEW n \in W, NEW m \in Followed(g, n), HasNode(g, m), g.node[m] \in gone
       PROVE  g.node[m] = f
  <2>1. m \in NodeId /\ InFiles(g, m, gone)
    BY <1>1, <1>11, <1>17, FollowedIs DEF InFiles
  <2>2. m \notin W
    BY <1>12, <2>1
  <2> QED
    BY <1>4, <1>11, <2>1, <2>2, <1>17
<1>18. AdviceHolds(g, f, left, W)
  BY <1>8, <1>15, <1>16, <1>17 DEF AdviceHolds, ReachableFromEntrypoints, A, C, gone
<1> QED
  BY <1>13, <1>18 DEF ReachableFromEntrypoints, L

(* The advice of vda decommission can be followed.                         *)
THEOREM DecommissionSafeAlways == Spec => []DecommissionSafe
<1>1. OfProject(graph) => DecommissionSafe
  <2> SUFFICES ASSUME OfProject(graph), NEW f \in File \ {Virtual}
               PROVE  LET left == FilesRemoved(graph, {f} \cup SafeToDelete(graph, f)) IN
                      AdviceHolds(graph, f, left,
                                  ReachableFromEntrypoints(left, CollectEntrypoints(left)))
    BY DEF DecommissionSafe, AdviceHolds, FilesRemoved
  <2> QED
    BY AdviceHoldsIn
<1>2. IInvProject => OfProject(graph)
  BY DEF IInvProject
<1> QED
  BY <1>1, <1>2, ProjectInvariant, PTL

---------------------------------------------------------------------------
(* The views.  A summary and the part it sums up select the same nodes and *)
(* edges; the directories of a file at two depths are prefixes of its path *)
(* and so of each other; and a walk stays in whatever is closed.           *)

LEMMA LeastOfTwo ==
  ASSUME NEW a \in Nat, NEW b \in Nat
  PROVE  Min({a, b}) = IF a <= b THEN a ELSE b
<1> DEFINE m == IF a <= b THEN a ELSE b
<1>1. m \in {a, b} /\ \A y \in {a, b} : m <= y
  OBVIOUS
<1>2. \A x \in {a, b} : (\A y \in {a, b} : x <= y) => x = m
  OBVIOUS
<1>3. Min({a, b}) = m
  BY <1>1, <1>2 DEF Min
<1> QED
  BY <1>3

(* The path of a file and how much of it GetDirectoryAtDepth() takes.      *)
Depth(f, d) == IF d <= Len(PathOf[f]) - 1 THEN d ELSE Len(PathOf[f]) - 1

LEMMA PathIs ==
  ASSUME NEW f \in File \ {Virtual}
  PROVE  /\ PathOf[f] \in Seq(ToSet(PathOf[f]))
         /\ Len(PathOf[f]) \in Nat \ {0}
         /\ DOMAIN PathOf[f] = 1..Len(PathOf[f])
<1>1. PathOf[f] # <<>> /\ PathOf[f] \in Seq(ToSet(PathOf[f]))
  BY ViewsAssumption
<1> DEFINE S == ToSet(PathOf[f])
           p == PathOf[f]
<1> HIDE DEF S, p
<1>2. p # <<>> /\ p \in Seq(S)
  BY <1>1 DEF S, p
<1>3. Len(p) \in Nat \ {0} /\ DOMAIN p = 1..Len(p)
  BY <1>2
<1> QED
  BY <1>2, <1>3 DEF S, p

LEMMA DirectoryIs ==
  ASSUME NEW f \in File \ {Virtual}, NEW d \in Nat
  PROVE  /\ GetDirectoryAtDepth(f, d) \in Seq(ToSet(PathOf[f]))
         /\ Depth(f, d) \in 0..d /\ Depth(f, d) <= Len(PathOf[f]) - 1
         /\ Len(GetDirectoryAtDepth(f, d)) = Depth(f, d)
         /\ \A i \in 1..Depth(f, d) : GetDirectoryAtDepth(f, d)[i] = PathOf[f][i]
<1> DEFINE p == PathOf[f]
           S == ToSet(p)
           k == Depth(f, d)
           m == SubSeq(p, 1, k)
<1>1. p \in Seq(S) /\ Len(p) \in Nat \ {0}
  BY PathIs
<1>2. k \in 0..d /\ k <= Len(p) - 1 /\ k \in Nat
  BY <1>1 DEF Depth
<1>3. Min({d, Len(p) - 1}) = k
  BY <1>1, LeastOfTwo DEF Depth
<1>4. GetDirectoryAtDepth(f, d) = m
  BY <1>3 DEF GetDirectoryAtDepth
<1> HIDE DEF p, S, k
<1>5. m \in Seq(S) /\ Len(m) = k /\ \A i \in 1..k : m[i] = p[i]
  BY <1>1, <1>2
<1> QED
  BY <1>2, <1>4, <1>5 DEF p, S, k

LEMMA PrefixIs ==
  ASSUME NEW A, NEW s \in Seq(A), NEW B, NEW t \in Seq(B)
  PROVE  /\ IsPrefix(s, t) <=> Len(s) <= Len(t) /\ \A i \in 1..Len(s) : s[i] = t[i]
         /\ IsPrefix(s, t) /\ Len(s) = Len(t) => s = t
<1>1. Len(s) \in Nat /\ Len(t) \in Nat
  OBVIOUS
<1>2. SubSeq(s, 1, Len(s)) = s
  OBVIOUS
<1>3. ASSUME Len(s) <= Len(t)
      PROVE  s = SubSeq(t, 1, Len(s)) <=> \A i \in 1..Len(s) : s[i] = t[i]
  <2> DEFINE u == SubSeq(t, 1, Len(s))
  <2>1. u \in Seq(B) /\ Len(u) = Len(s) /\ \A i \in 1..Len(s) : u[i] = t[i]
    BY <1>1, <1>3
  <2>2. s = u <=> \A i \in 1..Len(s) : s[i] = u[i]
    <3> HIDE DEF u
    <3>1. s = [i \in 1..Len(s) |-> s[i]] /\ u = [i \in 1..Len(s) |-> u[i]]
      BY <1>1, <2>1
    <3>2. (\A i \in 1..Len(s) : s[i] = u[i]) => s = u
      BY <3>1
    <3> QED
      BY <3>2
  <2> QED
    BY <2>1, <2>2
<1>4. IsPrefix(s, t) <=> Len(s) <= Len(t) /\ \A i \in 1..Len(s) : s[i] = t[i]
  BY <1>2, <1>3 DEF IsPrefix
<1>5. ASSUME IsPrefix(s, t), Len(s) = Len(t)
      PROVE  s = t
  <2>1. SubSeq(t, 1, Len(t)) = t
    OBVIOUS
  <2> QED
    BY <1>2, <1>5, <2>1 DEF IsPrefix
<1> QED
  BY <1>4, <1>5

(* What a matrix takes for the module of a node.                           *)
ModuleOf(g, n, d) == GetDirectoryAtDepth(g.node[n], d)

Located(g, n) == g.node[n] \in File \ {Virtual}

LEMMA ModuleIs ==
  ASSUME NEW g, Sound(g), NEW n \in NodesOf(g), NEW d \in Nat, ModuleOf(g, n, d) # <<>>
  PROVE  Located(g, n)
<1>1. g.node[n] \in File
  BY SoundFields DEF NodesOf, HasNode
<1>2. g.node[n] # Virtual
  BY DEF ModuleOf, GetDirectoryAtDepth
<1> QED
  BY <1>1, <1>2 DEF Located

(* The modules of two depths: one is a prefix of the other, and the same   *)
(* unless the coarser one is as deep as it may be.                         *)
LEMMA FinerModule ==
  ASSUME NEW f \in File \ {Virtual}, NEW d \in Nat \ {0}
  PROVE  /\ IsPrefix(GetDirectoryAtDepth(f, d), GetDirectoryAtDepth(f, d + 1))
         /\ GetDirectoryAtDepth(f, d) # <<>> => GetDirectoryAtDepth(f, d + 1) # <<>>
         /\ Len(GetDirectoryAtDepth(f, d)) < d =>
               GetDirectoryAtDepth(f, d + 1) = GetDirectoryAtDepth(f, d)
<1> DEFINE a == GetDirectoryAtDepth(f, d)
           b == GetDirectoryAtDepth(f, d + 1)
           p == PathOf[f]
           S == ToSet(p)
<1>1. Len(p) \in Nat \ {0}
  BY PathIs
<1>2. a \in Seq(S) /\ Len(a) = Depth(f, d) /\ \A i \in 1..Len(a) : a[i] = p[i]
  BY DirectoryIs
<1>3. b \in Seq(S) /\ Len(b) = Depth(f, d + 1) /\ \A i \in 1..Len(b) : b[i] = p[i]
  BY DirectoryIs
<1> HIDE DEF a, b, S
<1>4. Len(a) <= Len(b) /\ (Len(a) < d => Len(a) = Len(b))
  BY <1>1, <1>2, <1>3 DEF Depth
<1>5. IsPrefix(a, b)
  BY <1>2, <1>3, <1>4, PrefixIs
<1>6. a # <<>> => b # <<>>
  <2>1. a # <<>> => Len(a) # 0
    BY <1>2
  <2> QED
    BY <1>2, <1>3, <1>4, <2>1
<1>7. Len(a) < d => b = a
  BY <1>2, <1>3, <1>4, <1>5, PrefixIs
<1> QED
  BY <1>5, <1>6, <1>7 DEF a, b

LEMMA CoarserModule ==
  ASSUME NEW f \in File \ {Virtual}, NEW h \in File \ {Virtual}, NEW d \in Nat \ {0},
         NEW cell, cell = GetDirectoryAtDepth(h, d),
         IsPrefix(cell, GetDirectoryAtDepth(f, d + 1)),
         Len(cell) < d => GetDirectoryAtDepth(f, d + 1) = cell
  PROVE  GetDirectoryAtDepth(f, d) = cell
<1> DEFINE a == GetDirectoryAtDepth(f, d)
           b == GetDirectoryAtDepth(f, d + 1)
           p == PathOf[f]
           S == ToSet(p)
           R == ToSet(PathOf[h])
<1>1. Len(p) \in Nat \ {0}
  BY PathIs
<1>2. a \in Seq(S) /\ Len(a) = Depth(f, d) /\ \A i \in 1..Len(a) : a[i] = p[i]
  BY DirectoryIs
<1>3. b \in Seq(S) /\ Len(b) = Depth(f, d + 1) /\ \A i \in 1..Len(b) : b[i] = p[i]
  BY DirectoryIs
<1>4. cell \in Seq(R) /\ Len(cell) \in 0..d
  BY DirectoryIs
<1>5. IsPrefix(cell, b) /\ (Len(cell) < d => b = cell)
  OBVIOUS
<1> HIDE DEF a, b, S, R
<1>6. Len(cell) <= Len(b) /\ \A i \in 1..Len(cell) : cell[i] = b[i]
  BY <1>3, <1>4, <1>5, PrefixIs
<1>7. Len(a) = Len(cell)
  BY <1>1, <1>2, <1>3, <1>4, <1>5, <1>6 DEF Depth
<1>8. \A i \in 1..Len(cell) : cell[i] = a[i]
  BY <1>2, <1>3, <1>4, <1>6, <1>7
<1>9. IsPrefix(cell, a)
  BY <1>2, <1>4, <1>7, <1>8, PrefixIs
<1> QED
  BY <1>2, <1>4, <1>7, <1>9, PrefixIs DEF a

(* A module as deep as the matrix is a directory: its path is not that of  *)
(* a file, so that what is below it has it for its module.                 *)
LEMMA DirectoryBelow ==
  ASSUME NEW f \in File \ {Virtual}, NEW h \in File \ {Virtual}, NEW d \in Nat \ {0},
         NEW cell, cell = GetDirectoryAtDepth(h, d), Len(cell) = d
  PROVE  GetDirectoryAtDepth(f, d) = cell <=> IsPrefix(cell, PathOf[f])
<1> DEFINE a == GetDirectoryAtDepth(f, d)
           p == PathOf[f]
           q == PathOf[h]
           S == ToSet(p)
           R == ToSet(q)
<1>1. p \in Seq(S) /\ Len(p) \in Nat \ {0} /\ q \in Seq(R) /\ Len(q) \in Nat \ {0}
  BY PathIs
<1>2. a \in Seq(S) /\ Len(a) = Depth(f, d) /\ \A i \in 1..Len(a) : a[i] = p[i]
  BY DirectoryIs
<1>3. cell \in Seq(R) /\ d = Depth(h, d) /\ Depth(h, d) <= Len(q) - 1
      /\ \A i \in 1..d : cell[i] = q[i]
  <2> DEFINE c == GetDirectoryAtDepth(h, d)
  <2>1. c \in Seq(R) /\ Len(c) = Depth(h, d) /\ Depth(h, d) <= Len(q) - 1
        /\ \A i \in 1..Depth(h, d) : c[i] = q[i]
    BY DirectoryIs
  <2> HIDE DEF c, R, q
  <2>2. c = cell
    BY DEF c
  <2> QED
    BY <2>1, <2>2
<1>4. IsPrefix(p, q) => p = q
  BY ViewsAssumption
<1> HIDE DEF a, p, q, S, R
<1>5. ASSUME a = cell
      PROVE  IsPrefix(cell, p)
  <2>1. Len(cell) = Len(a) /\ Len(a) <= Len(p)
    BY <1>1, <1>2, <1>5 DEF Depth, p
  <2>2. \A i \in 1..Len(cell) : cell[i] = p[i]
    BY <1>2, <1>5
  <2> QED
    BY <1>1, <1>3, <2>1, <2>2, PrefixIs
<1>6. ASSUME IsPrefix(cell, p)
      PROVE  a = cell
  <2>1. d <= Len(p) /\ \A i \in 1..d : cell[i] = p[i]
    BY <1>1, <1>3, <1>6, PrefixIs
  <2>2. Len(p) # d
    <3> SUFFICES ASSUME Len(p) = d
                 PROVE  FALSE
      OBVIOUS
    <3>1. Len(p) <= Len(q) /\ \A i \in 1..Len(p) : p[i] = q[i]
      BY <1>1, <1>3, <2>1
    <3>2. IsPrefix(p, q)
      BY <1>1, <3>1, PrefixIs
    <3>3. Len(q) = d
      BY <1>4, <3>2
    <3> QED
      BY <1>1, <1>3, <3>3
  <2>3. Depth(f, d) = d
    BY <1>1, <2>1, <2>2 DEF Depth, p
  <2>4. \A i \in 1..Len(cell) : cell[i] = a[i]
    BY <1>2, <2>1, <2>3
  <2>5. Len(cell) = Len(a) /\ Len(cell) <= Len(a)
    BY <1>2, <2>3
  <2>6. IsPrefix(cell, a)
    BY <1>2, <1>3, <2>4, <2>5, PrefixIs
  <2> QED
    BY <1>2, <1>3, <2>5, <2>6, PrefixIs
<1> QED
  BY <1>5, <1>6 DEF a, p

(* The matrix: its cells, and what is counted in each.                     *)
Modules(g, d) == {ModuleOf(g, n, d) : n \in NodesOf(g)} \ {<<>>}

Between(g, d, from, to) ==
    {e \in EdgesWithin(g, NodesOf(g)) :
        ModuleOf(g, Src[e], d) = from /\ ModuleOf(g, g.target[e], d) = to}

LEMMA MatrixIs ==
  ASSUME NEW g, NEW d
  PROVE  /\ DOMAIN GetMatrixData(g, d) = Modules(g, d) \X Modules(g, d)
         /\ \A cell \in Modules(g, d) \X Modules(g, d) :
               GetMatrixData(g, d)[cell] = Between(g, d, cell[1], cell[2])
<1> DEFINE module == [n \in NodesOf(g) |-> GetDirectoryAtDepth(g.node[n], d)]
           modules == {module[n] : n \in NodesOf(g)} \ {<<>>}
           within == EdgesWithin(g, NodesOf(g))
           counted(cell) == {e \in within : module[Src[e]] = cell[1]
                                             /\ module[g.target[e]] = cell[2]}
<1>1. GetMatrixData(g, d) = [cell \in modules \X modules |-> counted(cell)]
  BY DEF GetMatrixData
<1>2. \A n \in NodesOf(g) : module[n] = ModuleOf(g, n, d)
  BY DEF ModuleOf
<1> HIDE DEF module
<1>3. modules = Modules(g, d)
  BY <1>2 DEF Modules
<1>4. \A e \in within : Src[e] \in NodesOf(g) /\ g.target[e] \in NodesOf(g)
  BY DEF EdgesWithin
<1>5. \A cell : counted(cell) = Between(g, d, cell[1], cell[2])
  BY <1>2, <1>4 DEF Between
<1> HIDE DEF modules, counted
<1> QED
  BY <1>1, <1>3, <1>5

LEMMA DrillDownAddsIn ==
  ASSUME OfProject(graph)
  PROVE  DrillDownAdds
<1> DEFINE g == graph
           N == NodesOf(g)
           within == EdgesWithin(g, N)
           overview == GetOverview(g)
           matrix == [depth \in 1..3 |-> GetMatrixData(g, depth)]
           finer(depth, cell) == {c \in DOMAIN matrix[depth + 1] :
                            IsPrefix(cell[1], c[1]) /\ IsPrefix(cell[2], c[2])
                            /\ \A i \in 1..2 : Len(cell[i]) < depth => c[i] = cell[i]}
<1>1. \A s \in DOMAIN overview :
         LET sub == GetServiceGraph(g, s) IN
         /\ overview[s].nodeCount = Cardinality(sub.nodes)
         /\ overview[s].edgeCount = Cardinality(sub.edges)
  <2> SUFFICES ASSUME NEW s \in DOMAIN overview
               PROVE  LET sub == GetServiceGraph(g, s) IN
                      /\ overview[s].nodeCount = Cardinality(sub.nodes)
                      /\ overview[s].edgeCount = Cardinality(sub.edges)
    OBVIOUS
  <2> DEFINE S == OfService(g, s)
             counted == {e \in EdgesOf(g) :
                            Src[e] \in NodesOf(g) /\ g.target[e] \in NodesOf(g)
                            /\ ServiceKey(Src[e]) = s /\ ServiceKey(g.target[e]) = s}
  <2>1. /\ overview[s].nodeCount = Cardinality(S)
        /\ overview[s].edgeCount = Cardinality(counted)
    BY DEF GetOverview
  <2>2. GetServiceGraph(g, s).nodes = S /\ GetServiceGraph(g, s).edges = EdgesWithin(g, S)
    BY DEF GetServiceGraph, SubgraphFromNodes
  <2>3. counted = EdgesWithin(g, S)
    BY DEF EdgesWithin, OfService
  <2> QED
    BY <2>1, <2>2, <2>3
<1>2. \A e \in within :
         (\E s \in DOMAIN overview : e \in GetServiceGraph(g, s).edges)
             <=> ServiceKey(Src[e]) = ServiceKey(g.target[e])
  <2>1. DOMAIN overview = {ServiceKey(n) : n \in N}
    BY DEF GetOverview
  <2>2. \A s : GetServiceGraph(g, s).edges = EdgesWithin(g, OfService(g, s))
    BY DEF GetServiceGraph, SubgraphFromNodes
  <2>3. \A s, e : e \in EdgesWithin(g, OfService(g, s)) <=>
           e \in within /\ ServiceKey(Src[e]) = s /\ ServiceKey(g.target[e]) = s
    BY DEF EdgesWithin, OfService
  <2>4. \A e \in within : Src[e] \in N /\ g.target[e] \in N
    BY DEF EdgesWithin
  <2> HIDE DEF overview, within, N
  <2> QED
    BY <2>1, <2>2, <2>3, <2>4
<1>3. /\ DOMAIN matrix = 1..3
      /\ \A d \in 1..3 : /\ DOMAIN matrix[d] = Modules(g, d) \X Modules(g, d)
                        /\ \A cell \in DOMAIN matrix[d] :
                              matrix[d][cell] = Between(g, d, cell[1], cell[2])
  BY MatrixIs
<1>4. ASSUME NEW n \in N, NEW d \in Nat, ModuleOf(g, n, d) # <<>>
      PROVE  g.node[n] \in File \ {Virtual}
  BY <1>4, ModuleIs DEF Located, OfProject
<1>5. \A e \in within : e \in EdgesOf(g) /\ Src[e] \in N /\ g.target[e] \in N
  BY DEF EdgesWithin
<1> HIDE DEF matrix, overview
<1>6. ASSUME NEW depth \in 1..2, NEW cell \in DOMAIN matrix[depth]
      PROVE  matrix[depth][cell] = UNION {matrix[depth + 1][c] : c \in finer(depth, cell)}
  <2> DEFINE M == Modules(g, depth)
             F == Modules(g, depth + 1)
  <2>1. depth \in Nat \ {0} /\ depth \in 1..3 /\ depth + 1 \in 1..3
    OBVIOUS
  <2>2. cell \in M \X M /\ DOMAIN matrix[depth + 1] = F \X F
    BY <1>3, <2>1
  <2>3. /\ matrix[depth][cell] = Between(g, depth, cell[1], cell[2])
        /\ \A c \in F \X F : matrix[depth + 1][c] = Between(g, depth + 1, c[1], c[2])
    BY <1>3, <2>1, <2>2
  <2>4. ASSUME NEW n \in N, ModuleOf(g, n, depth) \in M
        PROVE  /\ ModuleOf(g, n, depth + 1) \in F
               /\ IsPrefix(ModuleOf(g, n, depth), ModuleOf(g, n, depth + 1))
               /\ Len(ModuleOf(g, n, depth)) < depth =>
                     ModuleOf(g, n, depth + 1) = ModuleOf(g, n, depth)
    <3>1. ModuleOf(g, n, depth) # <<>>
      BY <2>4 DEF Modules
    <3>2. g.node[n] \in File \ {Virtual}
      BY <1>4, <2>1, <3>1
    <3>3. /\ IsPrefix(ModuleOf(g, n, depth), ModuleOf(g, n, depth + 1))
          /\ ModuleOf(g, n, depth + 1) # <<>>
          /\ Len(ModuleOf(g, n, depth)) < depth =>
                     ModuleOf(g, n, depth + 1) = ModuleOf(g, n, depth)
      BY <2>1, <3>1, <3>2, FinerModule DEF ModuleOf
    <3> QED
      BY <3>3 DEF Modules
  <2>5. ASSUME NEW n \in N, NEW part \in M, ModuleOf(g, n, depth + 1) \in F,
               IsPrefix(part, ModuleOf(g, n, depth + 1)),
               Len(part) < depth => ModuleOf(g, n, depth + 1) = part
        PROVE  ModuleOf(g, n, depth) = part
    <3>1. ModuleOf(g, n, depth + 1) # <<>>
      BY <2>5 DEF Modules
    <3>2. g.node[n] \in File \ {Virtual}
      BY <1>4, <2>1, <3>1
    <3>3. PICK m \in N : part = ModuleOf(g, m, depth) /\ part # <<>>
      BY DEF Modules
    <3>4. g.node[m] \in File \ {Virtual}
      BY <1>4, <2>1, <3>3
    <3> QED
      BY <2>1, <2>5, <3>2, <3>3, <3>4, CoarserModule DEF ModuleOf
  <2>6. \A d, from, to, e : e \in Between(g, d, from, to) <=>
           e \in within /\ ModuleOf(g, Src[e], d) = from /\ ModuleOf(g, g.target[e], d) = to
    BY DEF Between
  <2> HIDE DEF M, F, within, N
  <2>7. ASSUME NEW e \in matrix[depth][cell]
        PROVE  \E c \in finer(depth, cell) : e \in matrix[depth + 1][c]
    <3> DEFINE from == ModuleOf(g, Src[e], depth + 1)
               to == ModuleOf(g, g.target[e], depth + 1)
               c == <<from, to>>
    <3>1. e \in within /\ ModuleOf(g, Src[e], depth) = cell[1]
          /\ ModuleOf(g, g.target[e], depth) = cell[2]
      BY <2>3, <2>6
    <3>2. from \in F /\ IsPrefix(cell[1], from) /\ (Len(cell[1]) < depth => from = cell[1])
      BY <1>5, <2>2, <2>4, <3>1
    <3>3. to \in F /\ IsPrefix(cell[2], to) /\ (Len(cell[2]) < depth => to = cell[2])
      BY <1>5, <2>2, <2>4, <3>1
    <3>4. e \in Between(g, depth + 1, from, to)
      BY <2>6, <3>1
    <3> HIDE DEF from, to
    <3>5. c \in F \X F /\ c[1] = from /\ c[2] = to
      BY <3>2, <3>3
    <3> HIDE DEF c
    <3>6. \A i \in 1..2 : Len(cell[i]) < depth => c[i] = cell[i]
      BY <3>2, <3>3, <3>5
    <3>7. c \in finer(depth, cell)
      BY <2>2, <3>2, <3>3, <3>5, <3>6
    <3>8. e \in matrix[depth + 1][c]
      BY <2>3, <3>4, <3>5
    <3> QED
      BY <3>7, <3>8
  <2>8. ASSUME NEW c \in finer(depth, cell), NEW e \in matrix[depth + 1][c]
        PROVE  e \in matrix[depth][cell]
    <3>1. /\ c \in F \X F /\ IsPrefix(cell[1], c[1]) /\ IsPrefix(cell[2], c[2])
          /\ Len(cell[1]) < depth => c[1] = cell[1]
          /\ Len(cell[2]) < depth => c[2] = cell[2]
      BY <2>2
    <3> HIDE DEF finer
    <3>2. e \in within /\ ModuleOf(g, Src[e], depth + 1) = c[1]
          /\ ModuleOf(g, g.target[e], depth + 1) = c[2]
      BY <2>3, <2>6, <3>1
    <3>3. ModuleOf(g, Src[e], depth) = cell[1]
      BY <1>5, <2>2, <2>5, <3>1, <3>2
    <3>4. ModuleOf(g, g.target[e], depth) = cell[2]
      BY <1>5, <2>2, <2>5, <3>1, <3>2
    <3> QED
      BY <2>3, <2>6, <3>2, <3>3, <3>4
  <2> HIDE DEF finer
  <2> QED
    BY <2>7, <2>8
<1>7. ASSUME NEW depth \in 1..3, NEW cell \in DOMAIN matrix[depth],
             cell[1] = cell[2], Len(cell[1]) = depth
      PROVE  matrix[depth][cell] = GetDirectoryGraph(g, cell[1]).edges
  <2> DEFINE path == cell[1]
             below == {n \in N : g.node[n] # Virtual /\ IsPrefix(path, PathOf[g.node[n]])}
  <2>1. matrix[depth][cell] = Between(g, depth, path, path)
        /\ path \in Modules(g, depth)
    BY <1>3, <1>7
  <2>2. PICK m \in N : path = ModuleOf(g, m, depth) /\ path # <<>>
    BY <2>1 DEF Modules
  <2>3. g.node[m] \in File \ {Virtual} /\ depth \in Nat \ {0}
    BY <1>4, <2>2
  <2>4. GetDirectoryGraph(g, path).edges = EdgesWithin(g, below)
    BY DEF GetDirectoryGraph, SubgraphFromNodes
  <2>5. ASSUME NEW n \in N
        PROVE  ModuleOf(g, n, depth) = path <=> n \in below
    <3>1. ASSUME g.node[n] # Virtual
          PROVE  g.node[n] \in File \ {Virtual}
      BY <3>1, SoundFields DEF OfProject, NodesOf, HasNode
    <3>2. ASSUME g.node[n] \in File \ {Virtual}
          PROVE  ModuleOf(g, n, depth) = path <=> IsPrefix(path, PathOf[g.node[n]])
      BY <1>7, <2>2, <2>3, <3>2, DirectoryBelow DEF ModuleOf
    <3>3. ModuleOf(g, n, depth) = path => g.node[n] # Virtual
      BY <1>4, <2>2, <2>3
    <3> HIDE DEF path
    <3> QED
      BY <3>1, <3>2, <3>3
  <2>6. \A e : e \in Between(g, depth, path, path) <=>
           e \in within /\ ModuleOf(g, Src[e], depth) = path /\ ModuleOf(g, g.target[e], depth) = path
    BY DEF Between
  <2>7. \A e : e \in EdgesWithin(g, below) <=>
           e \in EdgesOf(g) /\ Src[e] \in below /\ g.target[e] \in below
    BY DEF EdgesWithin
  <2>8. below \subseteq N
    OBVIOUS
  <2>9. \A e : e \in within <=> e \in EdgesOf(g) /\ Src[e] \in N /\ g.target[e] \in N
    BY DEF EdgesWithin
  <2> HIDE DEF below, within, path, N
  <2>10. Between(g, depth, path, path) = EdgesWithin(g, below)
    BY <2>5, <2>6, <2>7, <2>8, <2>9
  <2> QED
    BY <2>1, <2>4, <2>10 DEF path
<1> QED
  BY <1>1, <1>2, <1>6, <1>7 DEF DrillDownAdds, matrix, overview

(* A walk does not leave what is closed.                                   *)
LEMMA WalkWithin ==
  ASSUME NEW g, Sound(g), NEW from \in SUBSET NodeId, NEW W, from \subseteq W,
         \A n \in W : Followed(g, n) \subseteq W
  PROVE  Walk(g, from, {}) \subseteq W
<1> DEFINE a == Walking(g, from, {})
           V == Walk(g, from, {})
           T == {k \in Nat : a[k] \subseteq W}
<1>1. Fills(g, from, {}, a, V)
  BY WalkGrows
<1> HIDE DEF a, V
<1>2. a[0] = from /\ V = a[Unlimited]
  BY <1>1 DEF Fills, Walks
<1>3. \A k \in Nat : \A m : m \in a[k + 1] <=>
         m \in a[k] \/ (m \notin {} /\ \E n \in a[k] : m \in Followed(g, n))
  BY <1>1 DEF Fills, Walks
<1>4. 0 \in T /\ \A k \in Nat : k \in T => k + 1 \in T
  BY <1>2, <1>3
<1>5. Nat \subseteq T
  <2> HIDE DEF T
  <2> QED
    BY <1>4, AllNaturals
<1> QED
  BY <1>2, <1>5, UnlimitedIs DEF V

(* What a walk comes to, it could not leave.                               *)
LEMMA WalkClosed ==
  ASSUME NEW g, Sound(g), NEW from \in SUBSET NodeId, NEW shut
  PROVE  /\ from \subseteq Walk(g, from, shut)
         /\ \A n \in Walk(g, from, shut) : Followed(g, n) \ shut \subseteq Walk(g, from, shut)
<1> DEFINE a == Walking(g, from, shut)
           W == Walk(g, from, shut)
<1>1. Fills(g, from, shut, a, W)
  BY WalkGrows
<1> HIDE DEF a, W
<1>2. 0 \in 0..Unlimited
  BY UnlimitedIs
<1>3. from \subseteq W /\ \A n \in W : Followed(g, n) \ shut \subseteq W
  BY <1>1, <1>2 DEF Fills, Walks
<1> QED
  BY <1>3 DEF W

(* The file index of a project is exact.                                   *)
LEMMA NodesOfFile ==
  ASSUME NEW g, OfProject(g), NEW f \in File \ {Virtual}
  PROVE  GetNodesByFile(g, f) = NodesByFile(g, f) /\ NodesByFile(g, f) \in SUBSET NodeId
<1>1. g.fileIndex[f] \in SUBSET NodeId /\ FileIndexed(g)
  BY SoundFields DEF OfProject, Sound
<1>2. g.fileIndex[f] \subseteq {n \in DOMAIN FileOf : FileOf[n] = f}
  BY DEF OfProject
<1>3. ASSUME NEW n \in g.fileIndex[f], HasNode(g, n)
      PROVE  g.node[n] = f
  BY <1>1, <1>2, <1>3 DEF OfProject, Home
<1>4. ASSUME NEW n \in NodeId, HasNode(g, n), g.node[n] = f
      PROVE  n \in g.fileIndex[f]
  BY <1>1, <1>4 DEF FileIndexed
<1> QED
  BY <1>1, <1>3, <1>4 DEF GetNodesByFile, NodesByFile, NodesOf

LEMMA FeaturesWholeIn ==
  ASSUME OfProject(graph)
  PROVE  FeaturesWhole
<1> DEFINE g == graph
           N == NodesOf(g)
           C == CollectEntrypoints(g)
           A == Walk(g, C, {})
           T(f) == NodesByFile(g, f)
           S(f) == Walk(g, T(f), {})
           slice == [f \in File \ {Virtual} |-> GetFeatureSlice(g, f).nodes]
           shared == GetFeatureIntersections(g)
<1>1. Sound(g) /\ C \in SUBSET NodeId
  BY EntrypointsAre DEF OfProject
<1>2. A = ReachableFromEntrypoints(g, C)
  BY DEF ReachableFromEntrypoints
<1>3. \A f \in File \ {Virtual} : GetFeatureSlice(g, f).nodes = S(f) \cap N
  BY NodesOfFile DEF GetFeatureSlice, ReachableFromEntrypoints
<1>4. \A f \in File \ {Virtual} : T(f) \in SUBSET NodeId
  BY NodesOfFile
<1>5. \A f \in File \ {Virtual} : T(f) \subseteq S(f) /\ \A n \in S(f) : Followed(g, n) \subseteq S(f)
  <2> SUFFICES ASSUME NEW f \in File \ {Virtual}
               PROVE  T(f) \subseteq S(f) /\ \A n \in S(f) : Followed(g, n) \subseteq S(f)
    OBVIOUS
  <2>1. T(f) \in SUBSET NodeId
    BY <1>4
  <2> HIDE DEF T
  <2>2. T(f) \subseteq S(f) /\ \A n \in S(f) : Followed(g, n) \ {} \subseteq S(f)
    BY <1>1, <2>1, WalkClosed
  <2> QED
    BY <2>2
<1>6. \A n \in A : Followed(g, n) \subseteq A
  <2>1. \A n \in A : Followed(g, n) \ {} \subseteq A
    BY <1>1, WalkClosed
  <2> QED
    BY <2>1
<1> HIDE DEF C
<1>7. ASSUME NEW f \in File \ {Virtual}
      PROVE  WouldGoDead(g, f) \subseteq S(f)
  <2> DEFINE W == Walk(g, C \ T(f), T(f))
  <2>1. WouldGoDead(g, f) = (A \ T(f)) \ W
    BY DEF WouldGoDead, ReachableFromEntrypoints, C
  <2>2. T(f) \in SUBSET NodeId /\ C \ T(f) \in SUBSET NodeId
    BY <1>1, <1>4
  <2>3. C \ T(f) \subseteq W /\ \A n \in W : Followed(g, n) \ T(f) \subseteq W
    BY <1>1, <2>2, WalkClosed
  <2>4. T(f) \subseteq S(f) /\ \A n \in S(f) : Followed(g, n) \subseteq S(f)
    BY <1>5
  <2> HIDE DEF W, T, S
  <2>5. C \subseteq W \cup S(f) /\ \A n \in W \cup S(f) : Followed(g, n) \subseteq W \cup S(f)
    BY <2>3, <2>4
  <2>6. A \subseteq W \cup S(f)
    BY <1>1, <2>5, WalkWithin
  <2> QED
    BY <2>1, <2>6
<1>8. ASSUME NEW f \in File \ {Virtual}, T(f) \subseteq A
      PROVE  S(f) \subseteq A
  <2>1. T(f) \in SUBSET NodeId
    BY <1>4
  <2> HIDE DEF A, T
  <2> QED
    BY <1>1, <1>6, <1>8, <2>1, WalkWithin
<1>9. ASSUME NEW p \in DOMAIN shared, T(p[2]) \subseteq slice[p[1]]
      PROVE  shared[p] = slice[p[2]]
  <2> DEFINE both(q) == GetFeatureSlice(g, q[1]).nodes \cap GetFeatureSlice(g, q[2]).nodes
  <2>1. p \in Features \X Features /\ shared[p] = both(p)
    BY DEF GetFeatureIntersections
  <2>2. p[1] \in File \ {Virtual} /\ p[2] \in File \ {Virtual}
    BY <2>1, ViewsAssumption
  <2>3. slice[p[1]] = S(p[1]) \cap N /\ slice[p[2]] = S(p[2]) \cap N
        /\ shared[p] = (S(p[1]) \cap N) \cap (S(p[2]) \cap N)
    BY <1>3, <2>1, <2>2
  <2>4. T(p[2]) \in SUBSET NodeId /\ T(p[2]) \subseteq S(p[1])
        /\ \A n \in S(p[1]) : Followed(g, n) \subseteq S(p[1])
    BY <1>4, <1>5, <1>9, <2>2, <2>3
  <2> HIDE DEF T, slice, shared, both
  <2>5. S(p[2]) \subseteq S(p[1])
    <3> DEFINE W == S(p[1])
    <3> HIDE DEF W
    <3>1. T(p[2]) \in SUBSET NodeId /\ T(p[2]) \subseteq W /\ \A n \in W : Followed(g, n) \subseteq W
      BY <2>4 DEF W
    <3>2. Walk(g, T(p[2]), {}) \subseteq W
      BY <1>1, <3>1, WalkWithin
    <3> QED
      BY <3>2 DEF W
  <2> QED
    BY <2>3, <2>5
<1>10. FindDeadNodes(g) \cap A = {}
  BY <1>2 DEF FindDeadNodes, C
<1>11. \A f \in File \ {Virtual} : slice[f] = S(f) \cap N
  BY <1>3
<1> HIDE DEF shared, slice, A, S, T, N
<1>12. \A f \in File \ {Virtual} :
          /\ WouldGoDead(g, f) \cap N \subseteq slice[f]
          /\ T(f) \subseteq A => slice[f] \cap FindDeadNodes(g) = {}
  BY <1>7, <1>8, <1>10, <1>11
<1> QED
  BY <1>2, <1>9, <1>12 DEF FeaturesWhole, slice, shared, N, T, C

---------------------------------------------------------------------------
(* The layers.  Where a kind is of one layer, the layer of a node is the   *)
(* one whose kinds have its kind, so that an edge a compiled rule reports  *)
(* is an edge of the cells the rule is about.                              *)

LEMMA GreatestIs ==
  ASSUME NEW S \in SUBSET Nat, IsFiniteSet(S), S # {}
  PROVE  Max(S) \in S /\ \A i \in S : i <= Max(S)
<1> DEFINE T == {s \in SUBSET S : s # {} => \E m \in s : \A j \in s : m >= j}
<1>1. ASSUME NEW s \in SUBSET S, \A x \in s : s \ {x} \in T
      PROVE  s \in T
  <2> SUFFICES ASSUME NEW x \in s
               PROVE  \E m \in s : \A j \in s : m >= j
    OBVIOUS
  <2>1. CASE s \ {x} = {}
    <3>1. \A j \in s : x >= j
      BY <2>1
    <3> QED
      BY <3>1
  <2>2. CASE s \ {x} # {}
    <3>1. PICK m \in s \ {x} : \A j \in s \ {x} : m >= j
      BY <1>1, <2>2
    <3>2. CASE m >= x
      <4>1. \A j \in s : m >= j
        BY <3>1, <3>2
      <4> QED
        BY <4>1
    <3>3. CASE x > m
      <4>1. \A j \in s : x >= j
        BY <3>1, <3>3
      <4> QED
        BY <4>1
    <3> QED
      BY <3>2, <3>3
  <2> QED
    BY <2>1, <2>2
<1>2. S \in T
  <2> HIDE DEF T
  <2>1. Hereditary(T, S)
    BY <1>1 DEF Hereditary
  <2>2. (SUBSET S) \subseteq T
    BY Zenon, <2>1, AllSubsets
  <2> QED
    BY <2>2
<1>3. \E m \in S : \A j \in S : m >= j
  BY <1>2
<1>4. Max(S) \in S /\ \A j \in S : Max(S) >= j
  BY <1>3 DEF Max
<1> QED
  BY <1>4

LEMMA LayersIndexed == DOMAIN Layers = 1..Len(Layers) /\ Len(Layers) \in Nat
<1> DEFINE R == {Layers[i] : i \in DOMAIN Layers}
<1>1. Layers \in Seq(R)
  BY LayersAssumption
<1> HIDE DEF R
<1> QED
  BY <1>1

LEMMA LayerNamedIn ==
  ASSUME NEW name \in LayerNames
  PROVE  \E i \in DOMAIN Layers : Layers[i].name = name /\ LayerNamed(name) = Layers[i]
<1> DEFINE I == {i \in DOMAIN Layers : Layers[i].name = name}
<1>1. I \in SUBSET Nat /\ I # {} /\ I \subseteq 1..Len(Layers)
  BY LayersIndexed DEF LayerNames
<1>2. IsFiniteSet(I)
  <2>1. IsFiniteSet(1..Len(Layers))
    BY LayersIndexed, FS_Interval
  <2> HIDE DEF I
  <2> QED
    BY <1>1, <2>1, FS_Subset
<1>3. LayerNamed(name) = Layers[Max(I)]
  BY DEF LayerNamed
<1>4. Max(I) \in I
  <2> HIDE DEF I
  <2> QED
    BY <1>1, <1>2, GreatestIs
<1> QED
  BY <1>3, <1>4

LEMMA OfOneLayerIs ==
  ASSUME NEW n, OfOneLayer(n)
  PROVE  /\ LayerOf(n) \in LayerNames
         /\ \A name \in LayerNames :
               NodeKind[n] \in LayerNamed(name).match <=> name = LayerOf(n)
<1> DEFINE I == {i \in 1..Len(Layers) : NodeKind[n] \in Layers[i].match}
           w == SelectInSeq(Layers, LAMBDA l : NodeKind[n] \in l.match)
<1>1. w = IF I # {} THEN Min(I) ELSE 0
  BY DEF SelectInSeq
<1>2. LayerOf(n) = IF w = 0 THEN Absent ELSE Layers[w].name
  BY DEF LayerOf
<1> HIDE DEF w
<1>3. PICK i \in DOMAIN Layers :
         /\ {j \in DOMAIN Layers : NodeKind[n] \in Layers[j].match} = {i}
         /\ {j \in DOMAIN Layers : Layers[j].name = Layers[i].name} = {i}
  BY DEF OfOneLayer
<1>4. I = {i} /\ i \in 1..Len(Layers) /\ i \in Nat /\ i # 0
  BY <1>3, LayersIndexed
<1>5. Min(I) = i
  <2>1. \A x \in I : (\A y \in I : x <= y) => x = i
    BY <1>4
  <2>2. i \in I /\ \A y \in I : i <= y
    BY <1>4
  <2> HIDE DEF I
  <2> QED
    BY <2>1, <2>2 DEF Min
<1>6. LayerOf(n) = Layers[i].name
  BY <1>1, <1>2, <1>4, <1>5
<1>7. ASSUME NEW name \in LayerNames
      PROVE  NodeKind[n] \in LayerNamed(name).match <=> name = LayerOf(n)
  <2>1. PICK k \in DOMAIN Layers : Layers[k].name = name /\ LayerNamed(name) = Layers[k]
    BY LayerNamedIn
  <2>2. NodeKind[n] \in Layers[k].match <=> k = i
    BY <1>3
  <2>3. Layers[k].name = Layers[i].name <=> k = i
    BY <1>3
  <2> QED
    BY <1>6, <2>1, <2>2, <2>3
<1> QED
  BY <1>3, <1>6, <1>7 DEF LayerNames

(* What a layer rule says of an edge by the layers of its ends.            *)
Judges(g, lr, e) ==
    /\ LayerOf(Src[e]) = lr.from
    /\ IF lr.policy = "deny" THEN LayerOf(g.target[e]) = lr.to ELSE LayerOf(g.target[e]) # lr.to

Comparable(g) ==
    {e \in EdgesWithin(g, NodesOf(g)) :
        /\ OfOneLayer(Src[e]) /\ OfOneLayer(g.target[e])
        /\ Unconditional(g.target[e])}

ReportedByLayers(g, lr) ==
    UNION {v.edges : v \in UNION {CheckLayerRule(g, r) : r \in MergeWithLayerRules({}, {lr})}}

LEMMA EdgesReported ==
  ASSUME NEW g, NEW r, NEW D, NEW found,
         \A v : v \in found <=> \E e \in D : v = Violation(r, <<Src[e], g.target[e]>>, {e})
  PROVE  UNION {v.edges : v \in found} = D
<1>1. \A e : Violation(r, <<Src[e], g.target[e]>>, {e}).edges = {e}
  BY DEF Violation
<1>2. \A x : x \in UNION {v.edges : v \in found} <=> \E v \in found : x \in v.edges
  OBVIOUS
<1>3. ASSUME NEW x, NEW v \in found, x \in v.edges
      PROVE  x \in D
  <2>1. PICK e \in D : v = Violation(r, <<Src[e], g.target[e]>>, {e})
    OBVIOUS
  <2> QED
    BY <1>1, <1>3, <2>1
<1>4. ASSUME NEW x \in D
      PROVE  \E v \in found : x \in v.edges
  <2> DEFINE v == Violation(r, <<Src[x], g.target[x]>>, {x})
  <2>1. v \in found
    OBVIOUS
  <2>2. v.edges = {x}
    BY <1>1
  <2> HIDE DEF v
  <2> QED
    BY <2>1, <2>2
<1> QED
  BY <1>2, <1>3, <1>4

LEMMA CompiledIs ==
  ASSUME NEW g, Sound(g), NEW lr \in Enforced, NEW e \in Comparable(g)
  PROVE  /\ e \in ReportedByLayers(g, lr) => Judges(g, lr, e)
         /\ Unconditional(Src[e]) /\ Judges(g, lr, e) => e \in ReportedByLayers(g, lr)
<1> DEFINE from == LayerNamed(lr.from)
           to == LayerNamed(lr.to)
           r == Compile(lr)
           known == {l \in {lr} : {l.from, l.to} \subseteq LayerNames}
           user == {TupleKey(u) : u \in {}}
           kept == {l \in known : TupleKey(Compile(l)) \notin user}
<1>1. MergeWithLayerRules({}, {lr}) = {r}
  <2>1. lr.from \in LayerNames /\ lr.to \in LayerNames
    BY DEF Enforced
  <2>2. kept = {lr}
    BY <2>1
  <2>3. CompileLayerRules({lr}, {}).rules = {Compile(l) : l \in kept}
    BY DEF CompileLayerRules
  <2> HIDE DEF kept
  <2> QED
    BY <2>2, <2>3 DEF MergeWithLayerRules
<1>2. /\ lr.from \in LayerNames /\ lr.to \in LayerNames /\ lr.policy \in {"deny", "allow-only"}
      /\ to.match # {}
  BY LayersAssumption DEF Enforced
<1>3. /\ NodeKind[Src[e]] \in from.match <=> LayerOf(Src[e]) = lr.from
      /\ NodeKind[g.target[e]] \in to.match <=> LayerOf(g.target[e]) = lr.to
  BY <1>2, OfOneLayerIs DEF Comparable
<1>4. /\ e \in EdgesOf(g) /\ HasNode(g, Src[e]) /\ HasNode(g, g.target[e])
      /\ Src[e] \in NodeId /\ g.target[e] \in NodeId
  BY EdgeEnds DEF EdgesOf, NodesOf, Comparable, EdgesWithin
<1>5. /\ r.type = (IF lr.policy = "deny" THEN "deny-direct" ELSE "allow-only")
      /\ r.from = from.match /\ r.fromWhere = from.where /\ r.toWhere = to.where
      /\ r.to = (IF lr.policy = "deny" THEN to.match ELSE {})
      /\ r.allowed = (IF lr.policy = "deny" THEN {} ELSE to.match)
      /\ r.edgeKinds = {}
  BY DEF Compile
<1>6. /\ LayerOf(g.target[e]) = lr.to => to.where = NodeId
      /\ Unconditional(Src[e]) /\ LayerOf(Src[e]) = lr.from => from.where = NodeId
  BY DEF Comparable, Unconditional
<1> HIDE DEF r, from, to
<1>7. \A d : Applies(r, d)
  BY <1>5 DEF Applies
<1>8. CASE lr.policy = "deny"
  <2> DEFINE D == {d \in EdgesOf(g) :
                  /\ Applies(r, d) /\ HasNode(g, Src[d]) /\ HasNode(g, g.target[d])
                  /\ NodeKind[Src[d]] \in r.from /\ NodeKind[g.target[d]] \in r.to
                  /\ Src[d] \in r.fromWhere /\ g.target[d] \in r.toWhere}
  <2>1. CheckLayerRule(g, r) = {Violation(r, <<Src[d], g.target[d]>>, {d}) : d \in D}
    BY <1>5, <1>8 DEF CheckLayerRule, CheckDenyDirect
  <2>2. /\ e \in D => Judges(g, lr, e)
        /\ Unconditional(Src[e]) /\ Judges(g, lr, e) => e \in D
    BY <1>3, <1>4, <1>5, <1>6, <1>7, <1>8 DEF Judges
  <2> HIDE DEF D
  <2>3. UNION {v.edges : v \in CheckLayerRule(g, r)} = D
    <3>1. \A v : v \in CheckLayerRule(g, r) <=>
             \E d \in D : v = Violation(r, <<Src[d], g.target[d]>>, {d})
      BY <2>1
    <3> QED
      BY <3>1, EdgesReported
  <2>4. ReportedByLayers(g, lr) = D
    BY <1>1, <2>3 DEF ReportedByLayers
  <2> QED
    BY <2>2, <2>4
<1>9. CASE lr.policy = "allow-only"
  <2> DEFINE D == {d \in EdgesOf(g) :
                  /\ r.allowed # {}
                  /\ Applies(r, d) /\ HasNode(g, Src[d]) /\ HasNode(g, g.target[d])
                  /\ NodeKind[Src[d]] \in r.from /\ Src[d] \in r.fromWhere
                  /\ \/ NodeKind[g.target[d]] \notin r.allowed
                     \/ g.target[d] \notin r.toWhere}
  <2>1. CheckLayerRule(g, r) = {Violation(r, <<Src[d], g.target[d]>>, {d}) : d \in D}
    BY <1>5, <1>9 DEF CheckLayerRule, CheckAllowOnly
  <2>2. /\ e \in D => Judges(g, lr, e)
        /\ Unconditional(Src[e]) /\ Judges(g, lr, e) => e \in D
    BY <1>2, <1>3, <1>4, <1>5, <1>6, <1>7, <1>9 DEF Judges
  <2> HIDE DEF D
  <2>3. UNION {v.edges : v \in CheckLayerRule(g, r)} = D
    <3>1. \A v : v \in CheckLayerRule(g, r) <=>
             \E d \in D : v = Violation(r, <<Src[d], g.target[d]>>, {d})
      BY <2>1
    <3> QED
      BY <3>1, EdgesReported
  <2>4. ReportedByLayers(g, lr) = D
    BY <1>1, <2>3 DEF ReportedByLayers
  <2> QED
    BY <2>2, <2>4
<1> QED
  BY <1>2, <1>8, <1>9

(* An edge between layers is drawn in the one cell of its layers, and this *)
(* is red iff one of the rules judges the edge.                            *)
LEMMA RedIs ==
  ASSUME NEW g, NEW S \in SUBSET Enforced, OneAllowOnly(S), NEW e \in Comparable(g)
  PROVE  (\E cell \in DOMAIN LayerCompliance(g, S) :
             /\ LayerCompliance(g, S)[cell].status = "denied"
             /\ e \in LayerCompliance(g, S)[cell].edges)
         <=> \E lr \in S : Judges(g, lr, e)
<1> DEFINE M == LayerCompliance(g, S)
           layer == [n \in NodesOf(g) |-> LayerOf(n)]
           allowed(from) == {lr.to : lr \in {r \in S : r.from = from /\ r.policy = "allow-only"}}
           denied == {<<lr.from, lr.to>> : lr \in {r \in S : r.policy = "deny"}}
           edges(c) == {d \in EdgesOf(g) : /\ HasNode(g, Src[d]) /\ HasNode(g, g.target[d])
                                       /\ layer[Src[d]] = c[1] /\ layer[g.target[d]] = c[2]}
           status(c) == IF c \in denied THEN "denied"
                        ELSE IF allowed(c[1]) = {} THEN "undefined"
                        ELSE IF c[2] \in allowed(c[1]) THEN "allowed" ELSE "denied"
           s == LayerOf(Src[e])
           t == LayerOf(g.target[e])
           mine == <<s, t>>
<1>1. M = [c \in LayerNames \X LayerNames |-> [edges |-> edges(c), status |-> status(c)]]
  BY DEF LayerCompliance
<1>2. /\ Src[e] \in NodesOf(g) /\ g.target[e] \in NodesOf(g) /\ e \in EdgesOf(g)
      /\ s \in LayerNames /\ t \in LayerNames
  BY OfOneLayerIs DEF Comparable, EdgesWithin
<1>3. \A c : e \in edges(c) <=> s = c[1] /\ t = c[2]
  BY <1>2 DEF NodesOf
<1>4. mine \in LayerNames \X LayerNames /\ mine[1] = s /\ mine[2] = t
  BY <1>2
<1>5. /\ DOMAIN M = LayerNames \X LayerNames
      /\ \A c \in LayerNames \X LayerNames : M[c].edges = edges(c) /\ M[c].status = status(c)
  <2> HIDE DEF edges, status
  <2> QED
    BY <1>1
<1>6. \A c \in LayerNames \X LayerNames : c[1] = s /\ c[2] = t => c = mine
  OBVIOUS
<1>7. \A lr \in S : lr.policy \in {"deny", "allow-only"}
  BY LayersAssumption DEF Enforced
<1>8. ASSUME status(mine) = "denied"
      PROVE  \E lr \in S : Judges(g, lr, e)
  <2>1. CASE mine \in denied
    <3>1. PICK lr \in S : lr.policy = "deny" /\ mine = <<lr.from, lr.to>>
      BY <2>1
    <3> QED
      BY <3>1 DEF Judges
  <2>2. CASE mine \notin denied
    <3>1. allowed(s) # {} /\ t \notin allowed(s)
      BY <1>4, <1>8, <2>2
    <3>2. PICK lr \in S : lr.from = s /\ lr.policy = "allow-only"
      BY <3>1
    <3>3. lr.to # t
      BY <3>1, <3>2
    <3> QED
      BY <3>2, <3>3 DEF Judges
  <2> QED
    BY <2>1, <2>2
<1>9. ASSUME NEW lr \in S, Judges(g, lr, e)
      PROVE  status(mine) = "denied"
  <2>1. lr.from = s
    BY <1>9 DEF Judges
  <2>2. CASE lr.policy = "deny"
    <3>1. mine = <<lr.from, lr.to>>
      BY <1>9, <2>2 DEF Judges
    <3>2. mine \in denied
      BY <2>2, <3>1
    <3> QED
      BY <3>2
  <2>3. CASE lr.policy = "allow-only"
    <3>1. lr.to # t /\ lr.to \in allowed(s)
      BY <1>9, <2>1, <2>3 DEF Judges
    <3>2. t \notin allowed(s)
      BY <2>1, <2>3, <3>1 DEF OneAllowOnly
    <3> QED
      BY <1>4, <3>1, <3>2
  <2> QED
    BY <1>7, <2>2, <2>3
<1> HIDE DEF M, edges, status, mine, s, t
<1>10. (\E cell \in DOMAIN M : M[cell].status = "denied" /\ e \in M[cell].edges)
          <=> status(mine) = "denied"
  BY <1>3, <1>4, <1>5, <1>6
<1> QED
  BY <1>8, <1>9, <1>10 DEF M

LEMMA LayersAgreeIn ==
  ASSUME OfProject(graph)
  PROVE  LayersAgree
<1> DEFINE g == graph
           reported == [lr \in LayerRules |-> UNION {v.edges :
                            v \in UNION {CheckLayerRule(g, r) :
                                r \in MergeWithLayerRules({}, {lr})}}]
           unconditional == {e \in Comparable(g) : Unconditional(Src[e])}
           red(S) == UNION {LayerCompliance(g, S)[cell].edges :
                        cell \in {c \in DOMAIN LayerCompliance(g, S) :
                                     LayerCompliance(g, S)[c].status = "denied"}}
           broken(S) == UNION {reported[lr] : lr \in S}
<1>1. \A lr \in Enforced : reported[lr] = ReportedByLayers(g, lr)
  BY DEF Enforced, ReportedByLayers
<1>2. Sound(g)
  BY DEF OfProject
<1>3. ASSUME NEW S \in SUBSET Enforced, OneAllowOnly(S)
      PROVE  /\ Comparable(g) \cap broken(S) \subseteq red(S)
             /\ unconditional \cap red(S) \subseteq broken(S)
  <2> HIDE DEF reported
  <2>1. \A e : e \in broken(S) <=> \E lr \in S : e \in ReportedByLayers(g, lr)
    BY <1>1
  <2>2. \A e \in Comparable(g) : e \in red(S) <=> \E lr \in S : Judges(g, lr, e)
    <3>1. \A e : e \in red(S) <=> \E cell \in DOMAIN LayerCompliance(g, S) :
             /\ LayerCompliance(g, S)[cell].status = "denied"
             /\ e \in LayerCompliance(g, S)[cell].edges
      OBVIOUS
    <3> HIDE DEF red
    <3> QED
      BY <1>3, <3>1, RedIs
  <2>3. \A e \in Comparable(g), lr \in S :
          /\ e \in ReportedByLayers(g, lr) => Judges(g, lr, e)
          /\ Unconditional(Src[e]) /\ Judges(g, lr, e) => e \in ReportedByLayers(g, lr)
    BY <1>2, CompiledIs
  <2> HIDE DEF red, broken
  <2> QED
    BY <2>1, <2>2, <2>3
<1> QED
  BY <1>3 DEF LayersAgree, Comparable

(* What the server shows adds up and judges as the linter does, whatever   *)
(* layers there are: with predicates, with kinds of several layers, with   *)
(* rules about layers that do not exist (engine.ts:608-1040, LayerDsl.ts). *)
THEOREM ViewsAgreeAlways == Spec => []ViewsAgree
<1>1. IInvProject => ViewsAgree
  <2> SUFFICES ASSUME OfProject(graph)
               PROVE  LayersAgree /\ DrillDownAdds /\ FeaturesWhole
    BY DEF ViewsAgree, IInvProject
  <2> QED
    BY LayersAgreeIn, DrillDownAddsIn, FeaturesWholeIn
<1> QED
  BY <1>1, ProjectInvariant, PTL

---------------------------------------------------------------------------
(* Tarjan's algorithm.  N has the neighbours of each node, R the nodes it  *)
(* reaches: the least sets that have the node and are closed.              *)

Closes(N, R) ==
    /\ N \in [NodeId -> SUBSET NodeId] /\ R \in [NodeId -> SUBSET NodeId]
    /\ \A n \in NodeId : n \in R[n] /\ \A m \in R[n] : N[m] \subseteq R[n]
    /\ \A n \in NodeId : \A K \in SUBSET NodeId :
          n \in K /\ (\A m \in K : N[m] \subseteq K) => R[n] \subseteq K

LEMMA ReachTransitive ==
  ASSUME NEW N, NEW R, Closes(N, R), NEW n \in NodeId, NEW m \in R[n]
  PROVE  m \in NodeId /\ R[m] \subseteq R[n] /\ N[n] \subseteq R[n]
<1>1. m \in NodeId /\ R[n] \in SUBSET NodeId
  BY DEF Closes
<1>2. \A k \in R[n] : N[k] \subseteq R[n]
  BY DEF Closes
<1>3. R[m] \subseteq R[n]
  BY <1>1, <1>2 DEF Closes
<1> QED
  BY <1>1, <1>3 DEF Closes

(* The nodes that reach each other.                                        *)
Mutual(R, n) == {m \in R[n] : n \in R[m]}

LEMMA MutualIs ==
  ASSUME NEW N, NEW R, Closes(N, R), NEW n \in NodeId, NEW m \in Mutual(R, n)
  PROVE  m \in NodeId /\ Mutual(R, m) = Mutual(R, n)
<1>1. m \in NodeId /\ m \in R[n] /\ n \in R[m]
  BY ReachTransitive DEF Mutual
<1>2. R[m] = R[n]
  <2>1. R[m] \subseteq R[n]
    BY <1>1, ReachTransitive
  <2>2. R[n] \subseteq R[m]
    BY <1>1, ReachTransitive
  <2> QED
    BY <2>1, <2>2
<1>3. \A k \in R[n] : m \in R[k] <=> n \in R[k]
  <2> TAKE k \in R[n]
  <2>1. k \in NodeId
    BY ReachTransitive
  <2> QED
    BY <1>1, <2>1, ReachTransitive
<1> QED
  BY <1>1, <1>2, <1>3 DEF Mutual

Seen(s) == {n \in NodeId : s.indices[n] # Unvisited}
OnStack(s) == ToSet(s.stack)
Finished(s) == Seen(s) \ OnStack(s)

(* Nodes are numbered as they are visited, and the stack is in that order. *)
Numbered(s) ==
    /\ s \in Search
    /\ s.index = Cardinality(Seen(s))
    /\ \A n \in Seen(s) : s.indices[n] < s.index
    /\ OnStack(s) \subseteq Seen(s)
    /\ \A i, j \in 1..Len(s.stack) : i < j => s.indices[s.stack[i]] < s.indices[s.stack[j]]

(* G are the nodes of the calls under way: all others have been followed,  *)
(* and those that left the stack led to no other.                          *)
Explored(N, s, G) ==
    /\ G \subseteq OnStack(s)
    /\ \A n \in Finished(s) : N[n] \subseteq Finished(s)
    /\ \A n \in OnStack(s) \ G : N[n] \subseteq Seen(s)

(* A node of a call reaches what is above it on the stack, and what is on  *)
(* the stack reaches back to a node of a call below.                       *)
Stacked(R, s, G) ==
    /\ \A x \in G, y \in OnStack(s) : s.indices[x] <= s.indices[y] => y \in R[x]
    /\ \A y \in OnStack(s) : \E x \in G : s.indices[x] <= s.indices[y] /\ x \in R[y]

Components(R, S) == {C \in {Mutual(R, n) : n \in S} : Cardinality(C) > 1}

Searching(N, R, s, G) ==
    /\ Numbered(s) /\ Explored(N, s, G) /\ Stacked(R, s, G)
    /\ s.sccs = Components(R, Finished(s))

(* From s to t nothing of what was visited is forgotten; only the links of *)
(* X change.                                                               *)
Keeps(s, t, X) ==
    /\ Seen(s) \subseteq Seen(t)
    /\ \A m \in Seen(s) : t.indices[m] = s.indices[m]
    /\ \A m \in Seen(s) \ X : t.lowLinks[m] = s.lowLinks[m]
    /\ Len(s.stack) <= Len(t.stack)
    /\ \A i \in 1..Len(s.stack) : t.stack[i] = s.stack[i]

LEMMA SearchFields ==
  ASSUME NEW s \in Search
  PROVE  /\ s.index \in Nat /\ s.stack \in Seq(NodeId) /\ s.sccs \in SUBSET SUBSET NodeId
         /\ s.indices \in [NodeId -> Nat] /\ s.lowLinks \in [NodeId -> Nat]
         /\ OnStack(s) = {s.stack[i] : i \in 1..Len(s.stack)} /\ OnStack(s) \in SUBSET NodeId
         /\ Seen(s) \in SUBSET NodeId
<1>1. /\ s.index \in Nat /\ s.stack \in Seq(NodeId) /\ s.sccs \in SUBSET SUBSET NodeId
      /\ s.indices \in [NodeId -> Nat] /\ s.lowLinks \in [NodeId -> Nat]
  BY DEF Search
<1>2. DOMAIN s.stack = 1..Len(s.stack) /\ \A i \in 1..Len(s.stack) : s.stack[i] \in NodeId
  BY <1>1
<1>3. OnStack(s) = {s.stack[i] : i \in 1..Len(s.stack)}
  BY <1>2 DEF OnStack, ToSet
<1> QED
  BY <1>1, <1>2, <1>3 DEF Seen

LEMMA KeptStack ==
  ASSUME NEW s \in Search, NEW t \in Search, NEW X, Keeps(s, t, X)
  PROVE  OnStack(s) \subseteq OnStack(t)
<1>1. \A i \in 1..Len(s.stack) : i \in 1..Len(t.stack) /\ t.stack[i] = s.stack[i]
  <2>1. Len(s.stack) \in Nat /\ Len(t.stack) \in Nat /\ Len(s.stack) <= Len(t.stack)
    BY SearchFields DEF Keeps
  <2> QED
    BY <2>1 DEF Keeps
<1>2. OnStack(s) = {s.stack[i] : i \in 1..Len(s.stack)}
  BY SearchFields
<1>3. OnStack(t) = {t.stack[i] : i \in 1..Len(t.stack)}
  BY SearchFields
<1> QED
  BY <1>1, <1>2, <1>3

LEMMA KeepsOn ==
  ASSUME NEW s \in Search, NEW t \in Search, NEW u \in Search, NEW X, Keeps(s, t, X), Keeps(t, u, X)
  PROVE  Keeps(s, u, X)
<1>1. Len(s.stack) \in Nat /\ Len(t.stack) \in Nat /\ Len(u.stack) \in Nat
  BY SearchFields
<1> QED
  BY <1>1 DEF Keeps

(* What is on the stack and not younger than its former top was there.     *)
LEMMA BelowTop ==
  ASSUME NEW s \in Search, NEW t \in Search, NEW X, Keeps(s, t, X), Numbered(t),
         Len(s.stack) > 0, NEW y \in OnStack(t),
         t.indices[y] <= t.indices[s.stack[Len(s.stack)]]
  PROVE  y \in OnStack(s)
<1>1. Len(s.stack) \in Nat /\ Len(t.stack) \in Nat /\ Len(s.stack) <= Len(t.stack)
  BY SearchFields DEF Keeps
<1>2. PICK j \in 1..Len(t.stack) : t.stack[j] = y
  BY SearchFields
<1> DEFINE k == Len(s.stack)
<1>3. k \in 1..Len(t.stack) /\ t.stack[k] = s.stack[k]
  BY <1>1 DEF Keeps
<1>4. t.stack[j] \in NodeId /\ t.stack[k] \in NodeId
  <2>1. t.stack \in Seq(NodeId)
    BY SearchFields
  <2> QED
    BY <1>3, <2>1
<1>5. t.indices[t.stack[j]] \in Nat /\ t.indices[t.stack[k]] \in Nat
  BY <1>4, SearchFields
<1>6. ~(k < j)
  <2>1. k < j => t.indices[t.stack[k]] < t.indices[t.stack[j]]
    BY <1>3 DEF Numbered
  <2> QED
    BY <1>2, <1>3, <1>5, <2>1
<1>7. j \in 1..k
  BY <1>1, <1>6
<1>8. s.stack[j] = y
  BY <1>2, <1>7 DEF Keeps
<1> QED
  BY <1>7, <1>8, SearchFields

LEMMA SeenFinite ==
  ASSUME NEW s
  PROVE  /\ IsFiniteSet(Seen(s)) /\ IsFiniteSet(NodeId \ Seen(s))
         /\ Cardinality(Seen(s)) \in Nat /\ Cardinality(NodeId \ Seen(s)) \in Nat
         /\ Cardinality(NodeId) \in Nat
<1>1. Seen(s) \in SUBSET NodeId /\ NodeId \ Seen(s) \in SUBSET NodeId
  BY DEF Seen
<1> QED
  BY <1>1, FiniteNodes, FiniteAssumption, FS_CardinalityType

(* The call of a node that was not visited.                                *)
LEMMA EnterIs ==
  ASSUME NEW s, Numbered(s), NEW n \in NodeId \ Seen(s)
  PROVE  LET t == Enter(s, n) IN
         /\ t \in Search /\ Numbered(t)
         /\ t.index = s.index + 1 /\ t.stack = Append(s.stack, n) /\ t.sccs = s.sccs
         /\ t.indices[n] = s.index /\ t.lowLinks[n] = s.index
         /\ \A m \in NodeId \ {n} : t.indices[m] = s.indices[m] /\ t.lowLinks[m] = s.lowLinks[m]
         /\ Seen(t) = Seen(s) \cup {n} /\ OnStack(t) = OnStack(s) \cup {n}
         /\ Finished(t) = Finished(s) /\ n \notin OnStack(s)
         /\ Keeps(s, t, {})
<1> DEFINE t == Enter(s, n)
<1>1. /\ s \in Search /\ s.index \in Nat /\ s.stack \in Seq(NodeId)
      /\ s.sccs \in SUBSET SUBSET NodeId
      /\ s.indices \in [NodeId -> Nat] /\ s.lowLinks \in [NodeId -> Nat]
  BY SearchFields DEF Numbered
<1>2. /\ t.index = s.index + 1 /\ t.stack = Append(s.stack, n) /\ t.sccs = s.sccs
      /\ t.indices = [s.indices EXCEPT ![n] = s.index]
      /\ t.lowLinks = [s.lowLinks EXCEPT ![n] = s.index]
      /\ t \in Search
  <2>1. n \in NodeId /\ s.index + 1 \in Nat /\ Append(s.stack, n) \in Seq(NodeId)
    BY <1>1
  <2>2. /\ [s.indices EXCEPT ![n] = s.index] \in [NodeId -> Nat]
        /\ [s.lowLinks EXCEPT ![n] = s.index] \in [NodeId -> Nat]
    BY <1>1
  <2>3. /\ t.index = s.index + 1 /\ t.stack = Append(s.stack, n) /\ t.sccs = s.sccs
        /\ t.indices = [s.indices EXCEPT ![n] = s.index]
        /\ t.lowLinks = [s.lowLinks EXCEPT ![n] = s.index]
    BY <1>1 DEF Enter, Search
  <2> DEFINE i == s.index + 1
             k == Append(s.stack, n)
             ix == [s.indices EXCEPT ![n] = s.index]
             lx == [s.lowLinks EXCEPT ![n] = s.index]
  <2>4. t = [s EXCEPT !.index = i, !.stack = k, !.indices = ix, !.lowLinks = lx]
    BY DEF Enter
  <2>5. i \in Nat /\ k \in Seq(NodeId) /\ ix \in [NodeId -> Nat] /\ lx \in [NodeId -> Nat]
    BY <2>1, <2>2
  <2> HIDE DEF i, k, ix, lx, t
  <2>6. t \in Search
    BY <1>1, <2>4, <2>5 DEF Search
  <2> QED
    BY <2>3, <2>6
<1> HIDE DEF t
<1>3. /\ t.indices[n] = s.index /\ t.lowLinks[n] = s.index
      /\ \A m \in NodeId \ {n} : t.indices[m] = s.indices[m] /\ t.lowLinks[m] = s.lowLinks[m]
  BY <1>1, <1>2
<1>4. s.index < Unvisited
  <2>1. Cardinality(Seen(s)) < Cardinality(NodeId)
    <3>1. Seen(s) \subseteq NodeId /\ Seen(s) # NodeId
      BY DEF Seen
    <3> QED
      BY <3>1, FiniteAssumption, FS_Subset, FS_CardinalityType
  <2>2. s.index = Cardinality(Seen(s)) /\ Unvisited = 2 * Cardinality(NodeId)
    BY DEF Numbered, Unvisited
  <2>3. Cardinality(Seen(s)) \in Nat /\ Cardinality(NodeId) \in Nat
    BY SeenFinite
  <2> QED
    BY <2>1, <2>2, <2>3
<1>5. Seen(t) = Seen(s) \cup {n}
  BY <1>1, <1>3, <1>4 DEF Seen
<1>6. /\ Len(s.stack) \in Nat /\ Len(t.stack) = Len(s.stack) + 1
      /\ t.stack[Len(s.stack) + 1] = n
      /\ \A i \in 1..Len(s.stack) : t.stack[i] = s.stack[i]
  BY <1>1, <1>2
<1>7. OnStack(t) = OnStack(s) \cup {n}
  <2>1. OnStack(t) = {t.stack[i] : i \in 1..Len(t.stack)}
    BY <1>2, SearchFields
  <2>2. OnStack(s) = {s.stack[i] : i \in 1..Len(s.stack)}
    BY <1>1, SearchFields
  <2>3. \A i : i \in 1..Len(t.stack) <=> i \in 1..Len(s.stack) \/ i = Len(s.stack) + 1
    BY <1>6
  <2> QED
    BY <1>6, <2>1, <2>2, <2>3
<1>8. OnStack(s) \subseteq Seen(s)
  BY DEF Numbered
<1>9. Keeps(s, t, {})
  <2>1. \A m \in Seen(s) : m \in NodeId \ {n}
    BY DEF Seen
  <2> QED
    BY <1>3, <1>5, <1>6, <2>1 DEF Keeps
<1>10. Numbered(t)
  <2>1. t.index = Cardinality(Seen(t))
    BY <1>2, <1>5, SeenFinite, FS_AddElement DEF Numbered
  <2>2. \A m \in Seen(t) : t.indices[m] < t.index
    <3>1. \A m \in Seen(s) : m \in NodeId \ {n} /\ s.indices[m] < s.index /\ s.indices[m] \in Nat
      BY <1>1 DEF Numbered, Seen
    <3> QED
      BY <1>1, <1>2, <1>3, <1>5, <3>1
  <2>3. ASSUME NEW i \in 1..Len(t.stack), NEW j \in 1..Len(t.stack), i < j
        PROVE  t.indices[t.stack[i]] < t.indices[t.stack[j]]
    <3>1. i \in 1..Len(s.stack) /\ t.stack[i] = s.stack[i] /\ s.stack[i] \in OnStack(s)
      BY <1>1, <1>6, <2>3, SearchFields
    <3>2. s.stack[i] \in Seen(s) /\ s.stack[i] \in NodeId \ {n}
      BY <1>8, <3>1 DEF Seen
    <3>3. CASE j \in 1..Len(s.stack)
      <4>1. t.stack[j] = s.stack[j] /\ s.stack[j] \in Seen(s) /\ s.stack[j] \in NodeId \ {n}
        BY <1>1, <1>6, <1>8, <3>3, SearchFields DEF Seen
      <4>2. s.indices[s.stack[i]] < s.indices[s.stack[j]]
        BY <2>3, <3>1, <3>3 DEF Numbered
      <4> QED
        BY <1>3, <3>1, <3>2, <4>1, <4>2
    <3>4. CASE j = Len(s.stack) + 1
      <4>1. s.indices[s.stack[i]] < s.index
        BY <3>2 DEF Numbered
      <4> QED
        BY <1>3, <1>6, <3>1, <3>2, <3>4, <4>1
    <3> QED
      BY <1>6, <3>3, <3>4
  <2>4. OnStack(t) \subseteq Seen(t)
    BY <1>5, <1>7, <1>8
  <2> QED
    BY <1>2, <2>1, <2>2, <2>3, <2>4 DEF Numbered
<1>11. Finished(t) = Finished(s) /\ n \notin OnStack(s)
  BY <1>5, <1>7, <1>8 DEF Finished
<1> QED
  BY <1>2, <1>3, <1>5, <1>7, <1>9, <1>10, <1>11 DEF t

LEMMA EnterSearching ==
  ASSUME NEW N, NEW R, Closes(N, R), NEW s, NEW G, Searching(N, R, s, G),
         NEW n \in NodeId \ Seen(s), \A x \in G : n \in R[x]
  PROVE  Searching(N, R, Enter(s, n), G \cup {n})
<1> DEFINE t == Enter(s, n)
<1>1. /\ Numbered(t) /\ t.sccs = s.sccs /\ t.indices[n] = s.index
      /\ \A m \in NodeId \ {n} : t.indices[m] = s.indices[m]
      /\ Seen(t) = Seen(s) \cup {n} /\ OnStack(t) = OnStack(s) \cup {n}
      /\ Finished(t) = Finished(s) /\ n \notin OnStack(s)
  BY EnterIs DEF Searching
<1>2. Searching(N, R, s, G)
  OBVIOUS
<1> HIDE DEF t
<1>3. Explored(N, t, G \cup {n})
  BY <1>1, <1>2 DEF Searching, Explored
<1>4. \A y \in OnStack(s) : y \in NodeId \ {n} /\ t.indices[y] = s.indices[y]
                                /\ t.indices[y] < s.index /\ t.indices[y] \in Nat
  <2> TAKE y \in OnStack(s)
  <2>1. y \in Seen(s) /\ y \in NodeId \ {n} /\ s.indices[y] \in Nat
    BY <1>2, SearchFields DEF Searching, Numbered, Seen
  <2>2. s.indices[y] < s.index
    BY <1>2, <2>1 DEF Searching, Numbered
  <2> QED
    BY <1>1, <2>1, <2>2
<1>5. s.index \in Nat /\ G \subseteq OnStack(s) /\ n \in R[n]
  BY <1>2, SearchFields DEF Searching, Numbered, Explored, Closes
<1>6. ASSUME NEW x \in G \cup {n}, NEW y \in OnStack(t), t.indices[x] <= t.indices[y]
      PROVE  y \in R[x]
  <2>1. CASE x \in G /\ y \in OnStack(s)
    <3>1. s.indices[x] <= s.indices[y]
      BY <1>4, <1>5, <1>6, <2>1
    <3> QED
      BY <1>2, <2>1, <3>1 DEF Searching, Stacked
  <2>2. CASE x \in G /\ y = n
    BY <2>2
  <2>3. CASE x = n /\ y \in OnStack(s)
    BY <1>1, <1>4, <1>5, <1>6, <2>3
  <2>4. CASE x = n /\ y = n
    BY <1>5, <2>4
  <2> QED
    BY <1>1, <2>1, <2>2, <2>3, <2>4
<1>7. ASSUME NEW y \in OnStack(t)
      PROVE  \E x \in G \cup {n} : t.indices[x] <= t.indices[y] /\ x \in R[y]
  <2>1. CASE y = n
    BY <1>1, <1>5, <2>1
  <2>2. CASE y \in OnStack(s)
    <3>1. PICK x \in G : s.indices[x] <= s.indices[y] /\ x \in R[y]
      BY <1>2, <2>2 DEF Searching, Stacked
    <3>2. t.indices[x] <= t.indices[y]
      BY <1>4, <1>5, <2>2, <3>1
    <3> QED
      BY <3>1, <3>2
  <2> QED
    BY <1>1, <2>1, <2>2
<1>8. Stacked(R, t, G \cup {n})
  BY <1>6, <1>7 DEF Stacked
<1>9. t.sccs = Components(R, Finished(t))
  BY <1>1, <1>2 DEF Searching
<1> QED
  BY <1>1, <1>3, <1>8, <1>9 DEF Searching, t

LEMMA LowerIs ==
  ASSUME NEW s \in Search, NEW n \in NodeId, NEW l \in Nat
  PROVE  LET t == Lower(s, n, l) IN
         /\ t \in Search
         /\ t.index = s.index /\ t.stack = s.stack /\ t.sccs = s.sccs /\ t.indices = s.indices
         /\ t.lowLinks[n] = Lesser(s.lowLinks[n], l)
         /\ \A m \in NodeId \ {n} : t.lowLinks[m] = s.lowLinks[m]
         /\ Seen(t) = Seen(s) /\ OnStack(t) = OnStack(s) /\ Finished(t) = Finished(s)
         /\ Keeps(s, t, {n})
         /\ \A N, R, G : Searching(N, R, s, G) => Searching(N, R, t, G)
<1> DEFINE t == Lower(s, n, l)
<1>1. /\ s.index \in Nat /\ s.stack \in Seq(NodeId) /\ s.sccs \in SUBSET SUBSET NodeId
      /\ s.indices \in [NodeId -> Nat] /\ s.lowLinks \in [NodeId -> Nat]
  BY SearchFields
<1>2. Lesser(s.lowLinks[n], l) \in Nat
  BY <1>1 DEF Lesser
<1>3. /\ t.index = s.index /\ t.stack = s.stack /\ t.sccs = s.sccs /\ t.indices = s.indices
      /\ t.lowLinks = [s.lowLinks EXCEPT ![n] = Lesser(@, l)]
      /\ t \in Search
  BY <1>1, <1>2 DEF Lower, Search
<1> HIDE DEF t
<1>4. /\ t.lowLinks[n] = Lesser(s.lowLinks[n], l)
      /\ \A m \in NodeId \ {n} : t.lowLinks[m] = s.lowLinks[m]
  BY <1>1, <1>3
<1>5. Seen(t) = Seen(s) /\ OnStack(t) = OnStack(s) /\ Finished(t) = Finished(s)
  BY <1>3 DEF Seen, OnStack, Finished
<1>6. Keeps(s, t, {n})
  <2>1. \A m \in Seen(s) \ {n} : m \in NodeId \ {n}
    BY DEF Seen
  <2>2. Len(s.stack) \in Nat
    BY <1>1
  <2> QED
    BY <1>3, <1>4, <1>5, <2>1, <2>2 DEF Keeps
<1>7. \A N, R, G : Searching(N, R, s, G) => Searching(N, R, t, G)
  BY <1>3, <1>5 DEF Searching, Numbered, Explored, Stacked
<1> QED
  BY <1>3, <1>4, <1>5, <1>6, <1>7 DEF t

(* What a call from s for n leaves.                                        *)
Connected(N, R, s, n, G, t) ==
    /\ Searching(N, R, t, G) /\ Keeps(s, t, {}) /\ n \in Seen(t)
    /\ \A x \in OnStack(t) \ OnStack(s) : \A y \in N[x] \cap OnStack(s) :
          t.lowLinks[n] <= s.indices[y]
    /\ \/ t.lowLinks[n] >= s.index
       \/ \E y \in OnStack(s) : t.lowLinks[n] = s.indices[y] /\ y \in R[n]

(* A call for n that entered it at s, after the neighbours P.              *)
Following(N, R, s, n, P, G, u) ==
    /\ Searching(N, R, u, G) /\ Keeps(s, u, {n}) /\ P \subseteq Seen(u)
    /\ \E y \in OnStack(s) :
          u.lowLinks[n] = s.indices[y] /\ y \in R[n] /\ s.indices[y] <= s.indices[n]
    /\ \A x \in OnStack(u) \ OnStack(s) : \A y \in N[x] \cap OnStack(s) :
          u.lowLinks[n] <= s.indices[y]
    /\ \A y \in P \cap OnStack(s) : u.lowLinks[n] <= s.indices[y]

Called(s, n) == Numbered(s) /\ Len(s.stack) > 0 /\ s.stack[Len(s.stack)] = n

LEMMA CalledIs ==
  ASSUME NEW s, NEW n, Called(s, n)
  PROVE  /\ s \in Search /\ Numbered(s) /\ n \in OnStack(s) /\ n \in NodeId
         /\ \A y \in OnStack(s) : y \in Seen(s) /\ y \in NodeId /\ s.indices[y] \in Nat
<1>1. s \in Search /\ Numbered(s)
  BY DEF Called, Numbered
<1>2. /\ s.stack \in Seq(NodeId) /\ s.indices \in [NodeId -> Nat]
      /\ OnStack(s) = {s.stack[i] : i \in 1..Len(s.stack)} /\ OnStack(s) \in SUBSET NodeId
  BY <1>1, SearchFields
<1>3. Len(s.stack) \in 1..Len(s.stack)
  BY <1>2 DEF Called
<1>4. n \in OnStack(s)
  BY <1>2, <1>3 DEF Called
<1> QED
  BY <1>1, <1>2, <1>4 DEF Numbered

LEMMA FollowingIs ==
  ASSUME NEW N, NEW R, NEW s, NEW n, Called(s, n), NEW P, NEW G, NEW u,
         Following(N, R, s, n, P, G, u)
  PROVE  /\ u \in Search /\ Numbered(u) /\ u.lowLinks[n] \in Nat
         /\ OnStack(s) \subseteq OnStack(u) /\ OnStack(u) \subseteq Seen(u)
         /\ Seen(s) \subseteq Seen(u)
         /\ \A y \in OnStack(s) : u.indices[y] = s.indices[y]
         /\ \A y \in OnStack(u) : u.indices[y] \in Nat
         /\ u.lowLinks[n] <= u.indices[n] /\ u.indices[n] < u.index
<1>1. u \in Search /\ Numbered(u) /\ Keeps(s, u, {n})
  BY DEF Following, Searching, Numbered
<1>2. /\ s \in Search /\ n \in OnStack(s) /\ n \in NodeId
      /\ \A y \in OnStack(s) : y \in Seen(s) /\ s.indices[y] \in Nat
  BY CalledIs
<1>3. OnStack(s) \subseteq OnStack(u)
  BY <1>1, <1>2, KeptStack
<1>4. u.lowLinks \in [NodeId -> Nat] /\ u.indices \in [NodeId -> Nat] /\ OnStack(u) \in SUBSET NodeId
  BY <1>1, SearchFields
<1>5. \A y \in OnStack(s) : u.indices[y] = s.indices[y]
  BY <1>1, <1>2 DEF Keeps
<1>6. u.lowLinks[n] <= s.indices[n]
  BY DEF Following
<1>7. u.indices[n] < u.index /\ OnStack(u) \subseteq Seen(u)
  BY <1>1, <1>2, <1>3 DEF Numbered
<1>8. Seen(s) \subseteq Seen(u)
  BY <1>1 DEF Keeps
<1> QED
  BY <1>1, <1>2, <1>3, <1>4, <1>5, <1>6, <1>7, <1>8

LEMMA LoweredFollows ==
  ASSUME NEW N, NEW R, NEW s, NEW n, Called(s, n), NEW P, NEW G, NEW u,
         Following(N, R, s, n, P, G, u),
         NEW m, NEW l \in Nat, NEW w, Searching(N, R, w, G), Keeps(u, w, {n}),
         w.lowLinks[n] = u.lowLinks[n], m \in Seen(w),
         l < u.lowLinks[n] => \E y \in OnStack(s) : l = s.indices[y] /\ y \in R[n],
         \A x \in OnStack(w) \ OnStack(u) : \A y \in N[x] \cap OnStack(s) : l <= s.indices[y],
         m \in OnStack(s) => l <= s.indices[m]
  PROVE  Following(N, R, s, n, P \cup {m}, G, Lower(w, n, l))
<1> DEFINE v == Lower(w, n, l)
<1>1. /\ s \in Search /\ n \in OnStack(s) /\ n \in NodeId
      /\ \A y \in OnStack(s) : s.indices[y] \in Nat
  BY CalledIs
<1>2. /\ u \in Search /\ Seen(s) \subseteq Seen(u) /\ Keeps(s, u, {n}) /\ P \subseteq Seen(u)
      /\ u.lowLinks[n] \in Nat
  <2>1. Keeps(s, u, {n}) /\ P \subseteq Seen(u)
    BY DEF Following
  <2>2. u \in Search /\ Seen(s) \subseteq Seen(u) /\ u.lowLinks[n] \in Nat
    BY FollowingIs
  <2> QED
    BY <2>1, <2>2
<1>3. w \in Search /\ Seen(u) \subseteq Seen(w) /\ OnStack(u) \subseteq OnStack(w)
  <2>1. w \in Search
    BY DEF Searching, Numbered
  <2>2. Seen(u) \subseteq Seen(w)
    BY DEF Keeps
  <2>3. OnStack(u) \subseteq OnStack(w)
    BY <1>2, <2>1, KeptStack
  <2> QED
    BY <2>1, <2>2, <2>3
<1>4. /\ v \in Search /\ v.stack = w.stack /\ v.indices = w.indices
      /\ v.lowLinks[n] = Lesser(u.lowLinks[n], l)
      /\ Seen(v) = Seen(w) /\ OnStack(v) = OnStack(w)
      /\ Keeps(w, v, {n}) /\ Searching(N, R, v, G)
  <2>1. /\ v \in Search /\ v.stack = w.stack /\ v.indices = w.indices
        /\ v.lowLinks[n] = Lesser(w.lowLinks[n], l)
        /\ Seen(v) = Seen(w) /\ OnStack(v) = OnStack(w)
        /\ Keeps(w, v, {n})
    BY <1>1, <1>3, LowerIs
  <2>2. Searching(N, R, v, G)
    BY <1>1, <1>3, LowerIs
  <2> QED
    BY <2>1, <2>2
<1> HIDE DEF v
<1>5. Keeps(s, v, {n})
  <2> DEFINE X == {n}
  <2>1. Keeps(s, u, X) /\ Keeps(u, w, X) /\ Keeps(w, v, X)
    BY <1>2, <1>4
  <2> HIDE DEF X
  <2>2. Keeps(s, w, X)
    BY <1>1, <1>2, <1>3, <2>1, KeepsOn
  <2>3. Keeps(s, v, X)
    BY <1>1, <1>3, <1>4, <2>1, <2>2, KeepsOn
  <2> QED
    BY <2>3 DEF X
<1>6. v.lowLinks[n] \in Nat /\ v.lowLinks[n] <= u.lowLinks[n] /\ v.lowLinks[n] <= l
      /\ (v.lowLinks[n] = u.lowLinks[n] \/ (v.lowLinks[n] = l /\ l < u.lowLinks[n]))
  <2>1. v.lowLinks[n] = IF u.lowLinks[n] < l THEN u.lowLinks[n] ELSE l
    BY <1>4 DEF Lesser
  <2>2. u.lowLinks[n] \in Nat
    BY <1>2
  <2> QED
    BY <2>1, <2>2
<1>7. \E y \in OnStack(s) :
         v.lowLinks[n] = s.indices[y] /\ y \in R[n] /\ s.indices[y] <= s.indices[n]
  <2>1. PICK z \in OnStack(s) :
           u.lowLinks[n] = s.indices[z] /\ z \in R[n] /\ s.indices[z] <= s.indices[n]
    BY DEF Following
  <2>2. CASE v.lowLinks[n] = u.lowLinks[n]
    BY <2>1, <2>2
  <2>3. CASE v.lowLinks[n] = l /\ l < u.lowLinks[n]
    <3>1. PICK y \in OnStack(s) : l = s.indices[y] /\ y \in R[n]
      BY <2>3
    <3>2. s.indices[y] <= s.indices[n]
      BY <1>1, <2>1, <2>3, <3>1
    <3> QED
      BY <2>3, <3>1, <3>2
  <2> QED
    BY <1>6, <2>2, <2>3
<1>8. ASSUME NEW x \in OnStack(v) \ OnStack(s), NEW y \in N[x] \cap OnStack(s)
      PROVE  v.lowLinks[n] <= s.indices[y]
  <2>1. CASE x \in OnStack(u)
    <3>1. u.lowLinks[n] <= s.indices[y]
      BY <1>8, <2>1 DEF Following
    <3> QED
      BY <1>1, <1>2, <1>6, <3>1
  <2>2. CASE x \notin OnStack(u)
    <3>1. l <= s.indices[y]
      BY <1>4, <1>8, <2>2
    <3> QED
      BY <1>1, <1>6, <3>1
  <2> QED
    BY <2>1, <2>2
<1>9. ASSUME NEW y \in (P \cup {m}) \cap OnStack(s)
      PROVE  v.lowLinks[n] <= s.indices[y]
  <2>1. CASE y \in P
    <3>1. u.lowLinks[n] <= s.indices[y]
      BY <1>9, <2>1 DEF Following
    <3> QED
      BY <1>1, <1>2, <1>6, <3>1
  <2>2. CASE y = m
    BY <1>1, <1>6, <2>2
  <2> QED
    BY <1>9, <2>1, <2>2
<1>10. P \cup {m} \subseteq Seen(v)
  BY <1>2, <1>3, <1>4
<1> QED
  BY <1>4, <1>5, <1>7, <1>8, <1>9, <1>10 DEF Following, v

(* One edge.                                                               *)
LEMMA VisitFollows ==
  ASSUME NEW N, NEW R, Closes(N, R), NEW s, NEW n, Called(s, n), NEW P, NEW G, n \in G,
         NEW u, Following(N, R, s, n, P, G, u), NEW m \in N[n], NEW deeper,
         m \notin Seen(u) => Connected(N, R, u, m, G, deeper[<<u, m>>])
  PROVE  Following(N, R, s, n, P \cup {m}, G, Visit(deeper, n, m, u))
<1>1. /\ s \in Search /\ n \in OnStack(s) /\ n \in NodeId
      /\ \A y \in OnStack(s) : y \in Seen(s) /\ y \in NodeId /\ s.indices[y] \in Nat
  BY CalledIs
<1>2. /\ u \in Search /\ Numbered(u) /\ u.lowLinks[n] \in Nat
      /\ OnStack(s) \subseteq OnStack(u) /\ OnStack(u) \subseteq Seen(u)
      /\ Seen(s) \subseteq Seen(u)
      /\ \A y \in OnStack(s) : u.indices[y] = s.indices[y]
      /\ \A y \in OnStack(u) : u.indices[y] \in Nat
      /\ u.lowLinks[n] <= u.indices[n] /\ u.indices[n] < u.index
  BY FollowingIs
<1>3. m \in NodeId /\ m \in R[n] /\ R[m] \subseteq R[n]
  <2>1. m \in R[n]
    BY <1>1 DEF Closes
  <2> QED
    BY <1>1, <2>1, ReachTransitive
<1>4. ASSUME NEW y \in OnStack(u), u.indices[y] < u.lowLinks[n]
      PROVE  y \in OnStack(s) /\ u.indices[y] = s.indices[y]
  <2>1. u.indices[y] <= u.indices[s.stack[Len(s.stack)]]
    BY <1>1, <1>2, <1>4 DEF Called
  <2>2. Keeps(s, u, {n}) /\ Len(s.stack) > 0
    BY DEF Following, Called
  <2>3. y \in OnStack(s)
    BY <1>1, <1>2, <2>1, <2>2, BelowTop
  <2> QED
    BY <1>2, <2>3
<1>5. CASE m \notin Seen(u)
  <2> DEFINE w == deeper[<<u, m>>]
  <2>1. Visit(deeper, n, m, u) = Lower(w, n, w.lowLinks[m])
    BY <1>3, <1>5 DEF Visit, Seen
  <2>2. Connected(N, R, u, m, G, w)
    BY <1>5
  <2> HIDE DEF w
  <2>3. /\ Searching(N, R, w, G) /\ Keeps(u, w, {}) /\ m \in Seen(w)
        /\ w \in Search /\ w.lowLinks[m] \in Nat
    BY <1>3, <2>2, SearchFields DEF Connected, Searching, Numbered
  <2>4. Keeps(u, w, {n}) /\ w.lowLinks[n] = u.lowLinks[n]
    BY <1>1, <1>2, <2>3 DEF Keeps
  <2>5. ASSUME w.lowLinks[m] < u.lowLinks[n]
        PROVE  \E y \in OnStack(s) : w.lowLinks[m] = s.indices[y] /\ y \in R[n]
    <3>1. ~(w.lowLinks[m] >= u.index)
      <4>1. u.index \in Nat /\ u.indices[n] \in Nat
        BY <1>1, <1>2, SearchFields
      <4> QED
        BY <1>2, <2>3, <2>5, <4>1
    <3>2. PICK y \in OnStack(u) : w.lowLinks[m] = u.indices[y] /\ y \in R[m]
      BY <2>2, <3>1 DEF Connected
    <3> QED
      BY <1>3, <1>4, <2>5, <3>2
  <2>6. ASSUME NEW x \in OnStack(w) \ OnStack(u), NEW y \in N[x] \cap OnStack(s)
        PROVE  w.lowLinks[m] <= s.indices[y]
    BY <1>2, <2>2, <2>6 DEF Connected
  <2>7. m \notin OnStack(s)
    BY <1>2, <1>5
  <2>8. Following(N, R, s, n, P \cup {m}, G, Lower(w, n, w.lowLinks[m]))
    BY <2>3, <2>4, <2>5, <2>6, <2>7, LoweredFollows
  <2> QED
    BY <2>1, <2>8
<1>6. CASE m \in OnStack(u)
  <2>1. Visit(deeper, n, m, u) = Lower(u, n, u.indices[m])
    BY <1>2, <1>6 DEF Visit, Seen, OnStack
  <2>2. Searching(N, R, u, G) /\ Keeps(u, u, {n})
    <3>1. Len(u.stack) \in Nat
      BY <1>2, SearchFields
    <3> QED
      BY <3>1 DEF Following, Keeps
  <2>3. u.indices[m] < u.lowLinks[n] => \E y \in OnStack(s) : u.indices[m] = s.indices[y] /\ y \in R[n]
    BY <1>3, <1>4, <1>6
  <2>4. m \in OnStack(s) => u.indices[m] <= s.indices[m]
    BY <1>1, <1>2
  <2>5. Following(N, R, s, n, P \cup {m}, G, Lower(u, n, u.indices[m]))
    BY <1>2, <1>6, <2>2, <2>3, <2>4, LoweredFollows
  <2> QED
    BY <2>1, <2>5
<1>7. CASE m \in Finished(u)
  <2>1. Visit(deeper, n, m, u) = u
    BY <1>7 DEF Visit, Finished, Seen, OnStack
  <2>2. m \in Seen(u) /\ m \notin OnStack(s)
    BY <1>2, <1>7 DEF Finished
  <2>3. Following(N, R, s, n, P \cup {m}, G, u)
    BY <2>2 DEF Following
  <2> QED
    BY <2>1, <2>3
<1> QED
  BY <1>5, <1>6, <1>7 DEF Finished

Calls == [Search \X NodeId -> Search]

LEMMA EnterType ==
  ASSUME NEW s \in Search, NEW n \in NodeId
  PROVE  Enter(s, n) \in Search
<1> DEFINE i == s.index + 1
           k == Append(s.stack, n)
           ix == [s.indices EXCEPT ![n] = s.index]
           lx == [s.lowLinks EXCEPT ![n] = s.index]
<1>1. Enter(s, n) = [s EXCEPT !.index = i, !.stack = k, !.indices = ix, !.lowLinks = lx]
  BY DEF Enter
<1>2. i \in Nat /\ k \in Seq(NodeId) /\ ix \in [NodeId -> Nat] /\ lx \in [NodeId -> Nat]
  BY SearchFields
<1> HIDE DEF i, k, ix, lx
<1> QED
  BY <1>1, <1>2 DEF Search

LEMMA VisitType ==
  ASSUME NEW deeper \in Calls, NEW n \in NodeId, NEW m \in NodeId, NEW u \in Search
  PROVE  Visit(deeper, n, m, u) \in Search
<1>1. deeper[<<u, m>>] \in Search
  BY DEF Calls
<1>2. deeper[<<u, m>>].lowLinks[m] \in Nat /\ u.indices[m] \in Nat
  BY <1>1, SearchFields
<1> QED
  BY <1>1, <1>2, LowerIs DEF Visit

Visits(deeper, n, S, u) == FoldSet(LAMBDA t, s : Visit(deeper, n, t, s), u, S)

Visiting(deeper, n, S) == [p \in S \X Search |-> Visit(deeper, n, p[1], p[2])]

LEMMA VisitsFold ==
  ASSUME NEW deeper \in Calls, NEW n \in NodeId, NEW S \in SUBSET NodeId, NEW u \in Search
  PROVE  IsFold(Visits(deeper, n, S, u), S, Search, u, First(S), Visiting(deeper, n, S))
<1> DEFINE pick == First(S)
           o == Visiting(deeper, n, S)
           Step(f, s) ==
               IF s = {} THEN u
               ELSE Visit(deeper, n, (CHOOSE x \in s : TRUE), f[s \ {CHOOSE x \in s : TRUE}])
           Eq(f) == f = [s \in SUBSET S |-> Step(f, s)]
           iter == CHOOSE f : Eq(f)
<1>1. Visits(deeper, n, S, u) = iter[S]
  BY DEF Visits, FoldSet, MapThenFoldSet
<1>2. Picks(pick, S) /\ \A s \in SUBSET S : pick[s] = CHOOSE x \in s : TRUE
  BY FirstPicks DEF First
<1>3. \A x \in S, h \in Search : o[<<x, h>>] = Visit(deeper, n, x, h)
  BY DEF Visiting
<1>4. Within(o, S, Search)
  <2>1. \A x \in S, h \in Search : Visit(deeper, n, x, h) \in Search
    BY VisitType
  <2> HIDE DEF o
  <2> QED
    BY <1>3, <2>1 DEF Within
<1>5. IsFiniteSet(S) /\ u \in Search
  BY FiniteNodes
<1> HIDE DEF pick, o
<1>6. ASSUME NEW f, NEW s \in SUBSET S, s # {}, f[s \ {pick[s]}] \in Search
      PROVE  Step(f, s) = o[<<pick[s], f[s \ {pick[s]}]>>]
  <2>1. pick[s] \in S
    BY <1>2, <1>6 DEF Picks
  <2> QED
    BY <1>2, <1>3, <1>6, <2>1
<1>7. \A f : Step(f, {}) = u
  OBVIOUS
<1> HIDE DEF Step
<1>8. \E f : Eq(f)
  <2>0. Picks(pick, S)
    BY <1>2
  <2>1. PICK f \in [SUBSET S -> Search] : Iterates(f, S, u, pick, o)
    BY Zenon, <1>4, <1>5, <2>0, IterationExists
  <2>2. ASSUME NEW s \in SUBSET S
        PROVE  f[s] = Step(f, s)
    <3>1. s # {} => f[s \ {pick[s]}] \in Search
      BY <1>2 DEF Picks
    <3> QED
      BY <1>6, <1>7, <2>1, <3>1 DEF Iterates
  <2>3. f = [s \in SUBSET S |-> f[s]]
    OBVIOUS
  <2> QED
    BY Zenon, <2>2, <2>3
<1>9. Eq(iter)
  <2> HIDE DEF Eq
  <2> QED
    BY <1>8
<1> HIDE DEF iter
<1>10. /\ iter = [s \in SUBSET S |-> iter[s]]
       /\ iter[{}] = u
       /\ \A s \in SUBSET S : s # {} /\ iter[s \ {pick[s]}] \in Search =>
             iter[s] = o[<<pick[s], iter[s \ {pick[s]}]>>]
  BY <1>6, <1>7, <1>9
<1>11. IsFold(iter[S], S, Search, u, pick, o)
  BY Zenon, <1>2, <1>4, <1>5, <1>10, FoldIs
<1> QED
  BY <1>1, <1>11 DEF pick, o

LEMMA FoldTyped ==
  ASSUME NEW r, NEW S, NEW G, NEW b, NEW pick, NEW o, IsFold(r, S, G, b, pick, o)
  PROVE  r \in G
  BY DEF IsFold

(* All edges of n.                                                         *)
LEMMA VisitsFollow ==
  ASSUME NEW N, NEW R, Closes(N, R), NEW s, NEW n, Called(s, n), NEW G, n \in G,
         Searching(N, R, s, G), s.lowLinks[n] = s.indices[n], NEW deeper \in Calls,
         \A m \in N[n], u \in Search :
            Seen(s) \subseteq Seen(u) /\ m \notin Seen(u) /\ Searching(N, R, u, G) =>
                Connected(N, R, u, m, G, deeper[<<u, m>>])
  PROVE  Following(N, R, s, n, N[n], G, Visits(deeper, n, N[n], s))
<1> DEFINE S == N[n]
           o == Visiting(deeper, n, S)
           r == Visits(deeper, n, S, s)
           T == {p \in (SUBSET S) \X Search : Following(N, R, s, n, p[1], G, p[2])}
<1>1. /\ s \in Search /\ Numbered(s) /\ n \in OnStack(s) /\ n \in NodeId
      /\ \A y \in OnStack(s) : s.indices[y] \in Nat
  BY CalledIs
<1>2. S \in SUBSET NodeId /\ n \in R[n]
  BY <1>1 DEF Closes
<1>3. IsFold(r, S, Search, s, First(S), o)
  BY <1>1, <1>2, VisitsFold
<1>4. \A x \in S, u \in Search : o[<<x, u>>] = Visit(deeper, n, x, u)
  BY DEF Visiting
<1>5. IsFiniteSet(S)
  BY <1>2, FiniteNodes
<1> HIDE DEF o, r
<1>6. <<{}, s>> \in T
  <2>1. Keeps(s, s, {n})
    <3>1. Len(s.stack) \in Nat
      BY <1>1, SearchFields
    <3> QED
      BY <3>1 DEF Keeps
  <2>2. Following(N, R, s, n, {}, G, s)
    BY <1>1, <1>2, <2>1 DEF Following
  <2> QED
    BY <1>1, <2>2
<1>7. ASSUME NEW z \in SUBSET S, NEW x \in z, NEW u \in Search, <<z \ {x}, u>> \in T
      PROVE  <<z, o[<<x, u>>]>> \in T
  <2>1. Following(N, R, s, n, z \ {x}, G, u)
    BY <1>7
  <2>2. Seen(s) \subseteq Seen(u) /\ Searching(N, R, u, G)
    <3>1. Seen(s) \subseteq Seen(u)
      BY <2>1, FollowingIs
    <3> QED
      BY <2>1, <3>1 DEF Following
  <2>3. x \notin Seen(u) => Connected(N, R, u, x, G, deeper[<<u, x>>])
    BY <2>2
  <2>4. Following(N, R, s, n, (z \ {x}) \cup {x}, G, Visit(deeper, n, x, u))
    BY <2>1, <2>3, VisitFollows
  <2>5. (z \ {x}) \cup {x} = z
    OBVIOUS
  <2>6. o[<<x, u>>] = Visit(deeper, n, x, u) /\ o[<<x, u>>] \in Search
    BY <1>1, <1>2, <1>4, VisitType
  <2> QED
    BY <2>4, <2>5, <2>6
<1>8. <<S, r>> \in T
  <2> HIDE DEF T, S
  <2>1. Carries(T, S, Search, o)
    BY <1>7 DEF Carries
  <2> QED
    BY Zenon, <1>3, <1>5, <1>6, <2>1, FirstPicks, FoldHolds
<1> QED
  BY <1>8 DEF r

LEMMA PopType ==
  ASSUME NEW s \in Search, NEW n
  PROVE  PopComponent(s, n) \in Search
<1> DEFINE under == {i \in DOMAIN s.stack : \E k \in DOMAIN s.stack : k > i /\ s.stack[k] = n}
           scc   == {s.stack[i] : i \in DOMAIN s.stack \ under}
           q     == SubSeq(s.stack, 1, Cardinality(under))
           C     == IF Cardinality(scc) > 1 THEN s.sccs \cup {scc} ELSE s.sccs
<1>1. s.stack \in Seq(NodeId) /\ s.sccs \in SUBSET SUBSET NodeId
  BY SearchFields
<1>2. DOMAIN s.stack = 1..Len(s.stack) /\ Len(s.stack) \in Nat
  BY <1>1
<1>3. IsFiniteSet(DOMAIN s.stack) /\ Cardinality(DOMAIN s.stack) = Len(s.stack)
  BY <1>2, FS_Interval
<1>4. Cardinality(under) \in Nat /\ Cardinality(under) <= Len(s.stack)
  <2>1. under \in SUBSET DOMAIN s.stack
    OBVIOUS
  <2> HIDE DEF under
  <2> QED
    BY <1>3, <2>1, FS_Subset, FS_CardinalityType
<1>5. q \in Seq(NodeId)
  <2> HIDE DEF under
  <2> QED
    BY <1>1, <1>2, <1>4
<1>6. scc \in SUBSET NodeId
  <2> HIDE DEF under
  <2> QED
    BY <1>1
<1>7. PopComponent(s, n) = [s EXCEPT !.stack = q, !.sccs = C]
  BY DEF PopComponent
<1> HIDE DEF under, scc, q
<1>8. C \in SUBSET SUBSET NodeId
  BY <1>1, <1>6
<1> HIDE DEF C
<1> QED
  BY <1>5, <1>7, <1>8 DEF Search

(* The stack from n on.                                                    *)
LEMMA StackFrom ==
  ASSUME NEW s, Numbered(s), NEW n \in NodeId \ Seen(s), NEW u \in Search, Numbered(u),
         Keeps(Enter(s, n), u, {n})
  PROVE  /\ PopComponent(u, n) =
               [u EXCEPT !.stack = s.stack,
                         !.sccs = IF Cardinality(OnStack(u) \ OnStack(s)) > 1
                                  THEN @ \cup {OnStack(u) \ OnStack(s)} ELSE @]
         /\ \A y \in OnStack(u) :
               y \in OnStack(u) \ OnStack(s) <=> u.indices[n] <= u.indices[y]
<1> DEFINE p == Len(s.stack) + 1
           D == 1..Len(u.stack)
           under == {i \in DOMAIN u.stack : \E k \in DOMAIN u.stack : k > i /\ u.stack[k] = n}
           scc   == {u.stack[i] : i \in DOMAIN u.stack \ under}
<1>1. /\ Enter(s, n) \in Search /\ Enter(s, n).stack = Append(s.stack, n)
      /\ s \in Search /\ s.stack \in Seq(NodeId) /\ Len(s.stack) \in Nat
  <2>1. Enter(s, n) \in Search /\ Enter(s, n).stack = Append(s.stack, n)
    BY EnterIs
  <2>2. s \in Search
    BY DEF Numbered
  <2>3. s.stack \in Seq(NodeId)
    BY <2>2, SearchFields
  <2> QED
    BY <2>1, <2>2, <2>3
<1>2. /\ u.stack \in Seq(NodeId) /\ DOMAIN u.stack = D /\ Len(u.stack) \in Nat
      /\ u.indices \in [NodeId -> Nat] /\ OnStack(u) = {u.stack[i] : i \in D}
  BY SearchFields
<1>3. /\ p \in D /\ u.stack[p] = n
      /\ \A i \in 1..Len(s.stack) : i \in D /\ u.stack[i] = s.stack[i]
  <2>1. /\ Len(Enter(s, n).stack) = p
        /\ \A i \in 1..p : Enter(s, n).stack[i] = IF i = p THEN n ELSE s.stack[i]
    BY <1>1
  <2>2. p <= Len(u.stack) /\ \A i \in 1..p : u.stack[i] = Enter(s, n).stack[i]
    BY <2>1 DEF Keeps
  <2>3. p \in 1..p /\ p \in D
    BY <1>1, <1>2, <2>2
  <2>4. \A i \in 1..Len(s.stack) : i \in 1..p /\ i \in D /\ i # p
    BY <1>1, <1>2, <2>2
  <2> HIDE DEF p, D
  <2> QED
    BY <2>1, <2>2, <2>3, <2>4
<1>4. \A i, j \in D : i < j => u.indices[u.stack[i]] < u.indices[u.stack[j]]
  BY DEF Numbered
<1>5. \A i \in D : u.stack[i] \in NodeId /\ u.indices[u.stack[i]] \in Nat
  BY <1>2
<1>6. \A i \in D : u.stack[i] = n => i = p
  <2> TAKE i \in D
  <2>1. i < p => u.indices[u.stack[i]] < u.indices[u.stack[p]]
    BY <1>3, <1>4
  <2>2. p < i => u.indices[u.stack[p]] < u.indices[u.stack[i]]
    BY <1>3, <1>4
  <2> QED
    BY <1>1, <1>3, <1>5, <2>1, <2>2
<1>7. under = 1..Len(s.stack)
  <2>1. \A i \in D : i \in under <=> p > i
    BY <1>2, <1>3, <1>6
  <2>2. \A i \in under : i \in D
    BY <1>2
  <2>3. \A i \in 1..Len(s.stack) : i \in D
    BY <1>3
  <2>4. \A i \in D : p > i <=> i \in 1..Len(s.stack)
    BY <1>1, <1>2
  <2> HIDE DEF under, D, p
  <2> QED
    BY <2>1, <2>2, <2>3, <2>4
<1>8. Cardinality(under) = Len(s.stack)
  <2>1. Cardinality(1..Len(s.stack)) = Len(s.stack)
    BY <1>1, FS_Interval
  <2> HIDE DEF under
  <2> QED
    BY <1>7, <2>1
<1>9. SubSeq(u.stack, 1, Len(s.stack)) = s.stack
  <2>1. Len(s.stack) <= Len(u.stack)
    BY <1>1, <1>2, <1>3
  <2> DEFINE q == SubSeq(u.stack, 1, Len(s.stack))
  <2>2. q \in Seq(NodeId) /\ Len(q) = Len(s.stack) /\ \A i \in 1..Len(s.stack) : q[i] = u.stack[i]
    BY <1>1, <1>2, <2>1
  <2> HIDE DEF q
  <2>3. q = s.stack
    BY <1>1, <1>3, <2>2
  <2> QED
    BY <2>3 DEF q
<1>10. PopComponent(u, n) =
          [u EXCEPT !.stack = SubSeq(@, 1, Cardinality(under)),
                    !.sccs = IF Cardinality(scc) > 1 THEN @ \cup {scc} ELSE @]
  BY DEF PopComponent
<1> HIDE DEF under
<1>11. OnStack(s) = {u.stack[i] : i \in under}
  <2>1. OnStack(s) = {s.stack[i] : i \in 1..Len(s.stack)}
    BY <1>1, SearchFields
  <2> QED
    BY <1>3, <1>7, <2>1
<1>12. \A i \in D : u.indices[u.stack[i]] < u.indices[n] <=> i \in under
  <2> TAKE i \in D
  <2>1. i < p => u.indices[u.stack[i]] < u.indices[n]
    BY <1>3, <1>4
  <2>2. p < i => u.indices[n] < u.indices[u.stack[i]]
    BY <1>3, <1>4
  <2>3. i \in under <=> i < p
    BY <1>1, <1>7
  <2> QED
    BY <1>1, <1>3, <1>5, <2>1, <2>2, <2>3
<1>13. \A y \in OnStack(u) : y \in OnStack(s) <=> u.indices[y] < u.indices[n]
  <2>1. \A i \in under : i \in D
    BY <1>3, <1>7
  <2> QED
    BY <1>2, <1>11, <1>12, <2>1
<1>14. scc = OnStack(u) \ OnStack(s)
  <2>1. \A i \in D : u.stack[i] \in OnStack(s) <=> i \in under
    BY <1>2, <1>12, <1>13
  <2> QED
    BY <1>2, <2>1
<1>15. \A y \in OnStack(u) : y \in OnStack(u) \ OnStack(s) <=> u.indices[n] <= u.indices[y]
  <2>1. u.indices[n] \in Nat /\ \A y \in OnStack(u) : u.indices[y] \in Nat
    BY <1>2
  <2> QED
    BY <1>13, <2>1
<1> HIDE DEF scc
<1> QED
  BY <1>8, <1>9, <1>10, <1>14, <1>15

(* A call for n from s, before it looks at the low link.                   *)
Ending(N, R, s, n, G, u) ==
    /\ Closes(N, R) /\ Searching(N, R, s, G) /\ n \in NodeId \ Seen(s) /\ (\A x \in G : n \in R[x])
    /\ Following(N, R, Enter(s, n), n, N[n], G \cup {n}, u)

LEMMA EnterCalled ==
  ASSUME NEW s, Numbered(s), NEW n \in NodeId \ Seen(s)
  PROVE  Called(Enter(s, n), n)
<1>1. s \in Search /\ s.stack \in Seq(NodeId)
  BY SearchFields DEF Numbered
<1>2. Numbered(Enter(s, n)) /\ Enter(s, n).stack = Append(s.stack, n)
  BY EnterIs
<1> QED
  BY <1>1, <1>2 DEF Called

(* What it has left on the stack, and what it was given.                   *)
LEMMA EndingIs ==
  ASSUME NEW N, NEW R, NEW s, NEW n, NEW G, NEW u, Ending(N, R, s, n, G, u)
  PROVE  /\ s \in Search /\ Numbered(s) /\ u \in Search /\ Numbered(u) /\ n \in NodeId
         /\ Keeps(s, u, {}) /\ n \notin OnStack(s) /\ n \in OnStack(u) /\ n \notin G
         /\ OnStack(s) \subseteq OnStack(u) /\ OnStack(u) \subseteq Seen(u)
         /\ G \subseteq OnStack(s) /\ OnStack(u) \in SUBSET NodeId
         /\ \A y \in OnStack(u) : u.indices[y] \in Nat
         /\ \A y \in OnStack(s) : u.indices[y] = s.indices[y]
         /\ u.indices[n] = s.index /\ u.lowLinks[n] \in Nat /\ u.lowLinks[n] <= u.indices[n]
         /\ \A y \in OnStack(u) : y \in OnStack(u) \ OnStack(s) <=> u.indices[n] <= u.indices[y]
<1> DEFINE e == Enter(s, n)
<1>1. /\ Numbered(s) /\ s \in Search /\ n \in NodeId \ Seen(s)
      /\ Following(N, R, e, n, N[n], G \cup {n}, u) /\ G \subseteq OnStack(s)
  BY DEF Ending, Searching, Numbered, Explored
<1>2. /\ e \in Search /\ Numbered(e) /\ e.indices[n] = s.index
      /\ \A m \in NodeId \ {n} : e.indices[m] = s.indices[m]
      /\ OnStack(e) = OnStack(s) \cup {n} /\ n \notin OnStack(s) /\ Keeps(s, e, {})
      /\ Seen(e) = Seen(s) \cup {n} /\ s.stack \in Seq(NodeId) /\ e.stack = Append(s.stack, n)
      /\ \A m \in NodeId \ {n} : e.lowLinks[m] = s.lowLinks[m]
  BY <1>1, EnterIs, SearchFields
<1>3. Called(e, n)
  BY <1>1, EnterCalled
<1> HIDE DEF e
<1>4. /\ u \in Search /\ Numbered(u) /\ u.lowLinks[n] \in Nat
      /\ OnStack(e) \subseteq OnStack(u) /\ OnStack(u) \subseteq Seen(u)
      /\ \A y \in OnStack(e) : u.indices[y] = e.indices[y]
      /\ \A y \in OnStack(u) : u.indices[y] \in Nat
      /\ u.lowLinks[n] <= u.indices[n]
  BY <1>1, <1>3, FollowingIs
<1>5. Keeps(e, u, {n})
  BY <1>1 DEF Following
<1>6. Keeps(s, u, {})
  <2>1. /\ Len(s.stack) \in Nat /\ Len(e.stack) = Len(s.stack) + 1 /\ Len(u.stack) \in Nat
        /\ \A i \in 1..Len(s.stack) : i \in 1..Len(e.stack) /\ e.stack[i] = s.stack[i]
    <3>1. s.stack \in Seq(NodeId) /\ e.stack = Append(s.stack, n)
      BY <1>2
    <3>2. u.stack \in Seq(NodeId) /\ n \in NodeId
      BY <1>1, <1>4, SearchFields
    <3> QED
      BY <3>1, <3>2
  <2>2. Len(s.stack) <= Len(u.stack) /\ \A i \in 1..Len(s.stack) : u.stack[i] = s.stack[i]
    BY <1>5, <2>1 DEF Keeps
  <2>3. \A m \in Seen(s) : m \in NodeId \ {n} /\ m \in Seen(e)
    BY <1>1, <1>2 DEF Seen
  <2>4. \A m \in Seen(s) : u.indices[m] = s.indices[m] /\ u.lowLinks[m] = s.lowLinks[m]
    BY <1>2, <1>5, <2>3 DEF Keeps
  <2>5. Seen(s) \subseteq Seen(u)
    BY <1>2, <1>5 DEF Keeps
  <2> QED
    BY <2>2, <2>4, <2>5 DEF Keeps
<1>7. \A y \in OnStack(s) : u.indices[y] = s.indices[y]
  <2>1. \A y \in OnStack(s) : y \in NodeId \ {n} /\ y \in OnStack(e)
    BY <1>1, <1>2, SearchFields
  <2> QED
    BY <1>2, <1>4, <2>1
<1>8. OnStack(u) \in SUBSET NodeId
  BY <1>4, SearchFields
<1>9. \A y \in OnStack(u) : y \in OnStack(u) \ OnStack(s) <=> u.indices[n] <= u.indices[y]
  BY <1>1, <1>4, <1>5, StackFrom DEF e
<1> QED
  BY <1>1, <1>2, <1>4, <1>6, <1>7, <1>8, <1>9

(* What Following says of the end of a call, in terms of its start.        *)
LEMMA LinksOut ==
  ASSUME NEW N, NEW R, NEW s, NEW n, NEW G, NEW u, Ending(N, R, s, n, G, u)
  PROVE  /\ \A x \in OnStack(u) \ OnStack(s) : \A y \in N[x] \cap OnStack(s) :
               u.lowLinks[n] <= s.indices[y]
         /\ \/ u.lowLinks[n] = u.indices[n]
            \/ \E y \in OnStack(s) : u.lowLinks[n] = s.indices[y] /\ y \in R[n]
         /\ \A x \in OnStack(u) \ OnStack(s) : N[x] \subseteq Seen(u)
         /\ \A x \in Finished(u) : N[x] \subseteq Finished(u)
<1> DEFINE e == Enter(s, n)
<1>1. /\ Numbered(s) /\ n \in NodeId \ Seen(s) /\ Closes(N, R)
      /\ Following(N, R, e, n, N[n], G \cup {n}, u)
  BY DEF Ending, Searching
<1>2. /\ OnStack(e) = OnStack(s) \cup {n} /\ e.indices[n] = s.index /\ n \notin OnStack(s)
      /\ \A m \in NodeId \ {n} : e.indices[m] = s.indices[m]
  BY <1>1, EnterIs
<1>3. /\ G \subseteq OnStack(s) /\ u.indices[n] = s.index
      /\ OnStack(s) \subseteq OnStack(u) /\ OnStack(u) \in SUBSET NodeId
  BY EndingIs
<1>4. \A y \in OnStack(s) : y \in OnStack(e) /\ e.indices[y] = s.indices[y]
  BY <1>2, <1>3
<1> HIDE DEF e
<1>5. ASSUME NEW x \in OnStack(u) \ OnStack(s), NEW y \in N[x] \cap OnStack(s)
      PROVE  u.lowLinks[n] <= s.indices[y]
  <2>1. CASE x = n
    <3>1. y \in N[n] \cap OnStack(e)
      BY <1>4, <1>5, <2>1
    <3>2. u.lowLinks[n] <= e.indices[y]
      BY <1>1, <3>1 DEF Following
    <3> QED
      BY <1>4, <1>5, <3>2
  <2>2. CASE x # n
    <3>1. x \in OnStack(u) \ OnStack(e) /\ y \in N[x] \cap OnStack(e)
      BY <1>2, <1>4, <1>5, <2>2
    <3>2. u.lowLinks[n] <= e.indices[y]
      BY <1>1, <3>1 DEF Following
    <3> QED
      BY <1>4, <1>5, <3>2
  <2> QED
    BY <2>1, <2>2
<1>6. \/ u.lowLinks[n] = u.indices[n]
      \/ \E y \in OnStack(s) : u.lowLinks[n] = s.indices[y] /\ y \in R[n]
  <2>1. PICK z \in OnStack(e) : u.lowLinks[n] = e.indices[z] /\ z \in R[n]
    BY <1>1 DEF Following
  <2> QED
    BY <1>2, <1>3, <1>4, <2>1
<1>7. ASSUME NEW x \in OnStack(u) \ OnStack(s)
      PROVE  N[x] \subseteq Seen(u)
  <2>1. CASE x = n
    BY <1>1, <2>1 DEF Following
  <2>2. CASE x # n
    <3>1. x \in OnStack(u) \ (G \cup {n})
      BY <1>3, <1>7, <2>2
    <3> QED
      BY <1>1, <3>1 DEF Following, Searching, Explored
  <2> QED
    BY <2>1, <2>2
<1>8. \A x \in Finished(u) : N[x] \subseteq Finished(u)
  BY <1>1 DEF Following, Searching, Explored
<1> QED
  BY <1>5, <1>6, <1>7, <1>8

(* What is on the stack from n on reaches n and is reached from it.        *)
LEMMA MutualFrom ==
  ASSUME NEW N, NEW R, NEW s, NEW n, NEW G, NEW u, Ending(N, R, s, n, G, u),
         NEW y \in OnStack(u) \ OnStack(s)
  PROVE  y \in R[n] /\ (u.lowLinks[n] = u.indices[n] => n \in R[y])
<1>1. /\ Closes(N, R) /\ Stacked(R, u, G \cup {n})
  BY DEF Ending, Following, Searching
<1>2. /\ n \in NodeId /\ n \in OnStack(u) /\ OnStack(u) \in SUBSET NodeId /\ G \subseteq OnStack(s)
      /\ OnStack(s) \subseteq OnStack(u) /\ n \notin OnStack(s)
      /\ \A z \in OnStack(u) : u.indices[z] \in Nat
      /\ \A z \in OnStack(u) : z \in OnStack(u) \ OnStack(s) <=> u.indices[n] <= u.indices[z]
  BY EndingIs
<1>3. y \in R[n]
  BY <1>1, <1>2 DEF Stacked
<1>4. PICK x \in G \cup {n} : u.indices[x] <= u.indices[y] /\ x \in R[y]
  BY <1>1 DEF Stacked
<1>5. n \in R[x]
  <2>1. CASE x = n
    BY <1>1, <1>2, <2>1 DEF Closes
  <2>2. CASE x \in G
    <3>1. x \in OnStack(u) /\ ~(u.indices[n] <= u.indices[x])
      BY <1>2, <2>2
    <3>2. u.indices[x] <= u.indices[n]
      BY <1>2, <3>1
    <3> QED
      BY <1>1, <1>2, <3>2 DEF Stacked
  <2> QED
    BY <2>1, <2>2
<1>6. n \in R[y]
  <2>1. y \in NodeId /\ x \in R[y]
    BY <1>2, <1>4
  <2>2. R[x] \subseteq R[y]
    BY <1>1, <2>1, ReachTransitive
  <2> QED
    BY <1>5, <2>2
<1> QED
  BY <1>3, <1>6

(* With its own index for a low link, n is the first of its component.     *)
LEMMA ComponentIs ==
  ASSUME NEW N, NEW R, NEW s, NEW n, NEW G, NEW u, Ending(N, R, s, n, G, u),
         u.lowLinks[n] = u.indices[n]
  PROVE  LET scc == OnStack(u) \ OnStack(s) IN
         /\ scc = Mutual(R, n) /\ n \in scc
         /\ \A x \in Finished(u) \cup scc : N[x] \subseteq Finished(u) \cup scc
<1> DEFINE scc == OnStack(u) \ OnStack(s)
           K == Finished(u) \cup scc
<1>1. /\ n \in NodeId /\ n \in scc /\ OnStack(u) \in SUBSET NodeId
      /\ OnStack(s) \subseteq OnStack(u) /\ Seen(u) \in SUBSET NodeId
      /\ \A z \in OnStack(u) : u.indices[z] \in Nat
      /\ \A y \in OnStack(s) : u.indices[y] = s.indices[y]
      /\ \A z \in OnStack(u) : z \in scc <=> u.indices[n] <= u.indices[z]
  BY EndingIs DEF Seen
<1>2. Closes(N, R)
  BY DEF Ending
<1>3. ASSUME NEW x \in K
      PROVE  N[x] \subseteq K
  <2>1. CASE x \in Finished(u)
    BY <2>1, LinksOut
  <2>2. CASE x \in scc
    <3>1. N[x] \subseteq Seen(u)
      BY <2>2, LinksOut
    <3>2. ASSUME NEW y \in N[x] \cap OnStack(s)
          PROVE  FALSE
      <4>1. u.lowLinks[n] <= s.indices[y]
        BY <2>2, LinksOut
      <4>2. u.indices[n] <= u.indices[y] /\ y \in OnStack(u)
        BY <1>1, <4>1
      <4> QED
        BY <1>1, <4>2
    <3> QED
      BY <3>1, <3>2 DEF Finished
  <2> QED
    BY <2>1, <2>2
<1>4. K \in SUBSET NodeId
  BY <1>1 DEF Finished
<1>5. R[n] \subseteq K
  <2> HIDE DEF K
  <2>1. n \in K
    BY <1>1 DEF K
  <2> QED
    BY <1>1, <1>2, <1>3, <1>4, <2>1 DEF Closes
<1>6. scc \subseteq Mutual(R, n)
  BY MutualFrom DEF Mutual
<1>7. ASSUME NEW m \in Mutual(R, n)
      PROVE  m \in scc
  <2>1. m \in K /\ n \in R[m] /\ m \in NodeId
    BY <1>4, <1>5 DEF Mutual
  <2>2. ASSUME m \in Finished(u)
        PROVE  FALSE
    <3>1. Finished(u) \in SUBSET NodeId /\ \A x \in Finished(u) : N[x] \subseteq Finished(u)
      BY <1>1, LinksOut DEF Finished
    <3>2. R[m] \subseteq Finished(u)
      BY <1>2, <2>1, <2>2, <3>1 DEF Closes
    <3> QED
      BY <1>1, <2>1, <3>2 DEF Finished
  <2> QED
    BY <2>1, <2>2
<1> QED
  BY <1>1, <1>3, <1>6, <1>7

LEMMA MoreComponents ==
  ASSUME NEW N, NEW R, Closes(N, R), NEW n \in NodeId, NEW S
  PROVE  Components(R, S \cup Mutual(R, n)) =
            IF Cardinality(Mutual(R, n)) > 1 THEN Components(R, S) \cup {Mutual(R, n)}
            ELSE Components(R, S)
<1>1. \A m \in Mutual(R, n) : Mutual(R, m) = Mutual(R, n)
  BY MutualIs
<1>2. n \in Mutual(R, n)
  BY DEF Mutual, Closes
<1>3. {Mutual(R, m) : m \in S \cup Mutual(R, n)} = {Mutual(R, m) : m \in S} \cup {Mutual(R, n)}
  BY <1>1, <1>2
<1> QED
  BY <1>3 DEF Components

(* The call ends with the component of n.                                  *)
LEMMA Popped ==
  ASSUME NEW N, NEW R, NEW s, NEW n, NEW G, NEW u, Ending(N, R, s, n, G, u),
         u.lowLinks[n] = u.indices[n]
  PROVE  Connected(N, R, s, n, G, PopComponent(u, n))
<1> DEFINE t == PopComponent(u, n)
           scc == OnStack(u) \ OnStack(s)
<1>1. /\ s \in Search /\ Numbered(s) /\ u \in Search /\ Numbered(u) /\ n \in NodeId
      /\ Keeps(s, u, {}) /\ n \notin OnStack(s) /\ n \in OnStack(u) /\ n \notin G
      /\ OnStack(s) \subseteq OnStack(u) /\ OnStack(u) \subseteq Seen(u)
      /\ G \subseteq OnStack(s) /\ OnStack(u) \in SUBSET NodeId
      /\ \A y \in OnStack(u) : u.indices[y] \in Nat
      /\ u.indices[n] = s.index
      /\ \A y \in OnStack(u) : y \in scc <=> u.indices[n] <= u.indices[y]
  BY EndingIs
<1>2. /\ t.stack = s.stack /\ t.index = u.index
      /\ t.indices = u.indices /\ t.lowLinks = u.lowLinks
      /\ t.sccs = IF Cardinality(scc) > 1 THEN u.sccs \cup {scc} ELSE u.sccs
  <2>1. Keeps(Enter(s, n), u, {n}) /\ n \in NodeId \ Seen(s)
    BY DEF Ending, Following
  <2>2. Numbered(s) /\ u \in Search /\ Numbered(u)
    BY <1>1
  <2>3. t = [u EXCEPT !.stack = s.stack,
                      !.sccs = IF Cardinality(scc) > 1 THEN @ \cup {scc} ELSE @]
    BY <2>1, <2>2, StackFrom
  <2> HIDE DEF t, scc
  <2> QED
    BY <2>2, <2>3 DEF Search
<1>3. t \in Search
  BY <1>1, PopType
<1> HIDE DEF t
<1>4. /\ Closes(N, R) /\ Searching(N, R, u, G \cup {n}) /\ Searching(N, R, s, G)
      /\ n \in NodeId \ Seen(s)
  BY DEF Ending, Following
<1>5. /\ scc = Mutual(R, n) /\ n \in scc
      /\ \A x \in Finished(u) \cup scc : N[x] \subseteq Finished(u) \cup scc
  BY ComponentIs
<1>6. Seen(t) = Seen(u) /\ OnStack(t) = OnStack(s) /\ Finished(t) = Finished(u) \cup scc
  <2>1. Seen(t) = Seen(u) /\ OnStack(t) = OnStack(s)
    BY <1>2 DEF Seen, OnStack
  <2> QED
    BY <1>1, <2>1 DEF Finished
<1>7. Keeps(s, t, {})
  <2>1. Len(s.stack) \in Nat
    BY <1>1, SearchFields
  <2> QED
    BY <1>1, <1>2, <1>6, <2>1 DEF Keeps
<1>8. Numbered(t)
  <2>1. t.index = Cardinality(Seen(t)) /\ \A m \in Seen(t) : t.indices[m] < t.index
    BY <1>1, <1>2, <1>6 DEF Numbered
  <2>2. \A i \in 1..Len(s.stack) : t.indices[s.stack[i]] = s.indices[s.stack[i]]
    <3>1. \A i \in 1..Len(s.stack) : s.stack[i] \in Seen(s)
      BY <1>1, SearchFields DEF Numbered
    <3> QED
      BY <1>7, <3>1 DEF Keeps
  <2>3. \A i, j \in 1..Len(t.stack) : i < j => t.indices[t.stack[i]] < t.indices[t.stack[j]]
    BY <1>1, <1>2, <2>2 DEF Numbered
  <2> QED
    BY <1>1, <1>3, <1>6, <2>1, <2>3 DEF Numbered
<1>9. Explored(N, t, G)
  <2>1. \A x \in OnStack(s) \ G : N[x] \subseteq Seen(u)
    <3>1. \A x \in OnStack(s) \ G : x \in OnStack(u) \ (G \cup {n})
      BY <1>1
    <3> QED
      BY <1>4, <3>1 DEF Searching, Explored
  <2> HIDE DEF scc
  <2> QED
    BY <1>1, <1>5, <1>6, <2>1 DEF Explored
<1>10. Stacked(R, t, G)
  <2>1. ASSUME NEW x \in G, NEW y \in OnStack(s), t.indices[x] <= t.indices[y]
        PROVE  y \in R[x]
    BY <1>1, <1>2, <1>4, <2>1 DEF Searching, Stacked
  <2>2. ASSUME NEW y \in OnStack(s)
        PROVE  \E x \in G : t.indices[x] <= t.indices[y] /\ x \in R[y]
    <3>1. PICK x \in G \cup {n} : u.indices[x] <= u.indices[y] /\ x \in R[y]
      BY <1>1, <1>4 DEF Searching, Stacked
    <3>2. x # n
      BY <1>1, <3>1
    <3> QED
      BY <1>2, <3>1, <3>2
  <2> QED
    BY <1>6, <2>1, <2>2 DEF Stacked
<1>11. t.sccs = Components(R, Finished(t))
  <2>1. u.sccs = Components(R, Finished(u))
    BY <1>4 DEF Searching
  <2>2. Components(R, Finished(u) \cup Mutual(R, n)) =
           IF Cardinality(Mutual(R, n)) > 1 THEN Components(R, Finished(u)) \cup {Mutual(R, n)}
           ELSE Components(R, Finished(u))
    BY <1>1, <1>4, MoreComponents
  <2>3. /\ scc = Mutual(R, n) /\ Finished(t) = Finished(u) \cup scc
        /\ t.sccs = IF Cardinality(scc) > 1 THEN u.sccs \cup {scc} ELSE u.sccs
    BY <1>2, <1>5, <1>6
  <2> HIDE DEF scc
  <2> QED
    BY <2>1, <2>2, <2>3
<1>12. Searching(N, R, t, G)
  BY <1>8, <1>9, <1>10, <1>11 DEF Searching
<1>13. t.lowLinks[n] >= s.index
  <2>1. t.lowLinks[n] = s.index /\ s.index \in Nat
    BY <1>1, <1>2, SearchFields
  <2> QED
    BY <2>1
<1>14. n \in Seen(t) /\ OnStack(t) \ OnStack(s) = {}
  BY <1>1, <1>6
<1> QED
  BY <1>7, <1>12, <1>13, <1>14 DEF Connected, t

(* The call ends and leaves n on the stack.                                *)
LEMMA LeftOn ==
  ASSUME NEW N, NEW R, NEW s, NEW n, NEW G, NEW u, Ending(N, R, s, n, G, u),
         u.lowLinks[n] # u.indices[n]
  PROVE  Connected(N, R, s, n, G, u)
<1>1. /\ s \in Search /\ Numbered(s) /\ u \in Search /\ Numbered(u) /\ n \in NodeId
      /\ Keeps(s, u, {}) /\ n \notin OnStack(s) /\ n \in OnStack(u) /\ n \notin G
      /\ OnStack(s) \subseteq OnStack(u) /\ OnStack(u) \subseteq Seen(u)
      /\ G \subseteq OnStack(s) /\ OnStack(u) \in SUBSET NodeId
      /\ \A y \in OnStack(u) : u.indices[y] \in Nat
      /\ \A y \in OnStack(s) : u.indices[y] = s.indices[y]
      /\ u.lowLinks[n] \in Nat /\ u.lowLinks[n] <= u.indices[n]
  BY EndingIs
<1>2. Closes(N, R) /\ Searching(N, R, u, G \cup {n})
  BY DEF Ending, Following
<1>3. PICK z \in OnStack(s) : u.lowLinks[n] = s.indices[z] /\ z \in R[n]
  BY LinksOut
<1>4. Explored(N, u, G)
  <2>1. \A x \in OnStack(u) \ G : N[x] \subseteq Seen(u)
    <3> TAKE x \in OnStack(u) \ G
    <3>1. CASE x = n
      BY <1>1, <3>1, LinksOut
    <3>2. CASE x # n
      BY <1>2, <3>2 DEF Searching, Explored
    <3> QED
      BY <3>1, <3>2
  <2> QED
    BY <1>1, <1>2, <2>1 DEF Searching, Explored
<1>5. PICK w \in G : u.indices[w] <= u.indices[z] /\ w \in R[z]
  <2>1. PICK w \in G \cup {n} : u.indices[w] <= u.indices[z] /\ w \in R[z]
    BY <1>1, <1>2, <1>3 DEF Searching, Stacked
  <2>2. w # n
    <3>1. u.indices[z] = u.lowLinks[n] /\ u.indices[n] \in Nat
      BY <1>1, <1>3
    <3> QED
      BY <1>1, <2>1, <3>1
  <2> QED
    BY <2>1, <2>2
<1>6. Stacked(R, u, G)
  <2>1. ASSUME NEW y \in OnStack(u)
        PROVE  \E x \in G : u.indices[x] <= u.indices[y] /\ x \in R[y]
    <3>1. PICK x \in G \cup {n} : u.indices[x] <= u.indices[y] /\ x \in R[y]
      BY <1>2 DEF Searching, Stacked
    <3>2. CASE x = n
      <4>1. u.indices[w] <= u.indices[y]
        <5>1. /\ u.indices[z] = u.lowLinks[n] /\ u.indices[n] \in Nat /\ u.indices[w] \in Nat
              /\ u.indices[y] \in Nat /\ u.indices[z] \in Nat
          BY <1>1, <1>3
        <5> QED
          BY <1>1, <1>5, <3>1, <3>2, <5>1
      <4>2. w \in R[y]
        <5>1. z \in NodeId /\ y \in NodeId /\ n \in R[y] /\ z \in R[n]
          BY <1>1, <1>3, <3>1, <3>2
        <5>2. R[n] \subseteq R[y] /\ R[z] \subseteq R[n]
          BY <1>1, <1>2, <5>1, ReachTransitive
        <5> QED
          BY <1>5, <5>2
      <4> QED
        BY <4>1, <4>2
    <3>3. CASE x # n
      BY <3>1, <3>3
    <3> QED
      BY <3>2, <3>3
  <2> QED
    BY <1>2, <2>1 DEF Searching, Stacked
<1>7. Searching(N, R, u, G)
  BY <1>2, <1>4, <1>6 DEF Searching
<1>8. \A x \in OnStack(u) \ OnStack(s) : \A y \in N[x] \cap OnStack(s) : u.lowLinks[n] <= s.indices[y]
  BY LinksOut
<1> QED
  BY <1>1, <1>3, <1>7, <1>8 DEF Connected

Out(g) == [n \in NodeId |-> Neighbours(g, n, "out")]

Reach(g) == [n \in NodeId |-> Visited(g, n, "out")[Unlimited]]

LEMMA ReachCloses ==
  ASSUME NEW g, Sound(g)
  PROVE  Closes(Out(g), Reach(g))
<1> DEFINE f(n) == Visited(g, n, "out")
<1>1. \A n \in NodeId :
         /\ Rounds(f(n), SUBSET NodeId, {n}, Spread(g, "out"))
         /\ f(n) \in [Nat -> SUBSET NodeId] /\ f(n)[0] = {n}
         /\ \A k \in Nat : f(n)[k] \subseteq f(n)[k + 1]
         /\ \A k \in Nat :
               f(n)[k + 1] = f(n)[k] \cup UNION {Neighbours(g, m, "out") : m \in f(n)[k]}
  BY VisitedNear, VisitedGrows, VisitedLayers
<1>2. \A n \in NodeId : n \in f(n)[Unlimited]
  BY UnlimitedIs, VisitedGrows
<1>3. \A n \in NodeId : Neighbours(g, n, "out") \in SUBSET NodeId
  BY NeighboursAre
<1> HIDE DEF f
<1>4. Unlimited \in Nat
  BY UnlimitedIs
<1>5. \A n \in NodeId : f(n)[Unlimited + 1] = f(n)[Unlimited]
  BY <1>1, Settles
<1>6. ASSUME NEW n \in NodeId
      PROVE  f(n)[Unlimited] \in SUBSET NodeId
             /\ \A m \in f(n)[Unlimited] : Neighbours(g, m, "out") \subseteq f(n)[Unlimited]
  <2>1. f(n)[Unlimited + 1] =
           f(n)[Unlimited] \cup UNION {Neighbours(g, m, "out") : m \in f(n)[Unlimited]}
    BY <1>1, <1>4
  <2>2. f(n)[Unlimited] \in SUBSET NodeId
    BY <1>1, <1>4
  <2> QED
    BY <1>5, <2>1, <2>2
<1>7. ASSUME NEW n \in NodeId, NEW K \in SUBSET NodeId, n \in K,
             \A m \in K : Neighbours(g, m, "out") \subseteq K
      PROVE  f(n)[Unlimited] \subseteq K
  <2> DEFINE T == {k \in Nat : f(n)[k] \subseteq K}
  <2>1. 0 \in T /\ \A k \in Nat : k \in T => k + 1 \in T
    <3>1. 0 \in T
      BY <1>1, <1>7
    <3>2. ASSUME NEW k \in Nat, k \in T
          PROVE  k + 1 \in T
      <4>1. f(n)[k + 1] = f(n)[k] \cup UNION {Neighbours(g, m, "out") : m \in f(n)[k]}
        BY <1>1
      <4> QED
        BY <1>7, <3>2, <4>1
    <3> QED
      BY <3>1, <3>2
  <2>2. Nat \subseteq T
    <3> HIDE DEF T
    <3> QED
      BY <2>1, AllNaturals
  <2> QED
    BY <1>4, <2>2
<1>8. /\ \A n \in NodeId : Out(g)[n] = Neighbours(g, n, "out")
      /\ \A n \in NodeId : Reach(g)[n] = f(n)[Unlimited]
      /\ DOMAIN Out(g) = NodeId /\ DOMAIN Reach(g) = NodeId
      /\ Out(g) = [n \in NodeId |-> Out(g)[n]] /\ Reach(g) = [n \in NodeId |-> Reach(g)[n]]
  BY DEF Out, Reach, f
<1>9. Out(g) \in [NodeId -> SUBSET NodeId] /\ Reach(g) \in [NodeId -> SUBSET NodeId]
  BY <1>3, <1>6, <1>8
<1>10. \A n \in NodeId : n \in Reach(g)[n] /\ \A m \in Reach(g)[n] : Out(g)[m] \subseteq Reach(g)[n]
  BY <1>2, <1>6, <1>8
<1>11. ASSUME NEW n \in NodeId, NEW K \in SUBSET NodeId, n \in K, \A m \in K : Out(g)[m] \subseteq K
       PROVE  Reach(g)[n] \subseteq K
  BY <1>7, <1>8, <1>11
<1> QED
  BY <1>9, <1>10, <1>11 DEF Closes

LEMMA StrongConnectIs ==
  ASSUME NEW g, Sound(g), NEW deeper \in Calls
  PROVE  /\ StrongConnect(g, deeper) \in Calls
         /\ \A s \in Search, n \in NodeId :
               LET left == Visits(deeper, n, Out(g)[n], Enter(s, n)) IN
               /\ left \in Search
               /\ StrongConnect(g, deeper)[<<s, n>>] =
                     IF left.lowLinks[n] = left.indices[n] THEN PopComponent(left, n) ELSE left
<1> DEFINE Left(s, n) == Visits(deeper, n, Out(g)[n], Enter(s, n))
           End(s, n) == IF Left(s, n).lowLinks[n] = Left(s, n).indices[n]
                        THEN PopComponent(Left(s, n), n) ELSE Left(s, n)
<1>1. \A n \in NodeId : Out(g)[n] = Neighbours(g, n, "out")
  BY DEF Out
<1>2. StrongConnect(g, deeper) = [at \in Search \X NodeId |-> End(at[1], at[2])]
  <2>1. \A at \in Search \X NodeId : at[1] \in Search /\ at[2] \in NodeId
    OBVIOUS
  <2>2. StrongConnect(g, deeper) = [at \in Search \X NodeId |->
           LET left == Visits(deeper, at[2], Neighbours(g, at[2], "out"), Enter(at[1], at[2])) IN
           IF left.lowLinks[at[2]] = left.indices[at[2]] THEN PopComponent(left, at[2]) ELSE left]
    BY DEF StrongConnect, Visits
  <2> QED
    BY <1>1, <2>1, <2>2
<1>3. ASSUME NEW s \in Search, NEW n \in NodeId
      PROVE  Left(s, n) \in Search /\ End(s, n) \in Search
  <2> DEFINE u == Enter(s, n)
             S == Out(g)[n]
             r == Visits(deeper, n, S, u)
  <2>1. u \in Search
    BY EnterType
  <2>2. S \in SUBSET NodeId
    BY <1>1, NeighboursAre
  <2>3. IsFold(r, S, Search, u, First(S), Visiting(deeper, n, S))
    BY <2>1, <2>2, VisitsFold
  <2>4. r \in Search
    BY <2>3, FoldTyped
  <2>5. PopComponent(r, n) \in Search
    BY <2>4, PopType
  <2> QED
    BY <2>4, <2>5
<1> HIDE DEF End
<1>4. StrongConnect(g, deeper) \in Calls
  BY <1>2, <1>3 DEF Calls
<1>5. \A s \in Search, n \in NodeId : StrongConnect(g, deeper)[<<s, n>>] = End(s, n)
  BY <1>2
<1> QED
  BY <1>3, <1>4, <1>5 DEF End

(* Calls that may go k nodes deep connect.                                 *)
Connects(N, R, deeper, k) ==
    \A s \in Search, G \in SUBSET NodeId : \A n \in NodeId \ Seen(s) :
        Searching(N, R, s, G) /\ (\A x \in G : n \in R[x]) /\ Cardinality(NodeId \ Seen(s)) <= k
            => Connected(N, R, s, n, G, deeper[<<s, n>>])

LEMMA ConnectsDeeper ==
  ASSUME NEW g, Sound(g), NEW deeper \in Calls, NEW k \in Nat,
         Connects(Out(g), Reach(g), deeper, k)
  PROVE  Connects(Out(g), Reach(g), StrongConnect(g, deeper), k + 1)
<1> DEFINE N == Out(g)
           R == Reach(g)
<1>1. Closes(N, R)
  BY ReachCloses
<1>2. Connects(N, R, deeper, k)
  OBVIOUS
<1> HIDE DEF N, R
<1> SUFFICES ASSUME NEW s \in Search, NEW G \in SUBSET NodeId, NEW n \in NodeId \ Seen(s),
                    Searching(N, R, s, G), \A x \in G : n \in R[x],
                    Cardinality(NodeId \ Seen(s)) <= k + 1
             PROVE  Connected(N, R, s, n, G, StrongConnect(g, deeper)[<<s, n>>])
  BY DEF Connects, N, R
<1> DEFINE e == Enter(s, n)
           H == G \cup {n}
           u == Visits(deeper, n, N[n], e)
<1>3. Numbered(s)
  BY DEF Searching
<1>4. /\ e \in Search /\ e.lowLinks[n] = e.indices[n] /\ Seen(e) = Seen(s) \cup {n}
  BY <1>3, EnterIs
<1>5. Searching(N, R, e, H)
  BY <1>1, EnterSearching
<1>6. Called(e, n)
  BY <1>3, EnterCalled
<1>7. H \in SUBSET NodeId /\ n \in H /\ n \in NodeId
  OBVIOUS
<1> HIDE DEF e, H
<1>8. ASSUME NEW m \in N[n], NEW v \in Search, Seen(e) \subseteq Seen(v), m \notin Seen(v),
             Searching(N, R, v, H)
      PROVE  Connected(N, R, v, m, H, deeper[<<v, m>>])
  <2>1. m \in NodeId \ Seen(v)
    BY <1>1, <1>7, <1>8 DEF Closes
  <2>2. \A x \in H : m \in R[x]
    <3> TAKE x \in H
    <3>1. x \in NodeId /\ n \in R[x]
      BY <1>1, <1>7 DEF H, Closes
    <3>2. N[n] \subseteq R[x]
      BY <1>1, <3>1 DEF Closes
    <3> QED
      BY <3>2
  <2>3. Cardinality(NodeId \ Seen(v)) <= k
    <3> DEFINE A == NodeId \ Seen(s)
               B == NodeId \ Seen(v)
    <3>1. IsFiniteSet(A) /\ Cardinality(A) \in Nat /\ Cardinality(B) \in Nat
      BY SeenFinite
    <3>2. n \in A /\ B \subseteq A \ {n}
      BY <1>4, <1>8
    <3> HIDE DEF A, B
    <3>3. IsFiniteSet(A \ {n}) /\ Cardinality(A \ {n}) = Cardinality(A) - 1
      BY <3>1, <3>2, FS_RemoveElement
    <3>4. Cardinality(B) <= Cardinality(A \ {n})
      BY <3>2, <3>3, FS_Subset
    <3>5. Cardinality(A) <= k + 1
      BY DEF A
    <3>6. Cardinality(B) <= k
      BY <3>1, <3>3, <3>4, <3>5
    <3> QED
      BY <3>6 DEF B
  <2> QED
    BY <1>2, <1>7, <1>8, <2>1, <2>2, <2>3 DEF Connects
<1>9. Following(N, R, e, n, N[n], H, u)
  BY <1>1, <1>4, <1>5, <1>6, <1>7, <1>8, VisitsFollow
<1>10. Ending(N, R, s, n, G, u)
  <2> HIDE DEF u
  <2> QED
    BY <1>1, <1>9 DEF Ending, e, H
<1>11. StrongConnect(g, deeper)[<<s, n>>] =
          IF u.lowLinks[n] = u.indices[n] THEN PopComponent(u, n) ELSE u
  BY StrongConnectIs DEF N, e
<1> HIDE DEF u
<1> QED
  BY <1>10, <1>11, Popped, LeftOn

(* The calls by how deep they may go.                                      *)
NoCall == [at \in Search \X NodeId |-> at[1]]

Connecting(g) == [deeper \in Calls |-> StrongConnect(g, deeper)]

ConnectLayers(g) == CHOOSE f : Rounds(f, Calls, NoCall, Connecting(g))

LEMMA ConnectIs ==
  ASSUME NEW g, Sound(g)
  PROVE  /\ Rounds(ConnectLayers(g), Calls, NoCall, Connecting(g))
         /\ Connect(g) = ConnectLayers(g)[Cardinality(NodeId)]
<1> DEFINE o == Connecting(g)
           Layer(f, k) ==
               IF k = 0 THEN [at \in Search \X NodeId |-> at[1]]
               ELSE StrongConnect(g, f[k - 1])
           Eq(f) == f = [k \in Nat |-> Layer(f, k)]
           connect == CHOOSE f : Eq(f)
<1>1. Connect(g) = connect[Cardinality(NodeId)]
  BY DEF Connect
<1>2. o \in [Calls -> Calls] /\ NoCall \in Calls
  <2>1. \A deeper \in Calls : StrongConnect(g, deeper) \in Calls
    BY StrongConnectIs
  <2>2. o \in [Calls -> Calls]
    <3> HIDE DEF Calls
    <3> QED
      BY <2>1 DEF Connecting
  <2>3. NoCall \in Calls
    BY DEF NoCall, Calls
  <2> QED
    BY <2>2, <2>3
<1>3. \A deeper \in Calls : o[deeper] = StrongConnect(g, deeper)
  BY DEF Connecting
<1>4. ASSUME NEW f, NEW k \in Nat, f[k] \in Calls
      PROVE  Layer(f, k + 1) = o[f[k]]
  <2>1. k + 1 # 0 /\ (k + 1) - 1 = k
    OBVIOUS
  <2>2. Layer(f, k + 1) = StrongConnect(g, f[k])
    BY <2>1
  <2> QED
    BY <1>3, <1>4, <2>2
<1>5. \A f : Layer(f, 0) = NoCall
  BY DEF NoCall
<1> HIDE DEF o, Layer
<1>6. \E f : Rounds(f, Calls, NoCall, o)
  BY Zenon, <1>2, LayersExist
<1>7. \E f : Eq(f)
  <2>1. PICK f : Rounds(f, Calls, NoCall, o)
    BY <1>6
  <2>2. ASSUME NEW k \in Nat
        PROVE  f[k] = Layer(f, k)
    <3>1. CASE k = 0
      BY <1>5, <2>1, <3>1 DEF Rounds
    <3>2. CASE k # 0
      <4>1. PICK j \in Nat : k = j + 1
        <5>1. k - 1 \in Nat /\ k = (k - 1) + 1
          BY <3>2
        <5> QED
          BY <5>1
      <4>2. f[j] \in Calls /\ f[j + 1] = o[f[j]]
        BY <2>1 DEF Rounds
      <4> QED
        BY <1>4, <4>1, <4>2
    <3> QED
      BY <3>1, <3>2
  <2>3. f = [k \in Nat |-> f[k]]
    BY <2>1 DEF Rounds
  <2> QED
    BY Zenon, <2>2, <2>3
<1>8. Eq(connect)
  <2> HIDE DEF Eq
  <2> QED
    BY <1>7
<1> HIDE DEF connect
<1>9. /\ connect = [k \in Nat |-> connect[k]]
      /\ connect[0] = NoCall
      /\ \A k \in Nat : connect[k] \in Calls => connect[k + 1] = o[connect[k]]
  BY <1>4, <1>5, <1>8
<1>10. Rounds(connect, Calls, NoCall, o)
  BY Zenon, <1>2, <1>9, LayersAre
<1>11. Rounds(ConnectLayers(g), Calls, NoCall, o)
  BY <1>6 DEF ConnectLayers, o
<1>12. connect = ConnectLayers(g)
  BY Zenon, <1>10, <1>11, LayersUnique
<1> QED
  BY <1>1, <1>11, <1>12 DEF o

(* A call may go as deep as there are nodes.                               *)
LEMMA ConnectConnects ==
  ASSUME NEW g, Sound(g)
  PROVE  /\ Connect(g) \in Calls
         /\ Connects(Out(g), Reach(g), Connect(g), Cardinality(NodeId))
<1> DEFINE f == ConnectLayers(g)
           T == {k \in Nat : Connects(Out(g), Reach(g), f[k], k)}
<1>1. Rounds(f, Calls, NoCall, Connecting(g)) /\ Connect(g) = f[Cardinality(NodeId)]
  BY ConnectIs
<1> HIDE DEF f
<1>2. f \in [Nat -> Calls] /\ \A k \in Nat : f[k + 1] = StrongConnect(g, f[k])
  <2>1. f \in [Nat -> Calls] /\ \A k \in Nat : f[k + 1] = Connecting(g)[f[k]]
    BY <1>1 DEF Rounds
  <2>2. \A k \in Nat : f[k] \in Calls
    BY <2>1
  <2> QED
    BY <2>1, <2>2 DEF Connecting
<1>3. 0 \in T
  <2>1. ASSUME NEW s \in Search, NEW n \in NodeId \ Seen(s), Cardinality(NodeId \ Seen(s)) <= 0
        PROVE  FALSE
    <3>1. IsFiniteSet(NodeId \ Seen(s)) /\ Cardinality(NodeId \ Seen(s)) = 0
      BY <2>1, SeenFinite
    <3>2. NodeId \ Seen(s) = {}
      BY <3>1, FS_EmptySet
    <3> QED
      BY <3>2
  <2> QED
    BY <2>1 DEF Connects
<1>4. \A k \in Nat : k \in T => k + 1 \in T
  BY <1>2, ConnectsDeeper
<1>5. Nat \subseteq T
  <2> HIDE DEF T
  <2> QED
    BY <1>3, <1>4, AllNaturals
<1>6. Cardinality(NodeId) \in Nat
  BY SeenFinite
<1> QED
  BY <1>1, <1>2, <1>5, <1>6

Start(connect, n, s) == IF s.indices[n] = Unvisited THEN connect[<<s, n>>] ELSE s

Starts(connect, S) ==
    FoldSet(LAMBDA n, s : IF s.indices[n] = Unvisited THEN connect[<<s, n>>] ELSE s, Unvisiting, S)

Starting(connect, S) == [p \in S \X Search |-> Start(connect, p[1], p[2])]

LEMMA UnvisitingIs ==
  ASSUME NEW N, NEW R
  PROVE  Unvisiting \in Search /\ Searching(N, R, Unvisiting, {}) /\ Seen(Unvisiting) = {}
<1>1. /\ Unvisiting.index = 0 /\ Unvisiting.stack = <<>> /\ Unvisiting.sccs = {}
      /\ Unvisiting.indices = [n \in NodeId |-> Unvisited]
  BY DEF Unvisiting
<1>2. Unvisited \in Nat
  <2>1. Cardinality(NodeId) \in Nat
    BY SeenFinite
  <2> QED
    BY <2>1 DEF Unvisited
<1>3. Unvisiting \in Search
  BY <1>2 DEF Unvisiting, Search
<1>4. Seen(Unvisiting) = {} /\ OnStack(Unvisiting) = {} /\ Finished(Unvisiting) = {}
  <2>1. Seen(Unvisiting) = {}
    BY <1>1 DEF Seen
  <2>2. OnStack(Unvisiting) = {}
    BY <1>1 DEF OnStack, ToSet
  <2> QED
    BY <2>1, <2>2 DEF Finished
<1>5. Numbered(Unvisiting)
  <2>1. Cardinality({}) = 0 /\ Len(Unvisiting.stack) = 0
    BY <1>1, FS_EmptySet
  <2> QED
    BY <1>1, <1>3, <1>4, <2>1 DEF Numbered
<1>6. Explored(N, Unvisiting, {}) /\ Stacked(R, Unvisiting, {})
  BY <1>4 DEF Explored, Stacked
<1>7. Unvisiting.sccs = Components(R, Finished(Unvisiting))
  BY <1>1, <1>4 DEF Components
<1> QED
  BY <1>3, <1>4, <1>5, <1>6, <1>7 DEF Searching

LEMMA StartType ==
  ASSUME NEW connect \in Calls, NEW n \in NodeId, NEW s \in Search
  PROVE  Start(connect, n, s) \in Search
  BY DEF Start, Calls

LEMMA StartsFold ==
  ASSUME NEW connect \in Calls, NEW S \in SUBSET NodeId
  PROVE  IsFold(Starts(connect, S), S, Search, Unvisiting, First(S), Starting(connect, S))
<1> DEFINE pick == First(S)
           o == Starting(connect, S)
           Step(f, s) ==
               IF s = {} THEN Unvisiting
               ELSE Start(connect, (CHOOSE x \in s : TRUE), f[s \ {CHOOSE x \in s : TRUE}])
           Eq(f) == f = [s \in SUBSET S |-> Step(f, s)]
           iter == CHOOSE f : Eq(f)
<1>1. Starts(connect, S) = iter[S]
  BY DEF Starts, Start, FoldSet, MapThenFoldSet
<1>2. Picks(pick, S) /\ \A s \in SUBSET S : pick[s] = CHOOSE x \in s : TRUE
  BY FirstPicks DEF First
<1>3. \A x \in S, h \in Search : o[<<x, h>>] = Start(connect, x, h)
  BY DEF Starting
<1>4. Within(o, S, Search)
  <2>1. \A x \in S, h \in Search : Start(connect, x, h) \in Search
    BY StartType
  <2> HIDE DEF o
  <2> QED
    BY <1>3, <2>1 DEF Within
<1>5. IsFiniteSet(S) /\ Unvisiting \in Search
  BY FiniteNodes, UnvisitingIs
<1> HIDE DEF pick, o
<1>6. ASSUME NEW f, NEW s \in SUBSET S, s # {}, f[s \ {pick[s]}] \in Search
      PROVE  Step(f, s) = o[<<pick[s], f[s \ {pick[s]}]>>]
  <2>1. pick[s] \in S
    BY <1>2, <1>6 DEF Picks
  <2> QED
    BY <1>2, <1>3, <1>6, <2>1
<1>7. \A f : Step(f, {}) = Unvisiting
  OBVIOUS
<1> HIDE DEF Step
<1>8. \E f : Eq(f)
  <2>1. Picks(pick, S)
    BY <1>2
  <2>2. PICK f \in [SUBSET S -> Search] : Iterates(f, S, Unvisiting, pick, o)
    BY Zenon, <1>4, <1>5, <2>1, IterationExists
  <2>3. ASSUME NEW s \in SUBSET S
        PROVE  f[s] = Step(f, s)
    <3>1. s # {} => f[s \ {pick[s]}] \in Search
      BY <1>2 DEF Picks
    <3> QED
      BY <1>6, <1>7, <2>2, <3>1 DEF Iterates
  <2>4. f = [s \in SUBSET S |-> f[s]]
    OBVIOUS
  <2> QED
    BY Zenon, <2>3, <2>4
<1>9. Eq(iter)
  <2> HIDE DEF Eq
  <2> QED
    BY <1>8
<1> HIDE DEF iter
<1>10. /\ iter = [s \in SUBSET S |-> iter[s]]
       /\ iter[{}] = Unvisiting
       /\ \A s \in SUBSET S : s # {} /\ iter[s \ {pick[s]}] \in Search =>
             iter[s] = o[<<pick[s], iter[s \ {pick[s]}]>>]
  BY <1>6, <1>7, <1>9
<1>11. IsFold(iter[S], S, Search, Unvisiting, pick, o)
  BY Zenon, <1>2, <1>4, <1>5, <1>10, FoldIs
<1> QED
  BY <1>1, <1>11 DEF pick, o

(* Between the searches the stack is empty, and all components are found.  *)
LEMMA StartsFind ==
  ASSUME NEW N, NEW R, NEW connect \in Calls, Connects(N, R, connect, Cardinality(NodeId)),
         NEW S \in SUBSET NodeId
  PROVE  LET s == Starts(connect, S) IN
         S \subseteq Seen(s) /\ s.sccs = Components(R, Seen(s))
<1> DEFINE o == Starting(connect, S)
           r == Starts(connect, S)
           T == {p \in (SUBSET S) \X Search : Searching(N, R, p[2], {}) /\ p[1] \subseteq Seen(p[2])}
<1>1. IsFold(r, S, Search, Unvisiting, First(S), o)
  BY StartsFold
<1>2. \A x \in S, u \in Search : o[<<x, u>>] = Start(connect, x, u)
  BY DEF Starting
<1>3. IsFiniteSet(S)
  BY FiniteNodes
<1> HIDE DEF o, r
<1>4. <<{}, Unvisiting>> \in T
  BY UnvisitingIs
<1>5. ASSUME NEW z \in SUBSET S, NEW x \in z, NEW u \in Search, <<z \ {x}, u>> \in T
      PROVE  <<z, o[<<x, u>>]>> \in T
  <2>1. Searching(N, R, u, {}) /\ z \ {x} \subseteq Seen(u) /\ x \in NodeId
    BY <1>5
  <2>2. o[<<x, u>>] = Start(connect, x, u) /\ o[<<x, u>>] \in Search
    BY <1>2, <2>1, StartType
  <2>3. CASE x \in Seen(u)
    <3>1. Start(connect, x, u) = u
      BY <2>3 DEF Start, Seen
    <3> QED
      BY <2>1, <2>2, <2>3, <3>1
  <2>4. CASE x \notin Seen(u)
    <3> DEFINE v == connect[<<u, x>>]
    <3>1. Start(connect, x, u) = v
      BY <2>1, <2>4 DEF Start, Seen
    <3>2. Cardinality(NodeId \ Seen(u)) <= Cardinality(NodeId)
      <4>1. NodeId \ Seen(u) \subseteq NodeId /\ IsFiniteSet(NodeId)
        BY FiniteAssumption
      <4> QED
        BY <4>1, FS_Subset
    <3>3. Connected(N, R, u, x, {}, v)
      BY <2>1, <2>4, <3>2 DEF Connects
    <3> HIDE DEF v
    <3>4. Searching(N, R, v, {}) /\ x \in Seen(v) /\ Seen(u) \subseteq Seen(v)
      BY <3>3 DEF Connected, Keeps
    <3> QED
      BY <2>1, <2>2, <3>1, <3>4
  <2> QED
    BY <2>3, <2>4
<1>6. <<S, r>> \in T
  <2> HIDE DEF T
  <2>1. Carries(T, S, Search, o)
    BY <1>5 DEF Carries
  <2> QED
    BY Zenon, <1>1, <1>3, <1>4, <2>1, FirstPicks, FoldHolds
<1>7. Searching(N, R, r, {}) /\ S \subseteq Seen(r)
  BY <1>6
<1>8. OnStack(r) = {}
  BY <1>7 DEF Searching, Stacked
<1>9. Finished(r) = Seen(r)
  BY <1>8 DEF Finished
<1> QED
  BY <1>7, <1>9 DEF Searching, r

(* An edge leads from a node of the graph.                                 *)
Sourced(g) == \A e \in Edge : HasEdge(g, e) => HasNode(g, Src[e])

LEMMA LeafReach ==
  ASSUME NEW g, Sound(g), Sourced(g), NEW n \in NodeId, ~HasNode(g, n)
  PROVE  Reach(g)[n] = {n}
<1> DEFINE K == {n}
<1>1. Closes(Out(g), Reach(g))
  BY ReachCloses
<1>2. Neighbours(g, n, "out") = {}
  BY NeighboursAre DEF Sourced, Arc
<1>3. K \in SUBSET NodeId /\ n \in K /\ \A m \in K : Out(g)[m] \subseteq K
  BY <1>2 DEF Out
<1> HIDE DEF K
<1>4. Reach(g)[n] \subseteq K /\ n \in Reach(g)[n]
  BY <1>1, <1>3 DEF Closes
<1> QED
  BY <1>4 DEF K

LEMMA CircularIs ==
  ASSUME NEW g, Sound(g), Sourced(g)
  PROVE  FindCircularDependencies(g) = Components(Reach(g), NodesOf(g))
<1> DEFINE connect == Connect(g)
           S == NodesOf(g)
           s == Starts(connect, S)
           R == Reach(g)
<1>1. FindCircularDependencies(g) = s.sccs
  BY DEF FindCircularDependencies, Starts
<1>2. S \in SUBSET NodeId
  BY DEF NodesOf
<1>3. connect \in Calls /\ Connects(Out(g), R, connect, Cardinality(NodeId))
  BY ConnectConnects
<1>4. S \subseteq Seen(s) /\ s.sccs = Components(R, Seen(s))
  <2> HIDE DEF connect, S
  <2> QED
    BY <1>2, <1>3, StartsFind
<1>5. Seen(s) \in SUBSET NodeId
  BY DEF Seen
<1>6. Closes(Out(g), R)
  BY ReachCloses
<1> HIDE DEF s, R
<1>7. ASSUME NEW n \in Seen(s) \ S
      PROVE  Cardinality(Mutual(R, n)) = 1
  <2>1. n \in NodeId /\ ~HasNode(g, n)
    BY <1>5, <1>7 DEF NodesOf
  <2>2. R[n] = {n}
    BY <2>1, LeafReach DEF R
  <2>3. Mutual(R, n) = {n}
    BY <2>2 DEF Mutual
  <2> QED
    BY <2>3, FS_Singleton
<1>8. Components(R, Seen(s)) = Components(R, S)
  <2>1. \A n \in Seen(s) : Cardinality(Mutual(R, n)) > 1 => n \in S
    BY <1>7
  <2> HIDE DEF S
  <2> QED
    BY <1>4, <2>1 DEF Components
<1> QED
  BY <1>1, <1>4, <1>8 DEF R

---------------------------------------------------------------------------
(* Until files are removed every edge leads from a node.                   *)

Grown(g, b) == Sourced(g) /\ (~b => NodesOf(g) \subseteq DOMAIN FileOf)

IInvSourced == removals \in Nat /\ (removals = 0 => Grown(graph, built))

LEMMA LinkSources ==
  ASSUME NEW g, NodesOf(g) \subseteq DOMAIN FileOf, Sourced(g), Sound(g), NEW t \in ServiceLinks(g)
  PROVE  t[1] \in ServicesSeen(g)
<1> DEFINE Sid(n) == NodeServiceId(g, n)
           calls == {<<Sid(Src[e]), "service-calls", Sid(g.target[e])>> :
                     e \in {c \in GetEdgesByKind(g, "api-call") :
                               HasNode(g, Src[c]) /\ HasNode(g, g.target[c])
                               /\ NodeKind[g.target[c]] = "spring-endpoint"}}
           tables == {<<Sid(Src[e]), "service-shares-db", TableOwner(g, g.target[e])>> :
                     e \in {a \in EdgesOf(g) : Kind[a] \in TableKinds /\ Sid(Src[a]) # Unassigned}}
           dtos == {<<Sid(n), "service-shares-dto", Sid(DtoOf[n])>> :
                     n \in {m \in NodesOf(g) \cap DOMAIN DtoOf :
                               HasNode(g, DtoOf[m])
                               /\ Unassigned \notin {Sid(m), Sid(DtoOf[m])}}}
<1>1. t \in calls \cup tables \cup dtos
  BY DEF ServiceLinks
<1>2. ASSUME NEW n \in NodeId, HasNode(g, n)
      PROVE  Sid(n) \in ServicesSeen(g)
  <2>1. n \in NodesOf(g) \cap DOMAIN FileOf
    BY <1>2 DEF NodesOf
  <2> QED
    BY <2>1 DEF ServicesSeen
<1>3. CASE t \in calls
  <2>1. PICK e \in GetEdgesByKind(g, "api-call") :
          HasNode(g, Src[e]) /\ t = <<Sid(Src[e]), "service-calls", Sid(g.target[e])>>
    BY <1>3
  <2>2. e \in Edge /\ t[1] = Sid(Src[e])
    BY <2>1, AnalyzerAssumption DEF GetEdgesByKind, Sound, KindIndexed
  <2>3. Src[e] \in NodeId
    BY <2>2, GraphAssumption
  <2> QED
    BY <1>2, <2>1, <2>2, <2>3
<1>4. CASE t \in tables
  <2>1. PICK e \in EdgesOf(g) : t = <<Sid(Src[e]), "service-shares-db", TableOwner(g, g.target[e])>>
    BY <1>4
  <2>2. e \in Edge /\ HasEdge(g, e) /\ t[1] = Sid(Src[e])
    BY <2>1 DEF EdgesOf
  <2>3. Src[e] \in NodeId /\ HasNode(g, Src[e])
    BY <2>2, GraphAssumption DEF Sourced
  <2> QED
    BY <1>2, <2>2, <2>3
<1>5. CASE t \in dtos
  <2>1. PICK n \in NodesOf(g) : t = <<Sid(n), "service-shares-dto", Sid(DtoOf[n])>>
    BY <1>5
  <2>2. n \in NodeId /\ HasNode(g, n) /\ t[1] = Sid(n)
    BY <2>1 DEF NodesOf
  <2> QED
    BY <1>2, <2>2
<1> HIDE DEF calls, tables, dtos
<1> QED
  BY <1>1, <1>3, <1>4, <1>5

LEMMA BuiltSourced ==
  ASSUME NEW g, OfProject(g), Sourced(g), NodesOf(g) \subseteq DOMAIN FileOf,
         NEW h, h = BuildServices(g)
  PROVE  Sourced(h)
<1>1. /\ \A n \in NodeId : h.node[n] = IF n \in ServiceNodes(g) THEN Virtual ELSE g.node[n]
      /\ \A e \in Edge : h.target[e] = IF e \in LinkEdges(g) THEN Dst[e] ELSE g.target[e]
  BY BuildServicesIs DEF OfProject
<1>2. Virtual # Absent /\ Sound(g)
  BY GraphAssumption DEF OfProject
<1>3. ASSUME NEW e \in Edge, HasEdge(h, e)
      PROVE  HasNode(h, Src[e])
  <2>1. Src[e] \in NodeId
    BY GraphAssumption
  <2>2. CASE e \notin LinkEdges(g)
    <3>1. HasNode(g, Src[e])
      BY <1>1, <1>3, <2>2 DEF HasEdge, Sourced
    <3> QED
      BY <1>1, <1>2, <2>1, <3>1 DEF HasNode
  <2>3. CASE e \in LinkEdges(g)
    <3>1. PICK t \in ServiceLinks(g) : e = ServiceEdge[t]
      BY <2>3 DEF LinkEdges
    <3>2. t \in DOMAIN ServiceEdge /\ t[1] \in ServicesSeen(g)
      BY <1>2, ServiceLinksNamed, LinkSources
    <3>3. Src[e] = ServiceNode[t[1]]
      BY <3>1, <3>2, ServiceEdgeAssumption
    <3>4. Src[e] \in ServiceNodes(g) \/ HasNode(g, Src[e])
      BY <2>1, <3>2, <3>3 DEF ServiceNodes, NodesOf
    <3> QED
      BY <1>1, <1>2, <2>1, <3>4 DEF HasNode
  <2> QED
    BY <2>2, <2>3
<1> QED
  BY <1>3 DEF Sourced

LEMMA SourcedInvariant == Spec => []IInvSourced
<1>1. Init => IInvSourced
  <2> SUFFICES ASSUME Init
               PROVE  IInvSourced
    OBVIOUS
  <2>1. graph = NodesFiled(EmptyGraph, DOMAIN FileOf)
    BY DEF Init, NodesFiled
  <2>2. Filed(DOMAIN FileOf, graph)
    BY <2>1, NodesFiledIs
  <2> QED
    BY <2>2 DEF Init, Filed, IInvSourced, Grown, Sourced, NodesOf, HasNode, HasEdge
<1>2. IInvSourced /\ IInvProject /\ [Next]_vars => IInvSourced'
  <2> SUFFICES ASSUME IInvSourced, IInvProject, [Next]_vars
               PROVE  IInvSourced'
    OBVIOUS
  <2>1. OfProject(graph) /\ Sound(graph)
    BY DEF IInvProject, OfProject
  <2>2. ASSUME NEW e \in Parsed, Emit(e)
        PROVE  IInvSourced'
    <3>1. /\ e \in Edge /\ graph' = AddEdge(graph, e) /\ built' = built /\ removals' = 0
          /\ removals = 0 /\ HasNode(graph, Src[e])
      BY <2>2, AnalyzerAssumption DEF Emit, Parsed, ToSet
    <3>2. /\ graph'.node = graph.node
          /\ \A d \in Edge : graph'.target[d] = IF d = e THEN Dst[e] ELSE graph.target[d]
      BY <2>1, <3>1, AddEdgeIs
    <3>3. Grown(graph, built)
      BY <3>1 DEF IInvSourced
    <3>4. \A d \in Edge : HasEdge(graph', d) => HasNode(graph', Src[d])
      BY <3>1, <3>2, <3>3 DEF Grown, Sourced, HasNode, HasEdge
    <3>5. NodesOf(graph') = NodesOf(graph)
      BY <3>2 DEF NodesOf, HasNode
    <3>6. Grown(graph', built')
      BY <3>1, <3>3, <3>4, <3>5 DEF Grown, Sourced
    <3> QED
      BY <3>1, <3>6 DEF IInvSourced
  <2>3. CASE Build
    <3>1. ~built /\ graph' = BuildServices(graph) /\ built' = TRUE /\ removals' = removals
      BY <2>3 DEF Build
    <3>2. removals = 0 => Sourced(graph')
      BY <2>1, <3>1, BuiltSourced DEF IInvSourced, Grown
    <3> QED
      BY <3>1, <3>2 DEF IInvSourced, Grown
  <2>4. ASSUME NEW f \in File \ {Virtual}, RemoveFile(f)
        PROVE  IInvSourced'
    BY <2>4 DEF RemoveFile, IInvSourced
  <2>5. CASE UNCHANGED vars
    BY <2>5 DEF vars, IInvSourced
  <2> QED
    BY <2>2, <2>3, <2>4, <2>5 DEF Next
<1> QED
  BY <1>1, <1>2, ProjectInvariant, PTL DEF Spec

(* The components are the classes of the nodes of the graph.               *)
LEMMA CyclesExactIn ==
  ASSUME OfProject(graph), Sourced(graph)
  PROVE  FindCircularDependencies(graph) =
            LET reach == [n \in NodesOf(graph) |->
                             ReachableFrom(graph, n, "out", Unlimited) \cup {n}]
                class == [n \in NodesOf(graph) |->
                             {m \in reach[n] \cap NodesOf(graph) : n \in reach[m]}] IN
            {C \in {class[n] : n \in NodesOf(graph)} : Cardinality(C) > 1}
<1> DEFINE V == NodesOf(graph)
           R == Reach(graph)
           reach == [n \in V |-> ReachableFrom(graph, n, "out", Unlimited) \cup {n}]
           class == [n \in V |-> {m \in reach[n] \cap V : n \in reach[m]}]
<1>1. Sound(graph) /\ V \in SUBSET NodeId
  BY DEF OfProject, NodesOf
<1>2. Closes(Out(graph), R)
  BY <1>1, ReachCloses
<1>3. \A n \in V : reach[n] = R[n]
  <2> TAKE n \in V
  <2>1. n \in NodeId /\ Unlimited \in Nat
    BY <1>1, UnlimitedIs
  <2>2. ReachableFrom(graph, n, "out", Unlimited) = Visited(graph, n, "out")[Unlimited] \ {n}
    BY <1>1, <2>1, ReachableIs
  <2>3. R[n] = Visited(graph, n, "out")[Unlimited]
    BY <2>1 DEF Reach
  <2>4. n \in R[n]
    BY <1>2, <2>1 DEF Closes
  <2> QED
    BY <2>2, <2>3, <2>4
<1>4. ASSUME NEW n \in V, NEW m \in Mutual(R, n)
      PROVE  m \in V
  <2>1. n \in NodeId /\ m \in NodeId /\ n \in R[m]
    BY <1>1, <1>2, <1>4, MutualIs DEF Mutual
  <2>2. SUFFICES ASSUME m \notin V
                 PROVE  FALSE
    OBVIOUS
  <2>3. R[m] = {m}
    BY <1>1, <2>1, <2>2, LeafReach DEF NodesOf
  <2> QED
    BY <2>1, <2>2, <2>3
<1>5. \A n \in V : class[n] = Mutual(R, n)
  <2> HIDE DEF reach, R, V
  <2> TAKE n \in V
  <2>1. class[n] = {m \in R[n] \cap V : n \in R[m]}
    BY <1>3
  <2> QED
    BY <1>4, <2>1 DEF Mutual
<1>6. FindCircularDependencies(graph) = Components(R, V)
  BY <1>1, CircularIs
<1> HIDE DEF V, R, class
<1>7. Components(R, V) = {C \in {class[n] : n \in V} : Cardinality(C) > 1}
  BY <1>5 DEF Components
<1> QED
  BY <1>6, <1>7 DEF V, class

---------------------------------------------------------------------------
(* Waivers.                                                                *)

LEMMA LoadedExpiry ==
  ASSUME NEW g, NEW vdaignore, NEW inline, NEW D,
         \A w \in vdaignore : w.expires \in D,
         \A f \in DOMAIN inline : \A w \in inline[f] : \A file :
            [w EXCEPT !.file = file].expires \in D
  PROVE  \A w \in LoadWaivers(g, vdaignore, inline) : w.expires \in D
<1> DEFINE At(f, w) == [w EXCEPT !.file = IF w.file = Absent THEN f ELSE w.file]
           F == DOMAIN inline \cap {g.node[n] : n \in NodesOf(g)}
<1>1. \A f \in F : \A w \in inline[f] : At(f, w).expires \in D
  OBVIOUS
<1>2. LoadWaivers(g, vdaignore, inline) =
         vdaignore \cup UNION {{At(f, w) : w \in inline[f]} : f \in F}
  BY DEF LoadWaivers
<1> HIDE DEF At, F
<1>3. \A x \in UNION {{At(f, w) : w \in inline[f]} : f \in F} : x.expires \in D
  BY <1>1
<1> QED
  BY <1>2, <1>3

LEMMA LapsedWaivers ==
  ASSUME NEW g, NEW rules, NEW waivers,
         \A w \in waivers : w.expires \in {Absent, 1, 2}
  PROVE  /\ EvaluateRulesWithWaivers(g, rules, waivers, 3) =
               EvaluateRulesWithWaivers(g, rules, {w \in waivers : w.expires = Absent}, 3)
         /\ \A day \in 1..2 : EvaluateRulesWithWaivers(g, rules, waivers, day).violations
               \subseteq EvaluateRulesWithWaivers(g, rules, waivers, day + 1).violations
<1> DEFINE L == {w \in waivers : w.expires = Absent}
           W(v, ws, day) == IsWaived(ws, v.ruleType, WaiverTarget(g, v), WaiverFile(g, v), day)
<1>1. \A type, target, file :
         IsWaived(waivers, type, target, file, 3) <=> IsWaived(L, type, target, file, 3)
  BY DEF IsWaived
<1>2. \A v : W(v, waivers, 3) <=> W(v, L, 3)
  BY <1>1
<1>3. \A type, target, file : \A day \in 1..2 :
         IsWaived(waivers, type, target, file, day + 1)
            => IsWaived(waivers, type, target, file, day)
  BY DEF IsWaived
<1>4. \A v : \A day \in 1..2 : W(v, waivers, day + 1) => W(v, waivers, day)
  BY <1>3
<1> HIDE DEF W, L
<1> DEFINE raw == UNION {CheckRule(g, r) : r \in rules}
           waived(ws, day) == {v \in raw : W(v, ws, day)}
<1>5. \A ws, day : EvaluateRulesWithWaivers(g, rules, ws, day) =
         [violations |-> raw \ waived(ws, day), waived |-> waived(ws, day)]
  BY DEF EvaluateRulesWithWaivers, W
<1> HIDE DEF raw
<1>6. waived(waivers, 3) = waived(L, 3)
  BY <1>2
<1>7. \A day \in 1..2 : waived(waivers, day + 1) \subseteq waived(waivers, day)
  BY <1>4
<1> HIDE DEF waived
<1>8. EvaluateRulesWithWaivers(g, rules, waivers, 3) = EvaluateRulesWithWaivers(g, rules, L, 3)
  BY <1>5, <1>6
<1>9. \A ws, day : EvaluateRulesWithWaivers(g, rules, ws, day).violations = raw \ waived(ws, day)
  BY <1>5
<1>10. \A day \in 1..2 : EvaluateRulesWithWaivers(g, rules, waivers, day).violations
               \subseteq EvaluateRulesWithWaivers(g, rules, waivers, day + 1).violations
  BY <1>7, <1>9
<1> QED
  BY <1>8, <1>10 DEF L

LEMMA WaiversLapseIn == WaiversLapse
<1> DEFINE direct == [Rule("deny-direct", 0) EXCEPT !.from = {"spring-service"},
                         !.to = {"spring-event", "mybatis-statement"}]
           Waiver(to, file, day) == [ruleId |-> "deny-direct", file |-> file, expires |-> day,
                                     target |-> <<"spring-service", to>>]
           ignored == {Waiver("mybatis-statement", Absent, 1)}
           inline == [f \in {"Service.java", "Audit.java"} |->
                IF f = "Service.java" THEN {Waiver("spring-event", Absent, 2)}
                ELSE {Waiver("mybatis-statement", Absent, Absent)}]
           waivers == LoadWaivers(graph, ignored, inline)
<1>1. \A w \in ignored : w.expires \in {Absent, 1, 2}
  OBVIOUS
<1>2. \A f \in DOMAIN inline : \A w \in inline[f] : \A file :
         [w EXCEPT !.file = file].expires \in {Absent, 1, 2}
  OBVIOUS
<1> HIDE DEF ignored, inline, direct
<1>3. \A w \in waivers : w.expires \in {Absent, 1, 2}
  BY <1>1, <1>2, LoadedExpiry
<1> HIDE DEF waivers
<1>4. /\ EvaluateRulesWithWaivers(graph, {direct}, waivers, 3) =
               EvaluateRulesWithWaivers(graph, {direct}, {w \in waivers : w.expires = Absent}, 3)
      /\ \A day \in 1..2 : EvaluateRulesWithWaivers(graph, {direct}, waivers, day).violations
               \subseteq EvaluateRulesWithWaivers(graph, {direct}, waivers, day + 1).violations
  BY <1>3, LapsedWaivers
<1> QED
  BY <1>4 DEF WaiversLapse, waivers, ignored, inline, direct

---------------------------------------------------------------------------
(* Who is on a cycle has an edge in and an edge out.                       *)

LEMMA Several ==
  ASSUME NEW S, NEW n \in S, IsFiniteSet(S), Cardinality(S) > 1
  PROVE  \E m \in S : m # n
<1> SUFFICES ASSUME \A m \in S : m = n
             PROVE  FALSE
  OBVIOUS
<1>1. S = {n}
  OBVIOUS
<1> QED
  BY <1>1, FS_Singleton

LEMMA Inhabited ==
  ASSUME NEW S, NEW x \in S, IsFiniteSet(S)
  PROVE  Cardinality(S) >= 1
<1>1. Cardinality(S) \in Nat /\ Cardinality(S) # 0
  BY FS_CardinalityType, FS_EmptySet
<1> QED
  BY <1>1

LEMMA CyclicFans ==
  ASSUME NEW g, Sound(g), Sourced(g), NEW n \in UNION FindCircularDependencies(g)
  PROVE  n \in NodesOf(g) /\ FanIn(g, n) >= 1 /\ FanOut(g, n) >= 1
<1> DEFINE R == Reach(g)
           N == Out(g)
<1>1. PICK c \in NodesOf(g) : n \in Mutual(R, c) /\ Cardinality(Mutual(R, c)) > 1
  BY CircularIs DEF Components
<1>2. Closes(N, R)
  BY ReachCloses
<1> HIDE DEF R, N
<1>3. c \in NodeId
  BY DEF NodesOf
<1>4. n \in NodeId /\ Mutual(R, n) = Mutual(R, c)
  BY <1>1, <1>2, <1>3, MutualIs
<1>5. R[n] \in SUBSET NodeId
  BY <1>2, <1>4 DEF Closes
<1>6. IsFiniteSet(Mutual(R, n))
  <2>1. Mutual(R, n) \subseteq NodeId
    BY <1>5 DEF Mutual
  <2> QED
    BY <2>1, FS_Subset, FiniteAssumption
<1>7. PICK m \in Mutual(R, n) : m # n
  BY <1>1, <1>4, <1>6, Several
<1>8. m \in NodeId /\ m \in R[n] /\ n \in R[m]
  BY <1>5 DEF Mutual
<1>9. n \in NodesOf(g)
  <2> SUFFICES ASSUME ~HasNode(g, n)
               PROVE  FALSE
    BY <1>4 DEF NodesOf
  <2>1. R[n] = {n}
    BY <1>4, LeafReach DEF R
  <2> QED
    BY <1>7, <1>8, <2>1
<1>10. PICK e \in Edge : HasEdge(g, e) /\ Src[e] = n
  <2> SUFFICES ASSUME \A e \in Edge : HasEdge(g, e) => Src[e] # n
               PROVE  FALSE
    OBVIOUS
  <2> DEFINE K == {n}
  <2>1. Neighbours(g, n, "out") = {}
    BY <1>4, NeighboursAre DEF Arc
  <2>2. K \in SUBSET NodeId /\ n \in K /\ \A k \in K : N[k] \subseteq K
    BY <1>4, <2>1 DEF N, Out
  <2> HIDE DEF K
  <2>3. R[n] \subseteq K
    BY <1>2, <1>4, <2>2 DEF Closes
  <2> QED
    BY <1>7, <1>8, <2>3 DEF K
<1>11. PICK d \in Edge : HasEdge(g, d) /\ g.target[d] = n
  <2> SUFFICES ASSUME \A d \in Edge : HasEdge(g, d) => g.target[d] # n
               PROVE  FALSE
    OBVIOUS
  <2> DEFINE K == NodeId \ {n}
  <2>1. \A k \in NodeId : Neighbours(g, k, "out") \in SUBSET NodeId
                          /\ n \notin Neighbours(g, k, "out")
    BY NeighboursAre DEF Arc
  <2>2. K \in SUBSET NodeId /\ m \in K /\ \A k \in K : N[k] \subseteq K
    BY <1>7, <1>8, <2>1 DEF N, Out
  <2> HIDE DEF K
  <2>3. R[m] \subseteq K
    BY <1>2, <1>8, <2>2 DEF Closes
  <2> QED
    BY <1>8, <2>3 DEF K
<1>12. e \in GetOutEdges(g, n) /\ d \in GetInEdges(g, n)
       /\ GetOutEdges(g, n) \subseteq Edge /\ GetInEdges(g, n) \subseteq Edge
  BY <1>4, <1>10, <1>11, IndexedEdges
<1>13. IsFiniteSet(GetOutEdges(g, n)) /\ IsFiniteSet(GetInEdges(g, n))
  BY <1>12, FS_Subset, FiniteAssumption
<1>14. FanIn(g, n) >= 1
  BY <1>12, <1>13, Inhabited DEF FanIn
<1>15. FanOut(g, n) >= 1
  BY <1>12, <1>13, Inhabited DEF FanOut
<1> QED
  BY <1>9, <1>14, <1>15

LEMMA ListedSet ==
  ASSUME NEW S, IsFiniteSet(S)
  PROVE  ToSet(SetToSeq(S)) = S
<1> DEFINE k == Cardinality(S)
           f == SetToSeq(S)
<1>1. k \in Nat
  BY FS_CardinalityType
<1>2. ExistsBijection(1..k, S)
  BY FS_CardinalityType
<1>3. \E h \in [1..k -> S] : IsInjective(h)
  <2>1. PICK h : h \in Bijection(1..k, S)
    BY <1>2 DEF ExistsBijection
  <2>2. h \in [1..k -> S] /\ IsInjective(h)
    BY <2>1 DEF Bijection, Injection, IsInjective
  <2> QED
    BY <2>2
<1>4. f \in [1..k -> S] /\ IsInjective(f)
  BY <1>3 DEF SetToSeq
<1> HIDE DEF f
<1>5. f \in Surjection(1..k, S)
  <2>1. f \in Injection(1..k, S)
    BY <1>4 DEF Injection, IsInjective
  <2>2. IsFiniteSet(1..k) /\ Cardinality(1..k) = k
    BY <1>1, FS_Interval
  <2> QED
    BY <2>1, <2>2, FS_Injection
<1>6. {f[i] : i \in 1..k} = S
  BY <1>4, <1>5 DEF Surjection
<1> QED
  BY <1>4, <1>6 DEF ToSet, f

LEMMA TagsAgree ==
  ASSUME Sound(graph), Sourced(graph),
         NEW t, t.cyclicClusterMinFan = 1
  PROVE  {n \in DOMAIN AntiPatterns(graph, t) : "cyclic-cluster" \in AntiPatterns(graph, t)[n]} =
            ReportedBy(Rule("deny-circular", 0))
<1> DEFINE tags == AntiPatterns(graph, t)
           cycles == FindCircularDependencies(graph)
           r == Rule("deny-circular", 0)
<1>1. \A n \in UNION cycles : n \in NodesOf(graph) /\ FanIn(graph, n) >= 1 /\ FanOut(graph, n) >= 1
  BY CyclicFans
<1>2. /\ DOMAIN tags = NodesOf(graph)
      /\ \A n \in NodesOf(graph) : "cyclic-cluster" \in tags[n] <=>
            n \in UNION cycles /\ FanIn(graph, n) >= 1 /\ FanOut(graph, n) >= 1
  BY DEF AntiPatterns
<1>3. \A C \in cycles : IsFiniteSet(C)
  <2> TAKE C \in cycles
  <2>1. \A n \in C : n \in NodeId
    BY <1>1 DEF NodesOf
  <2>2. C \subseteq NodeId
    BY <2>1
  <2> QED
    BY <2>2, FS_Subset, FiniteAssumption
<1>4. ReportedBy(r) = UNION {ToSet(v.nodes) : v \in {Violation(r, SetToSeq(C), {}) : C \in cycles}}
  BY DEF ReportedBy, CheckRule, CheckDenyCircular, Rule
<1>5. \A C \in cycles : ToSet(Violation(r, SetToSeq(C), {}).nodes) = C
  BY <1>3, ListedSet DEF Violation
<1> HIDE DEF cycles, r, tags
<1>6. ReportedBy(r) = UNION cycles
  BY <1>4, <1>5
<1>7. {n \in DOMAIN tags : "cyclic-cluster" \in tags[n]} = UNION cycles
  BY <1>1, <1>2
<1> QED
  BY <1>6, <1>7 DEF tags, r

---------------------------------------------------------------------------
(* measureDepth(): the length of the longest chain of edges from a node    *)
(* that goes to no node twice.                                             *)

Depths == [NodeId \X SUBSET NodeId -> Nat]

LEMMA DeepenIs ==
  ASSUME NEW g, Sound(g), NEW deeper \in Depths, NEW n \in NodeId, NEW vis \in SUBSET NodeId
  PROVE  /\ Deepen(g, Kinds, deeper)[<<n, vis>>] \in Nat \ {0}
         /\ \A k \in Nat : Deepen(g, Kinds, deeper)[<<n, vis>>] >= k + 2 <=>
               \E e \in Edge : /\ HasEdge(g, e) /\ Src[e] = n
                               /\ g.target[e] \notin vis \cup {n}
                               /\ deeper[<<g.target[e], vis \cup {n}>>] >= k + 1
<1> DEFINE way == vis \cup {n}
           next == {g.target[e] : e \in {o \in GetOutEdges(g, n) : Kind[o] \in Kinds}}
           X == next \ way
           D == [m \in X |-> deeper[<<m, way>>]]
           I == {D[m] : m \in X}
           S == {0} \cup I
<1>1. way \in SUBSET NodeId
  OBVIOUS
<1>2. \A e \in Edge : HasEdge(g, e) =>
         Src[e] \in NodeId /\ g.target[e] \in NodeId /\ Kind[e] \in Kinds
  BY EdgeEnds
<1>3. GetOutEdges(g, n) = {e \in Edge : HasEdge(g, e) /\ Src[e] = n}
  BY IndexedEdges
<1>4. \A m : m \in next <=> \E e \in Edge : HasEdge(g, e) /\ Src[e] = n /\ g.target[e] = m
  BY <1>2, <1>3
<1>5. next \in SUBSET NodeId
  BY <1>2, <1>4
<1>6. Deepen(g, Kinds, deeper)[<<n, vis>>] = 1 + Max({0} \cup {deeper[<<m, way>>] : m \in X})
  BY DEF Deepen
<1> HIDE DEF way, next
<1>7. X \in SUBSET NodeId /\ IsFiniteSet(X)
  BY <1>5, FS_Subset, FiniteAssumption
<1>8. D \in [X -> Nat] /\ \A m \in X : D[m] = deeper[<<m, way>>]
  BY <1>1, <1>7 DEF Depths
<1>9. {deeper[<<m, way>>] : m \in X} = I
  BY <1>8
<1> HIDE DEF X, D
<1>10. I \in SUBSET Nat /\ IsFiniteSet(I)
  <2>1. D \in Surjection(X, I)
    BY <1>8 DEF Surjection
  <2>2. IsFiniteSet(I)
    BY <1>7, <2>1, FS_Surjection
  <2> QED
    BY <1>8, <2>2
<1>11. \A m \in X : D[m] \in I
  OBVIOUS
<1>12. \A i \in I : \E m \in X : i = D[m]
  OBVIOUS
<1> HIDE DEF I
<1>13. S \in SUBSET Nat /\ IsFiniteSet(S) /\ S # {}
  <2>1. IsFiniteSet(I \cup {0})
    BY <1>10, FS_AddElement
  <2>2. S = I \cup {0}
    OBVIOUS
  <2> QED
    BY <1>10, <2>1, <2>2
<1>14. Max(S) \in S /\ \A i \in S : i <= Max(S)
  BY <1>13, GreatestIs
<1>15. Deepen(g, Kinds, deeper)[<<n, vis>>] = 1 + Max(S)
  BY <1>6, <1>9
<1>16. Max(S) \in Nat
  BY <1>13, <1>14
<1>17. \A k \in Nat : Max(S) >= k + 1 <=> \E m \in X : D[m] >= k + 1
  <2> TAKE k \in Nat
  <2>1. ASSUME Max(S) >= k + 1
        PROVE  \E m \in X : D[m] >= k + 1
    <3>1. Max(S) # 0
      BY <1>16, <2>1
    <3>2. Max(S) \in I
      BY <1>14, <3>1
    <3> QED
      BY <1>12, <2>1, <3>2
  <2>2. ASSUME NEW m \in X, D[m] >= k + 1
        PROVE  Max(S) >= k + 1
    <3>1. D[m] <= Max(S) /\ D[m] \in Nat
      BY <1>8, <1>11, <1>14
    <3> QED
      BY <1>16, <2>2, <3>1
  <2> QED
    BY <2>1, <2>2
<1>18. \A k \in Nat : 1 + Max(S) >= k + 2 <=> Max(S) >= k + 1
  BY <1>16
<1>19. \A k \in Nat : (\E m \in X : D[m] >= k + 1) <=>
               \E e \in Edge : /\ HasEdge(g, e) /\ Src[e] = n
                               /\ g.target[e] \notin vis \cup {n}
                               /\ deeper[<<g.target[e], vis \cup {n}>>] >= k + 1
  <2>1. \A m : m \in X <=> m \notin way /\ \E e \in Edge : HasEdge(g, e) /\ Src[e] = n
                                                       /\ g.target[e] = m
    BY <1>4 DEF X
  <2>2. \A k \in Nat : (\E m \in X : D[m] >= k + 1) <=>
            \E m \in X : deeper[<<m, way>>] >= k + 1
    BY <1>8
  <2> QED
    BY <2>1, <2>2 DEF way
<1> HIDE DEF S
<1>20. Deepen(g, Kinds, deeper)[<<n, vis>>] \in Nat \ {0}
  BY <1>15, <1>16
<1> QED
  BY <1>15, <1>17, <1>18, <1>19, <1>20

LEMMA DeepenType ==
  ASSUME NEW g, Sound(g), NEW deeper \in Depths
  PROVE  Deepen(g, Kinds, deeper) \in Depths
<1> DEFINE D == Deepen(g, Kinds, deeper)
<1>1. \A n \in NodeId, vis \in SUBSET NodeId : D[<<n, vis>>] \in Nat
  BY DeepenIs
<1>2. D = [at \in NodeId \X SUBSET NodeId |-> D[at]]
  BY DEF Deepen
<1> HIDE DEF D
<1>3. \A at \in NodeId \X SUBSET NodeId : D[at] \in Nat
  <2> TAKE at \in NodeId \X SUBSET NodeId
  <2>1. PICK n \in NodeId, vis \in SUBSET NodeId : at = <<n, vis>>
    OBVIOUS
  <2> QED
    BY <1>1, <2>1
<1>4. D \in [NodeId \X SUBSET NodeId -> Nat]
  BY <1>2, <1>3
<1> QED
  BY <1>4 DEF Depths, D

Shallow == [at \in NodeId \X SUBSET NodeId |-> 0]

Deepening(g) == [deeper \in Depths |-> Deepen(g, Kinds, deeper)]

DepthLayers(g) == CHOOSE f : Rounds(f, Depths, Shallow, Deepening(g))

LEMMA MeasureIs ==
  ASSUME NEW g, Sound(g), NEW n
  PROVE  /\ Rounds(DepthLayers(g), Depths, Shallow, Deepening(g))
         /\ MeasureDepth(g, n, Kinds) = DepthLayers(g)[Cardinality(NodeId)][<<n, {}>>]
<1> DEFINE o == Deepening(g)
           Layer(f, k) ==
               IF k = 0 THEN [at \in NodeId \X SUBSET NodeId |-> 0]
               ELSE Deepen(g, Kinds, f[k - 1])
           Eq(f) == f = [k \in Nat |-> Layer(f, k)]
           depth == CHOOSE f : Eq(f)
<1>1. MeasureDepth(g, n, Kinds) = depth[Cardinality(NodeId)][<<n, {}>>]
  BY DEF MeasureDepth
<1>2. o \in [Depths -> Depths] /\ Shallow \in Depths
  <2>1. \A deeper \in Depths : Deepen(g, Kinds, deeper) \in Depths
    BY DeepenType
  <2>2. o \in [Depths -> Depths]
    <3> HIDE DEF Depths
    <3> QED
      BY <2>1 DEF Deepening
  <2>3. Shallow \in Depths
    BY DEF Shallow, Depths
  <2> QED
    BY <2>2, <2>3
<1>3. \A deeper \in Depths : o[deeper] = Deepen(g, Kinds, deeper)
  BY DEF Deepening
<1>4. ASSUME NEW f, NEW k \in Nat, f[k] \in Depths
      PROVE  Layer(f, k + 1) = o[f[k]]
  <2>1. k + 1 # 0 /\ (k + 1) - 1 = k
    OBVIOUS
  <2>2. Layer(f, k + 1) = Deepen(g, Kinds, f[k])
    BY <2>1
  <2> QED
    BY <1>3, <1>4, <2>2
<1>5. \A f : Layer(f, 0) = Shallow
  BY DEF Shallow
<1> HIDE DEF o, Layer
<1>6. \E f : Rounds(f, Depths, Shallow, o)
  BY Zenon, <1>2, LayersExist
<1>7. \E f : Eq(f)
  <2>1. PICK f : Rounds(f, Depths, Shallow, o)
    BY <1>6
  <2>2. ASSUME NEW k \in Nat
        PROVE  f[k] = Layer(f, k)
    <3>1. CASE k = 0
      BY <1>5, <2>1, <3>1 DEF Rounds
    <3>2. CASE k # 0
      <4>1. PICK j \in Nat : k = j + 1
        <5>1. k - 1 \in Nat /\ k = (k - 1) + 1
          BY <3>2
        <5> QED
          BY <5>1
      <4>2. f[j] \in Depths /\ f[j + 1] = o[f[j]]
        BY <2>1 DEF Rounds
      <4> QED
        BY <1>4, <4>1, <4>2
    <3> QED
      BY <3>1, <3>2
  <2>3. f = [k \in Nat |-> f[k]]
    BY <2>1 DEF Rounds
  <2> QED
    BY Zenon, <2>2, <2>3
<1>8. Eq(depth)
  <2> HIDE DEF Eq
  <2> QED
    BY <1>7
<1> HIDE DEF depth
<1>9. /\ depth = [k \in Nat |-> depth[k]]
      /\ depth[0] = Shallow
      /\ \A k \in Nat : depth[k] \in Depths => depth[k + 1] = o[depth[k]]
  BY <1>4, <1>5, <1>8
<1>10. Rounds(depth, Depths, Shallow, o)
  BY Zenon, <1>2, <1>9, LayersAre
<1>11. Rounds(DepthLayers(g), Depths, Shallow, o)
  BY <1>6 DEF DepthLayers, o
<1>12. depth = DepthLayers(g)
  BY Zenon, <1>10, <1>11, LayersUnique
<1> QED
  BY <1>1, <1>11, <1>12 DEF o

(* A chain of k edges from n that goes to no node twice, nor to one of vis. *)
Chained(g, n, vis, k) ==
    \E p \in Seq(Edge), s \in [0..k -> NodeId] :
        /\ Len(p) = k /\ s[0] = n /\ Stepped(g, p, s, "forward") /\ Distinct(s, k)
        /\ \A i \in 1..k : s[i] \notin vis

LEMMA ChainedStart ==
  ASSUME NEW g, NEW n \in NodeId, NEW vis
  PROVE  Chained(g, n, vis, 0)
<1> DEFINE s == [i \in 0..0 |-> n]
           p == <<>>
<1>1. s \in [0..0 -> NodeId] /\ s[0] = n /\ Distinct(s, 0)
  BY DEF Distinct
<1>2. p \in Seq(Edge) /\ Len(p) = 0 /\ Stepped(g, p, s, "forward")
  BY DEF Stepped
<1> HIDE DEF p, s
<1>3. \A i \in 1..0 : s[i] \notin vis
  OBVIOUS
<1> QED
  BY <1>1, <1>2, <1>3 DEF Chained

LEMMA ChainedLonger ==
  ASSUME NEW g, Sound(g), NEW n \in NodeId, NEW vis \in SUBSET NodeId, n \notin vis, NEW k \in Nat
  PROVE  Chained(g, n, vis, k + 1) <=>
            \E e \in Edge : /\ HasEdge(g, e) /\ Src[e] = n /\ g.target[e] \notin vis \cup {n}
                            /\ Chained(g, g.target[e], vis \cup {n}, k)
<1> DEFINE way == vis \cup {n}
<1>1. ASSUME Chained(g, n, vis, k + 1)
      PROVE  \E e \in Edge : /\ HasEdge(g, e) /\ Src[e] = n /\ g.target[e] \notin way
                             /\ Chained(g, g.target[e], way, k)
  <2>1. PICK p \in Seq(Edge), s \in [0..(k + 1) -> NodeId] :
          /\ Len(p) = k + 1 /\ s[0] = n /\ Stepped(g, p, s, "forward") /\ Distinct(s, k + 1)
          /\ \A i \in 1..(k + 1) : s[i] \notin vis
    BY <1>1 DEF Chained
  <2> DEFINE q == [i \in 1..k |-> p[i + 1]]
             t == [i \in 0..k |-> s[i + 1]]
  <2>2. \A i \in 1..(k + 1) : p[i] \in Edge
    BY <2>1
  <2>3. q \in Seq(Edge) /\ Len(q) = k /\ \A i \in 1..k : q[i] = p[i + 1]
    BY <2>2
  <2>4. t \in [0..k -> NodeId] /\ \A i \in 0..k : t[i] = s[i + 1]
    OBVIOUS
  <2> HIDE DEF q, t
  <2>5. p[1] \in Edge /\ HasEdge(g, p[1]) /\ Src[p[1]] = n /\ g.target[p[1]] = t[0]
    <3>1. 1 \in 1..Len(p)
      BY <2>1
    <3>2. HasEdge(g, p[1]) /\ Src[p[1]] = s[1 - 1] /\ g.target[p[1]] = s[1]
      BY <2>1, <3>1 DEF Stepped, StepStart, StepEnd
    <3>3. p[1] \in Edge /\ t[0] = s[1]
      BY <2>2, <2>4
    <3> QED
      BY <2>1, <3>2, <3>3
  <2>6. Stepped(g, q, t, "forward")
    <3> SUFFICES ASSUME NEW i \in 1..k
                 PROVE  HasEdge(g, q[i]) /\ StepStart(g, q[i], "forward") = t[i - 1]
                           /\ StepEnd(g, q[i], "forward") = t[i]
      BY <2>3 DEF Stepped
    <3>1. q[i] = p[i + 1] /\ t[i] = s[i + 1] /\ t[i - 1] = s[i] /\ i + 1 \in 1..Len(p)
      BY <2>1, <2>3, <2>4
    <3>2. (i + 1) - 1 = i
      OBVIOUS
    <3> QED
      BY <2>1, <3>1, <3>2 DEF Stepped
  <2>7. Distinct(t, k)
    BY <2>1, <2>4 DEF Distinct
  <2>8. \A i \in 0..k : t[i] \notin vis /\ t[i] # n
    <3> TAKE i \in 0..k
    <3>1. i + 1 \in 1..(k + 1) /\ i + 1 \in 0..(k + 1) /\ 0 \in 0..(k + 1) /\ i + 1 # 0
      OBVIOUS
    <3>2. t[i] = s[i + 1] /\ s[i + 1] # s[0]
      BY <2>1, <2>4, <3>1 DEF Distinct
    <3> QED
      BY <2>1, <3>1, <3>2
  <2>9. \A i \in 0..k : t[i] \notin way
    BY <2>8
  <2>10. 0 \in 0..k /\ \A i \in 1..k : i \in 0..k
    OBVIOUS
  <2> HIDE DEF way
  <2>11. Chained(g, t[0], way, k)
    BY <2>3, <2>4, <2>6, <2>7, <2>9, <2>10 DEF Chained
  <2> QED
    BY <2>5, <2>9, <2>10, <2>11
<1>2. ASSUME NEW e \in Edge, HasEdge(g, e), Src[e] = n, g.target[e] \notin way,
             Chained(g, g.target[e], way, k)
      PROVE  Chained(g, n, vis, k + 1)
  <2>1. PICK q \in Seq(Edge), t \in [0..k -> NodeId] :
          /\ Len(q) = k /\ t[0] = g.target[e] /\ Stepped(g, q, t, "forward") /\ Distinct(t, k)
          /\ \A i \in 1..k : t[i] \notin way
    BY <1>2 DEF Chained
  <2> DEFINE p == [i \in 1..(k + 1) |-> IF i = 1 THEN e ELSE q[i - 1]]
             s == [i \in 0..(k + 1) |-> IF i = 0 THEN n ELSE t[i - 1]]
  <2>2. \A i \in 1..k : q[i] \in Edge
    BY <2>1
  <2>3. /\ p \in Seq(Edge) /\ Len(p) = k + 1 /\ p[1] = e
        /\ \A i \in 1..(k + 1) : i # 1 => p[i] = q[i - 1]
    <3>1. \A i \in 1..(k + 1) : p[i] \in Edge
      BY <2>2
    <3> QED
      BY <3>1
  <2>4. /\ s \in [0..(k + 1) -> NodeId] /\ s[0] = n
        /\ \A i \in 0..(k + 1) : i # 0 => s[i] = t[i - 1]
    OBVIOUS
  <2> HIDE DEF p, s
  <2>5. Stepped(g, p, s, "forward")
    <3> SUFFICES ASSUME NEW i \in 1..(k + 1)
                 PROVE  HasEdge(g, p[i]) /\ StepStart(g, p[i], "forward") = s[i - 1]
                           /\ StepEnd(g, p[i], "forward") = s[i]
      BY <2>3 DEF Stepped
    <3>1. CASE i = 1
      <4>1. p[i] = e /\ s[i - 1] = n /\ s[i] = t[0]
        BY <2>3, <2>4, <3>1
      <4> QED
        BY <1>2, <2>1, <4>1 DEF StepStart, StepEnd
    <3>2. CASE i # 1
      <4>1. PICK j \in 1..k : i = j + 1
        <5>1. i - 1 \in 1..k /\ i = (i - 1) + 1
          BY <3>2
        <5> QED
          BY <5>1
      <4>2. p[i] = q[j] /\ s[i] = t[j] /\ s[i - 1] = t[j - 1]
        <5>1. /\ i - 1 = j /\ j - 1 = i - 1 - 1 /\ i # 0 /\ i # 1 /\ i - 1 # 0
              /\ i \in 0..(k + 1) /\ i - 1 \in 0..(k + 1)
          BY <4>1
        <5>2. p[i] = q[i - 1]
          BY <2>3, <5>1
        <5>3. s[i] = t[i - 1]
          BY <2>4, <5>1
        <5>4. s[i - 1] = t[i - 1 - 1]
          BY <2>4, <5>1
        <5> QED
          BY <5>1, <5>2, <5>3, <5>4
      <4>3. HasEdge(g, q[j]) /\ StepStart(g, q[j], "forward") = t[j - 1]
               /\ StepEnd(g, q[j], "forward") = t[j]
        BY <2>1 DEF Stepped
      <4> QED
        BY <4>2, <4>3
    <3> QED
      BY <3>1, <3>2
  <2>6. \A i \in 0..k : t[i] \notin way
    BY <1>2, <2>1
  <2>7. \A i \in 0..k : t[i] # n /\ t[i] \notin vis
    BY <2>6
  <2>8. Distinct(s, k + 1)
    <3> SUFFICES ASSUME NEW i \in 0..(k + 1), NEW j \in 0..(k + 1), s[i] = s[j]
                 PROVE  i = j
      BY DEF Distinct
    <3>1. CASE i = 0 \/ j = 0
      <4>1. \A l \in 0..(k + 1) : l # 0 => l - 1 \in 0..k /\ s[l] = t[l - 1]
        BY <2>4
      <4> QED
        BY <2>4, <2>7, <3>1, <4>1
    <3>2. CASE i # 0 /\ j # 0
      <4>1. s[i] = t[i - 1] /\ s[j] = t[j - 1] /\ i - 1 \in 0..k /\ j - 1 \in 0..k
        BY <2>4, <3>2
      <4>2. i - 1 = j - 1
        BY <2>1, <4>1 DEF Distinct
      <4> QED
        BY <4>2
    <3> QED
      BY <3>1, <3>2
  <2>9. \A i \in 1..(k + 1) : s[i] \notin vis
    <3> TAKE i \in 1..(k + 1)
    <3>1. s[i] = t[i - 1] /\ i - 1 \in 0..k
      BY <2>4
    <3> QED
      BY <2>7, <3>1
  <2> QED
    BY <2>3, <2>4, <2>5, <2>8, <2>9 DEF Chained
<1> HIDE DEF way
<1>3. Chained(g, n, vis, k + 1) <=>
            \E e \in Edge : /\ HasEdge(g, e) /\ Src[e] = n /\ g.target[e] \notin way
                            /\ Chained(g, g.target[e], way, k)
  BY <1>1, <1>2
<1> QED
  BY <1>3 DEF way

(* A call that has left at most so many nodes to go to measures right.     *)
Measures(g, depth, left) ==
    \A n \in NodeId, vis \in SUBSET NodeId :
        n \notin vis /\ Cardinality(NodeId \ vis) <= left =>
            \A k \in Nat : depth[<<n, vis>>] >= k + 1 <=> Chained(g, n, vis, k)

LEMMA LeftFewer ==
  ASSUME NEW vis \in SUBSET NodeId, NEW n \in NodeId \ vis, NEW k \in Nat,
         Cardinality(NodeId \ vis) <= k + 1
  PROVE  Cardinality(NodeId \ (vis \cup {n})) <= k
<1> DEFINE L == NodeId \ vis
<1>1. L \subseteq NodeId /\ n \in L
  OBVIOUS
<1>2. IsFiniteSet(L)
  BY <1>1, FS_Subset, FiniteAssumption
<1>3. Cardinality(L) \in Nat /\ Cardinality(L \ {n}) = Cardinality(L) - 1
  BY <1>1, <1>2, FS_CardinalityType, FS_RemoveElement
<1>4. L \ {n} = NodeId \ (vis \cup {n})
  OBVIOUS
<1>5. Cardinality(L) <= k + 1
  OBVIOUS
<1> HIDE DEF L
<1>6. Cardinality(L \ {n}) <= k
  BY <1>3, <1>5
<1> QED
  BY <1>4, <1>6

LEMMA MeasuresDeeper ==
  ASSUME NEW g, Sound(g), NEW deeper \in Depths, NEW left \in Nat, Measures(g, deeper, left)
  PROVE  Measures(g, Deepen(g, Kinds, deeper), left + 1)
<1> SUFFICES ASSUME NEW n \in NodeId, NEW vis \in SUBSET NodeId, n \notin vis,
                    Cardinality(NodeId \ vis) <= left + 1, NEW k \in Nat
             PROVE  Deepen(g, Kinds, deeper)[<<n, vis>>] >= k + 1 <=> Chained(g, n, vis, k)
  BY DEF Measures
<1> DEFINE d == Deepen(g, Kinds, deeper)[<<n, vis>>]
           way == vis \cup {n}
<1>1. /\ d \in Nat \ {0}
      /\ \A j \in Nat : d >= j + 2 <=>
            \E e \in Edge : /\ HasEdge(g, e) /\ Src[e] = n /\ g.target[e] \notin way
                            /\ deeper[<<g.target[e], way>>] >= j + 1
  BY DeepenIs
<1>2. way \in SUBSET NodeId /\ Cardinality(NodeId \ way) <= left
  BY LeftFewer
<1>3. \A e \in Edge : HasEdge(g, e) => g.target[e] \in NodeId
  BY EdgeEnds
<1>4. \A j \in Nat : Chained(g, n, vis, j + 1) <=>
            \E e \in Edge : /\ HasEdge(g, e) /\ Src[e] = n /\ g.target[e] \notin way
                            /\ Chained(g, g.target[e], way, j)
  BY ChainedLonger
<1> HIDE DEF d, way
<1>5. \A m \in NodeId, j \in Nat : m \notin way =>
         (deeper[<<m, way>>] >= j + 1 <=> Chained(g, m, way, j))
  BY <1>2 DEF Measures
<1>6. CASE k = 0
  <2>1. Chained(g, n, vis, k)
    BY <1>6, ChainedStart
  <2>2. d >= k + 1
    BY <1>1, <1>6
  <2> QED
    BY <2>1, <2>2 DEF d
<1>7. CASE k # 0
  <2>1. PICK j \in Nat : k = j + 1
    <3>1. k - 1 \in Nat /\ k = (k - 1) + 1
      BY <1>7
    <3> QED
      BY <3>1
  <2>2. d >= j + 2 <=> Chained(g, n, vis, j + 1)
    BY <1>1, <1>3, <1>4, <1>5
  <2>3. k + 1 = j + 2
    BY <2>1
  <2> QED
    BY <2>1, <2>2, <2>3 DEF d
<1> QED
  BY <1>6, <1>7

LEMMA MeasureMeasures ==
  ASSUME NEW g, Sound(g), NEW n \in NodeId
  PROVE  /\ MeasureDepth(g, n, Kinds) \in Nat
         /\ \A k \in Nat : MeasureDepth(g, n, Kinds) >= k + 1 <=> Chained(g, n, {}, k)
<1> DEFINE f == DepthLayers(g)
           N == Cardinality(NodeId)
           T == {k \in Nat : Measures(g, f[k], k)}
<1>1. Rounds(f, Depths, Shallow, Deepening(g)) /\ MeasureDepth(g, n, Kinds) = f[N][<<n, {}>>]
  BY MeasureIs
<1> HIDE DEF f
<1>2. f \in [Nat -> Depths] /\ \A k \in Nat : f[k + 1] = Deepen(g, Kinds, f[k])
  <2>1. f \in [Nat -> Depths] /\ \A k \in Nat : f[k + 1] = Deepening(g)[f[k]]
    BY <1>1 DEF Rounds
  <2>2. \A k \in Nat : f[k] \in Depths
    BY <2>1
  <2> HIDE DEF Depths
  <2> QED
    BY <2>1, <2>2 DEF Deepening
<1>3. 0 \in T
  <2>1. ASSUME NEW m \in NodeId, NEW vis \in SUBSET NodeId, m \notin vis,
               Cardinality(NodeId \ vis) <= 0
        PROVE  FALSE
    <3>1. NodeId \ vis \subseteq NodeId /\ m \in NodeId \ vis
      BY <2>1
    <3>2. IsFiniteSet(NodeId \ vis)
      BY <3>1, FS_Subset, FiniteAssumption
    <3>3. Cardinality(NodeId \ vis) >= 1
      BY <3>1, <3>2, Inhabited
    <3>4. Cardinality(NodeId \ vis) \in Nat
      BY <3>2, FS_CardinalityType
    <3> QED
      BY <2>1, <3>3, <3>4
  <2> QED
    BY <2>1 DEF Measures
<1>4. \A k \in Nat : k \in T => k + 1 \in T
  BY <1>2, MeasuresDeeper
<1>5. Nat \subseteq T
  <2> HIDE DEF T
  <2> QED
    BY <1>3, <1>4, AllNaturals
<1>6. N \in Nat
  BY FS_CardinalityType, FiniteAssumption
<1>7. Measures(g, f[N], N) /\ f[N] \in Depths
  BY <1>2, <1>5, <1>6
<1>8. {} \in SUBSET NodeId /\ n \notin {} /\ NodeId \ {} = NodeId /\ N <= N
  BY <1>6
<1>9. \A k \in Nat : f[N][<<n, {}>>] >= k + 1 <=> Chained(g, n, {}, k)
  BY <1>7, <1>8 DEF Measures
<1>10. f[N][<<n, {}>>] \in Nat
  BY <1>7, <1>8 DEF Depths
<1> QED
  BY <1>1, <1>9, <1>10

LEMMA DepthAgrees ==
  ASSUME Sound(graph)
  PROVE  ReportedBy(Rule("max-depth", 4)) =
            {n \in NodesOf(graph) : \E m \in NodeId :
                \E p \in FindPaths(graph, n, m, 4, Kinds, "forward") : Len(p) = 4}
<1> DEFINE r == Rule("max-depth", 4)
           deep == {n \in NodesOf(graph) : MeasureDepth(graph, n, KindsOf(r)) > r.value}
           Of(n) == Violation(r, <<n>>, {})
<1>1. KindsOf(r) = Kinds /\ r.value = 4
  BY DEF Rule, KindsOf
<1>2. ReportedBy(r) = UNION {ToSet(v.nodes) : v \in {Of(n) : n \in deep}}
  BY DEF ReportedBy, CheckRule, CheckMaxDepth, Rule
<1>3. \A n : ToSet(Of(n).nodes) = {n}
  BY DEF Violation, ToSet
<1>4. deep = {n \in NodesOf(graph) : MeasureDepth(graph, n, Kinds) > 4}
  BY <1>1
<1> HIDE DEF r, deep, Of
<1>5. ReportedBy(r) = deep
  <2>1. \A x : x \in ReportedBy(r) <=> \E n \in deep : x \in ToSet(Of(n).nodes)
    BY <1>2
  <2>2. \A x \in ReportedBy(r) : x \in deep
    BY <1>3, <2>1
  <2>3. \A x \in deep : x \in ReportedBy(r)
    BY <1>3, <2>1
  <2> QED
    BY <2>2, <2>3
<1>6. ASSUME NEW n \in NodeId
      PROVE  MeasureDepth(graph, n, Kinds) > 4 <=>
                \E m \in NodeId : \E p \in FindPaths(graph, n, m, 4, Kinds, "forward") : Len(p) = 4
  <2>1. MeasureDepth(graph, n, Kinds) \in Nat
        /\ (MeasureDepth(graph, n, Kinds) >= 4 + 1 <=> Chained(graph, n, {}, 4))
    BY MeasureMeasures
  <2>2. \A m \in NodeId : FindPaths(graph, n, m, 4, Kinds, "forward") =
            {p \in Seq(Edge) : Len(p) <= 4 /\ Routes(graph, n, m, "forward", p)}
    BY FindPathsAre
  <2>3. ASSUME Chained(graph, n, {}, 4)
        PROVE  \E m \in NodeId : \E p \in Seq(Edge) :
                  Len(p) = 4 /\ Routes(graph, n, m, "forward", p)
    <3>1. PICK p \in Seq(Edge), s \in [0..4 -> NodeId] :
            Len(p) = 4 /\ s[0] = n /\ Stepped(graph, p, s, "forward") /\ Distinct(s, 4)
      BY <2>3 DEF Chained
    <3>2. \A i \in 0..4 : i < 4 => s[i] # s[4]
      BY <3>1 DEF Distinct
    <3>3. Walked(graph, p, s, n, s[4], "forward")
      BY <3>1, <3>2 DEF Walked
    <3>4. Routes(graph, n, s[4], "forward", p) /\ s[4] \in NodeId
      BY <3>1, <3>3 DEF Routes
    <3> QED
      BY <3>1, <3>4
  <2>4. ASSUME NEW m \in NodeId, NEW p \in Seq(Edge), Len(p) = 4,
               Routes(graph, n, m, "forward", p)
        PROVE  Chained(graph, n, {}, 4)
    <3>1. PICK s \in [0..4 -> NodeId] : Walked(graph, p, s, n, m, "forward")
      BY <2>4 DEF Routes
    <3> QED
      BY <2>4, <3>1 DEF Walked, Chained
  <2>5. (\E m \in NodeId : \E p \in FindPaths(graph, n, m, 4, Kinds, "forward") : Len(p) = 4)
           <=> \E m \in NodeId : \E p \in Seq(Edge) :
                  Len(p) = 4 /\ Routes(graph, n, m, "forward", p)
    BY <2>2
  <2>6. MeasureDepth(graph, n, Kinds) > 4 <=> Chained(graph, n, {}, 4)
    BY <2>1
  <2> QED
    BY <2>3, <2>4, <2>5, <2>6
<1>7. NodesOf(graph) \subseteq NodeId
  BY DEF NodesOf
<1> QED
  BY <1>4, <1>5, <1>6, <1>7 DEF r

LEMMA LimitsAgreeIn ==
  ASSUME Sound(graph), Sourced(graph)
  PROVE  LimitsAgree
<1> DEFINE t == [godObjectFanOut |-> 3, entryHubFanIn |-> 2, entryHubFanOutMax |-> 1,
                 utilitySinkFanIn |-> 2, cyclicClusterMinFan |-> 1]
<1>1. t.cyclicClusterMinFan = 1
  OBVIOUS
<1>2. {n \in DOMAIN AntiPatterns(graph, t) : "cyclic-cluster" \in AntiPatterns(graph, t)[n]} =
            ReportedBy(Rule("deny-circular", 0))
  <2> HIDE DEF t
  <2> QED
    BY <1>1, TagsAgree
<1> QED
  BY <1>2, DepthAgrees DEF LimitsAgree

---------------------------------------------------------------------------
(* The summaries.                                                          *)

Adding(counts) == [p \in (DOMAIN counts) \X Nat |-> counts[p[1]] + p[2]]

LEMMA AddedFold ==
  ASSUME NEW S, IsFiniteSet(S), NEW counts \in [S -> Nat]
  PROVE  IsFold(FoldFunction(+, 0, counts), S, Nat, 0, First(S), Adding(counts))
<1> DEFINE pick == First(S)
           o == Adding(counts)
           Step(f, s) ==
               IF s = {} THEN 0
               ELSE counts[CHOOSE x \in s : TRUE] + f[s \ {CHOOSE x \in s : TRUE}]
           Eq(f) == f = [s \in SUBSET S |-> Step(f, s)]
           iter == CHOOSE f : Eq(f)
<1>1. FoldFunction(+, 0, counts) = iter[S]
  BY DEF FoldFunction, FoldFunctionOnSet, MapThenFoldSet
<1>2. Picks(pick, S) /\ \A s \in SUBSET S : pick[s] = CHOOSE x \in s : TRUE
  BY FirstPicks DEF First
<1>3. \A x \in S, h \in Nat : o[<<x, h>>] = counts[x] + h
  BY DEF Adding
<1>4. Within(o, S, Nat)
  <2>1. \A x \in S, h \in Nat : counts[x] + h \in Nat
    OBVIOUS
  <2> HIDE DEF o
  <2>2. \A x \in S, h \in Nat : o[<<x, h>>] \in Nat
    BY <1>3, <2>1
  <2> QED
    BY <2>2 DEF Within
<1>5. IsFiniteSet(S) /\ 0 \in Nat
  OBVIOUS
<1> HIDE DEF pick, o
<1>6. ASSUME NEW f, NEW s \in SUBSET S, s # {}, f[s \ {pick[s]}] \in Nat
      PROVE  Step(f, s) = o[<<pick[s], f[s \ {pick[s]}]>>]
  <2>1. pick[s] \in S
    BY <1>2, <1>6 DEF Picks
  <2> QED
    BY <1>2, <1>3, <1>6, <2>1
<1>7. \A f : Step(f, {}) = 0
  OBVIOUS
<1> HIDE DEF Step
<1>8. \E f : Eq(f)
  <2>1. Picks(pick, S)
    BY <1>2
  <2>2. PICK f \in [SUBSET S -> Nat] : Iterates(f, S, 0, pick, o)
    BY Zenon, <1>4, <1>5, <2>1, IterationExists
  <2>3. ASSUME NEW s \in SUBSET S
        PROVE  f[s] = Step(f, s)
    <3>1. s # {} => f[s \ {pick[s]}] \in Nat
      BY <1>2 DEF Picks
    <3> QED
      BY <1>6, <1>7, <2>2, <3>1 DEF Iterates
  <2>4. f = [s \in SUBSET S |-> f[s]]
    OBVIOUS
  <2> QED
    BY Zenon, <2>3, <2>4
<1>9. Eq(iter)
  <2> HIDE DEF Eq
  <2> QED
    BY <1>8
<1> HIDE DEF iter
<1>10. /\ iter = [s \in SUBSET S |-> iter[s]]
       /\ iter[{}] = 0
       /\ \A s \in SUBSET S : s # {} /\ iter[s \ {pick[s]}] \in Nat =>
             iter[s] = o[<<pick[s], iter[s \ {pick[s]}]>>]
  BY <1>6, <1>7, <1>9
<1>11. IsFold(iter[S], S, Nat, 0, pick, o)
  BY Zenon, <1>2, <1>4, <1>5, <1>10, FoldIs
<1> QED
  BY <1>1, <1>11 DEF pick, o

Counted(D, v) == [k \in {v[x] : x \in D} |-> Cardinality({x \in D : v[x] = k})]

(* What is counted by kind is counted once.                                *)
LEMMA CountedOnce ==
  ASSUME NEW D, IsFiniteSet(D), NEW v
  PROVE  FoldFunction(+, 0, Counted(D, v)) = Cardinality(D)
<1> DEFINE S == {v[x] : x \in D}
           of == [x \in D |-> v[x]]
           counts == Counted(D, v)
           Of(s) == {x \in D : v[x] \in s}
           o == Adding(counts)
           R == {p \in (SUBSET S) \X Nat : p[2] = Cardinality(Of(p[1]))}
<1>1. IsFiniteSet(S)
  <2>1. of \in Surjection(D, S)
    BY DEF Surjection
  <2> QED
    BY <2>1, FS_Surjection
<1>2. \A s : IsFiniteSet(Of(s)) /\ Cardinality(Of(s)) \in Nat
  <2> TAKE s
  <2>1. Of(s) \subseteq D
    OBVIOUS
  <2> HIDE DEF Of
  <2> QED
    BY <2>1, FS_Subset, FS_CardinalityType
<1>3. \A k \in S : {x \in D : v[x] = k} = Of({k})
  OBVIOUS
<1>4. counts = [k \in S |-> Cardinality({x \in D : v[x] = k})]
  BY DEF Counted
<1>5. Of({}) = {} /\ Of(S) = D
  OBVIOUS
<1>6. \A s \in SUBSET S : \A k \in s :
         Of(s) = Of({k}) \cup Of(s \ {k}) /\ Of({k}) \cap Of(s \ {k}) = {}
  OBVIOUS
<1> HIDE DEF S, Of, counts
<1>7. counts \in [S -> Nat] /\ \A k \in S : counts[k] = Cardinality(Of({k}))
  BY <1>2, <1>3, <1>4
<1>8. DOMAIN counts = S
  BY <1>4
<1>9. IsFold(FoldFunction(+, 0, counts), S, Nat, 0, First(S), o)
  BY <1>1, <1>7, AddedFold
<1>10. Picks(First(S), S)
  BY FirstPicks
<1>11. \A k \in S, h \in Nat : o[<<k, h>>] = counts[k] + h
  BY <1>8 DEF Adding
<1> HIDE DEF o
<1>12. \A s, t : <<s, t>> \in R <=> s \in SUBSET S /\ t \in Nat /\ t = Cardinality(Of(s))
  OBVIOUS
<1>13. <<{}, 0>> \in R
  BY <1>5, <1>12, FS_EmptySet
<1>14. Carries(R, S, Nat, o)
  <2> SUFFICES ASSUME NEW s \in SUBSET S, NEW k \in s, NEW t \in Nat, <<s \ {k}, t>> \in R
               PROVE  <<s, o[<<k, t>>]>> \in R
    BY DEF Carries
  <2> DEFINE A == Of({k})
             B == Of(s \ {k})
  <2>1. k \in S /\ t = Cardinality(B)
    BY <1>12
  <2>2. o[<<k, t>>] = Cardinality(A) + Cardinality(B)
    BY <1>7, <1>11, <2>1
  <2>3. IsFiniteSet(A) /\ IsFiniteSet(B) /\ Of(s) = A \cup B /\ A \cap B = {}
    BY <1>2, <1>6
  <2>4. Cardinality(A) \in Nat /\ Cardinality(B) \in Nat
    BY <1>2
  <2> HIDE DEF A, B, R
  <2>5. Cardinality(A \cup B) = Cardinality(A) + Cardinality(B)
    <3>1. Cardinality(A \cup B) = Cardinality(A) + Cardinality(B) - Cardinality(A \cap B)
      BY <2>3, FS_Union
    <3>2. Cardinality(A \cap B) = 0
      BY <2>3, FS_EmptySet
    <3> QED
      BY <2>4, <3>1, <3>2
  <2>6. o[<<k, t>>] \in Nat /\ o[<<k, t>>] = Cardinality(Of(s))
    BY <2>2, <2>3, <2>4, <2>5
  <2> QED
    BY <1>12, <2>6
<1>15. <<S, FoldFunction(+, 0, counts)>> \in R
  <2> HIDE DEF R
  <2> QED
    BY <1>1, <1>9, <1>10, <1>13, <1>14, FoldHolds
<1> QED
  BY <1>5, <1>12, <1>15 DEF counts

LEMMA SnippetIs ==
  ASSUME NEW length \in Nat, NEW line \in Nat, NEW context \in Nat
  PROVE  GetSourceSnippet(length, line, context) =
            {n \in 1..length : line - context <= n /\ n <= line + context}
<1> DEFINE i == (line - context) - 1
           j == line + context
           M == {0, i}
           m == {length, j}
<1>1. i \in Int /\ j \in Nat
  OBVIOUS
<1>2. Max(M) \in M /\ \A k \in M : Max(M) >= k
  <2>1. \E x \in M : \A k \in M : x >= k
    BY <1>1
  <2> HIDE DEF M
  <2> QED
    BY <2>1 DEF Max
<1>3. Min(m) \in m /\ \A k \in m : Min(m) <= k
  <2>1. \E x \in m : \A k \in m : x =< k
    BY <1>1
  <2> HIDE DEF m
  <2>2. Min(m) \in m /\ \A k \in m : Min(m) =< k
    BY <2>1 DEF Min
  <2> QED
    BY <2>2
<1>4. GetSourceSnippet(length, line, context) = Max(M) + 1 .. Min(m)
  BY DEF GetSourceSnippet
<1>5. Max(M) = IF i > 0 THEN i ELSE 0
  <2>1. Max(M) \in {0, i} /\ Max(M) >= 0 /\ Max(M) >= i
    BY <1>2
  <2> HIDE DEF M, i
  <2> QED
    BY <1>1, <2>1
<1>6. Min(m) = IF j < length THEN j ELSE length
  <2>1. Min(m) \in {length, j} /\ Min(m) <= length /\ Min(m) <= j
    BY <1>3
  <2> HIDE DEF m, j
  <2> QED
    BY <1>1, <2>1
<1> QED
  BY <1>4, <1>5, <1>6

LEMMA OrphanIs ==
  ASSUME NEW g, Sound(g), Sourced(g), NEW n \in FindOrphanNodes(g)
  PROVE  /\ n \in NodesOf(g) /\ GetInEdges(g, n) = {} /\ GetOutEdges(g, n) = {}
         /\ n \notin UNION FindCircularDependencies(g) /\ n \notin FindHubs(g, 5)
<1>1. n \in NodesOf(g) /\ GetInEdges(g, n) = {} /\ GetOutEdges(g, n) = {}
  BY DEF FindOrphanNodes
<1>2. FanIn(g, n) = 0 /\ FanOut(g, n) = 0
  BY <1>1, FS_EmptySet DEF FanIn, FanOut
<1>3. n \notin UNION FindCircularDependencies(g)
  BY <1>2, CyclicFans
<1>4. n \notin FindHubs(g, 5)
  BY <1>2 DEF FindHubs
<1> QED
  BY <1>1, <1>3, <1>4

(* A component that nothing refers to is no entry point and is dead.       *)
LEMMA OrphanDead ==
  ASSUME NEW g, Sound(g), NEW n \in NodesOf(g), NodeKind[n] = "vue-component",
         GetInEdges(g, n) = {}
  PROVE  n \in FindDeadNodes(g)
<1> DEFINE C == CollectEntrypoints(g)
           W == NodeId \ {n}
<1>1. NodesOf(g) \subseteq NodeId /\ n \in NodeId
  BY DEF NodesOf
<1>2. C \subseteq NodesOf(g) /\ n \notin C
  BY DEF CollectEntrypoints
<1>3. \A e \in Edge : HasEdge(g, e) => g.target[e] # n
  BY <1>1, IndexedEdges
<1>4. \A m \in W : Followed(g, m) \subseteq W
  BY <1>3, FollowedIs
<1>5. C \subseteq W /\ C \in SUBSET NodeId
  BY <1>1, <1>2
<1> HIDE DEF C, W
<1>6. Walk(g, C, {}) \subseteq W
  BY <1>4, <1>5, WalkWithin
<1>7. n \notin Walk(g, C, {})
  BY <1>6 DEF W
<1> QED
  BY <1>7 DEF FindDeadNodes, ReachableFromEntrypoints, NeverDead, C

LEMMA SummariesAgreeIn ==
  ASSUME Sound(graph), Sourced(graph)
  PROVE  SummariesAgree
<1> DEFINE g == graph
           stats == GetStats(g)
           marks == GetAnalysisOverlays(g)
<1>1. IsFiniteSet(NodesOf(g)) /\ IsFiniteSet(EdgesOf(g))
  BY FS_Subset, FiniteAssumption DEF NodesOf, EdgesOf
<1>2. stats.nodesByKind = Counted(NodesOf(g), NodeKind)
      /\ stats.edgesByKind = Counted(EdgesOf(g), Kind)
  BY DEF GetStats, CountBy, Counted
<1>3. marks.orphans = FindOrphanNodes(g) /\ stats.orphanNodes = FindOrphanNodes(g)
      /\ marks.circular = UNION FindCircularDependencies(g) /\ marks.hubs = FindHubs(g, 5)
      /\ stats.unusedEndpoints = FindUnusedEndpoints(g)
  BY DEF GetStats, GetAnalysisOverlays
<1>4. \A n \in FindOrphanNodes(g) :
         /\ n \in NodesOf(g) /\ GetInEdges(g, n) = {}
         /\ n \notin UNION FindCircularDependencies(g) /\ n \notin FindHubs(g, 5)
  BY OrphanIs
<1> HIDE DEF stats, marks
<1>5. /\ FoldFunction(+, 0, stats.nodesByKind) = Cardinality(NodesOf(g))
      /\ FoldFunction(+, 0, stats.edgesByKind) = Cardinality(EdgesOf(g))
  BY <1>1, <1>2, CountedOnce
<1>6. marks.orphans = stats.orphanNodes
      /\ marks.orphans \cap (marks.circular \cup marks.hubs) = {}
  BY <1>3, <1>4
<1>7. NodesOfKind(g, {"spring-endpoint"}) \cap marks.orphans \subseteq stats.unusedEndpoints
  BY <1>3, <1>4 DEF NodesOfKind, FindUnusedEndpoints, NotReferenced
<1>8. NodesOfKind(g, {"vue-component"}) \cap marks.orphans
          \subseteq FindUnusedComponents(g) \cap FindDeadNodes(g)
  <2>1. ASSUME NEW n \in NodesOfKind(g, {"vue-component"}) \cap marks.orphans
        PROVE  n \in FindUnusedComponents(g) /\ n \in FindDeadNodes(g)
    <3>1. n \in NodesOf(g) /\ NodeKind[n] = "vue-component" /\ GetInEdges(g, n) = {}
      BY <1>3, <1>4 DEF NodesOfKind
    <3>2. n \in FindDeadNodes(g)
      BY <3>1, OrphanDead
    <3> QED
      BY <3>1, <3>2 DEF NodesOfKind, FindUnusedComponents, NotReferenced
  <2> QED
    BY <2>1
<1>9. \A length, line, context \in 0..3 :
          GetSourceSnippet(length, line, context) =
              {n \in 1..length : line - context <= n /\ n <= line + context}
  BY SnippetIs
<1> QED
  BY <1>5, <1>6, <1>7, <1>8, <1>9 DEF SummariesAgree, stats, marks

LEMMA RulesAgreeIn ==
  ASSUME IInvProject, IInvSourced
  PROVE  RulesAgree
<1>1. OfProject(graph) /\ Sound(graph)
  BY DEF IInvProject, OfProject
<1>2. Asked => Sourced(graph)
  BY DEF Asked, IInvSourced, Grown
<1>3. CyclesExact
  BY <1>1, <1>2, CyclesExactIn DEF CyclesExact
<1>4. LimitsAgree
  <2>1. CASE Asked
    BY <1>1, <1>2, <2>1, LimitsAgreeIn
  <2>2. CASE ~Asked
    BY <2>2 DEF LimitsAgree
  <2> QED
    BY <2>1, <2>2
<1>5. Asked => SummariesAgree
  BY <1>1, <1>2, SummariesAgreeIn
<1> QED
  BY <1>3, <1>4, <1>5, WaiversLapseIn DEF RulesAgree

(* For every project: the cycles that are reported are the classes of      *)
(* nodes that reach each other, the limits of the linter, the pathfinder   *)
(* and the tags measure alike, a waiver only puts a violation off, and the *)
(* numbers of a summary are of the graph it is of.                         *)
THEOREM RulesAgreeAlways == Spec => []RulesAgree
<1>1. IInvProject /\ IInvSourced => RulesAgree
  BY RulesAgreeIn
<1> QED
  BY <1>1, ProjectInvariant, SourcedInvariant, PTL
=============================================================================
