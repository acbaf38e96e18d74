----------------------------- MODULE ParseCache -----------------------------
(***************************************************************************)
(* The parse cache of a project, .vda-cache/parse-cache.sqlite, and the    *)
(* processes that share it: servers (packages/server/src/engine.ts) and    *)
(* runs of the command line (packages/cli/src/config.ts).  Every process   *)
(* opens it with the configuration it was started with and may die         *)
(* anywhere; every SQL statement outside a transaction, and every call of  *)
(* the file system, is a step of its own.                                  *)
(*                                                                         *)
(* Parsing is a function of the file, its text and the configuration, so a *)
(* result is named by them.  whole says that nothing of it is missing:     *)
(* some texts have a node of no file (an event class) and edges that start *)
(* there.  table is the file whose path and metadata the node has that     *)
(* several files may emit (a db-table); Nil if there is no such node.      *)
(***************************************************************************)
EXTENDS Naturals, FiniteSets

CONSTANTS
    Server, Cli,    \* the processes
    Config,         \* the hashes of configurations
    SourceFile, Text,
    Loose,          \* the texts with an event
    Shared,         \* the texts with the table
    Bare,           \* the texts with no node of the file's own
    Place,          \* where a file is in the list of files
    Nil,            \* no file, row, value or result
    LegacyJson,     \* what parse-cache.json may be for when the first process starts
    MaxStarts, MaxEdits  \* bounds of the model

Process == Server \cup Cli
Result  == [text : Text, under : Config, whole : BOOLEAN, table : SourceFile \cup {Nil}]
Row     == [hash : Text, payload : Result]

ASSUME CacheAssumption ==
    /\ Server \cap Cli = {}
    /\ Loose \subseteq Text /\ Shared \subseteq Text /\ Bare \subseteq Text
    /\ Place \in [SourceFile -> Nat]
    /\ \A f, g \in SourceFile : Place[f] = Place[g] => f = g
    /\ IsFiniteSet(SourceFile)
    /\ Nil \notin SourceFile \cup Text \cup Config \cup Result
    /\ LegacyJson \subseteq Config \cup {Nil}
    /\ MaxStarts \in Nat /\ MaxEdits \in Nat

VARIABLES
    disk,     \* the text of each source file
    json,     \* parse-cache.json, of an earlier release: the configuration it is for
    created,  \* parse-cache.sqlite exists
    version,  \* its table meta: whether a version is written,
    config,   \* and the configuration
    entries,  \* its table entries
    pc, conf, \* where a process is, and its configuration
    source,   \* the texts it has read in its scan
    result,   \* the parse results it works with, from the cache or fresh
    hits,     \* the files whose result is from the cache
    todo,     \* the files the command line has still to save
    saving,   \* the file it found not cached and is about to save
    past,     \* history: what has happened since the rows were last emptied by
              \* a process on its own
    starts, edits

fileVars    == <<disk, json>>
processVars == <<pc, conf, source, result, hits, todo, saving>>
dbVars      == <<created, version, config, entries>>
vars        == <<fileVars, dbVars, processVars, past, starts, edits>>

Empty == [f \in SourceFile |-> Nil]

Parse(f, t, c) ==
    [text |-> t, under |-> c, whole |-> TRUE, table |-> IF t \in Shared THEN f ELSE Nil]

CacheTypeOK ==
    /\ disk \in [SourceFile -> Text \cup {Nil}]
    /\ json \in Config \cup {Nil}
    /\ created \in BOOLEAN
    /\ version \in BOOLEAN
    /\ config \in Config \cup {Nil}
    /\ entries \in [SourceFile -> Row \cup {Nil}]
    /\ pc \in [Process -> {"off", "migrate", "create", "import", "stampVersion",
                           "stampConfig", "unlink", "open", "check", "bust", "setVersion",
                           "setConfig", "ready", "scanned", "watching", "rescanned"}]
    /\ conf \in [Process -> Config \cup {Nil}]
    /\ source \in [Process -> [SourceFile -> Text \cup {Nil}]]
    /\ result \in [Process -> [SourceFile -> Result \cup {Nil}]]
    /\ hits \in [Process -> SUBSET SourceFile]
    /\ todo \in [Process -> SUBSET SourceFile]
    /\ saving \in [Process -> SourceFile \cup {Nil}]
    /\ past \subseteq {"mixed", "edited", "loose", "shared"}
    /\ starts \in 0..MaxStarts
    /\ edits \in 0..MaxEdits

Init ==
    /\ disk \in [SourceFile -> Text]
    /\ json \in LegacyJson
    /\ created = FALSE
    /\ version = FALSE
    /\ config = Nil
    /\ entries = Empty
    /\ pc = [p \in Process |-> "off"]
    /\ conf = [p \in Process |-> Nil]
    /\ source = [p \in Process |-> Empty]
    /\ result = [p \in Process |-> Empty]
    /\ hits = [p \in Process |-> {}]
    /\ todo = [p \in Process |-> {}]
    /\ saving = [p \in Process |-> Nil]
    /\ past = {}
    /\ starts = 0
    /\ edits = 0

Edit(f) ==
    /\ edits < MaxEdits
    /\ edits' = edits + 1
    /\ \E t \in Text \cup {Nil} : t # disk[f] /\ disk' = [disk EXCEPT ![f] = t]
    /\ UNCHANGED <<json, dbVars, processVars, past, starts>>

Goto(p, there) ==
    /\ pc' = [pc EXCEPT ![p] = there]
    /\ UNCHANGED <<conf, source, result, hits, todo, saving>>
---------------------------------------------------------------------------
(* new ParseCache(root, config).                                           *)

Start(p) ==
    /\ starts < MaxStarts
    /\ starts' = starts + 1
    /\ pc[p] = "off"
    /\ \E c \in Config :
          /\ conf' = [conf EXCEPT ![p] = c]
          /\ past' = past \cup {h \in {"mixed"} :
                                  \E q \in Process : pc[q] # "off" /\ conf[q] # c}
    /\ pc' = [pc EXCEPT ![p] = "migrate"]
    /\ UNCHANGED <<fileVars, dbVars, source, result, hits, todo, saving, edits>>

(* migrateFromJsonIfPresent().  The JSON file is dead if the database      *)
(* exists or if it is for another configuration.                           *)
Migrate(p) ==
    /\ pc[p] = "migrate"
    /\ IF json = conf[p] /\ ~created
       THEN json' = json /\ Goto(p, "create")
       ELSE json' = Nil /\ Goto(p, "open")
    /\ UNCHANGED <<disk, dbVars, past, starts, edits>>

Create(p, here, next) ==
    /\ pc[p] = here
    /\ created' = TRUE
    /\ Goto(p, next)
    /\ UNCHANGED <<fileVars, version, config, entries, past, starts, edits>>

(* One transaction.  The entries of the JSON file are of some version of   *)
(* the files, not necessarily of the present one.                          *)
Import(p) ==
    /\ pc[p] = "import"
    /\ \E old \in [SourceFile -> Text \cup {Nil}] :
          entries' = [f \in SourceFile |->
                         IF old[f] = Nil THEN entries[f]
                         ELSE [hash |-> old[f], payload |-> Parse(f, old[f], conf[p])]]
    /\ Goto(p, "stampVersion")
    /\ UNCHANGED <<fileVars, created, version, config, past, starts, edits>>

WriteVersion(p, here, next) ==
    /\ pc[p] = here
    /\ version' = TRUE
    /\ Goto(p, next)
    /\ UNCHANGED <<fileVars, created, config, entries, past, starts, edits>>

WriteConfig(p, here, next) ==
    /\ pc[p] = here
    /\ config' = conf[p]
    /\ Goto(p, next)
    /\ UNCHANGED <<fileVars, created, version, entries, past, starts, edits>>

UnlinkJson(p) ==
    /\ pc[p] = "unlink"
    /\ json' = Nil
    /\ Goto(p, "open")
    /\ UNCHANGED <<disk, dbVars, past, starts, edits>>

(* Mutation of Stale: a database without a configuration is accepted.      *)
StaleIfOther(p) == config \notin {conf[p], Nil}

Stale(p) == ~version \/ config # conf[p]

Check(p) ==
    /\ pc[p] = "check"
    /\ Goto(p, IF Stale(p) THEN "bust" ELSE "ready")
    /\ UNCHANGED <<fileVars, dbVars, past, starts, edits>>

(* Mutation of Bust: the new configuration is written first.               *)
BustAfterwards(p) ==
    /\ pc[p] = "bust"
    /\ config' = conf[p]
    /\ version' = TRUE
    /\ entries' = IF config = conf[p] THEN Empty ELSE entries
    /\ Goto(p, IF config = conf[p] THEN "ready" ELSE "bust")
    /\ UNCHANGED <<fileVars, created, past, starts, edits>>

Bust(p) ==
    /\ pc[p] = "bust"
    /\ entries' = Empty
    /\ past' = IF \A q \in Process \ {p} : pc[q] = "off" THEN {} ELSE past
    /\ Goto(p, "setVersion")
    /\ UNCHANGED <<fileVars, created, version, config, starts, edits>>
---------------------------------------------------------------------------
Get(f, t) ==
    IF entries[f] # Nil /\ entries[f].hash = t THEN entries[f].payload ELSE Nil

(* A run: every file is read, and parsed if the cache has no result.       *)
Scan(p) ==
    /\ pc[p] \in {"ready", "watching"}
    /\ LET there == {f \in SourceFile : disk[f] # Nil}
           found == {f \in there : Get(f, disk[f]) # Nil} IN
       /\ result' = [result EXCEPT ![p] =
             [f \in SourceFile |-> IF f \in found THEN Get(f, disk[f])
                                   ELSE IF f \in there THEN Parse(f, disk[f], conf[p])
                                   ELSE Nil]]
       /\ hits' = [hits EXCEPT ![p] = found]
       /\ todo' = [todo EXCEPT ![p] = IF p \in Cli THEN there ELSE {}]
    /\ source' = [source EXCEPT ![p] = disk]
    /\ pc' = [pc EXCEPT ![p] = IF @ = "ready" THEN "scanned" ELSE "rescanned"]
    /\ UNCHANGED <<fileVars, dbVars, conf, saving, past, starts, edits>>

Fresh(p) == {f \in SourceFile \ hits[p] : result[p][f] # Nil}

(* The server's setMany(), one transaction: what was parsed, with the text *)
(* it was parsed from.                                                     *)
SaveParsed(p) ==
    /\ pc[p] \in {"scanned", "rescanned"} /\ p \in Server
    /\ entries' = [f \in SourceFile |->
                      IF f \in Fresh(p)
                      THEN [hash |-> source[p][f], payload |-> result[p][f]] ELSE entries[f]]
    /\ Goto(p, "watching")
    /\ UNCHANGED <<fileVars, created, version, config, past, starts, edits>>

(* The command line's graph.  Of the node that several results have it has *)
(* the object that was added last: first come the results of the cache,    *)
(* then the fresh ones, each in the order of the files.  The node is found *)
(* by the path that any of these objects has.                              *)
Results(p) == {f \in SourceFile : result[p][f] # Nil}

Sharing(p) == {f \in Results(p) : result[p][f].table # Nil}

AddedLast(p) ==
    LET last == IF Sharing(p) \cap Fresh(p) # {} THEN Sharing(p) \cap Fresh(p) ELSE Sharing(p)
    IN  CHOOSE f \in last : \A g \in last : Place[g] <= Place[f]

HasTable(p, f) == \E g \in Results(p) : result[p][g].table = f

(* graph.getNodesByFile(f) and the edges that start at one of these nodes. *)
FromGraph(p, f) ==
    LET r == result[p][f] IN
    [r EXCEPT !.whole = r.whole /\ r.text \notin Loose,
              !.table = IF HasTable(p, f) THEN result[p][AddedLast(p)].table ELSE Nil]

(* The command line saves what the graph has of a file.  It reads the file *)
(* again to ask whether the text is cached, and once more for the hash.  A *)
(* file that is gone ends the process (End).                               *)
FindUncached(p, f) ==
    /\ f \in todo[p] /\ saving[p] = Nil
    /\ todo' = [todo EXCEPT ![p] = @ \ {f}]
    /\ \/ /\ result[p][f].text \in Bare /\ ~HasTable(p, f)
          /\ UNCHANGED saving
       \/ /\ result[p][f].text \notin Bare \/ HasTable(p, f)
          /\ disk[f] # Nil
          /\ saving' = [saving EXCEPT ![p] = IF Get(f, disk[f]) = Nil THEN f ELSE Nil]
    /\ UNCHANGED <<fileVars, dbVars, pc, conf, source, result, hits, past, starts, edits>>

SaveFile(p) ==
    /\ saving[p] # Nil
    /\ LET f == saving[p]
           r == result[p][f] IN
       /\ disk[f] # Nil
       /\ entries' = [entries EXCEPT ![f] = [hash |-> disk[f], payload |-> FromGraph(p, f)]]
       /\ past' = past \cup {h \in {"edited", "loose", "shared"} :
             \/ h = "edited" /\ disk[f] # source[p][f]
             \/ h = "loose"  /\ r.text \in Loose
             \/ h = "shared" /\ \E g, k \in Results(p) :
                   g # k /\ {result[p][g].text, result[p][k].text} \subseteq Shared}
    /\ saving' = [saving EXCEPT ![p] = Nil]
    /\ UNCHANGED <<fileVars, created, version, config, pc, conf, source, result, hits, todo,
                   starts, edits>>

(* The server's watcher, from the end of the first run: invalidate(), read *)
(* and set().                                                              *)
HandleFileChange(p, f) ==
    /\ pc[p] \in {"watching", "rescanned"}
    /\ entries' = [entries EXCEPT ![f] =
                      IF disk[f] = Nil THEN Nil
                      ELSE [hash |-> disk[f], payload |-> Parse(f, disk[f], conf[p])]]
    /\ UNCHANGED <<fileVars, created, version, config, processVars, past, starts, edits>>

(* The process ends: it is done, it is killed, or it throws.               *)
End(p) ==
    /\ pc[p] # "off"
    /\ pc' = [pc EXCEPT ![p] = "off"]
    /\ conf' = [conf EXCEPT ![p] = Nil]
    /\ source' = [source EXCEPT ![p] = Empty]
    /\ result' = [result EXCEPT ![p] = Empty]
    /\ hits' = [hits EXCEPT ![p] = {}]
    /\ todo' = [todo EXCEPT ![p] = {}]
    /\ saving' = [saving EXCEPT ![p] = Nil]
    /\ UNCHANGED <<fileVars, dbVars, past, starts, edits>>

Next ==
    \/ \E f \in SourceFile : Edit(f)
    \/ \E p \in Process :
          \/ Start(p)
          \/ Migrate(p)
          \/ Create(p, "create", "import")
          \/ Import(p)
          \/ WriteVersion(p, "stampVersion", "stampConfig")
          \/ WriteConfig(p, "stampConfig", "unlink")
          \/ UnlinkJson(p)
          \/ Create(p, "open", "check")
          \/ Check(p)
          \/ Bust(p)
          \/ WriteVersion(p, "setVersion", "setConfig")
          \/ WriteConfig(p, "setConfig", "ready")
          \/ Scan(p)
          \/ SaveParsed(p)
          \/ SaveFile(p)
          \/ \E f \in SourceFile : FindUncached(p, f) \/ HandleFileChange(p, f)
          \/ End(p)

Spec == Init /\ [][Next]_vars
---------------------------------------------------------------------------
(* Properties.                                                             *)

(* What a process works with is what it would have parsed itself, wherever *)
(* another process died and whatever runs beside it: of the text it read,  *)
(* under its own configuration, whole, with the table as the file has it.  *)
(* What can spoil that spoils that alone: two processes that run together  *)
(* with two configurations the configuration; a file edited between the    *)
(* scan of a command line and its writing, the text; an event class and a  *)
(* table of two files, when a command line saved them, what the row has of *)
(* them.  "Bust on version or config change" (ParseCache.ts:82) by one     *)
(* process on its own ends all of it, and a restart under another          *)
(* configuration never sees a result of the one before.                    *)
ResultsAreOwn ==
    \A p \in Process : \A f \in Results(p) :
        LET r   == result[p][f]
            own == Parse(f, source[p][f], conf[p]) IN
        /\ r.under = own.under \/ "mixed" \in past
        /\ r.text = own.text \/ "edited" \in past
        /\ r.whole \/ "loose" \in past
        /\ r.table = Parse(f, r.text, r.under).table \/ "shared" \in past

(* Once the database is stamped with a configuration its rows are results  *)
(* of that configuration, as long as those that ran together had the same, *)
(* and of the text they are filed under, if no file changed in the middle  *)
(* of a command line.                                                      *)
RowsAreStamped ==
    \A f \in SourceFile : entries[f] # Nil =>
        /\ entries[f].payload.text = entries[f].hash \/ "edited" \in past
        /\ version /\ config # Nil => entries[f].payload.under = config \/ "mixed" \in past
===========================================================================
