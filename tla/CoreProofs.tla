----------------------------- MODULE CoreProofs -----------------------------
(***************************************************************************)
(* The parse cache, and the trees of a linked project.                     *)
(*                                                                         *)
(* Processes that are started one after the other or together never use a  *)
(* parse result that is not their own, for any number of processes, files, *)
(* texts and configurations and wherever a process dies.  Where another    *)
(* configuration at the same time, an edit in the middle of a command      *)
(* line, an event or a table of two files spoil one part of a result, the  *)
(* other parts are still its own, and a process that empties the rows on   *)
(* its own ends all of that.                                               *)
(*                                                                         *)
(* That a row is a result of the configuration in the table meta is not    *)
(* inductive: while an old cache is migrated, or a database emptied, there *)
(* are rows and no configuration, or one that is not theirs.  What holds   *)
(* then is said by Opening, by where each process is.  That what was       *)
(* spoilt may be forgotten when the rows are emptied needs that no process *)
(* has results then, which Stage says.                                     *)
(*                                                                         *)
(* The trees of the web client are exact for every graph that the linking  *)
(* of a project can come to.  A walk of enough depth meets each node once  *)
(* (Met) and follows it to its ends (Closed), and there is enough depth as *)
(* long as what was not met yet is no more than what is left of it (Room); *)
(* the key of a row is a way to it, and a way is walked back from its end. *)
(* Of the graph only its finiteness is needed, an invariant of the links.  *)
(***************************************************************************)
EXTENDS ParseCache, Trees, DependencyGraphProofs

(* A running process has a configuration, each result has a text it is     *)
(* from, and only the command line, only after its run, and only what has  *)
(* a result, is left to be saved file by file.                             *)
Working(p) ==
    /\ pc[p] # "off" => conf[p] \in Config
    /\ \A f \in SourceFile : result[p][f] # Nil => source[p][f] # Nil
    /\ \A f \in todo[p] : result[p][f] # Nil
    /\ saving[p] # Nil => result[p][saving[p]] # Nil
    /\ p \notin Cli \/ pc[p] \notin {"scanned", "rescanned"} => todo[p] = {} /\ saving[p] = Nil

Typed == CacheTypeOK /\ \A p \in Process : Working(p)

Opened == {"ready", "scanned", "watching", "rescanned"}

(* How far a process has come, and what is in the database then.           *)
Stage(p) ==
    /\ pc[p] \notin {"scanned", "watching", "rescanned"} => result[p] = Empty
    /\ pc[p] \notin {"off", "migrate", "create", "unlink", "open"} => created
    /\ pc[p] \in {"stampConfig", "setConfig"} \cup Opened => version

Begun ==
    /\ ~created => ~version /\ entries = Empty
    /\ config # Nil => version

Staged == Begun /\ \A p \in Process : Stage(p)

(* What a result, or a row, of a file is worth: it is of the text, whole   *)
(* and with the table as the file has it, unless that was spoilt.          *)
Honest(f, t, r, spoilt) ==
    /\ r.text = t \/ "edited" \in spoilt
    /\ r.whole \/ "loose" \in spoilt
    /\ r.table = Parse(f, r.text, r.under).table \/ "shared" \in spoilt

RowsHonest == \A f \in SourceFile :
    entries[f] # Nil => Honest(f, entries[f].hash, entries[f].payload, past)

ResultsHonest == \A p \in Process : \A f \in SourceFile :
    result[p][f] # Nil => Honest(f, source[p][f], result[p][f], past)

Honesty == RowsHonest /\ ResultsHonest

(* As long as those that run together have one configuration.              *)
Agreement == \A p, q \in Process : pc[p] # "off" /\ pc[q] # "off" => conf[p] = conf[q]

RowsUnder(c) ==
    \A f \in SourceFile : entries[f] # Nil => entries[f].payload.under = c

Opening(p) ==
    /\ pc[p] \in {"create", "import", "stampVersion", "stampConfig"}
           => config \in {Nil, conf[p]} /\ RowsUnder(conf[p])
    /\ pc[p] \in {"setVersion", "setConfig"} => RowsUnder(conf[p])
    /\ pc[p] \in Opened => config = conf[p]
    /\ \A f \in SourceFile : result[p][f] # Nil => result[p][f].under = conf[p]

Stamps ==
    /\ Agreement
    /\ config # Nil => RowsUnder(config)
    /\ \A p \in Process : Opening(p)

Stamped == "mixed" \notin past => Stamps

CacheIInv == Typed /\ Staged /\ Honesty /\ Stamped
---------------------------------------------------------------------------
(* Types.                                                                  *)

LEMMA EmptyType == ASSUME NEW S PROVE Empty \in [SourceFile -> S \cup {Nil}]
  BY DEF Empty

(* What a process reads from the cache has the type of a parse result.     *)
LEMMA GetType ==
    ASSUME CacheTypeOK, NEW f \in SourceFile, NEW t
    PROVE  Get(f, t) \in Result \cup {Nil}
  BY DEF CacheTypeOK, Get, Row

LEMMA ParseType ==
    ASSUME NEW f \in SourceFile, NEW t \in Text, NEW c \in Config
    PROVE  Parse(f, t, c) \in Result
  BY DEF Parse, Result

LEMMA RowType ==
    ASSUME NEW t \in Text, NEW r \in Result
    PROVE  [hash |-> t, payload |-> r] \in Row
  BY DEF Row

(* What was added last is one of what was added.                           *)
LEMMA GreatestPlace ==
    ASSUME CacheAssumption, NEW X \in SUBSET SourceFile, X # {}
    PROVE  \E f \in X : \A g \in X : Place[g] <= Place[f]
  <1> DEFINE T == {S \in SUBSET SourceFile :
                      S # {} => \E f \in S : \A g \in S : Place[g] <= Place[f]}
  <1>1. IsFiniteSet(SourceFile) /\ Place \in [SourceFile -> Nat]
    BY DEF CacheAssumption
  <1>2. ASSUME NEW S \in SUBSET SourceFile, \A x \in S : S \ {x} \in T
        PROVE  S \in T
    <2> SUFFICES ASSUME NEW x \in S
                 PROVE  \E f \in S : \A g \in S : Place[g] <= Place[f]
      OBVIOUS
    <2>1. CASE S \ {x} = {}
      <3>1. \A g \in S : Place[g] <= Place[x]
        BY <1>1, <2>1
      <3> QED
        BY <3>1
    <2>2. CASE S \ {x} # {}
      <3>1. PICK f \in S \ {x} : \A g \in S \ {x} : Place[g] <= Place[f]
        BY <1>2, <2>2
      <3>2. CASE Place[x] <= Place[f]
        BY <3>1, <3>2
      <3>3. CASE Place[f] < Place[x]
        <4>1. \A g \in S : Place[g] <= Place[x]
          BY <1>1, <3>1, <3>3
        <4> QED
          BY <4>1
      <3> QED
        BY <1>1, <3>2, <3>3
    <2> QED
      BY <2>1, <2>2
  <1>3. X \in T
    <2> HIDE DEF T
    <2>1. Hereditary(T, SourceFile)
      BY <1>2 DEF Hereditary
    <2>2. (SUBSET SourceFile) \subseteq T
      BY Zenon, <1>1, <2>1, AllSubsets
    <2> QED
      BY <2>2
  <1> QED
    BY <1>3

LEMMA AddedLastIs ==
    ASSUME NEW p \in Process, Sharing(p) # {}
    PROVE  AddedLast(p) \in Sharing(p)
  <1> DEFINE late == Sharing(p) \cap Fresh(p)
             last == IF late # {} THEN late ELSE Sharing(p)
  <1>1. last \in SUBSET SourceFile /\ last # {} /\ last \subseteq Sharing(p)
    BY DEF Sharing, Results
  <1>2. AddedLast(p) = CHOOSE f \in last : \A g \in last : Place[g] <= Place[f]
    BY DEF AddedLast
  <1> HIDE DEF last
  <1>3. \E f \in last : \A g \in last : Place[g] <= Place[f]
    BY <1>1, GreatestPlace, CacheAssumption DEF CacheAssumption
  <1> QED
    BY <1>1, <1>2, <1>3

LEMMA FromGraphType ==
    ASSUME CacheTypeOK, NEW p \in Process, NEW f \in SourceFile, result[p][f] # Nil
    PROVE  /\ FromGraph(p, f) \in Result
           /\ FromGraph(p, f).text = result[p][f].text
           /\ FromGraph(p, f).under = result[p][f].under
           /\ FromGraph(p, f).whole = (result[p][f].whole /\ result[p][f].text \notin Loose)
           /\ FromGraph(p, f).table =
                 IF HasTable(p, f) THEN result[p][AddedLast(p)].table ELSE Nil
  <1> DEFINE r == result[p][f]
             whole == r.whole /\ r.text \notin Loose
             table == IF HasTable(p, f) THEN result[p][AddedLast(p)].table ELSE Nil
  <1>1. r \in Result /\ \A g \in Results(p) : result[p][g] \in Result
    BY DEF CacheTypeOK, Results
  <1>2. table \in SourceFile \cup {Nil}
    <2>1. CASE HasTable(p, f)
      <3>1. Sharing(p) # {}
        <4>1. f # Nil
          BY CacheAssumption DEF CacheAssumption
        <4> QED
          BY <2>1, <4>1 DEF HasTable, Sharing
      <3>2. AddedLast(p) \in Results(p)
        BY <3>1, AddedLastIs DEF Sharing
      <3> QED
        BY <1>1, <2>1, <3>2 DEF Result
    <2>2. CASE ~HasTable(p, f)
      BY <2>2
    <2> QED
      BY <2>1, <2>2
  <1>3. whole \in BOOLEAN
    BY <1>1 DEF Result
  <1>4. FromGraph(p, f) = [r EXCEPT !.whole = whole, !.table = table]
    BY DEF FromGraph
  <1> HIDE DEF whole, table, r
  <1>5. /\ FromGraph(p, f) \in Result
        /\ FromGraph(p, f).text = r.text /\ FromGraph(p, f).under = r.under
        /\ FromGraph(p, f).whole = whole /\ FromGraph(p, f).table = table
    BY <1>1, <1>2, <1>3, <1>4 DEF Result
  <1> QED
    BY <1>5 DEF whole, table, r

(* A step that moves one process and leaves the rest of its state alone.   *)
LEMMA GotoTyped ==
    ASSUME Typed, NEW p \in Process, NEW there, Goto(p, there), pc[p] # "off",
           p \in Cli => pc[p] \notin {"scanned", "rescanned"},
           there \in {"off", "migrate", "create", "import", "stampVersion",
                      "stampConfig", "unlink", "open", "check", "bust", "setVersion", "setConfig",
                      "ready", "scanned", "watching", "rescanned"},
           disk' \in [SourceFile -> Text \cup {Nil}],
           json' \in Config \cup {Nil},
           created' \in BOOLEAN,
           version' \in BOOLEAN,
           config' \in Config \cup {Nil},
           entries' \in [SourceFile -> Row \cup {Nil}],
           past' \subseteq past,
           starts' = starts, edits' = edits
    PROVE  Typed'
  <1>1. CacheTypeOK'
    BY DEF Typed, CacheTypeOK, Goto
  <1>2. ASSUME NEW q \in Process PROVE Working(q)'
    BY <1>2 DEF Typed, CacheTypeOK, Working, Goto
  <1> QED
    BY <1>1, <1>2 DEF Typed

LEMMA TypedInit == ASSUME Init PROVE Typed
  <1> USE CacheAssumption
  <1>1. CacheTypeOK
    <2>1. /\ entries \in [SourceFile -> Row \cup {Nil}]
          /\ source \in [Process -> [SourceFile -> Text \cup {Nil}]]
          /\ result \in [Process -> [SourceFile -> Result \cup {Nil}]]
      BY EmptyType DEF Init
    <2>2. disk \in [SourceFile -> Text \cup {Nil}]
      BY DEF Init
    <2>3. /\ json \in Config \cup {Nil}
          /\ created \in BOOLEAN /\ version \in BOOLEAN
          /\ config \in Config \cup {Nil}
      <3>1. LegacyJson \subseteq Config \cup {Nil}
        BY DEF CacheAssumption
      <3> QED
        BY <3>1 DEF Init
    <2>5. starts \in 0..MaxStarts /\ edits \in 0..MaxEdits
      <3>1. MaxStarts \in Nat /\ MaxEdits \in Nat
        BY DEF CacheAssumption
      <3> QED
        BY <3>1 DEF Init
    <2>4. /\ conf \in [Process -> Config \cup {Nil}]
          /\ hits \in [Process -> SUBSET SourceFile]
          /\ todo \in [Process -> SUBSET SourceFile]
          /\ saving \in [Process -> SourceFile \cup {Nil}]
      BY DEF Init
    <2> QED
      BY <2>1, <2>2, <2>3, <2>4, <2>5 DEF Init, CacheTypeOK
  <1>2. ASSUME NEW p \in Process PROVE Working(p)
    BY DEF Init, Working, Empty
  <1> QED
    BY <1>1, <1>2 DEF Typed

LEMMA TypedNext == ASSUME Typed, [Next]_vars PROVE Typed'
  <1> USE CacheAssumption
  <1>0. CacheTypeOK
    BY DEF Typed
  <1>1. ASSUME NEW f \in SourceFile, Edit(f) PROVE Typed'
    BY <1>1 DEF Edit, dbVars, processVars, Typed, CacheTypeOK, Working
  <1>2. ASSUME NEW p \in Process, Start(p) PROVE Typed'
    <2>1. past' \subseteq {"mixed", "edited", "loose", "shared"}
      BY <1>0, <1>2 DEF Start, CacheTypeOK
    <2> QED
      BY <1>2, <2>1 DEF Start, fileVars, dbVars, Typed, CacheTypeOK, Working
  <1>3. ASSUME NEW p \in Process, Migrate(p) PROVE Typed'
    BY <1>0, <1>3, GotoTyped DEF Migrate, dbVars, CacheTypeOK
  <1>4. ASSUME NEW p \in Process, Import(p) PROVE Typed'
    <2>1. conf[p] \in Config
      BY <1>4 DEF Typed, Working, Import
    <2>2. entries' \in [SourceFile -> Row \cup {Nil}]
      <3>1. PICK old \in [SourceFile -> Text \cup {Nil}] :
               entries' = [f \in SourceFile |->
                              IF old[f] = Nil THEN entries[f]
                              ELSE [hash |-> old[f], payload |-> Parse(f, old[f], conf[p])]]
        BY <1>4 DEF Import
      <3>2. ASSUME NEW f \in SourceFile, old[f] # Nil
            PROVE  [hash |-> old[f], payload |-> Parse(f, old[f], conf[p])] \in Row
        BY <2>1, <3>2, ParseType, RowType
      <3> QED
        BY <1>0, <3>1, <3>2 DEF CacheTypeOK
    <2> QED
      BY <1>0, <1>4, <2>2, GotoTyped DEF Import, fileVars, CacheTypeOK
  <1>5. ASSUME NEW p \in Process,
               NEW here \in {"stampVersion", "setVersion"},
               NEW next \in {"stampConfig", "setConfig"}, WriteVersion(p, here, next)
        PROVE  Typed'
    BY <1>0, <1>5, GotoTyped DEF WriteVersion, fileVars, CacheTypeOK
  <1>6. ASSUME NEW p \in Process,
               NEW here \in {"stampConfig", "setConfig"},
               NEW next \in {"unlink", "ready"}, WriteConfig(p, here, next)
        PROVE  Typed'
    BY <1>0, <1>6, GotoTyped DEF WriteConfig, fileVars, CacheTypeOK
  <1>7. ASSUME NEW p \in Process, UnlinkJson(p) PROVE Typed'
    BY <1>0, <1>7, GotoTyped DEF UnlinkJson, dbVars, CacheTypeOK
  <1>8. ASSUME NEW p \in Process,
               NEW here \in {"create", "open"},
               NEW next \in {"import", "check"}, Create(p, here, next)
        PROVE  Typed'
    BY <1>0, <1>8, GotoTyped DEF Create, fileVars, CacheTypeOK
  <1>9. ASSUME NEW p \in Process, Check(p) PROVE Typed'
    BY <1>0, <1>9, GotoTyped DEF Check, fileVars, dbVars, CacheTypeOK
  <1>10. ASSUME NEW p \in Process, Bust(p) PROVE Typed'
    <2>1. past' \subseteq past
      BY <1>10 DEF Bust
    <2> QED
      BY <1>0, <1>10, <2>1, GotoTyped, EmptyType DEF Bust, fileVars, CacheTypeOK
  <1>11. ASSUME NEW p \in Process, Scan(p) PROVE Typed'
    <2> DEFINE there == {f \in SourceFile : disk[f] # Nil}
               found == {f \in there : Get(f, disk[f]) # Nil}
               new   == [f \in SourceFile |-> IF f \in found THEN Get(f, disk[f])
                                              ELSE IF f \in there THEN Parse(f, disk[f], conf[p])
                                              ELSE Nil]
    <2>1. conf[p] \in Config
      BY <1>11 DEF Typed, Working, Scan
    <2>2. ASSUME NEW f \in there PROVE Parse(f, disk[f], conf[p]) \in Result
      BY <1>0, <2>1, ParseType DEF CacheTypeOK
    <2>3. ASSUME NEW f \in SourceFile PROVE new[f] \in Result \cup {Nil}
      BY <1>0, <2>2, GetType
    <2>4. new \in [SourceFile -> Result \cup {Nil}]
      BY <2>3
    <2>5. /\ result' = [result EXCEPT ![p] = new]
          /\ hits' = [hits EXCEPT ![p] = found]
          /\ todo' = [todo EXCEPT ![p] = IF p \in Cli THEN there ELSE {}]
          /\ source' = [source EXCEPT ![p] = disk]
          /\ saving' = saving
      BY <1>11 DEF Scan
    <2>6. ASSUME NEW f \in there PROVE new[f] # Nil
      <3>1. CASE f \in found
        BY <3>1
      <3>2. CASE f \notin found
        BY <2>2, <3>2
      <3> QED
        BY <3>1, <3>2
    <2>7. CacheTypeOK'
      <3>1. /\ source' \in [Process -> [SourceFile -> Text \cup {Nil}]]
            /\ result' \in [Process -> [SourceFile -> Result \cup {Nil}]]
        BY <1>0, <2>4, <2>5 DEF CacheTypeOK
      <3>2. /\ hits' \in [Process -> SUBSET SourceFile]
            /\ todo' \in [Process -> SUBSET SourceFile]
        BY <1>0, <2>5 DEF CacheTypeOK
      <3>3. pc' \in [Process -> {"off", "migrate", "create", "import", "stampVersion",
                                 "stampConfig", "unlink", "open", "check", "bust",
                                 "setVersion", "setConfig", "ready", "scanned",
                                 "watching", "rescanned"}]
        BY <1>0, <1>11 DEF Scan, CacheTypeOK
      <3> QED
        BY <1>0, <1>11, <3>1, <3>2, <3>3 DEF Scan, fileVars, dbVars, CacheTypeOK
    <2>8. ASSUME NEW q \in Process PROVE Working(q)'
      <3>1. pc'[q] # "off" => conf'[q] \in Config
        BY <1>0, <1>11, <2>1 DEF Scan, Typed, Working, CacheTypeOK
      <3>2. CASE q = p
        <4>1. result'[q] = new /\ source'[q] = disk /\ saving'[q] = Nil
          <5>1. saving[p] = Nil
            BY <1>11 DEF Scan, Typed, Working
          <5> HIDE DEF new
          <5> QED
            BY <1>0, <2>5, <3>2, <5>1 DEF CacheTypeOK
        <4>2. ASSUME NEW f \in SourceFile, new[f] # Nil PROVE disk[f] # Nil
          BY <4>2
        <4>3. /\ todo'[q] \subseteq there /\ (q \notin Cli => todo'[q] = {})
              /\ pc'[q] \in {"scanned", "rescanned"}
          BY <1>0, <1>11, <2>5, <3>2 DEF Scan, CacheTypeOK
        <4> QED
          BY <2>6, <3>1, <4>1, <4>2, <4>3 DEF Working
      <3>3. CASE q # p
        <4>1. /\ result'[q] = result[q] /\ source'[q] = source[q] /\ todo'[q] = todo[q]
              /\ saving'[q] = saving[q] /\ pc'[q] = pc[q]
          BY <1>0, <1>11, <2>5, <3>3 DEF Scan, CacheTypeOK
        <4> QED
          BY <3>1, <4>1 DEF Typed, Working
      <3> QED
        BY <3>2, <3>3
    <2> QED
      BY <2>7, <2>8 DEF Typed
  <1>12. ASSUME NEW p \in Process, SaveParsed(p) PROVE Typed'
    <2>1. ASSUME NEW f \in Fresh(p)
          PROVE  [hash |-> source[p][f], payload |-> result[p][f]] \in Row
      <3>1. source[p][f] \in Text /\ result[p][f] \in Result
        BY <1>0 DEF Fresh, Typed, Working, CacheTypeOK
      <3> QED
        BY <3>1, RowType
    <2>2. entries' \in [SourceFile -> Row \cup {Nil}]
      BY <1>0, <1>12, <2>1 DEF SaveParsed, CacheTypeOK
    <2> QED
      BY <1>0, <1>12, <2>2, GotoTyped DEF SaveParsed, fileVars, CacheTypeOK
  <1>13. ASSUME NEW p \in Process, NEW f \in SourceFile, FindUncached(p, f) PROVE Typed'
    <2>1. /\ saving' \in [Process -> SourceFile \cup {Nil}]
          /\ \A q \in Process :
                \/ saving'[q] \in {saving[q], Nil}
                \/ q = p /\ saving'[q] = f
      <3>1. CASE saving' = saving
        BY <1>0, <3>1 DEF CacheTypeOK
      <3>2. CASE saving' = [saving EXCEPT ![p] = IF Get(f, disk[f]) = Nil THEN f ELSE Nil]
        BY <1>0, <3>2 DEF CacheTypeOK
      <3> QED
        BY <1>13, <3>1, <3>2 DEF FindUncached
    <2>2. /\ todo' \in [Process -> SUBSET SourceFile]
          /\ \A q \in Process : todo'[q] \subseteq todo[q]
      BY <1>0, <1>13 DEF FindUncached, CacheTypeOK
    <2>3. CacheTypeOK'
      BY <1>0, <1>13, <2>1, <2>2 DEF FindUncached, fileVars, dbVars, CacheTypeOK
    <2>4. ASSUME NEW q \in Process PROVE Working(q)'
      <3>1. result'[p][f] # Nil /\ p \in Cli /\ pc[p] \in {"scanned", "rescanned"}
        BY <1>13 DEF FindUncached, Typed, Working
      <3>2. UNCHANGED <<pc, conf, source, result>>
        BY <1>13 DEF FindUncached
      <3> QED
        BY <2>1, <2>2, <3>1, <3>2 DEF Typed, Working
    <2> QED
      BY <2>3, <2>4 DEF Typed
  <1>14. ASSUME NEW p \in Process, SaveFile(p) PROVE Typed'
    <2> DEFINE f == saving[p]
    <2>1. /\ f \in SourceFile /\ result[p][f] # Nil /\ disk[f] \in Text
          /\ entries' = [entries EXCEPT ![f] = [hash |-> disk[f], payload |-> FromGraph(p, f)]]
          /\ saving' = [saving EXCEPT ![p] = Nil]
          /\ UNCHANGED <<fileVars, created, version, config, pc, conf, source, result, hits, todo,
                         starts, edits>>
      BY <1>0, <1>14 DEF SaveFile, Typed, Working, CacheTypeOK
    <2>2. past' \subseteq {"mixed", "edited", "loose", "shared"}
      BY <1>0, <1>14 DEF SaveFile, CacheTypeOK
    <2> HIDE DEF f
    <2>3. [hash |-> disk[f], payload |-> FromGraph(p, f)] \in Row
      BY <1>0, <2>1, FromGraphType, RowType
    <2>4. entries' \in [SourceFile -> Row \cup {Nil}]
      BY <1>0, <2>1, <2>3 DEF CacheTypeOK
    <2>5. CacheTypeOK'
      BY <1>0, <2>1, <2>2, <2>4 DEF fileVars, CacheTypeOK
    <2>6. ASSUME NEW q \in Process PROVE Working(q)'
      BY <1>0, <2>1 DEF Typed, Working, CacheTypeOK
    <2> QED
      BY <2>5, <2>6 DEF Typed
  <1>15. ASSUME NEW p \in Process, NEW f \in SourceFile, HandleFileChange(p, f)
         PROVE  Typed'
    <2>1. CASE disk[f] = Nil
      BY <1>15, <2>1 DEF HandleFileChange, fileVars, processVars, Typed, CacheTypeOK, Working
    <2>2. CASE disk[f] # Nil
      <3>1. [hash |-> disk[f], payload |-> Parse(f, disk[f], conf[p])] \in Row
        <4>1. disk[f] \in Text /\ conf[p] \in Config
          BY <1>0, <1>15, <2>2 DEF HandleFileChange, Typed, Working, CacheTypeOK
        <4> QED
          BY <4>1, ParseType, RowType
      <3>2. entries' \in [SourceFile -> Row \cup {Nil}]
        BY <1>0, <1>15, <2>2, <3>1 DEF HandleFileChange, CacheTypeOK
      <3> QED
        BY <1>15, <3>2 DEF HandleFileChange, fileVars, processVars, Typed, CacheTypeOK, Working
    <2> QED
      BY <2>1, <2>2
  <1>16. ASSUME NEW p \in Process, End(p) PROVE Typed'
    <2>1. CacheTypeOK'
      <3>1. /\ source' \in [Process -> [SourceFile -> Text \cup {Nil}]]
            /\ result' \in [Process -> [SourceFile -> Result \cup {Nil}]]
        BY <1>0, <1>16, EmptyType DEF End, CacheTypeOK
      <3> QED
        BY <1>16, <3>1 DEF End, fileVars, dbVars, Typed, CacheTypeOK
    <2>2. ASSUME NEW q \in Process PROVE Working(q)'
      <3>1. Working(q)
        BY DEF Typed
      <3>2. CASE q = p
        BY <1>0, <1>16, <3>2 DEF End, CacheTypeOK, Working, Empty
      <3>3. CASE q # p
        BY <1>0, <1>16, <3>1, <3>3 DEF End, CacheTypeOK, Working
      <3> QED
        BY <3>2, <3>3
    <2> QED
      BY <2>1, <2>2 DEF Typed
  <1>17. CASE UNCHANGED vars
    BY <1>17 DEF vars, fileVars, dbVars, processVars, Typed, CacheTypeOK, Working
  <1> QED
    BY <1>1, <1>2, <1>3, <1>4, <1>5, <1>6, <1>7, <1>8, <1>9, <1>10, <1>11, <1>12,
       <1>13, <1>14, <1>15, <1>16, <1>17 DEF Next

(* Every step of every process keeps the types.                            *)
THEOREM CacheTypeCorrect == Spec => []CacheTypeOK
  <1>1. Typed => CacheTypeOK
    BY DEF Typed
  <1> QED
    BY <1>1, TypedInit, TypedNext, PTL DEF Spec
---------------------------------------------------------------------------
(* How far each process has come.                                          *)

(* What the step of one process to the next place does.                    *)
LEMMA Moves ==
    ASSUME CacheTypeOK, NEW p \in Process, NEW there, Goto(p, there)
    PROVE  /\ UNCHANGED <<conf, source, result, hits, todo, saving>>
           /\ pc'[p] = there
           /\ \A q \in Process \ {p} : pc'[q] = pc[q]
  BY DEF CacheTypeOK, Goto

LEMMA GotoStaged ==
    ASSUME CacheTypeOK, Staged, NEW p \in Process, NEW there, Goto(p, there),
           created => created', version => version', Begun', Stage(p)'
    PROVE  Staged'
  <1>1. ASSUME NEW q \in Process, q # p PROVE Stage(q)'
    <2>1. Stage(q) /\ pc'[q] = pc[q] /\ result' = result
      BY <1>1, Moves DEF Staged
    <2> QED
      BY <2>1 DEF Stage
  <1> QED
    BY <1>1 DEF Staged

(* A step in which no process moves.                                       *)
LEMMA StillStaged ==
    ASSUME Staged, pc' = pc, result' = result, created' = created, version' = version, Begun'
    PROVE  Staged'
  <1>1. ASSUME NEW q \in Process PROVE Stage(q)'
    BY DEF Staged, Stage
  <1> QED
    BY <1>1 DEF Staged

LEMMA StagedNext == ASSUME Typed, Staged, [Next]_vars PROVE Staged'
  <1>0. CacheTypeOK /\ Begun
    BY DEF Typed, Staged
  <1>1. ASSUME NEW f \in SourceFile, Edit(f) PROVE Staged'
    <2>1. UNCHANGED <<dbVars, processVars>>
      BY <1>1 DEF Edit
    <2> QED
      BY <1>0, <2>1, StillStaged DEF dbVars, processVars, Begun
  <1>2. ASSUME NEW p \in Process, Start(p) PROVE Staged'
    <2>1. /\ pc[p] = "off" /\ pc'[p] = "migrate" /\ result' = result
          /\ \A q \in Process \ {p} : pc'[q] = pc[q]
          /\ UNCHANGED dbVars
      BY <1>0, <1>2 DEF Start, CacheTypeOK
    <2>2. ASSUME NEW q \in Process PROVE Stage(q)'
      <3>1. Stage(q) /\ UNCHANGED <<created, version>>
        BY <2>1 DEF Staged, dbVars
      <3>2. CASE q = p
        BY <2>1, <3>1, <3>2 DEF Stage, Opened
      <3>3. CASE q # p
        BY <2>1, <3>1, <3>3 DEF Stage
      <3> QED
        BY <3>2, <3>3
    <2> QED
      BY <1>0, <2>1, <2>2 DEF dbVars, Staged, Begun
  <1>3. ASSUME NEW p \in Process, Migrate(p) PROVE Staged'
    <2>1. PICK there \in {"create", "open"} : Goto(p, there)
      BY <1>3 DEF Migrate
    <2>2. pc[p] = "migrate" /\ UNCHANGED dbVars
      BY <1>3 DEF Migrate
    <2>3. Stage(p)'
      <3>1. result'[p] = Empty /\ pc'[p] = there
        BY <1>0, <2>1, <2>2, Moves DEF Staged, Stage
      <3> QED
        BY <3>1 DEF Stage, Opened
    <2> QED
      BY <1>0, <2>1, <2>2, <2>3, GotoStaged DEF dbVars, Begun
  <1>4. ASSUME NEW p \in Process,
               NEW here \in {"create", "open"},
               NEW next \in {"import", "check"}, Create(p, here, next)
        PROVE  Staged'
    <2>1. /\ pc[p] = here /\ Goto(p, next)
          /\ created' /\ version' = version /\ config' = config
      BY <1>4 DEF Create
    <2>2. Stage(p)'
      <3>1. result'[p] = Empty /\ pc'[p] = next
        BY <1>0, <1>4, <2>1, Moves DEF Staged, Stage
      <3> QED
        BY <2>1, <3>1 DEF Stage, Opened
    <2> QED
      BY <1>0, <2>1, <2>2, GotoStaged DEF Begun
  <1>5. ASSUME NEW p \in Process, Import(p) PROVE Staged'
    <2>1. /\ pc[p] = "import" /\ Goto(p, "stampVersion")
          /\ created' = created /\ version' = version /\ config' = config
      BY <1>5 DEF Import
    <2>2. created /\ Stage(p)'
      <3>1. created /\ result'[p] = Empty /\ pc'[p] = "stampVersion"
        BY <1>0, <2>1, Moves DEF Staged, Stage
      <3> QED
        BY <2>1, <3>1 DEF Stage, Opened
    <2> QED
      BY <1>0, <2>1, <2>2, GotoStaged DEF Begun
  <1>6. ASSUME NEW p \in Process,
               NEW here \in {"stampVersion", "setVersion"},
               NEW next \in {"stampConfig", "setConfig"}, WriteVersion(p, here, next)
        PROVE  Staged'
    <2>1. /\ pc[p] = here /\ Goto(p, next)
          /\ created' = created /\ version' /\ config' = config /\ entries' = entries
      BY <1>6 DEF WriteVersion
    <2>2. created /\ Stage(p)'
      <3>1. created /\ result'[p] = Empty /\ pc'[p] = next
        BY <1>0, <1>6, <2>1, Moves DEF Staged, Stage
      <3> QED
        BY <2>1, <3>1 DEF Stage, Opened
    <2> QED
      BY <1>0, <2>1, <2>2, GotoStaged DEF Begun
  <1>7. ASSUME NEW p \in Process,
               NEW here \in {"stampConfig", "setConfig"},
               NEW next \in {"unlink", "ready"}, WriteConfig(p, here, next)
        PROVE  Staged'
    <2>1. /\ pc[p] = here /\ Goto(p, next)
          /\ created' = created /\ version' = version /\ entries' = entries
      BY <1>7 DEF WriteConfig
    <2>2. created /\ version /\ Stage(p)'
      <3>1. created /\ version /\ result'[p] = Empty /\ pc'[p] = next
        BY <1>0, <1>7, <2>1, Moves DEF Staged, Stage
      <3> QED
        BY <2>1, <3>1 DEF Stage, Opened
    <2> QED
      BY <1>0, <2>1, <2>2, GotoStaged DEF Begun
  <1>8. ASSUME NEW p \in Process, UnlinkJson(p) PROVE Staged'
    <2>1. pc[p] = "unlink" /\ Goto(p, "open") /\ UNCHANGED dbVars
      BY <1>8 DEF UnlinkJson
    <2>2. Stage(p)'
      <3>1. result'[p] = Empty /\ pc'[p] = "open"
        BY <1>0, <2>1, Moves DEF Staged, Stage
      <3> QED
        BY <3>1 DEF Stage, Opened
    <2> QED
      BY <1>0, <2>1, <2>2, GotoStaged DEF dbVars, Begun
  <1>9. ASSUME NEW p \in Process, Check(p) PROVE Staged'
    <2>1. /\ pc[p] = "check" /\ UNCHANGED dbVars
          /\ Goto(p, "bust") \/ (Goto(p, "ready") /\ version)
      BY <1>9 DEF Check, Stale
    <2>2. PICK there \in {"bust", "ready"} : Goto(p, there) /\ (there = "ready" => version)
      BY <2>1
    <2>3. Stage(p)'
      <3>1. created /\ result'[p] = Empty /\ pc'[p] = there
        BY <1>0, <2>1, <2>2, Moves DEF Staged, Stage
      <3> QED
        BY <2>1, <2>2, <3>1 DEF Stage, Opened, dbVars
    <2> QED
      BY <1>0, <2>1, <2>2, <2>3, GotoStaged DEF dbVars, Begun
  <1>10. ASSUME NEW p \in Process, Bust(p) PROVE Staged'
    <2>1. /\ pc[p] = "bust" /\ Goto(p, "setVersion") /\ entries' = Empty
          /\ created' = created /\ version' = version /\ config' = config
      BY <1>10 DEF Bust
    <2>2. Stage(p)'
      <3>1. created /\ result'[p] = Empty /\ pc'[p] = "setVersion"
        BY <1>0, <2>1, Moves DEF Staged, Stage
      <3> QED
        BY <2>1, <3>1 DEF Stage, Opened
    <2> QED
      BY <1>0, <2>1, <2>2, GotoStaged DEF Begun
  <1>11. ASSUME NEW p \in Process, Scan(p) PROVE Staged'
    <2>1. /\ pc[p] \in {"ready", "watching"} /\ UNCHANGED dbVars
          /\ pc'[p] \in {"scanned", "rescanned"}
          /\ \A q \in Process \ {p} : pc'[q] = pc[q] /\ result'[q] = result[q]
      BY <1>0, <1>11 DEF Scan, CacheTypeOK
    <2>2. ASSUME NEW q \in Process PROVE Stage(q)'
      <3>1. Stage(q) /\ UNCHANGED <<created, version>>
        BY <2>1 DEF Staged, dbVars
      <3>2. CASE q = p
        BY <2>1, <3>1, <3>2 DEF Stage, Opened
      <3>3. CASE q # p
        BY <2>1, <3>1, <3>3 DEF Stage
      <3> QED
        BY <3>2, <3>3
    <2> QED
      BY <1>0, <2>1, <2>2 DEF dbVars, Staged, Begun
  <1>12. ASSUME NEW p \in Process, SaveParsed(p) PROVE Staged'
    <2>1. /\ pc[p] \in {"scanned", "rescanned"} /\ Goto(p, "watching")
          /\ created' = created /\ version' = version /\ config' = config
      BY <1>12 DEF SaveParsed
    <2>2. created /\ Stage(p)'
      <3>1. created /\ version /\ pc'[p] = "watching"
        BY <1>0, <2>1, Moves DEF Staged, Stage, Opened
      <3> QED
        BY <2>1, <3>1 DEF Stage, Opened
    <2> QED
      BY <1>0, <2>1, <2>2, GotoStaged DEF Begun
  <1>13. ASSUME NEW p \in Process, NEW f \in SourceFile, FindUncached(p, f) PROVE Staged'
    <2>1. UNCHANGED <<dbVars, pc, result>>
      BY <1>13 DEF FindUncached
    <2> QED
      BY <1>0, <2>1, StillStaged DEF dbVars, Begun
  <1>14. ASSUME NEW p \in Process,
                SaveFile(p) \/ \E f \in SourceFile : HandleFileChange(p, f)
         PROVE  Staged'
    <2>1. UNCHANGED <<created, version, config, pc, result>>
      BY <1>14 DEF SaveFile, HandleFileChange, processVars
    <2>2. pc[p] \in {"scanned", "rescanned", "watching"}
      BY <1>14 DEF SaveFile, HandleFileChange, Typed, Working
    <2>3. created
      BY <2>2 DEF Staged, Stage
    <2> QED
      BY <1>0, <2>1, <2>3, StillStaged DEF Begun
  <1>15. ASSUME NEW p \in Process, End(p) PROVE Staged'
    <2>1. /\ UNCHANGED dbVars
          /\ pc'[p] = "off" /\ result'[p] = Empty
          /\ \A q \in Process \ {p} : pc'[q] = pc[q] /\ result'[q] = result[q]
      BY <1>0, <1>15 DEF End, CacheTypeOK
    <2>2. ASSUME NEW q \in Process PROVE Stage(q)'
      <3>1. Stage(q) /\ UNCHANGED <<created, version>>
        BY <2>1 DEF Staged, dbVars
      <3>2. CASE q = p
        BY <2>1, <3>2 DEF Stage, Opened
      <3>3. CASE q # p
        BY <2>1, <3>1, <3>3 DEF Stage
      <3> QED
        BY <3>2, <3>3
    <2> QED
      BY <1>0, <2>1, <2>2 DEF dbVars, Staged, Begun
  <1>16. CASE UNCHANGED vars
    BY <1>0, <1>16, StillStaged DEF vars, dbVars, processVars, Begun
  <1> QED
    BY <1>1, <1>2, <1>3, <1>4, <1>5, <1>6, <1>7, <1>8, <1>9, <1>10, <1>11, <1>12,
       <1>13, <1>14, <1>15, <1>16 DEF Next
---------------------------------------------------------------------------
(* What rows and results are worth.                                        *)

LEMMA ParseHonest ==
    ASSUME NEW f \in SourceFile, NEW t, NEW c, NEW ever
    PROVE  Honest(f, t, Parse(f, t, c), ever)
  BY DEF Honest, Parse

LEMMA SameResults ==
    ASSUME ResultsHonest, UNCHANGED <<source, result>>, past \subseteq past'
    PROVE  ResultsHonest'
  BY DEF ResultsHonest, Honest

LEMMA SameRows ==
    ASSUME RowsHonest, entries' = entries, past \subseteq past'
    PROVE  RowsHonest'
  BY DEF RowsHonest, Honest

LEMMA GetHonest ==
    ASSUME RowsHonest, NEW f \in SourceFile, NEW t, Get(f, t) # Nil
    PROVE  Honest(f, t, Get(f, t), past)
  BY DEF RowsHonest, Get

(* What the command line saves of a file.                                  *)
LEMMA SavedHonest ==
    ASSUME Typed, ResultsHonest, NEW p \in Process, SaveFile(p)
    PROVE  Honest(saving[p], disk[saving[p]], FromGraph(p, saving[p]), past')
  <1> DEFINE f == saving[p]
             r == result[p][f]
             saved == FromGraph(p, f)
  <1>0. CacheTypeOK /\ f \in SourceFile /\ r # Nil /\ r \in Result
    BY DEF SaveFile, Typed, Working, CacheTypeOK
  <1>1. /\ past \subseteq past'
        /\ disk[f] # source[p][f] => "edited" \in past'
        /\ r.text \in Loose => "loose" \in past'
        /\ (\E g, k \in Results(p) :
              g # k /\ {result[p][g].text, result[p][k].text} \subseteq Shared)
                 => "shared" \in past'
    BY DEF SaveFile
  <1>2. /\ saved.text = r.text /\ saved.under = r.under
        /\ saved.whole = (r.whole /\ r.text \notin Loose)
        /\ saved.table = IF HasTable(p, f) THEN result[p][AddedLast(p)].table ELSE Nil
    BY <1>0, FromGraphType
  <1>3. Honest(f, source[p][f], r, past)
    BY <1>0 DEF ResultsHonest
  <1> HIDE DEF saved
  <1>4. saved.text = disk[f] \/ "edited" \in past'
    BY <1>1, <1>2, <1>3 DEF Honest
  <1>5. saved.whole \/ "loose" \in past'
    BY <1>1, <1>2, <1>3 DEF Honest
  <1>6. ASSUME "shared" \notin past'
        PROVE  saved.table = IF r.text \in Shared THEN f ELSE Nil
    <2>1. \A g \in Results(p) :
             /\ g \in SourceFile /\ g # Nil
             /\ result[p][g].table = IF result[p][g].text \in Shared THEN g ELSE Nil
      <3>1. "shared" \notin past /\ Nil \notin SourceFile
        BY <1>1, <1>6, CacheAssumption DEF CacheAssumption
      <3> QED
        BY <3>1 DEF ResultsHonest, Results, Honest, Parse
    <2>2. f \in Results(p)
      BY <1>0 DEF Results
    <2>3. \A g, k \in Sharing(p) : g = k
      BY <1>1, <1>6, <2>1 DEF Sharing
    <2>4. CASE r.text \in Shared
      <3>1. f \in Sharing(p) /\ HasTable(p, f)
        BY <2>1, <2>2, <2>4 DEF Sharing, HasTable
      <3>2. AddedLast(p) = f
        BY <2>3, <3>1, AddedLastIs
      <3> QED
        BY <1>2, <2>1, <2>2, <2>4, <3>1, <3>2
    <2>5. CASE r.text \notin Shared
      <3>1. ~HasTable(p, f)
        BY <2>1, <2>2, <2>5 DEF HasTable
      <3> QED
        BY <1>2, <2>5, <3>1
    <2> QED
      BY <2>4, <2>5
  <1>7. saved.table = Parse(f, saved.text, saved.under).table \/ "shared" \in past'
    BY <1>2, <1>6 DEF Parse
  <1>8. Honest(f, disk[f], saved, past')
    BY <1>4, <1>5, <1>7 DEF Honest
  <1> QED
    BY <1>8 DEF saved

LEMMA HonestNext ==
    ASSUME Typed, Staged, Honesty, [Next]_vars
    PROVE  Honesty'
  <1>0. CacheTypeOK /\ RowsHonest /\ ResultsHonest
    BY DEF Typed, Honesty
  <1>1. CASE UNCHANGED <<entries, source, result>> /\ past \subseteq past'
    BY <1>0, <1>1, SameRows, SameResults DEF Honesty
  <1>2. ASSUME NEW p \in Process, Import(p) PROVE Honesty'
    <2>1. UNCHANGED <<source, result, past>>
      BY <1>2 DEF Import, Goto
    <2>2. PICK old \in [SourceFile -> Text \cup {Nil}] :
             entries' = [f \in SourceFile |->
                            IF old[f] = Nil THEN entries[f]
                            ELSE [hash |-> old[f], payload |-> Parse(f, old[f], conf[p])]]
      BY <1>2 DEF Import
    <2>3. ASSUME NEW f \in SourceFile, entries'[f] # Nil
          PROVE  Honest(f, entries'[f].hash, entries'[f].payload, past)
      <3>1. CASE old[f] = Nil
        BY <1>0, <2>2, <2>3, <3>1 DEF RowsHonest
      <3>2. CASE old[f] # Nil
        BY <2>2, <3>2, ParseHonest
      <3> QED
        BY <3>1, <3>2
    <2> QED
      BY <1>0, <2>1, <2>3, SameResults DEF Honesty, RowsHonest
  <1>3. ASSUME NEW p \in Process, Bust(p) PROVE Honesty'
    <2>1. /\ UNCHANGED <<source, result>> /\ entries' = Empty /\ pc[p] = "bust"
          /\ past' = IF \A q \in Process \ {p} : pc[q] = "off" THEN {} ELSE past
      BY <1>3 DEF Bust, Goto
    <2>2. RowsHonest'
      BY <2>1 DEF RowsHonest, Empty
    <2>3. CASE past' = past
      BY <1>0, <2>1, <2>2, <2>3, SameResults DEF Honesty
    <2>4. CASE \A q \in Process \ {p} : pc[q] = "off"
      <3>1. \A q \in Process : result[q] = Empty
        BY <2>1, <2>4 DEF Staged, Stage
      <3> QED
        BY <2>1, <2>2, <3>1 DEF Honesty, ResultsHonest, Empty
    <2> QED
      BY <2>1, <2>3, <2>4
  <1>4. ASSUME NEW p \in Process, Scan(p) PROVE Honesty'
    <2>1. /\ UNCHANGED <<entries, past>> /\ source'[p] = disk
          /\ \A q \in Process \ {p} : result'[q] = result[q] /\ source'[q] = source[q]
      BY <1>0, <1>4 DEF Scan, dbVars, CacheTypeOK
    <2>2. ASSUME NEW f \in SourceFile, result'[p][f] # Nil
          PROVE  Honest(f, disk[f], result'[p][f], past)
      <3>1. \/ Get(f, disk[f]) # Nil /\ result'[p][f] = Get(f, disk[f])
            \/ result'[p][f] = Parse(f, disk[f], conf[p])
        BY <1>0, <1>4, <2>2 DEF Scan, CacheTypeOK
      <3> QED
        BY <1>0, <3>1, GetHonest, ParseHonest
    <2>3. ASSUME NEW q \in Process, NEW f \in SourceFile, result'[q][f] # Nil
          PROVE  Honest(f, source'[q][f], result'[q][f], past')
      <3>1. CASE q = p
        BY <2>1, <2>2, <2>3, <3>1
      <3>2. CASE q # p
        BY <1>0, <2>1, <2>3, <3>2 DEF ResultsHonest
      <3> QED
        BY <3>1, <3>2
    <2> QED
      BY <1>0, <2>1, <2>3, SameRows DEF Honesty, ResultsHonest
  <1>5. ASSUME NEW p \in Process, SaveParsed(p) PROVE Honesty'
    <2>1. UNCHANGED <<source, result, past>>
      BY <1>5 DEF SaveParsed, Goto
    <2>2. ASSUME NEW f \in SourceFile, entries'[f] # Nil
          PROVE  Honest(f, entries'[f].hash, entries'[f].payload, past)
      <3>1. CASE f \in Fresh(p)
        <4>1. /\ entries'[f] = [hash |-> source[p][f], payload |-> result[p][f]]
              /\ result[p][f] # Nil
          BY <1>5, <3>1 DEF SaveParsed, Fresh
        <4> QED
          BY <1>0, <4>1 DEF ResultsHonest
      <3>2. CASE f \notin Fresh(p)
        BY <1>0, <1>5, <2>2, <3>2 DEF SaveParsed, RowsHonest
      <3> QED
        BY <3>1, <3>2
    <2> QED
      BY <1>0, <2>1, <2>2, SameResults DEF Honesty, RowsHonest
  <1>6. ASSUME NEW p \in Process, SaveFile(p) PROVE Honesty'
    <2> DEFINE g == saving[p]
               row == [hash |-> disk[g], payload |-> FromGraph(p, g)]
    <2>1. /\ UNCHANGED <<source, result>> /\ past \subseteq past'
          /\ entries' = [entries EXCEPT ![g] = row]
      BY <1>6 DEF SaveFile
    <2>2. Honest(g, row.hash, row.payload, past')
      BY <1>0, <1>6, SavedHonest
    <2> HIDE DEF g, row
    <2>3. ASSUME NEW f \in SourceFile, entries'[f] # Nil
          PROVE  Honest(f, entries'[f].hash, entries'[f].payload, past')
      <3>1. CASE f = g
        BY <1>0, <2>1, <2>2, <3>1 DEF CacheTypeOK
      <3>2. CASE f # g
        <4>1. entries'[f] = entries[f]
          BY <1>0, <2>1, <3>2 DEF CacheTypeOK
        <4> QED
          BY <1>0, <2>1, <2>3, <4>1 DEF RowsHonest, Honest
      <3> QED
        BY <3>1, <3>2
    <2> QED
      BY <1>0, <2>1, <2>3, SameResults DEF Honesty, RowsHonest
  <1>7. ASSUME NEW p \in Process, NEW g \in SourceFile, HandleFileChange(p, g)
        PROVE  Honesty'
    <2>1. UNCHANGED <<source, result, past>>
      BY <1>7 DEF HandleFileChange, processVars
    <2>2. ASSUME NEW f \in SourceFile, entries'[f] # Nil
          PROVE  Honest(f, entries'[f].hash, entries'[f].payload, past)
      <3>1. CASE entries'[f] = entries[f]
        BY <1>0, <2>2, <3>1 DEF RowsHonest
      <3>2. CASE entries'[f] = [hash |-> disk[f], payload |-> Parse(f, disk[f], conf[p])]
        BY <3>2, ParseHonest
      <3> QED
        BY <1>0, <1>7, <2>2, <3>1, <3>2 DEF HandleFileChange, CacheTypeOK
    <2> QED
      BY <1>0, <2>1, <2>2, SameResults DEF Honesty, RowsHonest
  <1>8. ASSUME NEW p \in Process, End(p) PROVE Honesty'
    <2>1. /\ UNCHANGED <<entries, past>> /\ result'[p] = Empty
          /\ \A q \in Process \ {p} : result'[q] = result[q] /\ source'[q] = source[q]
      BY <1>0, <1>8 DEF End, dbVars, CacheTypeOK
    <2>2. ASSUME NEW q \in Process, NEW f \in SourceFile, result'[q][f] # Nil
          PROVE  Honest(f, source'[q][f], result'[q][f], past')
      <3>1. q # p
        BY <2>1, <2>2 DEF Empty
      <3> QED
        BY <1>0, <2>1, <2>2, <3>1 DEF ResultsHonest
    <2> QED
      BY <1>0, <2>1, <2>2, SameRows DEF Honesty, ResultsHonest
  <1>9. ASSUME NEW f \in SourceFile, Edit(f) PROVE Honesty'
    BY <1>1, <1>9 DEF Edit, dbVars, processVars
  <1>10. ASSUME NEW p \in Process, Start(p) PROVE Honesty'
    BY <1>1, <1>10 DEF Start, dbVars
  <1>11. ASSUME NEW p \in Process,
                Migrate(p) \/ Check(p) \/ UnlinkJson(p)
         PROVE  Honesty'
    BY <1>1, <1>11 DEF Migrate, Check, UnlinkJson, Goto, dbVars
  <1>12. ASSUME NEW p \in Process, NEW here, NEW next,
                Create(p, here, next) \/ WriteVersion(p, here, next) \/ WriteConfig(p, here, next)
         PROVE  Honesty'
    BY <1>1, <1>12 DEF Create, WriteVersion, WriteConfig, Goto
  <1>13. ASSUME NEW p \in Process, NEW f \in SourceFile, FindUncached(p, f) PROVE Honesty'
    BY <1>1, <1>13 DEF FindUncached, dbVars
  <1>14. CASE UNCHANGED vars
    BY <1>1, <1>14 DEF vars, dbVars, processVars
  <1> QED
    BY <1>2, <1>3, <1>4, <1>5, <1>6, <1>7, <1>8, <1>9, <1>10, <1>11, <1>12, <1>13, <1>14
       DEF Next
---------------------------------------------------------------------------
(* Configurations.                                                         *)

(* A step that moves p within the run, and adds to the database only what  *)
(* is of p's configuration, does not disturb the others.                   *)
LEMMA GotoStamps ==
    ASSUME CacheTypeOK, Stamps, NEW p \in Process, NEW there, Goto(p, there),
           pc[p] # "off", there # "off",
           config' \in {config, conf[p]},
           RowsUnder(conf[p]) => RowsUnder(conf[p])',
           config' # Nil => RowsUnder(config)',
           Opening(p)'
    PROVE  Stamps'
  <1>1. /\ conf' = conf /\ result' = result /\ pc'[p] = there
        /\ \A q \in Process \ {p} : pc'[q] = pc[q]
    BY Moves
  <1>2. Agreement'
    BY <1>1 DEF Stamps, Agreement
  <1>3. ASSUME NEW q \in Process \ {p} PROVE Opening(q)'
    <2>1. Opening(q) /\ pc'[q] = pc[q]
      BY <1>1 DEF Stamps
    <2>2. CASE pc[q] = "off"
      BY <1>1, <2>1, <2>2 DEF Opening, Opened
    <2>3. CASE pc[q] # "off"
      <3>1. conf[q] = conf[p]
        BY <2>3 DEF Stamps, Agreement
      <3>2. RowsUnder(conf[q]) => RowsUnder(conf[q])'
        BY <1>1, <3>1 DEF RowsUnder
      <3> QED
        BY <1>1, <2>1, <2>3, <3>1, <3>2 DEF Opening
    <2> QED
      BY <2>2, <2>3
  <1> QED
    BY <1>2, <1>3 DEF Stamps

(* A step that leaves the database alone.                                  *)
LEMMA GotoOnly ==
    ASSUME CacheTypeOK, Stamps, NEW p \in Process, NEW there, Goto(p, there),
           pc[p] # "off", there # "off", config' = config, entries' = entries, Opening(p)'
    PROVE  Stamps'
  <1>1. conf' = conf
    BY DEF Goto
  <1>2. /\ RowsUnder(conf[p]) => RowsUnder(conf[p])'
        /\ config' # Nil => RowsUnder(config)'
    BY <1>1 DEF Stamps, RowsUnder
  <1> QED
    BY <1>2, GotoStamps

(* Once it is open, the database is the process's own.                     *)
LEMMA OpenedRows ==
    ASSUME Typed, Stamps, NEW p \in Process, pc[p] \in Opened
    PROVE  conf[p] \in Config /\ config = conf[p] /\ config # Nil /\ RowsUnder(conf[p])
  <1>1. conf[p] \in Config /\ config = conf[p]
    BY DEF Stamps, Opening, Opened, Typed, Working
  <1>2. Nil \notin Config
    BY CacheAssumption DEF CacheAssumption
  <1> QED
    BY <1>1, <1>2 DEF Stamps

(* What a process that does not move writes once it is open.               *)
LEMMA WriteStamps ==
    ASSUME Typed, Stamps, NEW p \in Process, pc[p] \in Opened,
           UNCHANGED <<pc, conf, result, config>>,
           \A f \in SourceFile : entries'[f] # Nil =>
               entries'[f] = entries[f] \/ entries'[f].payload.under = conf[p]
    PROVE  Stamps'
  <1>1. conf[p] \in Config /\ config = conf[p] /\ RowsUnder(conf[p])
    BY OpenedRows
  <1>2. RowsUnder(conf[p])' /\ RowsUnder(config)'
    BY <1>1 DEF RowsUnder
  <1>3. Agreement'
    BY DEF Stamps, Agreement
  <1>4. ASSUME NEW q \in Process PROVE Opening(q)'
    <2>1. CASE pc[q] = "off"
      BY <2>1 DEF Stamps, Opening, Opened
    <2>2. CASE pc[q] # "off"
      <3>1. conf[q] = conf[p]
        BY <2>2 DEF Stamps, Agreement, Opened
      <3>2. RowsUnder(conf[q])'
        BY <1>2, <3>1 DEF RowsUnder
      <3> QED
        BY <3>2 DEF Stamps, Opening
    <2> QED
      BY <2>1, <2>2
  <1> QED
    BY <1>2, <1>3, <1>4 DEF Stamps

(* Nothing that counts moves.                                              *)
LEMMA SameStamps ==
    ASSUME Stamps, UNCHANGED <<pc, conf, result, config, entries>>
    PROVE  Stamps'
  <1>1. Agreement' /\ (config' # Nil => RowsUnder(config)')
    BY DEF Stamps, Agreement, RowsUnder
  <1>2. ASSUME NEW p \in Process PROVE Opening(p)'
    BY DEF Stamps, Opening, RowsUnder
  <1> QED
    BY <1>1, <1>2 DEF Stamps

(* A process on its own empties the rows, and it begins anew.              *)
LEMMA BustAlone ==
    ASSUME CacheTypeOK, Staged, NEW p \in Process, Bust(p),
           \A q \in Process \ {p} : pc[q] = "off"
    PROVE  Stamps'
  <1>1. /\ pc[p] = "bust" /\ pc'[p] = "setVersion" /\ entries' = Empty
        /\ UNCHANGED <<conf, result>>
        /\ \A q \in Process \ {p} : pc'[q] = "off"
    BY Moves DEF Bust
  <1>2. \A q \in Process : result[q] = Empty
    BY <1>1 DEF Staged, Stage
  <1>3. Agreement'
    BY <1>1 DEF Agreement
  <1>4. RowsUnder(config)'
    BY <1>1 DEF RowsUnder, Empty
  <1>5. ASSUME NEW q \in Process PROVE Opening(q)'
    BY <1>1, <1>2 DEF Opening, Opened, RowsUnder, Empty
  <1> QED
    BY <1>3, <1>4, <1>5 DEF Stamps

LEMMA StampsNext ==
    ASSUME Typed, Staged, Stamps, [Next]_vars, "mixed" \notin past'
    PROVE  Stamps'
  <1>0. CacheTypeOK
    BY DEF Typed
  <1>1. ASSUME NEW f \in SourceFile, Edit(f) PROVE Stamps'
    BY <1>1, SameStamps DEF Edit, dbVars, processVars
  <1>2. ASSUME NEW p \in Process, Start(p) PROVE Stamps'
    <2>1. UNCHANGED <<dbVars, result>>
      BY <1>2 DEF Start
    <2>2. PICK c \in Config :
             /\ \A q \in Process : pc[q] # "off" => conf[q] = c
             /\ conf' = [conf EXCEPT ![p] = c]
      BY <1>2 DEF Start
    <2>3. /\ pc[p] = "off" /\ pc'[p] = "migrate" /\ conf'[p] = c
          /\ \A q \in Process \ {p} : pc'[q] = pc[q] /\ conf'[q] = conf[q]
      BY <1>0, <1>2, <2>2 DEF Start, CacheTypeOK
    <2>4. Agreement'
      BY <2>2, <2>3 DEF Agreement
    <2>5. config' # Nil => RowsUnder(config)'
      BY <2>1 DEF dbVars, Stamps, RowsUnder
    <2>6. ASSUME NEW q \in Process PROVE Opening(q)'
      <3>1. CASE q = p
        <4>1. result'[q] = Empty
          BY <2>1, <2>3, <3>1 DEF Staged, Stage
        <4> QED
          BY <2>3, <3>1, <4>1 DEF Opening, Opened, Empty
      <3>2. CASE q # p
        BY <2>1, <2>3, <3>2 DEF dbVars, Stamps, Opening, RowsUnder
      <3> QED
        BY <3>1, <3>2
    <2> QED
      BY <2>4, <2>5, <2>6 DEF Stamps
  <1>3. ASSUME NEW p \in Process, Migrate(p) PROVE Stamps'
    <2>1. /\ UNCHANGED dbVars /\ pc[p] = "migrate"
          /\ (~created /\ Goto(p, "create")) \/ Goto(p, "open")
      BY <1>3 DEF Migrate
    <2>2. conf' = conf /\ result'[p] = Empty
      BY <2>1 DEF Goto, Staged, Stage
    <2>3. CASE ~created /\ Goto(p, "create")
      <3>1. config' = Nil /\ entries' = Empty
        BY <2>1, <2>3 DEF Staged, Begun, dbVars
      <3>2. Opening(p)'
        BY <1>0, <2>2, <2>3, <3>1, Moves DEF Opening, Opened, RowsUnder, Empty
      <3> QED
        BY <1>0, <2>1, <2>3, <3>2, GotoOnly DEF dbVars
    <2>4. CASE Goto(p, "open")
      <3>1. Opening(p)'
        BY <1>0, <2>2, <2>4, Moves DEF Opening, Opened, Empty
      <3> QED
        BY <1>0, <2>1, <2>4, <3>1, GotoOnly DEF dbVars
    <2> QED
      BY <2>1, <2>3, <2>4
  <1>4. ASSUME NEW p \in Process, NEW here, NEW next, Create(p, here, next),
               \/ here = "create" /\ next = "import"
               \/ here = "open" /\ next = "check"
        PROVE  Stamps'
    <2>1. /\ pc[p] = here /\ Goto(p, next)
          /\ config' = config /\ entries' = entries
      BY <1>4 DEF Create
    <2>2. Opening(p)'
      <3>1. Opening(p) /\ conf' = conf /\ result' = result /\ pc'[p] = next
        BY <1>0, <2>1, Moves DEF Stamps
      <3> QED
        BY <1>4, <2>1, <3>1 DEF Opening, Opened, RowsUnder
    <2> QED
      BY <1>0, <1>4, <2>1, <2>2, GotoOnly
  <1>5. ASSUME NEW p \in Process, Import(p) PROVE Stamps'
    <2>1. pc[p] = "import" /\ Goto(p, "stampVersion") /\ config' = config
      BY <1>5 DEF Import
    <2>2. Opening(p) /\ conf' = conf /\ result' = result /\ pc'[p] = "stampVersion"
      BY <1>0, <2>1, Moves DEF Stamps
    <2>3. config \in {Nil, conf[p]} /\ RowsUnder(conf[p])
      BY <2>1, <2>2 DEF Opening
    <2>4. RowsUnder(conf[p])'
      <3>1. PICK old \in [SourceFile -> Text \cup {Nil}] :
               entries' = [f \in SourceFile |->
                              IF old[f] = Nil THEN entries[f]
                              ELSE [hash |-> old[f], payload |-> Parse(f, old[f], conf[p])]]
        BY <1>5 DEF Import
      <3>2. ASSUME NEW f \in SourceFile, entries'[f] # Nil
            PROVE  entries'[f].payload.under = conf[p]
        BY <2>3, <3>1, <3>2 DEF RowsUnder, Parse
      <3> QED
        BY <2>2, <3>2 DEF RowsUnder
    <2>5. Opening(p)'
      BY <2>1, <2>2, <2>3, <2>4 DEF Opening, Opened, RowsUnder
    <2>6. config' # Nil => RowsUnder(config)'
      BY <2>1, <2>2, <2>3, <2>4 DEF RowsUnder
    <2> QED
      BY <1>0, <2>1, <2>4, <2>5, <2>6, GotoStamps
  <1>6. ASSUME NEW p \in Process, NEW here, NEW next, WriteVersion(p, here, next),
               \/ here = "stampVersion" /\ next = "stampConfig"
               \/ here = "setVersion" /\ next = "setConfig"
        PROVE  Stamps'
    <2>1. /\ pc[p] = here /\ Goto(p, next)
          /\ config' = config /\ entries' = entries
      BY <1>6 DEF WriteVersion
    <2>2. Opening(p)'
      <3>1. Opening(p) /\ conf' = conf /\ result' = result /\ pc'[p] = next
        BY <1>0, <2>1, Moves DEF Stamps
      <3> QED
        BY <1>6, <2>1, <3>1 DEF Opening, Opened, RowsUnder
    <2> QED
      BY <1>0, <1>6, <2>1, <2>2, GotoOnly
  <1>7. ASSUME NEW p \in Process, NEW here, NEW next, WriteConfig(p, here, next),
               \/ here = "stampConfig" /\ next = "unlink"
               \/ here = "setConfig" /\ next = "ready"
        PROVE  Stamps'
    <2>1. /\ pc[p] = here /\ Goto(p, next)
          /\ config' = conf[p] /\ entries' = entries
      BY <1>7 DEF WriteConfig
    <2>2. Opening(p) /\ conf' = conf /\ result' = result /\ pc'[p] = next
      BY <1>0, <2>1, Moves DEF Stamps
    <2>3. RowsUnder(conf[p])
      BY <1>7, <2>1, <2>2 DEF Opening
    <2>4. RowsUnder(conf[p])' /\ RowsUnder(config)'
      BY <2>1, <2>2, <2>3 DEF RowsUnder
    <2>5. Opening(p)'
      BY <1>7, <2>1, <2>2, <2>4 DEF Opening, Opened
    <2> QED
      BY <1>0, <1>7, <2>1, <2>4, <2>5, GotoStamps
  <1>8. ASSUME NEW p \in Process, UnlinkJson(p) PROVE Stamps'
    <2>1. pc[p] = "unlink" /\ Goto(p, "open") /\ UNCHANGED dbVars
      BY <1>8 DEF UnlinkJson
    <2>2. Opening(p)'
      <3>1. Opening(p) /\ conf' = conf /\ result' = result /\ pc'[p] = "open"
        BY <1>0, <2>1, Moves DEF Stamps
      <3> QED
        BY <3>1 DEF Opening, Opened
    <2> QED
      BY <1>0, <2>1, <2>2, GotoOnly DEF dbVars
  <1>9. ASSUME NEW p \in Process, Check(p) PROVE Stamps'
    <2>1. /\ pc[p] = "check" /\ UNCHANGED dbVars
          /\ Goto(p, "bust") \/ (config = conf[p] /\ Goto(p, "ready"))
      BY <1>9 DEF Check, Stale
    <2>2. PICK there \in {"bust", "ready"} :
             Goto(p, there) /\ (there = "ready" => config = conf[p])
      BY <2>1
    <2>3. Opening(p)'
      <3>1. Opening(p) /\ conf' = conf /\ result' = result /\ pc'[p] = there
        BY <1>0, <2>2, Moves DEF Stamps
      <3> QED
        BY <2>1, <2>2, <3>1 DEF Opening, Opened, dbVars
    <2> QED
      BY <1>0, <2>1, <2>2, <2>3, GotoOnly DEF dbVars
  <1>10. ASSUME NEW p \in Process, Bust(p) PROVE Stamps'
    <2>1. /\ pc[p] = "bust" /\ Goto(p, "setVersion")
          /\ config' = config /\ entries' = Empty
      BY <1>10 DEF Bust
    <2>2. Opening(p) /\ conf' = conf /\ result' = result /\ pc'[p] = "setVersion"
      BY <1>0, <2>1, Moves DEF Stamps
    <2>3. RowsUnder(conf[p])' /\ RowsUnder(config)'
      BY <2>1 DEF RowsUnder, Empty
    <2>4. Opening(p)'
      BY <2>2, <2>3 DEF Opening, Opened
    <2> QED
      BY <1>0, <2>1, <2>3, <2>4, GotoStamps
  <1>11. ASSUME NEW p \in Process, Scan(p) PROVE Stamps'
    <2>1. /\ pc[p] \in {"ready", "watching"} /\ UNCHANGED <<dbVars, conf>>
          /\ pc'[p] \in {"scanned", "rescanned"}
          /\ \A q \in Process \ {p} : pc'[q] = pc[q] /\ result'[q] = result[q]
      BY <1>0, <1>11 DEF Scan, CacheTypeOK
    <2>2. config = conf[p] /\ RowsUnder(conf[p])
      BY <2>1, OpenedRows DEF Opened
    <2>3. Agreement' /\ (config' # Nil => RowsUnder(config)')
      BY <2>1 DEF dbVars, Stamps, Agreement, RowsUnder
    <2>4. ASSUME NEW f \in SourceFile, result'[p][f] # Nil
          PROVE  result'[p][f].under = conf[p]
      <3>1. \/ Get(f, disk[f]) # Nil /\ result'[p][f] = Get(f, disk[f])
            \/ result'[p][f] = Parse(f, disk[f], conf[p])
        BY <1>0, <1>11, <2>4 DEF Scan, CacheTypeOK
      <3> QED
        BY <2>2, <3>1 DEF Get, RowsUnder, Parse
    <2>5. ASSUME NEW q \in Process PROVE Opening(q)'
      <3>1. CASE q = p
        BY <2>1, <2>2, <2>4, <3>1 DEF dbVars, Opening, Opened
      <3>2. CASE q # p
        BY <2>1, <3>2 DEF dbVars, Stamps, Opening, RowsUnder
      <3> QED
        BY <3>1, <3>2
    <2> QED
      BY <2>3, <2>5 DEF Stamps
  <1>12. ASSUME NEW p \in Process, SaveParsed(p) PROVE Stamps'
    <2>1. /\ pc[p] \in {"scanned", "rescanned"} /\ Goto(p, "watching")
          /\ config' = config
      BY <1>12 DEF SaveParsed
    <2>2. /\ Opening(p) /\ conf' = conf /\ result' = result /\ pc'[p] = "watching"
          /\ config = conf[p] /\ RowsUnder(conf[p])
      BY <1>0, <2>1, Moves, OpenedRows DEF Stamps, Opened
    <2>3. ASSUME NEW f \in SourceFile, entries'[f] # Nil
          PROVE  entries'[f].payload.under = conf[p]
      <3>1. CASE f \in Fresh(p)
        <4>1. entries'[f] = [hash |-> source[p][f], payload |-> result[p][f]]
          BY <1>12, <3>1 DEF SaveParsed
        <4>2. result[p][f] # Nil
          BY <3>1 DEF Fresh
        <4> QED
          BY <2>2, <4>1, <4>2 DEF Opening
      <3>2. CASE f \notin Fresh(p)
        BY <1>12, <2>2, <2>3, <3>2 DEF SaveParsed, RowsUnder
      <3> QED
        BY <3>1, <3>2
    <2>4. RowsUnder(conf[p])' /\ RowsUnder(config)'
      BY <2>1, <2>2, <2>3 DEF RowsUnder
    <2>5. Opening(p)'
      BY <2>1, <2>2 DEF Opening, Opened
    <2> QED
      BY <1>0, <2>1, <2>4, <2>5, GotoStamps
  <1>13. ASSUME NEW p \in Process, NEW f \in SourceFile, FindUncached(p, f) PROVE Stamps'
    BY <1>13, SameStamps DEF FindUncached, dbVars
  <1>14. ASSUME NEW p \in Process, SaveFile(p) PROVE Stamps'
    <2> DEFINE g == saving[p]
    <2>1. /\ g \in SourceFile /\ result[p][g] # Nil
          /\ UNCHANGED <<pc, conf, result, config>>
          /\ entries' = [entries EXCEPT ![g] = [hash |-> disk[g], payload |-> FromGraph(p, g)]]
      BY <1>0, <1>14 DEF SaveFile, Typed, Working, CacheTypeOK
    <2>2. pc[p] \in Opened
      BY <1>14 DEF SaveFile, Typed, Working, Opened
    <2> HIDE DEF g
    <2>3. FromGraph(p, g).under = conf[p]
      BY <1>0, <2>1, FromGraphType DEF Stamps, Opening
    <2>4. ASSUME NEW f \in SourceFile, entries'[f] # Nil
          PROVE  entries'[f] = entries[f] \/ entries'[f].payload.under = conf[p]
      BY <1>0, <2>1, <2>3 DEF CacheTypeOK
    <2> QED
      BY <2>1, <2>2, <2>4, WriteStamps
  <1>15. ASSUME NEW p \in Process, NEW g \in SourceFile, HandleFileChange(p, g) PROVE Stamps'
    <2>1. UNCHANGED <<pc, conf, result, config>> /\ pc[p] \in Opened
      BY <1>15 DEF HandleFileChange, processVars, Opened
    <2>2. ASSUME NEW f \in SourceFile, entries'[f] # Nil
          PROVE  entries'[f] = entries[f] \/ entries'[f].payload.under = conf[p]
      BY <1>0, <1>15, <2>2 DEF HandleFileChange, CacheTypeOK, Parse
    <2> QED
      BY <2>1, <2>2, WriteStamps
  <1>16. ASSUME NEW p \in Process, End(p) PROVE Stamps'
    <2>1. /\ UNCHANGED dbVars /\ pc'[p] = "off" /\ result'[p] = Empty
          /\ \A q \in Process \ {p} : /\ pc'[q] = pc[q] /\ conf'[q] = conf[q]
                                      /\ result'[q] = result[q]
      BY <1>0, <1>16 DEF End, CacheTypeOK
    <2>2. Agreement' /\ (config' # Nil => RowsUnder(config)')
      BY <2>1 DEF dbVars, Stamps, Agreement, RowsUnder
    <2>3. ASSUME NEW q \in Process PROVE Opening(q)'
      <3>1. CASE q = p
        BY <2>1, <3>1 DEF Opening, Opened, Empty
      <3>2. CASE q # p
        BY <2>1, <3>2 DEF dbVars, Stamps, Opening, RowsUnder
      <3> QED
        BY <3>1, <3>2
    <2> QED
      BY <2>2, <2>3 DEF Stamps
  <1>17. CASE UNCHANGED vars
    BY <1>17, SameStamps DEF vars, dbVars, processVars
  <1>18. ASSUME NEW p \in Process,
                Create(p, "create", "import") \/ Create(p, "open", "check")
         PROVE  Stamps'
    BY ONLY <1>4, <1>18
  <1>19. ASSUME NEW p \in Process,
                \/ WriteVersion(p, "stampVersion", "stampConfig")
                \/ WriteVersion(p, "setVersion", "setConfig")
         PROVE  Stamps'
    BY ONLY <1>6, <1>19
  <1>20. ASSUME NEW p \in Process,
                \/ WriteConfig(p, "stampConfig", "unlink")
                \/ WriteConfig(p, "setConfig", "ready")
         PROVE  Stamps'
    BY ONLY <1>7, <1>20
  <1> QED
    BY <1>1, <1>2, <1>3, <1>5, <1>8, <1>9, <1>10, <1>11, <1>12, <1>13, <1>14, <1>15,
       <1>16, <1>17, <1>18, <1>19, <1>20 DEF Next

(* Nothing that has happened is forgotten but by a process on its own.     *)
LEMMA PastGrows ==
    ASSUME [Next]_vars
    PROVE  \/ past \subseteq past'
           \/ \E p \in Process : Bust(p) /\ \A q \in Process \ {p} : pc[q] = "off"
  <1>1. ASSUME NEW p \in Process, Bust(p)
        PROVE  past' = past \/ \A q \in Process \ {p} : pc[q] = "off"
    BY <1>1 DEF Bust
  <1>2. ASSUME NEW p \in Process, Start(p) PROVE past \subseteq past'
    BY <1>2 DEF Start
  <1>3. ASSUME NEW p \in Process, SaveFile(p) PROVE past \subseteq past'
    BY <1>3 DEF SaveFile
  <1> QED
    BY <1>1, <1>2, <1>3 DEF Next, vars, Edit, Migrate, Create, Import, WriteVersion, WriteConfig,
       UnlinkJson, Check, Scan, SaveParsed, FindUncached, HandleFileChange, End

LEMMA CacheNext == CacheIInv /\ [Next]_vars => CacheIInv'
  <1> SUFFICES ASSUME CacheIInv, [Next]_vars PROVE CacheIInv'
    OBVIOUS
  <1>1. Typed /\ Staged /\ Honesty /\ Stamped /\ CacheTypeOK
    BY DEF CacheIInv, Typed
  <1>2. Typed' /\ Staged' /\ Honesty'
    BY <1>1, TypedNext, StagedNext, HonestNext
  <1>3. ASSUME "mixed" \notin past' PROVE Stamps'
    <2>1. CASE past \subseteq past'
      BY <1>1, <1>3, <2>1, StampsNext DEF Stamped
    <2>2. ASSUME NEW p \in Process, Bust(p), \A q \in Process \ {p} : pc[q] = "off"
          PROVE  Stamps'
      BY <1>1, <2>2, BustAlone
    <2> QED
      BY <2>1, <2>2, PastGrows
  <1> QED
    BY <1>2, <1>3 DEF CacheIInv, Stamped

LEMMA CacheInit == Init => CacheIInv
  <1> SUFFICES ASSUME Init PROVE CacheIInv
    OBVIOUS
  <1>1. Begun /\ \A p \in Process : Stage(p)
    BY DEF Init, Begun, Stage, Opened
  <1>2. RowsHonest /\ ResultsHonest
    BY DEF Init, RowsHonest, ResultsHonest, Empty
  <1>3. Agreement /\ \A p \in Process : Opening(p)
    BY DEF Init, Agreement, Opening, Opened, Empty
  <1>4. config = Nil
    BY DEF Init
  <1> QED
    BY <1>1, <1>2, <1>3, <1>4, TypedInit DEF CacheIInv, Staged, Honesty, Stamped, Stamps

(* Processes work only with results that they would have parsed            *)
(* themselves, whatever configuration the ones before had, wherever they   *)
(* died, also in the middle of a migration, and whoever runs beside them;  *)
(* what spoils one part of a result leaves the others alone.               *)
THEOREM ResultsAreOwnAlways == Spec => []ResultsAreOwn
  <1>1. CacheIInv => ResultsAreOwn
    BY DEF CacheIInv, Honesty, ResultsHonest, Honest, Stamped, Stamps, Opening, ResultsAreOwn,
           Results, Parse
  <1> QED
    BY <1>1, CacheInit, CacheNext, PTL DEF Spec

(* What the table meta says of the rows is true at every moment, so that   *)
(* the comparison at the next start is enough, and a row is of the text it *)
(* is filed under.                                                         *)
THEOREM RowsAreStampedAlways == Spec => []RowsAreStamped
  <1>1. CacheIInv => RowsAreStamped
    BY DEF CacheIInv, Honesty, RowsHonest, Honest, Stamped, Stamps, RowsUnder, RowsAreStamped
  <1> QED
    BY <1>1, CacheInit, CacheNext, PTL DEF Spec

(* What is counted up from a first value.                                  *)
Stays(o, n, G) == \A k \in 1..n : \A x \in G : o[<<k, x>>] \in G

Counts(f, n, base, o) == f[0] = base /\ \A k \in 1..n : f[k] = o[<<k, f[k - 1]>>]

LEMMA CountedExists ==
  ASSUME NEW n \in Nat, NEW G, NEW base \in G, NEW o, Stays(o, n, G)
  PROVE  \E f \in [0..n -> G] : Counts(f, n, base, o)
<1> DEFINE Runs(f, m) == f[0] = base /\ \A k \in 1..m : f[k] = o[<<k, f[k - 1]>>]
           T == {m \in Nat : m <= n => \E f \in [0..m -> G] : Runs(f, m)}
<1>1. 0 \in T
  <2>1. [k \in 0..0 |-> base] \in [0..0 -> G] /\ Runs([k \in 0..0 |-> base], 0)
    OBVIOUS
  <2> HIDE DEF Runs
  <2> QED
    BY <2>1
<1>2. ASSUME NEW m \in Nat, m \in T, m + 1 <= n
      PROVE  \E f \in [0..(m + 1) -> G] : Runs(f, m + 1)
  <2>1. PICK f \in [0..m -> G] : Runs(f, m)
    BY <1>2
  <2> DEFINE h == [k \in 0..(m + 1) |-> IF k = m + 1 THEN o[<<m + 1, f[m]>>] ELSE f[k]]
  <2>2. m + 1 \in 1..n /\ f[m] \in G /\ o[<<m + 1, f[m]>>] \in G
    BY <1>2 DEF Stays
  <2>3. h \in [0..(m + 1) -> G]
    BY <2>2
  <2>4. h[0] = base
    BY <2>1
  <2>5. ASSUME NEW k \in 1..(m + 1) PROVE h[k] = o[<<k, h[k - 1]>>]
    <3>1. CASE k = m + 1
      <4>1. h[k - 1] = f[m]
        BY <3>1
      <4>2. h[k] = o[<<m + 1, f[m]>>]
        BY <3>1
      <4> HIDE DEF h
      <4> QED
        BY <3>1, <4>1, <4>2
    <3>2. CASE k \in 1..m
      <4>1. h[k - 1] = f[k - 1] /\ h[k] = f[k]
        BY <3>2
      <4>2. f[k] = o[<<k, f[k - 1]>>]
        BY <2>1, <3>2
      <4> HIDE DEF h
      <4> QED
        BY <4>1, <4>2
    <3>3. k = m + 1 \/ k \in 1..m
      OBVIOUS
    <3> HIDE DEF h
    <3> QED
      BY <3>1, <3>2, <3>3
  <2> HIDE DEF h
  <2> QED
    BY <2>3, <2>4, <2>5
<1>3. Nat \subseteq T
  <2>1. \A m \in Nat : m \in T => m + 1 \in T
    <3> HIDE DEF Runs
    <3> QED
      BY <1>2
  <2> HIDE DEF T
  <2> QED
    BY <1>1, <2>1, AllNaturals
<1> QED
  BY <1>3 DEF Counts

---------------------------------------------------------------------------
(* Walks.                                                                  *)

TreeRow(I)  == [key : Seq(I), id : I, duplicate : BOOLEAN]
Walked1(I)  == [tree : Seq(TreeRow(I)), visited : SUBSET I]
Places(I)   == I \X SUBSET I

IsUnder(u, I, id, tree) ==
    /\ u \in Seq(TreeRow(I)) /\ Len(u) = Len(tree)
    /\ \A i \in 1..Len(tree) : u[i] = [tree[i] EXCEPT !.key = <<id>> \o tree[i].key]

LEMMA UnderIs ==
  ASSUME NEW I, NEW id \in I, NEW tree \in Seq(TreeRow(I))
  PROVE  IsUnder(Under(id, tree), I, id, tree)
<1>1. \A i \in 1..Len(tree) : tree[i] \in TreeRow(I)
  OBVIOUS
<1>2. \A i \in 1..Len(tree) :
         [tree[i] EXCEPT !.key = <<id>> \o tree[i].key] \in TreeRow(I)
  <2> SUFFICES ASSUME NEW i \in 1..Len(tree)
               PROVE  [tree[i] EXCEPT !.key = <<id>> \o tree[i].key] \in TreeRow(I)
    OBVIOUS
  <2>1. <<id>> \o tree[i].key \in Seq(I)
    BY <1>1 DEF TreeRow
  <2> QED
    BY <1>1, <2>1 DEF TreeRow
<1>3. DOMAIN tree = 1..Len(tree) /\ Len(tree) \in Nat
  OBVIOUS
<1>4. Under(id, tree) = [i \in 1..Len(tree) |-> [tree[i] EXCEPT !.key = <<id>> \o tree[i].key]]
  BY <1>3 DEF Under
<1> QED
  BY <1>2, <1>3, <1>4 DEF IsUnder

StartOf(id, visited) ==
    [tree |-> <<[key |-> <<id>>, id |-> id, duplicate |-> id \in visited]>>,
     visited |-> visited \cup {id}]

LEMMA StartType ==
  ASSUME NEW I, NEW id \in I, NEW V \in SUBSET I
  PROVE  StartOf(id, V) \in Walked1(I)
<1>1. [key |-> <<id>>, id |-> id, duplicate |-> id \in V] \in TreeRow(I)
  BY DEF TreeRow
<1> QED
  BY <1>1 DEF StartOf, Walked1

(* The children one after the other.                                       *)
RunsThrough(after, id, start, ids, deeper) ==
    /\ after[0] = start
    /\ \A k \in 1..Len(ids) :
          LET t == deeper[<<ids[k], after[k - 1].visited>>] IN
          after[k] = [tree |-> after[k - 1].tree \o Under(id, t.tree), visited |-> t.visited]

LEMMA ChildrenAre ==
  ASSUME NEW I, NEW id \in I, NEW start \in Walked1(I), NEW ids \in Seq(I),
         NEW deeper \in [Places(I) -> Walked1(I)]
  PROVE  \E after \in [0..Len(ids) -> Walked1(I)] :
            /\ RunsThrough(after, id, start, ids, deeper)
            /\ Children(id, start, ids, deeper) = after[Len(ids)]
<1> DEFINE n == Len(ids)
           Step(k, x) == LET t == deeper[<<ids[k], x.visited>>] IN
                         [tree |-> x.tree \o Under(id, t.tree), visited |-> t.visited]
           o == [p \in (1..n) \X Walked1(I) |-> Step(p[1], p[2])]
           IsAfter(f) == f = [k \in 0..n |-> IF k = 0 THEN start ELSE Step(k, f[k - 1])]
<1>1. n \in Nat
  OBVIOUS
<1>2. ASSUME NEW k \in 1..n, NEW x \in Walked1(I)
      PROVE  Step(k, x) \in Walked1(I) /\ o[<<k, x>>] = Step(k, x)
  <2>1. <<ids[k], x.visited>> \in Places(I) /\ x.tree \in Seq(TreeRow(I))
    BY DEF Places, Walked1
  <2> DEFINE t == deeper[<<ids[k], x.visited>>]
  <2>2. t \in Walked1(I)
    BY <2>1
  <2>3. t.tree \in Seq(TreeRow(I)) /\ t.visited \in SUBSET I
    BY <2>2 DEF Walked1
  <2>4. Under(id, t.tree) \in Seq(TreeRow(I))
    BY <2>3, UnderIs DEF IsUnder
  <2>5. x.tree \o Under(id, t.tree) \in Seq(TreeRow(I))
    BY <2>1, <2>4
  <2>6. Step(k, x) \in Walked1(I)
    BY <2>3, <2>5 DEF Walked1
  <2> QED
    BY <2>6
<1> HIDE DEF o
<1>3. PICK f \in [0..n -> Walked1(I)] : Counts(f, n, start, o)
  <2>1. Stays(o, n, Walked1(I))
    BY <1>2 DEF Stays
  <2> HIDE DEF n, Step, IsAfter
  <2> QED
    BY <1>1, <2>1, CountedExists
<1>4. \A k \in 1..n : f[k] = Step(k, f[k - 1])
  <2> SUFFICES ASSUME NEW k \in 1..n PROVE f[k] = Step(k, f[k - 1])
    OBVIOUS
  <2>1. f[k - 1] \in Walked1(I)
    BY <1>1, <1>3
  <2> QED
    BY <1>2, <1>3, <2>1 DEF Counts
<1>5. IsAfter(f)
  <2> HIDE DEF Step
  <2> QED
    BY <1>1, <1>3, <1>4 DEF Counts
<1>6. Children(id, start, ids, deeper) = (CHOOSE g : IsAfter(g))[n]
  BY DEF Children
<1>7. IsAfter(CHOOSE g : IsAfter(g))
  <2> HIDE DEF IsAfter
  <2> QED
    BY <1>5
<1> DEFINE g == CHOOSE h : IsAfter(h)
<1> HIDE DEF g
<1>8. g = [k \in 0..n |-> IF k = 0 THEN start ELSE Step(k, g[k - 1])]
  BY <1>7 DEF g
<1>9. \A k \in 0..n : g[k] = f[k]
  <2> DEFINE T == {k \in Nat : k <= n => g[k] = f[k]}
  <2>1. 0 \in T
    BY <1>1, <1>3, <1>8 DEF Counts
  <2>2. ASSUME NEW k \in Nat, k \in T, k + 1 <= n PROVE g[k + 1] = f[k + 1]
    <3>1. k + 1 \in 1..n /\ k + 1 \in 0..n /\ k <= n /\ (k + 1) - 1 = k
      BY <1>1, <2>2
    <3>2. g[k + 1] = Step(k + 1, g[k])
      <4> HIDE DEF Step
      <4> QED
        BY <1>8, <3>1
    <3>3. f[k + 1] = Step(k + 1, f[k])
      <4> HIDE DEF Step
      <4> QED
        BY <1>4, <3>1
    <3> QED
      BY <2>2, <3>1, <3>2, <3>3
  <2>3. Nat \subseteq T
    <3>1. \A k \in Nat : k \in T => k + 1 \in T
      BY <2>2
    <3> HIDE DEF T
    <3> QED
      BY <2>1, <3>1, AllNaturals
  <2> QED
    BY <1>1, <2>3
<1>10. Children(id, start, ids, deeper) = f[n]
  <2> HIDE DEF n, IsAfter
  <2>1. n \in 0..n
    BY <1>1
  <2>2. Children(id, start, ids, deeper) = g[n]
    BY Zenon, <1>6 DEF g
  <2> QED
    BY <1>9, <2>1, <2>2
<1>11. RunsThrough(f, id, start, ids, deeper)
  BY <1>3, <1>4 DEF RunsThrough, Counts
<1> QED
  BY <1>10, <1>11

(* What a walk from a node has met.                                        *)
Leads(below, a, b) == \E i \in 1..Len(below[a]) : below[a][i] = b

Way(below, key, from, to) ==
    /\ Len(key) >= 1 /\ key[1] = from /\ key[Len(key)] = to
    /\ \A j \in 1..(Len(key) - 1) : Leads(below, key[j], key[j + 1])

BelowHonest(below, id, V, r) ==
    \A i \in 1..Len(r.tree) :
        /\ Way(below, r.tree[i].key, id, r.tree[i].id)
        /\ r.tree[i].id \in r.visited
        /\ ~r.tree[i].duplicate => r.tree[i].id \notin V

RowsOnce(r) ==
    \A i, j \in 1..Len(r.tree) :
        ~r.tree[i].duplicate /\ ~r.tree[j].duplicate /\ r.tree[i].id = r.tree[j].id => i = j

RowsAll(V, r) ==
    \A n \in r.visited \ V :
        \E i \in 1..Len(r.tree) : ~r.tree[i].duplicate /\ r.tree[i].id = n

Met(below, id, V, r) ==
    /\ V \subseteq r.visited /\ id \in r.visited
    /\ BelowHonest(below, id, V, r)
    /\ RowsOnce(r)
    /\ RowsAll(V, r)

LEMMA WayUnder ==
  ASSUME NEW I, NEW below, NEW id \in I, NEW key \in Seq(I), NEW c, NEW to,
         Way(below, key, c, to), Leads(below, id, c)
  PROVE  Way(below, <<id>> \o key, id, to)
<1> DEFINE k == <<id>> \o key
           n == Len(key)
<1>1. n \in Nat /\ n >= 1
  BY DEF Way
<1>2. k \in Seq(I) /\ Len(k) = n + 1 /\ k[1] = id /\ \A j \in 1..n : k[j + 1] = key[j]
  BY <1>1
<1> HIDE DEF k
<1>3. ASSUME NEW j \in 1..n PROVE Leads(below, k[j], k[j + 1])
  <2>1. CASE j = 1
    <3>1. k[1 + 1] = key[1] /\ key[1] = c
      BY <1>1, <1>2 DEF Way
    <3> QED
      BY <1>2, <2>1, <3>1
  <2>2. CASE j # 1
    <3>1. j - 1 \in 1..(n - 1) /\ j - 1 \in 1..n /\ (j - 1) + 1 = j
      BY <1>1, <2>2
    <3>2. k[j] = key[j - 1] /\ k[j + 1] = key[j]
      BY <1>2, <3>1
    <3>3. Leads(below, key[j - 1], key[(j - 1) + 1])
      BY <3>1 DEF Way
    <3> QED
      BY <3>1, <3>2, <3>3
  <2> QED
    BY <2>1, <2>2
<1>4. k[Len(k)] = to
  <2>1. n \in 1..n
    BY <1>1
  <2>2. k[n + 1] = key[n]
    BY <1>2, <2>1
  <2> QED
    BY <1>2, <2>2 DEF Way
<1>5. Way(below, k, id, to)
  <2>1. Len(k) >= 1 /\ Len(k) - 1 = n
    BY <1>1, <1>2
  <2> QED
    BY <1>2, <1>3, <1>4, <2>1 DEF Way
<1> QED
  BY <1>5 DEF k

LEMMA StartMet ==
  ASSUME NEW I, NEW below, NEW id \in I, NEW V \in SUBSET I
  PROVE  Met(below, id, V, StartOf(id, V))
<1> DEFINE r == StartOf(id, V)
           row == [key |-> <<id>>, id |-> id, duplicate |-> id \in V]
<1>1. r.tree = <<row>> /\ r.visited = V \cup {id}
  BY DEF StartOf
<1>2. Len(r.tree) = 1 /\ r.tree[1] = row
  BY <1>1
<1>3. row.key = <<id>> /\ row.id = id /\ (row.duplicate <=> id \in V)
  OBVIOUS
<1>4. Way(below, <<id>>, id, id)
  BY DEF Way
<1> HIDE DEF r, row
<1>5. BelowHonest(below, id, V, r) /\ RowsOnce(r) /\ RowsAll(V, r)
  <2>1. \A i \in 1..Len(r.tree) : i = 1
    BY <1>2
  <2>2. BelowHonest(below, id, V, r)
    BY <1>1, <1>2, <1>3, <1>4, <2>1 DEF BelowHonest
  <2>3. RowsOnce(r)
    BY <2>1 DEF RowsOnce
  <2>4. RowsAll(V, r)
    <3>1. \A n \in r.visited \ V : n = id /\ id \notin V
      BY <1>1
    <3>2. 1 \in 1..Len(r.tree)
      BY <1>2
    <3> QED
      BY <1>2, <1>3, <3>1, <3>2 DEF RowsAll
  <2> QED
    BY <2>2, <2>3, <2>4
<1> QED
  BY <1>1, <1>5 DEF Met, r

(* A child's walk, put under its parent.                                   *)
Attached(id, b, t) == [tree |-> b.tree \o Under(id, t.tree), visited |-> t.visited]

IsConcat(r, p, q) ==
    /\ Len(p) \in Nat /\ Len(q) \in Nat
    /\ Len(r) = Len(p) + Len(q)
    /\ \A i \in 1..Len(p) : r[i] = p[i]
    /\ \A i \in 1..Len(q) : r[Len(p) + i] = q[i]

LEMMA ConcatIs ==
  ASSUME NEW S, NEW p \in Seq(S), NEW q \in Seq(S)
  PROVE  IsConcat(p \o q, p, q)
BY DEF IsConcat

IsAttached(r, I, id, b, t) ==
    /\ r.visited = t.visited
    /\ Len(b.tree) \in Nat /\ Len(t.tree) \in Nat
    /\ Len(r.tree) = Len(b.tree) + Len(t.tree)
    /\ \A i \in 1..Len(b.tree) : r.tree[i] = b.tree[i]
    /\ \A i \in 1..Len(t.tree) :
          /\ r.tree[Len(b.tree) + i].key = <<id>> \o t.tree[i].key
          /\ r.tree[Len(b.tree) + i].id = t.tree[i].id
          /\ r.tree[Len(b.tree) + i].duplicate = t.tree[i].duplicate
          /\ t.tree[i] \in TreeRow(I)

LEMMA AttachedIs ==
  ASSUME NEW I, NEW id \in I, NEW b \in Walked1(I), NEW t \in Walked1(I)
  PROVE  /\ Attached(id, b, t) \in Walked1(I)
         /\ IsAttached(Attached(id, b, t), I, id, b, t)
<1> DEFINE u == Under(id, t.tree)
           r == Attached(id, b, t)
<1>1. b.tree \in Seq(TreeRow(I)) /\ t.tree \in Seq(TreeRow(I)) /\ t.visited \in SUBSET I
  BY DEF Walked1
<1>2. IsUnder(u, I, id, t.tree)
  BY Zenon, <1>1, UnderIs
<1> HIDE DEF u
<1>3. r.tree = b.tree \o u /\ r.visited = t.visited
  BY DEF Attached, u
<1>4. r = [tree |-> b.tree \o u, visited |-> t.visited]
  BY DEF Attached, u
<1>5. b.tree \o u \in Seq(TreeRow(I))
  BY <1>1, <1>2 DEF IsUnder
<1>6. r \in Walked1(I)
  BY <1>1, <1>4, <1>5 DEF Walked1
<1> HIDE DEF r
<1>7. /\ Len(b.tree) \in Nat /\ Len(t.tree) \in Nat
      /\ Len(r.tree) = Len(b.tree) + Len(t.tree)
      /\ \A i \in 1..Len(b.tree) : r.tree[i] = b.tree[i]
      /\ \A i \in 1..Len(t.tree) : r.tree[Len(b.tree) + i] = u[i]
  <2>1. u \in Seq(TreeRow(I)) /\ Len(u) = Len(t.tree)
    BY <1>2 DEF IsUnder
  <2>2. IsConcat(b.tree \o u, b.tree, u)
    BY Zenon, <1>1, <2>1, ConcatIs
  <2>3. IsConcat(r.tree, b.tree, u)
    BY <1>3, <2>2
  <2> QED
    BY <2>1, <2>3 DEF IsConcat
<1>8. ASSUME NEW i \in 1..Len(t.tree)
      PROVE  /\ u[i].key = <<id>> \o t.tree[i].key
             /\ u[i].id = t.tree[i].id
             /\ u[i].duplicate = t.tree[i].duplicate
             /\ t.tree[i] \in TreeRow(I)
  <2>1. t.tree[i] \in TreeRow(I)
    BY <1>1
  <2>2. u[i] = [t.tree[i] EXCEPT !.key = <<id>> \o t.tree[i].key]
    BY <1>2 DEF IsUnder
  <2> QED
    BY <2>1, <2>2 DEF TreeRow
<1> QED
  BY <1>3, <1>6, <1>7, <1>8 DEF r, IsAttached

LEMMA AttachedMet ==
  ASSUME NEW I, NEW below, NEW id \in I, NEW V \in SUBSET I, NEW c \in I,
         NEW b \in Walked1(I), NEW t \in Walked1(I),
         Met(below, id, V, b), Leads(below, id, c), Met(below, c, b.visited, t)
  PROVE  Met(below, id, V, Attached(id, b, t))
<1> DEFINE r == Attached(id, b, t)
           n == Len(b.tree)
           m == Len(t.tree)
<1>1. /\ r.visited = t.visited
      /\ n \in Nat /\ m \in Nat /\ Len(r.tree) = n + m
      /\ \A i \in 1..n : r.tree[i] = b.tree[i]
      /\ \A i \in 1..m : /\ r.tree[n + i].key = <<id>> \o t.tree[i].key
                         /\ r.tree[n + i].id = t.tree[i].id
                         /\ r.tree[n + i].duplicate = t.tree[i].duplicate
                         /\ t.tree[i] \in TreeRow(I)
  <2>1. IsAttached(r, I, id, b, t)
    BY AttachedIs
  <2> HIDE DEF r
  <2> QED
    BY <2>1 DEF IsAttached
<1> HIDE DEF r
<1>2. V \subseteq r.visited /\ b.visited \subseteq r.visited /\ id \in r.visited
  BY <1>1 DEF Met
<1>3. \A i \in 1..Len(r.tree) : i \in 1..n \/ \E k \in 1..m : i = n + k
  <2> SUFFICES ASSUME NEW i \in 1..Len(r.tree), i \notin 1..n
               PROVE  i - n \in 1..m /\ i = n + (i - n)
    OBVIOUS
  <2> HIDE DEF n, m
  <2> QED
    BY <1>1
<1>4. ASSUME NEW k \in 1..m
      PROVE  /\ Way(below, r.tree[n + k].key, id, r.tree[n + k].id)
             /\ r.tree[n + k].id \in r.visited
             /\ ~r.tree[n + k].duplicate => r.tree[n + k].id \notin b.visited
  <2>1. /\ Way(below, t.tree[k].key, c, t.tree[k].id) /\ t.tree[k].id \in t.visited
        /\ ~t.tree[k].duplicate => t.tree[k].id \notin b.visited
    BY DEF Met, BelowHonest
  <2>2. t.tree[k].key \in Seq(I)
    BY <1>1 DEF TreeRow
  <2>3. Way(below, <<id>> \o t.tree[k].key, id, t.tree[k].id)
    BY <2>1, <2>2, WayUnder
  <2> QED
    BY <1>1, <2>1, <2>3
<1>5. ASSUME NEW i \in 1..n
      PROVE  /\ Way(below, r.tree[i].key, id, r.tree[i].id)
             /\ r.tree[i].id \in b.visited
             /\ ~r.tree[i].duplicate => r.tree[i].id \notin V
  BY <1>1 DEF Met, BelowHonest
<1>6. BelowHonest(below, id, V, r)
  <2>1. V \subseteq b.visited
    BY DEF Met
  <2> HIDE DEF n, m
  <2> QED
    BY <1>2, <1>3, <1>4, <1>5, <2>1 DEF BelowHonest
<1>7. RowsOnce(r)
  <2> SUFFICES ASSUME NEW i \in 1..Len(r.tree), NEW j \in 1..Len(r.tree),
                      ~r.tree[i].duplicate, ~r.tree[j].duplicate, r.tree[i].id = r.tree[j].id
               PROVE  i = j
    BY DEF RowsOnce
  <2>1. CASE i \in 1..n /\ j \in 1..n
    <3>1. ~b.tree[i].duplicate /\ ~b.tree[j].duplicate /\ b.tree[i].id = b.tree[j].id
      BY <1>1, <2>1
    <3> QED
      BY <2>1, <3>1 DEF Met, RowsOnce
  <2>2. ASSUME NEW k \in 1..m, NEW l \in 1..m, i = n + k, j = n + l PROVE i = j
    <3>1. ~t.tree[k].duplicate /\ ~t.tree[l].duplicate /\ t.tree[k].id = t.tree[l].id
      BY <1>1, <2>2
    <3>2. k = l
      BY <3>1 DEF Met, RowsOnce
    <3> QED
      BY <2>2, <3>2
  <2>3. ASSUME NEW k \in 1..m, i \in 1..n, j = n + k PROVE FALSE
    BY <1>4, <1>5, <2>3
  <2>4. ASSUME NEW k \in 1..m, j \in 1..n, i = n + k PROVE FALSE
    BY <1>4, <1>5, <2>4
  <2> QED
    BY <1>3, <2>1, <2>2, <2>3, <2>4
<1>8. RowsAll(V, r)
  <2> SUFFICES ASSUME NEW x \in r.visited \ V
               PROVE  \E i \in 1..Len(r.tree) : ~r.tree[i].duplicate /\ r.tree[i].id = x
    BY DEF RowsAll
  <2>1. CASE x \in b.visited
    <3>1. PICK i \in 1..n : ~b.tree[i].duplicate /\ b.tree[i].id = x
      BY <2>1 DEF Met, RowsAll
    <3>2. i \in 1..Len(r.tree) /\ r.tree[i] = b.tree[i]
      <4> HIDE DEF n, m
      <4> QED
        BY <1>1
    <3> QED
      BY <3>1, <3>2
  <2>2. CASE x \notin b.visited
    <3>1. PICK k \in 1..m : ~t.tree[k].duplicate /\ t.tree[k].id = x
      BY <1>1, <2>2 DEF Met, RowsAll
    <3>2. n + k \in 1..Len(r.tree)
      <4> HIDE DEF n, m
      <4> QED
        BY <1>1
    <3>3. ~r.tree[n + k].duplicate /\ r.tree[n + k].id = x
      BY <1>1, <3>1
    <3> QED
      BY <3>2, <3>3
  <2> QED
    BY <2>1, <2>2
<1> QED
  BY <1>2, <1>6, <1>7, <1>8 DEF Met, r

(* What is met is followed to its ends, if the depth is enough.            *)
Closed(below, V, r) ==
    \A n \in r.visited \ V : \A i \in 1..Len(below[n]) : below[n][i] \in r.visited

Room(I, V, left) == Cardinality(I \ V) <= left

Proper(w, below, I, left) ==
    /\ w \in [Places(I) -> Walked1(I)]
    /\ \A id \in I : \A V \in SUBSET I :
          /\ Met(below, id, V, w[<<id, V>>])
          /\ Room(I, V, left) => Closed(below, V, w[<<id, V>>])

LEMMA RoomLess ==
  ASSUME NEW I, IsFiniteSet(I), NEW V \in SUBSET I, NEW id \in I, id \notin V,
         NEW U \in SUBSET I, V \cup {id} \subseteq U, NEW left \in Nat, Room(I, V, left)
  PROVE  left # 0 /\ Room(I, U, left - 1)
<1>1. IsFiniteSet(I \ V) /\ id \in I \ V
  BY FS_Subset
<1>2. (I \ U) \in SUBSET ((I \ V) \ {id})
  OBVIOUS
<1>3. IsFiniteSet((I \ V) \ {id}) /\ Cardinality((I \ V) \ {id}) = Cardinality(I \ V) - 1
  BY <1>1, FS_RemoveElement
<1>4. IsFiniteSet(I \ U) /\ Cardinality(I \ U) <= Cardinality((I \ V) \ {id})
  BY <1>2, <1>3, FS_Subset
<1>5. Cardinality(I \ U) \in Nat /\ Cardinality(I \ V) \in Nat
  BY <1>1, <1>4, FS_CardinalityType
<1> QED
  BY <1>3, <1>4, <1>5 DEF Room

LEMMA ChildrenMet ==
  ASSUME NEW I, IsFiniteSet(I), NEW below \in [I -> Seq(I)], NEW id \in I,
         NEW V \in SUBSET I, id \notin V,
         NEW left \in Nat, NEW deeper, Proper(deeper, below, I, left - 1)
  PROVE  LET r == Children(id, StartOf(id, V), below[id], deeper) IN
         r \in Walked1(I) /\ Met(below, id, V, r) /\ (Room(I, V, left) => Closed(below, V, r))
<1> DEFINE ids == below[id]
           n == Len(ids)
           W == V \cup {id}
<1>1. ids \in Seq(I) /\ n \in Nat /\ \A k \in 1..n : ids[k] \in I /\ Leads(below, id, ids[k])
  <2>1. ids \in Seq(I)
    OBVIOUS
  <2>2. n \in Nat /\ \A k \in 1..n : ids[k] \in I
    BY <2>1
  <2>3. \A k \in 1..n : Leads(below, id, ids[k])
    BY DEF Leads
  <2> QED
    BY <2>1, <2>2, <2>3
<1>2. StartOf(id, V) \in Walked1(I) /\ deeper \in [Places(I) -> Walked1(I)]
  BY StartType DEF Proper
<1>3. PICK after \in [0..n -> Walked1(I)] :
         /\ RunsThrough(after, id, StartOf(id, V), ids, deeper)
         /\ Children(id, StartOf(id, V), ids, deeper) = after[n]
  <2> HIDE DEF ids
  <2> QED
    BY <1>1, <1>2, ChildrenAre
<1> DEFINE Inside(k) ==
              /\ W \subseteq after[k].visited
              /\ Met(below, id, V, after[k])
              /\ \A j \in 1..k : ids[j] \in after[k].visited
              /\ Room(I, V, left) => Closed(below, W, after[k])
           T == {k \in Nat : k <= n => Inside(k)}
<1>4. 0 \in T
  <2>1. after[0] = StartOf(id, V)
    BY <1>3 DEF RunsThrough
  <2>2. after[0].visited = W
    BY <2>1 DEF StartOf
  <2>3. Met(below, id, V, after[0])
    BY <2>1, StartMet
  <2>4. Closed(below, W, after[0])
    BY <2>2 DEF Closed
  <2> QED
    BY <2>2, <2>3, <2>4
<1>5. ASSUME NEW k \in Nat, Inside(k), k + 1 <= n PROVE Inside(k + 1)
  <2> DEFINE b == after[k]
             c == ids[k + 1]
             t == deeper[<<c, b.visited>>]
             r == after[k + 1]
  <2>1. k + 1 \in 1..n /\ k \in 0..n /\ k + 1 \in 0..n /\ (k + 1) - 1 = k
    BY <1>1, <1>5
  <2>2. b \in Walked1(I) /\ c \in I /\ Leads(below, id, c)
    <3> HIDE DEF n, ids
    <3> QED
      BY <1>1, <1>3, <2>1
  <2>3. b.visited \in SUBSET I
    BY <2>2 DEF Walked1
  <2>4. /\ t \in Walked1(I) /\ Met(below, c, b.visited, t)
        /\ Room(I, b.visited, left - 1) => Closed(below, b.visited, t)
    <3>1. <<c, b.visited>> \in Places(I)
      BY <2>2, <2>3 DEF Places
    <3> HIDE DEF b, c
    <3> QED
      BY <2>2, <2>3, <3>1 DEF Proper
  <2>5. r = Attached(id, b, t)
    BY <1>3, <2>1 DEF RunsThrough, Attached
  <2> HIDE DEF b, c, t, r, n, ids
  <2>6. Met(below, id, V, r)
    BY <1>5, <2>2, <2>4, <2>5, AttachedMet DEF b
  <2>7. r.visited = t.visited
    BY <2>5 DEF Attached
  <2>8. b.visited \subseteq r.visited /\ c \in r.visited
    BY <2>4, <2>7 DEF Met
  <2>9. W \subseteq b.visited /\ \A j \in 1..k : ids[j] \in b.visited
    BY <1>5 DEF b
  <2>10. \A j \in 1..(k + 1) : ids[j] \in r.visited
    <3>1. \A j \in 1..(k + 1) : j \in 1..k \/ j = k + 1
      OBVIOUS
    <3> QED
      BY <2>8, <2>9, <3>1 DEF c
  <2>11. ASSUME Room(I, V, left) PROVE Closed(below, W, r)
    <3>1. Room(I, b.visited, left - 1)
      BY <2>3, <2>9, <2>11, RoomLess
    <3>2. Closed(below, b.visited, t)
      BY <2>4, <3>1
    <3>3. Closed(below, W, b)
      BY <1>5, <2>11 DEF b
    <3>4. ASSUME NEW x \in r.visited \ W, NEW i \in 1..Len(below[x])
          PROVE  below[x][i] \in r.visited
      <4>1. CASE x \in b.visited
        BY <2>8, <3>3, <4>1 DEF Closed
      <4>2. CASE x \notin b.visited
        BY <2>7, <3>2, <4>2 DEF Closed
      <4> QED
        BY <4>1, <4>2
    <3> QED
      BY <3>4 DEF Closed
  <2> QED
    BY <2>6, <2>8, <2>9, <2>10, <2>11 DEF r
<1>6. Inside(n)
  <2>1. \A k \in Nat : k \in T => k + 1 \in T
    <3> HIDE DEF Inside, n
    <3> QED
      BY <1>1, <1>5
  <2>2. Nat \subseteq T
    <3> HIDE DEF T
    <3> QED
      BY <1>4, <2>1, AllNaturals
  <2> HIDE DEF Inside, n
  <2> QED
    BY <1>1, <2>2
<1> DEFINE r == after[n]
<1>7. r \in Walked1(I)
  <2> HIDE DEF n
  <2> QED
    BY <1>1, <1>3
<1>8. ASSUME Room(I, V, left) PROVE Closed(below, V, r)
  <2>1. Closed(below, W, r) /\ \A j \in 1..n : ids[j] \in r.visited
    BY <1>6, <1>8
  <2> HIDE DEF r
  <2>2. ASSUME NEW x \in r.visited \ V, NEW i \in 1..Len(below[x])
        PROVE  below[x][i] \in r.visited
    <3>1. CASE x = id
      BY <2>1, <3>1
    <3>2. CASE x # id
      BY <2>1, <3>2 DEF Closed
    <3> QED
      BY <3>1, <3>2
  <2> QED
    BY <2>2 DEF Closed
<1> QED
  BY <1>3, <1>6, <1>7, <1>8

LEMMA WalksAre ==
  ASSUME NEW I, IsFiniteSet(I), NEW below \in [I -> Seq(I)], NEW left \in Nat, NEW deeper,
         left # 0 => Proper(deeper, below, I, left - 1)
  PROVE  Proper(Walks(below, left = 0, deeper), below, I, left)
<1> DEFINE w == Walks(below, left = 0, deeper)
           Of(id, V) == IF id \in V \/ left = 0 THEN StartOf(id, V)
                        ELSE Children(id, StartOf(id, V), below[id], deeper)
<1>1. w = [at \in Places(I) |-> Of(at[1], at[2])]
  BY DEF Walks, Places, StartOf
<1>2. ASSUME NEW id \in I, NEW V \in SUBSET I
      PROVE  /\ Of(id, V) \in Walked1(I) /\ Met(below, id, V, Of(id, V))
             /\ Room(I, V, left) => Closed(below, V, Of(id, V))
  <2>1. CASE id \in V
    <3>1. Of(id, V) = StartOf(id, V) /\ StartOf(id, V).visited = V
      BY <2>1 DEF StartOf
    <3>2. Closed(below, V, StartOf(id, V))
      BY <3>1 DEF Closed
    <3> HIDE DEF Of
    <3> QED
      BY <3>1, <3>2, StartType, StartMet
  <2>2. CASE id \notin V /\ left = 0
    <3>1. Of(id, V) = StartOf(id, V)
      BY <2>2
    <3>2. ~Room(I, V, left)
      <4>1. V \cup {id} \in SUBSET I
        OBVIOUS
      <4> QED
        BY <2>2, <4>1, RoomLess
    <3> HIDE DEF Of
    <3> QED
      BY <3>1, <3>2, StartType, StartMet
  <2>3. CASE id \notin V /\ left # 0
    <3>1. Of(id, V) = Children(id, StartOf(id, V), below[id], deeper)
      BY <2>3
    <3>2. Proper(deeper, below, I, left - 1)
      BY <2>3
    <3> DEFINE r == Children(id, StartOf(id, V), below[id], deeper)
    <3>3. r \in Walked1(I) /\ Met(below, id, V, r) /\ (Room(I, V, left) => Closed(below, V, r))
      BY <2>3, <3>2, ChildrenMet
    <3> HIDE DEF Of, r
    <3>4. Of(id, V) = r
      BY <3>1 DEF r
    <3> QED
      BY <3>3, <3>4
  <2> QED
    BY <2>1, <2>2, <2>3
<1> HIDE DEF Of
<1>3. ASSUME NEW id \in I, NEW V \in SUBSET I
      PROVE  <<id, V>> \in Places(I) /\ w[<<id, V>>] = Of(id, V)
  BY <1>1 DEF Places
<1>4. w \in [Places(I) -> Walked1(I)]
  <2>1. \A at \in Places(I) : Of(at[1], at[2]) \in Walked1(I)
    BY <1>2 DEF Places
  <2> HIDE DEF w
  <2> QED
    BY <1>1, <2>1
<1> HIDE DEF w
<1>5. Proper(w, below, I, left)
  BY <1>2, <1>3, <1>4 DEF Proper
<1> QED
  BY <1>5 DEF w

LEMMA TraverseIs ==
  ASSUME NEW I, IsFiniteSet(I), NEW below \in [I -> Seq(I)], NEW depth \in Nat
  PROVE  Proper(Traverse(below, depth), below, I, depth)
<1> DEFINE G == [Places(I) -> Walked1(I)]
           Of(k, x) == Walks(below, k = 0, x)
           base == Of(0, {})
           IsWalk(f) == f = [k \in 0..depth |-> Of(k, f[k - 1])]
           o == [p \in (1..depth) \X G |-> IF Proper(p[2], below, I, p[1] - 1)
                                           THEN Of(p[1], p[2]) ELSE base]
<1>1. \A x : Of(0, x) = base
  BY DEF Walks
<1>2. Proper(base, below, I, 0)
  BY WalksAre
<1>3. \A k \in 1..depth : \A x : Proper(x, below, I, k - 1) => Proper(Of(k, x), below, I, k)
  <2> SUFFICES ASSUME NEW k \in 1..depth, NEW x, Proper(x, below, I, k - 1)
               PROVE  Proper(Of(k, x), below, I, k)
    OBVIOUS
  <2> QED
    BY WalksAre
<1>4. \A x, k : Proper(x, below, I, k) => x \in G
  BY DEF Proper
<1> HIDE DEF Of, base, G
<1>5. base \in G /\ Stays(o, depth, G)
  <2>1. ASSUME NEW k \in 1..depth, NEW x \in G PROVE o[<<k, x>>] \in G
    BY <1>2, <1>3, <1>4
  <2> HIDE DEF o
  <2> QED
    BY <1>2, <1>4, <2>1 DEF Stays
<1>6. PICK f \in [0..depth -> G] : Counts(f, depth, base, o)
  <2> HIDE DEF o
  <2> QED
    BY <1>5, CountedExists
<1>7. \A k \in 0..depth : Proper(f[k], below, I, k)
  <2> DEFINE T == {k \in Nat : k <= depth => Proper(f[k], below, I, k)}
  <2>1. 0 \in T
    BY <1>2, <1>6 DEF Counts
  <2>2. ASSUME NEW k \in Nat, k \in T, k + 1 <= depth PROVE Proper(f[k + 1], below, I, k + 1)
    <3>1. k + 1 \in 1..depth /\ k \in 0..depth /\ (k + 1) - 1 = k /\ f[k] \in G
      BY <2>2
    <3>2. Proper(f[k], below, I, k)
      BY <2>2
    <3>3. f[k + 1] = o[<<k + 1, f[k]>>]
      BY <1>6, <3>1 DEF Counts
    <3>4. f[k + 1] = Of(k + 1, f[k])
      BY <3>1, <3>2, <3>3
    <3> HIDE DEF o
    <3> QED
      BY <1>3, <3>1, <3>2, <3>4
  <2>3. Nat \subseteq T
    <3>1. \A k \in Nat : k \in T => k + 1 \in T
      BY <2>2
    <3> HIDE DEF T
    <3> QED
      BY <2>1, <3>1, AllNaturals
  <2> QED
    BY <2>3
<1>8. IsWalk(f)
  <2>1. ASSUME NEW k \in 0..depth PROVE f[k] = Of(k, f[k - 1])
    <3>1. CASE k = 0
      BY <1>1, <1>6, <3>1 DEF Counts
    <3>2. CASE k # 0
      <4>1. k \in 1..depth /\ k - 1 \in 0..depth /\ f[k - 1] \in G
        BY <3>2
      <4>2. f[k] = o[<<k, f[k - 1]>>] /\ Proper(f[k - 1], below, I, k - 1)
        BY <1>6, <1>7, <4>1 DEF Counts
      <4> QED
        BY <4>1, <4>2
    <3> QED
      BY <3>1, <3>2
  <2> QED
    BY <2>1
<1> DEFINE g == CHOOSE h : IsWalk(h)
<1>9. IsWalk(g)
  <2> HIDE DEF IsWalk
  <2> QED
    BY <1>8
<1>10. Traverse(below, depth) = g[depth]
  BY DEF Traverse, Of
<1> HIDE DEF g
<1>11. \A k \in 0..depth : g[k] = Of(k, g[k - 1])
  BY <1>9
<1>12. Proper(g[depth], below, I, depth)
  <2> DEFINE T == {k \in Nat : k <= depth => Proper(g[k], below, I, k)}
  <2>1. 0 \in T
    BY <1>1, <1>2, <1>11
  <2>2. ASSUME NEW k \in Nat, k \in T, k + 1 <= depth PROVE Proper(g[k + 1], below, I, k + 1)
    <3>1. k + 1 \in 1..depth /\ k + 1 \in 0..depth /\ (k + 1) - 1 = k /\ Proper(g[k], below, I, k)
      BY <2>2
    <3>2. g[k + 1] = Of(k + 1, g[k])
      BY <1>11, <3>1
    <3> QED
      BY <1>3, <3>1, <3>2
  <2>3. Nat \subseteq T
    <3>1. \A k \in Nat : k \in T => k + 1 \in T
      BY <2>2
    <3> HIDE DEF T
    <3> QED
      BY <2>1, <3>1, AllNaturals
  <2> QED
    BY <2>3
<1> QED
  BY <1>10, <1>12

---------------------------------------------------------------------------
(* What is below a node.                                                   *)
LEMMA SetToSeqIs ==
  ASSUME NEW E, IsFiniteSet(E)
  PROVE  /\ SetToSeq(E) \in Seq(E)
         /\ \A x \in E : \E i \in 1..Len(SetToSeq(E)) : SetToSeq(E)[i] = x
<1> DEFINE n == Cardinality(E)
           Fits(f) == f \in [1..n -> E] /\ IsInjective(f)
           q == SetToSeq(E)
<1>1. n \in Nat /\ ExistsBijection(1..n, E)
  BY FS_CardinalityType
<1>2. PICK f : f \in Bijection(1..n, E)
  BY <1>1 DEF ExistsBijection
<1>3. f \in [1..n -> E] /\ IsInjective(f)
  BY <1>2 DEF Bijection, Injection
<1>4. SetToSeq(E) \in [1..n -> E] /\ IsInjective(SetToSeq(E))
  BY <1>3 DEF SetToSeq
<1>5. SetToSeq(E) \in Injection(1..n, E)
  BY <1>4 DEF Injection
<1> HIDE DEF q
<1>6. IsFiniteSet(1..n) /\ Cardinality(1..n) = n
  BY <1>1, FS_Interval
<1>7. SetToSeq(E) \in Surjection(1..n, E)
  BY <1>5, <1>6, FS_Injection
<1>8. Len(SetToSeq(E)) = n /\ SetToSeq(E) \in Seq(E)
  BY <1>1, <1>4
<1> QED
  BY <1>7, <1>8 DEF Surjection

(* A sequence over X that has the elements of T.                           *)
Lists(q, X, T) ==
    q \in Seq(X) /\ \A x : (\E i \in 1..Len(q) : q[i] = x) <=> x \in T

LEMMA EndsAre ==
  ASSUME NEW E, IsFiniteSet(E), NEW X, \A e \in E : e.source \in X /\ e.target \in X
  PROVE  /\ Lists(Sources(SetToSeq(E)), X, {e.source : e \in E})
         /\ Lists(Targets(SetToSeq(E)), X, {e.target : e \in E})
<1> DEFINE q == SetToSeq(E)
<1>1. q \in Seq(E) /\ \A x \in E : \E i \in 1..Len(q) : q[i] = x
  BY SetToSeqIs
<1> HIDE DEF q
<1>2. PICK n \in Nat : n = Len(q) /\ DOMAIN q = 1..n /\ \A i \in 1..n : q[i] \in E
  BY <1>1
<1>3. Lists(Sources(q), X, {e.source : e \in E})
  <2> DEFINE s == [i \in 1..n |-> q[i].source]
  <2>1. Sources(q) = s
    BY <1>2 DEF Sources
  <2>2. s \in Seq(X) /\ Len(s) = n
    BY <1>2
  <2>3. ASSUME NEW x PROVE (\E i \in 1..n : s[i] = x) <=> x \in {e.source : e \in E}
    BY <1>1, <1>2
  <2> HIDE DEF s
  <2> QED
    BY <2>1, <2>2, <2>3 DEF Lists
<1>4. Lists(Targets(q), X, {e.target : e \in E})
  <2> DEFINE s == [i \in 1..n |-> q[i].target]
  <2>1. Targets(q) = s
    BY <1>2 DEF Targets
  <2>2. s \in Seq(X) /\ Len(s) = n
    BY <1>2
  <2>3. ASSUME NEW x PROVE (\E i \in 1..n : s[i] = x) <=> x \in {e.target : e \in E}
    BY <1>1, <1>2
  <2> HIDE DEF s
  <2> QED
    BY <2>1, <2>2, <2>3 DEF Lists
<1> QED
  BY <1>3, <1>4 DEF q

LEMMA ListsBoth ==
  ASSUME NEW X, NEW T, NEW U, NEW p, NEW q, Lists(p, X, T), Lists(q, X, U)
  PROVE  Lists(p \o q, X, T \cup U)
<1>1. p \in Seq(X) /\ q \in Seq(X)
  BY DEF Lists
<1> DEFINE m == Len(p)
           n == Len(q)
<1>2. /\ p \o q \in Seq(X) /\ Len(p \o q) = m + n /\ m \in Nat /\ n \in Nat
      /\ \A i \in 1..m : (p \o q)[i] = p[i]
      /\ \A i \in 1..n : (p \o q)[m + i] = q[i]
  <2>1. p \o q \in Seq(X) /\ Len(p \o q) = m + n /\ m \in Nat /\ n \in Nat
    BY <1>1
  <2>2. ASSUME NEW i \in 1..m PROVE (p \o q)[i] = p[i]
    BY <1>1
  <2>3. ASSUME NEW i \in 1..n PROVE (p \o q)[m + i] = q[i]
    BY <1>1
  <2> QED
    BY <2>1, <2>2, <2>3
<1> HIDE DEF m, n
<1>3. ASSUME NEW x
      PROVE  (\E i \in 1..(m + n) : (p \o q)[i] = x) <=> x \in T \cup U
  <2>1. ASSUME NEW i \in 1..(m + n), (p \o q)[i] = x PROVE x \in T \cup U
    <3>1. CASE i \in 1..m
      BY <1>2, <2>1, <3>1 DEF Lists, m
    <3>2. CASE i \notin 1..m
      <4>1. i - m \in 1..n /\ m + (i - m) = i
        BY <1>2, <3>2
      <4>2. q[i - m] = x
        BY <1>2, <2>1, <4>1
      <4> QED
        BY <4>1, <4>2 DEF Lists, n
    <3> QED
      BY <3>1, <3>2
  <2>2. ASSUME x \in T PROVE \E i \in 1..(m + n) : (p \o q)[i] = x
    <3>1. PICK i \in 1..m : p[i] = x
      BY <2>2 DEF Lists, m
    <3> QED
      BY <1>2, <3>1
  <2>3. ASSUME x \in U PROVE \E i \in 1..(m + n) : (p \o q)[i] = x
    <3>1. PICK i \in 1..n : q[i] = x
      BY <2>3 DEF Lists, n
    <3>2. m \in Nat /\ n \in Nat /\ (p \o q)[m + i] = q[i]
      BY <1>2
    <3>3. m + i \in 1..(m + n)
      BY <3>2
    <3>4. (p \o q)[m + i] = x
      BY <3>1, <3>2
    <3> QED
      BY <3>3, <3>4
  <2>4. (\E i \in 1..(m + n) : (p \o q)[i] = x) => x \in T \cup U
    BY <2>1
  <2>5. x \in T \cup U => \E i \in 1..(m + n) : (p \o q)[i] = x
    BY <2>2, <2>3
  <2> QED
    BY <2>4, <2>5
<1> QED
  BY <1>2, <1>3 DEF Lists

Backward(R) == {<<p[2], p[1]>> : p \in R}

(* What a direction walks, as pairs of nodes.                              *)
Walked(g, direction) ==
    IF direction = "dependencies" THEN Needs(g) ELSE Backward(Needs(g))

Ids(g) == {n.id : n \in g.nodes}

LEMMA NeedsAre ==
  ASSUME NEW g, NEW a, NEW b
  PROVE  <<a, b>> \in Needs(g) <=>
            \E e \in g.edges :
                \/ e.kind \notin SkipInTree /\ e.source = a /\ e.target = b
                \/ e.kind \in ReverseSemanticKinds /\ e.target = a /\ e.source = b
<1> DEFINE P == {x \in g.edges : x.kind \notin SkipInTree}
           R == {x \in g.edges : x.kind \in ReverseSemanticKinds}
<1>1. <<a, b>> \in {<<e.source, e.target>> : e \in P} <=>
         \E e \in g.edges : e.kind \notin SkipInTree /\ e.source = a /\ e.target = b
  OBVIOUS
<1>2. <<a, b>> \in {<<e.target, e.source>> : e \in R} <=>
         \E e \in g.edges : e.kind \in ReverseSemanticKinds /\ e.target = a /\ e.source = b
  OBVIOUS
<1> QED
  BY <1>1, <1>2 DEF Needs

LEMMA BackwardIs ==
  ASSUME NEW R, \A p \in R : p = <<p[1], p[2]>>, NEW a, NEW b
  PROVE  <<a, b>> \in Backward(R) <=> <<b, a>> \in R
  BY DEF Backward

LEMMA NeedsPairs ==
  ASSUME NEW g
  PROVE  \A p \in Needs(g) : p = <<p[1], p[2]>>
  BY DEF Needs

LEMMA BelowIs ==
  ASSUME NEW g, IsFiniteSet(g.edges), NEW direction
  PROVE  LET below == Below(g, direction) IN
         /\ below \in [Ids(g) -> Seq(Ids(g))]
         /\ \A a, b \in Ids(g) : Leads(below, a, b) <=> <<a, b>> \in Walked(g, direction)
<1> DEFINE I == Ids(g)
           known == {e \in g.edges : {e.source, e.target} \subseteq I}
           plain == {e \in known : e.kind \notin SkipInTree}
           reverse == {e \in known : e.kind \in ReverseSemanticKinds}
           out(E, id) == Targets(SetToSeq({e \in E : e.source = id}))
           into(E, id) == Sources(SetToSeq({e \in E : e.target = id}))
           below == Below(g, direction)
           ToOf(E, id) == {e.target : e \in {x \in E : x.source = id}}
           FromOf(E, id) == {e.source : e \in {x \in E : x.target = id}}
<1>1. below = [id \in I |-> IF direction = "dependencies"
                            THEN out(plain, id) \o into(reverse, id)
                            ELSE into(plain, id) \o out(reverse, id)]
  BY DEF Below, Ids
<1>2. ASSUME NEW E \in SUBSET known, NEW id
      PROVE  Lists(out(E, id), I, ToOf(E, id)) /\ Lists(into(E, id), I, FromOf(E, id))
  <2>1. {e \in E : e.source = id} \in SUBSET g.edges /\ {e \in E : e.target = id} \in SUBSET g.edges
    OBVIOUS
  <2>2. IsFiniteSet({e \in E : e.source = id}) /\ IsFiniteSet({e \in E : e.target = id})
    BY <2>1, FS_Subset
  <2>3. \A e \in known : e.source \in I /\ e.target \in I
    OBVIOUS
  <2>4. /\ \A e \in {x \in E : x.source = id} : e.source \in I /\ e.target \in I
        /\ \A e \in {x \in E : x.target = id} : e.source \in I /\ e.target \in I
    BY <2>3
  <2> HIDE DEF known, I
  <2> QED
    BY <2>2, <2>4, EndsAre
<1>3. plain \in SUBSET known /\ reverse \in SUBSET known
  OBVIOUS
<1>4. ASSUME NEW a \in I, NEW b \in I
      PROVE  /\ b \in ToOf(plain, a) <=>
                    \E e \in g.edges : e.kind \notin SkipInTree /\ e.source = a /\ e.target = b
             /\ b \in FromOf(reverse, a) <=>
                    \E e \in g.edges : e.kind \in ReverseSemanticKinds /\ e.target = a /\ e.source = b
             /\ b \in FromOf(plain, a) <=>
                    \E e \in g.edges : e.kind \notin SkipInTree /\ e.source = b /\ e.target = a
             /\ b \in ToOf(reverse, a) <=>
                    \E e \in g.edges : e.kind \in ReverseSemanticKinds /\ e.target = b /\ e.source = a
  <2> HIDE DEF I
  <2> QED
    OBVIOUS
<1>5. ASSUME NEW a \in I
      PROVE  /\ Lists(out(plain, a) \o into(reverse, a), I, ToOf(plain, a) \cup FromOf(reverse, a))
             /\ Lists(into(plain, a) \o out(reverse, a), I, FromOf(plain, a) \cup ToOf(reverse, a))
  <2> HIDE DEF I, known, plain, reverse
  <2>1. /\ Lists(out(plain, a), I, ToOf(plain, a)) /\ Lists(into(plain, a), I, FromOf(plain, a))
        /\ Lists(out(reverse, a), I, ToOf(reverse, a)) /\ Lists(into(reverse, a), I, FromOf(reverse, a))
    BY <1>2, <1>3
  <2> HIDE DEF ToOf, FromOf, out, into
  <2> QED
    BY <2>1, ListsBoth
<1> DEFINE T(a) == IF direction = "dependencies" THEN ToOf(plain, a) \cup FromOf(reverse, a)
                                                ELSE FromOf(plain, a) \cup ToOf(reverse, a)
<1>6. ASSUME NEW a \in I PROVE Lists(below[a], I, T(a))
  <2> HIDE DEF I, known, plain, reverse, out, into, below, ToOf, FromOf
  <2> QED
    BY <1>1, <1>5
<1>7. ASSUME NEW a \in I, NEW b \in I
      PROVE  b \in T(a) <=> <<a, b>> \in Walked(g, direction)
  <2>1. <<a, b>> \in Backward(Needs(g)) <=> <<b, a>> \in Needs(g)
    BY NeedsPairs, BackwardIs
  <2>2. b \in ToOf(plain, a) \cup FromOf(reverse, a) <=> <<a, b>> \in Needs(g)
    <3> HIDE DEF ToOf, FromOf, plain, reverse
    <3> QED
      BY <1>4, NeedsAre
  <2>3. b \in FromOf(plain, a) \cup ToOf(reverse, a) <=> <<b, a>> \in Needs(g)
    <3> HIDE DEF ToOf, FromOf, plain, reverse
    <3> QED
      BY <1>4, NeedsAre
  <2> HIDE DEF ToOf, FromOf, plain, reverse
  <2> QED
    BY <2>1, <2>2, <2>3 DEF Walked
<1>8. below \in [I -> Seq(I)]
  <2>1. DOMAIN below = I /\ below = [a \in I |-> below[a]]
    <3> HIDE DEF I, out, into, plain, reverse
    <3> QED
      BY <1>1
  <2> HIDE DEF T, below, I
  <2> QED
    BY <2>1, <1>6 DEF Lists
<1>9. ASSUME NEW a \in I, NEW b \in I
      PROVE  Leads(below, a, b) <=> <<a, b>> \in Walked(g, direction)
  <2> HIDE DEF T, below, I
  <2> QED
    BY <1>6, <1>7 DEF Leads, Lists
<1> HIDE DEF below
<1> QED
  BY <1>8, <1>9 DEF below

---------------------------------------------------------------------------
(* The place of a number in a set of them.                                 *)
Rank(S, i) == Cardinality({j \in S : j <= i})

LEMMA RankWithin ==
  ASSUME NEW S \in SUBSET Nat, IsFiniteSet(S), NEW i \in S
  PROVE  /\ Cardinality(S) \in Nat
         /\ Rank(S, i) \in 1..Cardinality(S)
<1> DEFINE T == {j \in S : j <= i}
<1>1. T \in SUBSET S /\ i \in T
  OBVIOUS
<1>2. IsFiniteSet(T) /\ Cardinality(T) <= Cardinality(S)
  BY <1>1, FS_Subset
<1>3. Cardinality(T) \in Nat /\ Cardinality(S) \in Nat
  BY <1>2, FS_CardinalityType
<1>4. Cardinality(T) # 0
  BY <1>1, <1>2, FS_EmptySet
<1> QED
  BY <1>2, <1>3, <1>4 DEF Rank

LEMMA RankGrows ==
  ASSUME NEW S \in SUBSET Nat, IsFiniteSet(S), NEW i \in S, NEW j \in S, i < j
  PROVE  Rank(S, i) < Rank(S, j)
<1> DEFINE T == {x \in S : x <= i}
           U == {x \in S : x <= j}
<1>0. i \in Nat /\ j \in Nat
  OBVIOUS
<1>1. T \in SUBSET U /\ U \in SUBSET S /\ j \in U /\ j \notin T
  <2>1. \A x \in S : x \in Nat /\ (x <= i => x <= j)
    BY <1>0
  <2>2. ~(j <= i) /\ j <= j
    BY <1>0
  <2> QED
    BY <2>1, <2>2
<1>2. IsFiniteSet(U)
  BY <1>1, FS_Subset
<1>3. IsFiniteSet(T) /\ Cardinality(T) <= Cardinality(U) /\ Cardinality(U) # Cardinality(T)
  BY <1>1, <1>2, FS_Subset
<1>4. Cardinality(T) \in Nat /\ Cardinality(U) \in Nat
  BY <1>2, <1>3, FS_CardinalityType
<1> QED
  BY <1>3, <1>4 DEF Rank

LEMMA RankFound ==
  ASSUME NEW S \in SUBSET Nat, IsFiniteSet(S), NEW k \in 1..Cardinality(S)
  PROVE  \E i \in S : Rank(S, i) = k
<1> DEFINE f == [i \in S |-> Rank(S, i)]
           n == Cardinality(S)
           T == (1..n) \ {k}
<1>1. n \in Nat
  BY FS_CardinalityType
<1>2. SUFFICES ASSUME \A i \in S : Rank(S, i) # k PROVE FALSE
  OBVIOUS
<1>3. \A i \in S : Rank(S, i) \in T
  BY <1>2, RankWithin
<1>4. f \in [S -> T]
  BY <1>3
<1>5. IsFiniteSet(1..n) /\ Cardinality(1..n) = n
  BY <1>1, FS_Interval
<1>6. IsFiniteSet(T) /\ Cardinality(T) = n - 1
  BY <1>5, FS_RemoveElement
<1> HIDE DEF T, f
<1>9. Cardinality(T) < Cardinality(S)
  BY <1>1, <1>6
<1>7. PICK i, j \in S : i # j /\ f[i] = f[j]
  BY ONLY <1>4, <1>6, <1>9, FS_PigeonHole, IsFiniteSet(S)
<1>8. Rank(S, i) = Rank(S, j) /\ Rank(S, i) \in Nat /\ i \in Nat /\ j \in Nat
  BY <1>7, RankWithin DEF f
<1> HIDE DEF n
<1> QED
  BY <1>7, <1>8, RankGrows

(* InOrder() goes through all of a finite set, from the least on.          *)
Ordered(e, n, S) ==
    /\ e \in [1..n -> S]
    /\ \A i \in S : \E k \in 1..n : e[k] = i
    /\ \A k, l \in 1..n : k < l => e[k] < e[l]

LEMMA InOrderIs ==
  ASSUME NEW S \in SUBSET Nat, IsFiniteSet(S)
  PROVE  Cardinality(S) \in Nat /\ Ordered(InOrder(S), Cardinality(S), S)
<1> DEFINE n == Cardinality(S)
           e == InOrder(S)
<1>1. n \in Nat
  BY FS_CardinalityType
<1>2. ASSUME NEW k \in 1..n PROVE e[k] \in S /\ Rank(S, e[k]) = k
  <2>1. e[k] = CHOOSE i \in S : Rank(S, i) = k
    BY DEF InOrder, Rank
  <2> QED
    BY <2>1, RankFound
<1>3. e \in [1..n -> S]
  BY <1>2 DEF InOrder
<1> HIDE DEF n, e
<1>4. ASSUME NEW i \in S PROVE \E k \in 1..n : e[k] = i
  <2>1. Rank(S, i) \in 1..n
    BY RankWithin DEF n
  <2>2. e[Rank(S, i)] \in S /\ Rank(S, e[Rank(S, i)]) = Rank(S, i)
    BY <1>2, <2>1
  <2>3. ~(e[Rank(S, i)] < i) /\ ~(i < e[Rank(S, i)])
    <3>1. ASSUME NEW a \in S, NEW b \in S, Rank(S, a) = Rank(S, b) PROVE ~(a < b)
      <4>1. Rank(S, a) \in Nat
        BY RankWithin
      <4> QED
        BY <3>1, <4>1, RankGrows
    <3> QED
      BY <2>2, <3>1
  <2> DEFINE r == Rank(S, i)
  <2>4. e[r] \in Nat /\ i \in Nat
    BY <2>2
  <2> HIDE DEF r
  <2>5. e[r] = i
    BY <2>3, <2>4 DEF r
  <2> QED
    BY <2>1, <2>5 DEF r
<1>5. ASSUME NEW k \in 1..n, NEW l \in 1..n, k < l PROVE e[k] < e[l]
  <2>1. e[k] \in S /\ e[l] \in S /\ Rank(S, e[k]) = k /\ Rank(S, e[l]) = l
    BY <1>2
  <2>2. e[k] # e[l]
    BY <1>1, <1>5, <2>1
  <2>3. ~(e[l] < e[k])
    <3>1. e[l] < e[k] => l < k
      BY <2>1, RankGrows
    <3> QED
      BY <1>1, <1>5, <3>1
  <2>4. e[k] \in Nat /\ e[l] \in Nat
    BY <2>1
  <2> QED
    BY <2>2, <2>3, <2>4
<1> QED
  BY <1>1, <1>3, <1>4, <1>5 DEF Ordered, n, e

(* The rows of a tree that are kept, in their order.                       *)
Picked(rows, tree, S, X) ==
    /\ rows \in Seq(X)
    /\ \E e : /\ Ordered(e, Len(rows), S)
              /\ \A k \in 1..Len(rows) : rows[k] = tree[e[k]]

LEMMA OnlyIs ==
  ASSUME NEW X, NEW tree \in Seq(X), NEW S \in SUBSET (1..Len(tree))
  PROVE  Picked(Only(tree, S), tree, S, X)
<1> DEFINE e == InOrder(S)
           n == Cardinality(S)
<1>1. Len(tree) \in Nat /\ \A i \in 1..Len(tree) : tree[i] \in X
  OBVIOUS
<1>2. S \in SUBSET Nat /\ IsFiniteSet(S)
  <2>1. IsFiniteSet(1..Len(tree)) /\ (1..Len(tree)) \in SUBSET Nat
    BY <1>1, FS_Interval
  <2> QED
    BY <2>1, FS_Subset
<1>3. n \in Nat /\ Ordered(e, n, S)
  BY <1>2, InOrderIs
<1> HIDE DEF e, n
<1>4. DOMAIN e = 1..n /\ \A k \in 1..n : e[k] \in S
  BY <1>3 DEF Ordered
<1> DEFINE r == [k \in 1..n |-> tree[e[k]]]
<1>5. Only(tree, S) = r
  BY <1>4 DEF Only, e
<1>6. \A k \in 1..n : tree[e[k]] \in X
  BY <1>1, <1>4
<1>7. r \in Seq(X) /\ Len(r) = n
  BY <1>3, <1>6
<1>8. \A k \in 1..n : r[k] = tree[e[k]]
  OBVIOUS
<1> HIDE DEF r
<1> QED
  BY <1>3, <1>5, <1>7, <1>8 DEF Picked

(***************************************************************************)
(* What the rows under a root are: each is at the end of a way from the    *)
(* root, is shown once, and what it leads to is shown.                     *)
(***************************************************************************)
Shown(rows, n) == \E i \in 1..Len(rows) : ~rows[i].duplicate /\ rows[i].id = n

Spans(rows, below, root, I) ==
    /\ rows \in Seq(TreeRow(I))
    /\ Shown(rows, root)
    /\ \A i \in 1..Len(rows) :
          /\ Way(below, rows[i].key, root, rows[i].id)
          /\ Shown(rows, rows[i].id)
          /\ \A b \in I : Leads(below, rows[i].id, b) => Shown(rows, b)
    /\ \A i, j \in 1..Len(rows) :
          ~rows[i].duplicate /\ ~rows[j].duplicate /\ rows[i].id = rows[j].id => i = j

LEMMA TraverseSpans ==
  ASSUME NEW I, IsFiniteSet(I), NEW below \in [I -> Seq(I)], NEW root \in I,
         NEW depth \in Nat, Cardinality(I) <= depth
  PROVE  Spans(Traverse(below, depth)[<<root, {}>>].tree, below, root, I)
<1> DEFINE w == Traverse(below, depth)
           r == w[<<root, {}>>]
<1>1. Proper(w, below, I, depth)
  BY TraverseIs
<1> HIDE DEF w
<1>2. I \ {} = I /\ {} \in SUBSET I
  OBVIOUS
<1>3. Room(I, {}, depth)
  BY <1>2 DEF Room
<1>4. Met(below, root, {}, r) /\ Closed(below, {}, r)
  BY <1>1, <1>2, <1>3 DEF Proper
<1>5. r \in Walked1(I)
  BY <1>1, <1>2 DEF Proper, Places
<1> HIDE DEF r
<1>6. r.tree \in Seq(TreeRow(I)) /\ r.visited \in SUBSET I
  BY <1>5 DEF Walked1
<1>7. ASSUME NEW n \in r.visited PROVE Shown(r.tree, n)
  BY <1>4 DEF Met, RowsAll, Shown
<1>8. Shown(r.tree, root)
  BY <1>4, <1>7 DEF Met
<1>9. ASSUME NEW i \in 1..Len(r.tree)
      PROVE  /\ Way(below, r.tree[i].key, root, r.tree[i].id)
             /\ Shown(r.tree, r.tree[i].id)
             /\ \A b \in I : Leads(below, r.tree[i].id, b) => Shown(r.tree, b)
  <2>1. Way(below, r.tree[i].key, root, r.tree[i].id) /\ r.tree[i].id \in r.visited
    BY <1>4 DEF Met, BelowHonest
  <2>2. \A b \in I : Leads(below, r.tree[i].id, b) => b \in r.visited
    BY <1>4, <2>1 DEF Closed, Leads
  <2> QED
    BY <1>7, <2>1, <2>2
<1>10. \A i, j \in 1..Len(r.tree) :
          ~r.tree[i].duplicate /\ ~r.tree[j].duplicate /\ r.tree[i].id = r.tree[j].id => i = j
  BY <1>4 DEF Met, RowsOnce
<1>11. Spans(r.tree, below, root, I)
  BY <1>6, <1>8, <1>9, <1>10 DEF Spans
<1> QED
  BY <1>11 DEF r, w

LEMMA PickedSpans ==
  ASSUME NEW I, NEW tree, NEW below, NEW root, Spans(tree, below, root, I),
         NEW S \in SUBSET (1..Len(tree)),
         \A i \in 1..Len(tree) : ~tree[i].duplicate => i \in S
  PROVE  Spans(Only(tree, S), below, root, I)
<1> DEFINE rows == Only(tree, S)
<1>1. tree \in Seq(TreeRow(I))
  BY DEF Spans
<1>2. Picked(rows, tree, S, TreeRow(I))
  BY <1>1, OnlyIs
<1> HIDE DEF rows
<1>3. PICK e : /\ Ordered(e, Len(rows), S)
               /\ \A k \in 1..Len(rows) : rows[k] = tree[e[k]]
  BY <1>2 DEF Picked
<1>4. rows \in Seq(TreeRow(I)) /\ Len(rows) \in Nat
  BY <1>2 DEF Picked
<1>5. \A k \in 1..Len(rows) : e[k] \in S /\ e[k] \in 1..Len(tree) /\ e[k] \in Nat
  <2>1. \A i \in S : i \in 1..Len(tree) /\ i \in Nat
    BY <1>1
  <2>2. \A k \in 1..Len(rows) : e[k] \in S
    BY <1>3 DEF Ordered
  <2> QED
    BY <2>1, <2>2
<1>6. ASSUME NEW n, Shown(tree, n) PROVE Shown(rows, n)
  <2>1. PICK i \in 1..Len(tree) : ~tree[i].duplicate /\ tree[i].id = n
    BY <1>6 DEF Shown
  <2>2. PICK k \in 1..Len(rows) : e[k] = i
    BY <1>3, <2>1 DEF Ordered
  <2> QED
    BY <1>3, <2>1, <2>2 DEF Shown
<1>7. ASSUME NEW k \in 1..Len(rows)
      PROVE  /\ Way(below, rows[k].key, root, rows[k].id)
             /\ Shown(rows, rows[k].id)
             /\ \A b \in I : Leads(below, rows[k].id, b) => Shown(rows, b)
  <2>1. rows[k] = tree[e[k]] /\ e[k] \in 1..Len(tree)
    BY <1>3, <1>5
  <2>2. /\ Way(below, tree[e[k]].key, root, tree[e[k]].id)
        /\ Shown(tree, tree[e[k]].id)
        /\ \A b \in I : Leads(below, tree[e[k]].id, b) => Shown(tree, b)
    BY <2>1 DEF Spans
  <2> QED
    BY <1>6, <2>1, <2>2
<1>8. ASSUME NEW k \in 1..Len(rows), NEW l \in 1..Len(rows),
             ~rows[k].duplicate, ~rows[l].duplicate, rows[k].id = rows[l].id
      PROVE  k = l
  <2>1. e[k] = e[l]
    <3>1. /\ rows[k] = tree[e[k]] /\ rows[l] = tree[e[l]]
          /\ e[k] \in 1..Len(tree) /\ e[l] \in 1..Len(tree)
      BY <1>3, <1>5
    <3> QED
      BY <1>8, <3>1 DEF Spans
  <2>2. ~(k < l) /\ ~(l < k)
    <3>1. e[k] \in Nat
      BY <1>5
    <3>2. (k < l => e[k] < e[l]) /\ (l < k => e[l] < e[k])
      BY <1>3 DEF Ordered
    <3> QED
      BY <2>1, <3>1, <3>2
  <2> QED
    BY <1>4, <2>2
<1>9. Shown(rows, root)
  BY <1>6 DEF Spans
<1>10. Spans(rows, below, root, I)
  BY <1>4, <1>7, <1>8, <1>9 DEF Spans
<1> QED
  BY <1>10 DEF rows

(* Two sets are as large as each other if a function tells them apart.     *)
LEMMA SameSize ==
  ASSUME NEW S, IsFiniteSet(S), NEW f, DOMAIN f = S,
         \A x, y \in S : f[x] = f[y] => x = y
  PROVE  /\ IsFiniteSet({f[x] : x \in S})
         /\ Cardinality({f[x] : x \in S}) = Cardinality(S)
<1> DEFINE T == {f[x] : x \in S}
           h == [x \in S |-> f[x]]
<1>1. h \in [S -> T] /\ \A t \in T : \E x \in S : h[x] = t
  OBVIOUS
<1>2. \A x, y \in DOMAIN h : h[x] = h[y] => x = y
  OBVIOUS
<1> HIDE DEF T, h
<1>3. h \in Injection(S, T) /\ h \in Surjection(S, T)
  BY <1>1, <1>2 DEF Injection, Surjection, IsInjective
<1>4. IsFiniteSet(T) /\ Cardinality(T) = Cardinality(S)
  BY <1>3, FS_Surjection
<1> QED
  BY <1>4 DEF T

LEMMA SpansExact ==
  ASSUME NEW g, NEW direction, NEW root, NEW rows,
         IsFiniteSet(g.edges), Spans(rows, Below(g, direction), root, Ids(g))
  PROVE  /\ Exact(rows, root, Walked(g, direction), Ids(g))
         /\ Unfolded(rows)
<1> DEFINE I == Ids(g)
           below == Below(g, direction)
           needs == Walked(g, direction)
           first == {i \in DOMAIN rows : ~rows[i].duplicate}
           shown == {rows[i].id : i \in first}
<1>1. /\ below \in [I -> Seq(I)]
      /\ \A a, b \in I : Leads(below, a, b) <=> <<a, b>> \in needs
  BY BelowIs
<1> HIDE DEF below, needs, I
<1>2. Spans(rows, below, root, I)
  BY DEF below, I
<1>3. PICK n \in Nat : n = Len(rows) /\ DOMAIN rows = 1..n /\ \A i \in 1..n : rows[i] \in TreeRow(I)
  BY <1>2 DEF Spans
<1>4. \A x : x \in shown <=> Shown(rows, x)
  BY <1>3 DEF Shown
<1>5. Cardinality(shown) = Cardinality(first)
  <2> DEFINE f == [i \in first |-> rows[i].id]
  <2>1. IsFiniteSet(first)
    <3>1. first \in SUBSET (1..n) /\ IsFiniteSet(1..n)
      BY <1>3, FS_Interval
    <3> HIDE DEF first
    <3> QED
      BY <3>1, FS_Subset
  <2>2. \A x, y \in first : f[x] = f[y] => x = y
    BY <1>2, <1>3 DEF Spans
  <2>3. shown = {f[x] : x \in first} /\ DOMAIN f = first
    OBVIOUS
  <2> HIDE DEF f, first, shown
  <2> QED
    BY <2>1, <2>2, <2>3, SameSize
<1> HIDE DEF first, shown
<1>6. \A i \in 1..n : rows[i].id \in I /\ rows[i].key \in Seq(I)
  BY <1>3 DEF TreeRow
<1>7. ASSUME NEW p \in needs, p[1] \in shown, p[2] \in I
      PROVE  p[2] \in shown
  <2>1. p = <<p[1], p[2]>>
    <3>1. \A q \in Backward(Needs(g)) : q = <<q[1], q[2]>>
      BY DEF Backward
    <3> QED
      BY <3>1, NeedsPairs DEF needs, Walked
  <2>2. PICK i \in 1..n : ~rows[i].duplicate /\ rows[i].id = p[1]
    BY <1>3, <1>4, <1>7 DEF Shown
  <2>3. Leads(below, p[1], p[2])
    BY <1>1, <1>6, <1>7, <2>1, <2>2
  <2>4. Shown(rows, p[2])
    BY <1>2, <1>3, <1>7, <2>2, <2>3 DEF Spans
  <2> QED
    BY <1>4, <2>4
<1>8. ASSUME NEW i \in 1..n
      PROVE  /\ Len(rows[i].key) > 1 => <<rows[i].key[Len(rows[i].key) - 1], rows[i].id>> \in needs
             /\ rows[i].id \in shown
  <2> DEFINE key == rows[i].key
             m == Len(key)
  <2>1. Way(below, key, root, rows[i].id) /\ Shown(rows, rows[i].id)
    BY <1>2, <1>3 DEF Spans
  <2>2. key \in Seq(I)
    BY <1>6
  <2> HIDE DEF key
  <2>3. ASSUME m > 1 PROVE <<key[m - 1], rows[i].id>> \in needs
    <3>1. m \in Nat /\ m - 1 \in 1..(m - 1) /\ m - 1 \in 1..m /\ (m - 1) + 1 = m
      BY <2>2, <2>3
    <3>2. Leads(below, key[m - 1], key[(m - 1) + 1]) /\ key[m] = rows[i].id
      BY <2>1, <3>1 DEF Way
    <3>3. key[m - 1] \in I
      BY <2>2, <3>1
    <3> QED
      BY <1>1, <1>6, <3>1, <3>2, <3>3
  <2> QED
    BY <1>4, <2>1, <2>3 DEF key
<1>9. root \in shown
  BY <1>2, <1>4 DEF Spans
<1>10. Exact(rows, root, needs, I)
  BY <1>3, <1>7, <1>8, <1>9 DEF Exact, first, shown
<1>11. Unfolded(rows)
  BY <1>5 DEF Unfolded, first, shown
<1> QED
  BY <1>10, <1>11 DEF needs, I

FiniteGraph(g) == IsFiniteSet(g.nodes) /\ IsFiniteSet(g.edges)

LEMMA IdsFinite ==
  ASSUME NEW g, IsFiniteSet(g.nodes)
  PROVE  /\ IsFiniteSet(Ids(g)) /\ Cardinality(g.nodes) \in Nat
         /\ Cardinality(Ids(g)) <= Cardinality(g.nodes)
<1> DEFINE f == [n \in g.nodes |-> n.id]
<1>1. f \in Surjection(g.nodes, Ids(g))
  BY DEF Surjection, Ids
<1> QED
  BY <1>1, FS_Surjection, FS_CardinalityType

LEMMA BuildTreeSpans ==
  ASSUME NEW g, FiniteGraph(g), NEW root \in Ids(g), NEW direction
  PROVE  Spans(BuildTree(g, root, direction, Cardinality(g.nodes)),
               Below(g, direction), root, Ids(g))
<1> DEFINE below == Below(g, direction)
           I == Ids(g)
           depth == Cardinality(g.nodes)
<1>1. below \in [I -> Seq(I)]
  BY BelowIs DEF FiniteGraph
<1>2. IsFiniteSet(I) /\ depth \in Nat /\ Cardinality(I) <= depth
  BY IdsFinite DEF FiniteGraph
<1> HIDE DEF below, I, depth
<1>3. root \in I
  BY DEF I
<1>4. Spans(Traverse(below, depth)[<<root, {}>>].tree, below, root, I)
  BY <1>1, <1>2, <1>3, TraverseSpans
<1> QED
  BY <1>4 DEF BuildTree, below, I, depth

LEMMA RowsSpan ==
  ASSUME NEW I, NEW tree, NEW below, NEW root, Spans(tree, below, root, I)
  PROVE  Spans(Rows(tree, {}), below, root, I)
<1> DEFINE S == {i \in DOMAIN tree :
                   \A k \in 1..Len(tree[i].key) - 1 : SubSeq(tree[i].key, 1, k) \notin {}}
<1>1. DOMAIN tree = 1..Len(tree)
  BY DEF Spans
<1>2. S = 1..Len(tree)
  BY <1>1
<1>3. Rows(tree, {}) = Only(tree, S)
  BY DEF Rows
<1> HIDE DEF S
<1>4. S \in SUBSET (1..Len(tree)) /\ \A i \in 1..Len(tree) : ~tree[i].duplicate => i \in S
  BY <1>2
<1>5. Spans(Only(tree, S), below, root, I)
  BY <1>4, PickedSpans
<1> QED
  BY <1>3, <1>5

(* The trace has no leaves for nodes that are met again.                   *)
Alone(rows) == \A i \in 1..Len(rows) : ~rows[i].duplicate

LEMMA OnlyAlone ==
  ASSUME NEW X, NEW tree \in Seq(X), NEW S \in SUBSET (1..Len(tree)),
         \A i \in S : ~tree[i].duplicate
  PROVE  Alone(Only(tree, S))
<1> DEFINE rows == Only(tree, S)
<1>1. Picked(rows, tree, S, X)
  BY OnlyIs
<1> HIDE DEF rows
<1>2. PICK e : /\ Ordered(e, Len(rows), S)
               /\ \A k \in 1..Len(rows) : rows[k] = tree[e[k]]
  BY <1>1 DEF Picked
<1>3. \A k \in 1..Len(rows) : e[k] \in S
  BY <1>2 DEF Ordered
<1> QED
  BY <1>2, <1>3 DEF Alone, rows

LEMMA TraceSpans ==
  ASSUME NEW g, FiniteGraph(g), NEW root \in Ids(g)
  PROVE  /\ Spans(Rows(BuildTrace(g, root), {}), Below(g, "dependents"), root, Ids(g))
         /\ Alone(Rows(BuildTrace(g, root), {}))
<1> DEFINE tree == BuildTree(g, root, "dependents", Cardinality(g.nodes))
           I == Ids(g)
           below == Below(g, "dependents")
           S == {i \in DOMAIN tree : ~tree[i].duplicate}
           trace == Only(tree, S)
<1>1. Spans(tree, below, root, I)
  BY BuildTreeSpans
<1>2. BuildTrace(g, root) = trace
  BY DEF BuildTrace
<1> HIDE DEF tree, below, I
<1>3. tree \in Seq(TreeRow(I))
  BY <1>1 DEF Spans
<1>4. DOMAIN tree = 1..Len(tree)
  BY <1>3
<1>5. S \in SUBSET (1..Len(tree)) /\ \A i \in S : ~tree[i].duplicate
  BY <1>4
<1>6. \A i \in 1..Len(tree) : ~tree[i].duplicate => i \in S
  BY <1>4
<1> HIDE DEF S
<1>7. Spans(trace, below, root, I)
  BY <1>1, <1>5, <1>6, PickedSpans
<1>8. Alone(trace)
  BY <1>3, <1>5, OnlyAlone
<1> HIDE DEF trace
<1>9. trace \in Seq(TreeRow(I)) /\ DOMAIN trace = 1..Len(trace)
  BY <1>7 DEF Spans
<1> DEFINE U == {i \in DOMAIN trace :
                   \A k \in 1..Len(trace[i].key) - 1 : SubSeq(trace[i].key, 1, k) \notin {}}
<1>10. U = 1..Len(trace)
  BY <1>9
<1>11. Rows(trace, {}) = Only(trace, U)
  BY DEF Rows
<1> HIDE DEF U
<1>12. Alone(Rows(trace, {}))
  <2>1. \A i \in U : ~trace[i].duplicate
    BY <1>8, <1>10 DEF Alone
  <2> QED
    BY <1>9, <1>10, <1>11, <2>1, OnlyAlone
<1>13. Spans(Rows(trace, {}), below, root, I)
  BY <1>7, RowsSpan
<1> QED
  BY <1>2, <1>12, <1>13 DEF below, I

LEMMA KeysTell ==
  ASSUME NEW I, NEW rows, NEW below, NEW root, Spans(rows, below, root, I), Alone(rows)
  PROVE  Cardinality({r.key : r \in ToSet(rows)}) = Len(rows)
<1>1. PICK n \in Nat : n = Len(rows) /\ DOMAIN rows = 1..n
  BY DEF Spans
<1> DEFINE f == [i \in 1..n |-> rows[i].key]
<1>2. ASSUME NEW i \in 1..n, NEW j \in 1..n, f[i] = f[j] PROVE i = j
  <2>1. rows[i].key[Len(rows[i].key)] = rows[i].id /\ rows[j].key[Len(rows[j].key)] = rows[j].id
    BY <1>1 DEF Spans, Way
  <2>2. rows[i].id = rows[j].id
    BY <1>2, <2>1
  <2> QED
    BY <1>1, <2>2 DEF Spans, Alone
<1>3. {r.key : r \in ToSet(rows)} = {f[i] : i \in 1..n}
  BY <1>1 DEF ToSet
<1>4. IsFiniteSet(1..n) /\ Cardinality(1..n) = n
  BY FS_Interval
<1>5. DOMAIN f = 1..n
  OBVIOUS
<1> HIDE DEF f
<1>6. Cardinality({f[i] : i \in 1..n}) = Cardinality(1..n)
  BY <1>2, <1>4, <1>5, SameSize
<1> QED
  BY <1>1, <1>3, <1>4, <1>6

(* What a way leads from, the other walk shows from the end of the way.    *)
LEMMA ShownBack ==
  ASSUME NEW I, NEW below, NEW back, NEW root, NEW rows, Spans(rows, back, root, I),
         \A a, b \in I : Leads(below, a, b) => Leads(back, b, a),
         NEW from \in I, NEW key \in Seq(I), Way(below, key, from, root)
  PROVE  Shown(rows, from)
<1> DEFINE n == Len(key)
           T == {k \in Nat : k < n => Shown(rows, key[n - k])}
<1>1. n \in Nat /\ n >= 1 /\ key[1] = from /\ key[n] = root /\ \A j \in 1..n : key[j] \in I
  BY DEF Way
<1>2. 0 \in T
  BY <1>1 DEF Spans
<1>3. ASSUME NEW k \in Nat, k \in T, k + 1 < n PROVE Shown(rows, key[n - (k + 1)])
  <2> DEFINE j == n - (k + 1)
  <2>1. j \in 1..(n - 1) /\ j \in 1..n /\ j + 1 \in 1..n /\ j + 1 = n - k /\ k < n
    BY <1>1, <1>3
  <2>2. Shown(rows, key[j + 1])
    BY <1>3, <2>1
  <2> HIDE DEF j
  <2>3. Leads(below, key[j], key[j + 1])
    BY <2>1 DEF Way
  <2>4. Leads(back, key[j + 1], key[j])
    BY <1>1, <2>1, <2>3
  <2>5. PICK i \in 1..Len(rows) : rows[i].id = key[j + 1]
    BY <2>2 DEF Shown
  <2>6. Shown(rows, key[j])
    BY <1>1, <2>1, <2>4, <2>5 DEF Spans
  <2> QED
    BY <2>6 DEF j
<1>4. Nat \subseteq T
  <2>1. \A k \in Nat : k \in T => k + 1 \in T
    BY <1>3
  <2> HIDE DEF T
  <2> QED
    BY <1>2, <2>1, AllNaturals
<1>5. n - 1 \in Nat /\ n - 1 < n /\ n - (n - 1) = 1
  BY <1>1
<1>6. n - 1 \in T
  BY <1>4, <1>5
<1> QED
  BY <1>1, <1>5, <1>6

LEMMA BackAndForth ==
  ASSUME NEW g, FiniteGraph(g), NEW a \in Ids(g), NEW b \in Ids(g)
  PROVE  /\ Leads(Below(g, "dependents"), a, b) => Leads(Below(g, "dependencies"), b, a)
         /\ Leads(Below(g, "dependencies"), a, b) => Leads(Below(g, "dependents"), b, a)
<1>1. \A x, y \in Ids(g) :
         /\ Leads(Below(g, "dependencies"), x, y) <=> <<x, y>> \in Needs(g)
         /\ Leads(Below(g, "dependents"), x, y) <=> <<x, y>> \in Backward(Needs(g))
  BY BelowIs DEF FiniteGraph, Walked
<1>2. \A x, y : <<x, y>> \in Backward(Needs(g)) <=> <<y, x>> \in Needs(g)
  BY NeedsPairs, BackwardIs
<1> QED
  BY <1>1, <1>2

(* A row of a node in the one walk is a row of the root in the other.      *)
Opposite(a, b) == {a, b} = {"dependencies", "dependents"}

LEMMA RowsMeet ==
  ASSUME NEW g, FiniteGraph(g), NEW this, NEW that, Opposite(this, that),
         NEW root \in Ids(g), NEW other \in Ids(g), NEW rows, NEW from,
         Spans(rows, Below(g, this), root, Ids(g)),
         Spans(from, Below(g, that), other, Ids(g)),
         \E r \in ToSet(rows) : r.id = other
  PROVE  \E r \in ToSet(from) : r.id = root
<1> DEFINE I == Ids(g)
           below == Below(g, this)
           back == Below(g, that)
<1>1. \A a, b \in I : Leads(below, a, b) => Leads(back, b, a)
  BY BackAndForth DEF Opposite
<1> HIDE DEF below, back, I
<1>2. Spans(rows, below, root, I) /\ Spans(from, back, other, I) /\ root \in I
  BY DEF below, back, I
<1>3. rows \in Seq(TreeRow(I)) /\ from \in Seq(TreeRow(I))
  BY <1>2 DEF Spans
<1>4. DOMAIN rows = 1..Len(rows) /\ DOMAIN from = 1..Len(from)
  BY <1>3
<1>5. PICK i \in 1..Len(rows) : rows[i].id = other
  BY <1>4 DEF ToSet
<1>6. Way(below, rows[i].key, root, other)
  BY <1>2, <1>5 DEF Spans
<1>7. rows[i].key \in Seq(I)
  <2>1. rows[i] \in TreeRow(I)
    BY <1>3, <1>5
  <2> QED
    BY <2>1 DEF TreeRow
<1>8. Shown(from, root)
  <2> DEFINE key == rows[i].key
  <2>1. key \in Seq(I) /\ Way(below, key, root, other)
    BY <1>6, <1>7
  <2> HIDE DEF key
  <2> QED
    BY <1>1, <1>2, <2>1, ShownBack
<1> QED
  BY <1>4, <1>8 DEF Shown, ToSet

LEMMA AffectedIs ==
  ASSUME NEW g, FiniteGraph(g), NEW t \in Ids(g)
  PROVE  AffectedComponents(g, t) =
            {n \in g.nodes :
               /\ n.kind \in {"vue-component", "vue-composable", "pinia-store"}
               /\ \E r \in ToSet(Rows(BuildTree(g, n.id, "dependencies", Cardinality(g.nodes)), {})) :
                     r.id = t}
<1> DEFINE trace == Rows(BuildTrace(g, t), {})
           rows(id) == Rows(BuildTree(g, id, "dependencies", Cardinality(g.nodes)), {})
<1>1. Spans(trace, Below(g, "dependents"), t, Ids(g))
  BY TraceSpans
<1>2. ASSUME NEW n \in g.nodes
      PROVE  (\E r \in ToSet(trace) : r.id = n.id) <=> (\E r \in ToSet(rows(n.id)) : r.id = t)
  <2>1. n.id \in Ids(g)
    BY DEF Ids
  <2>2. Spans(rows(n.id), Below(g, "dependencies"), n.id, Ids(g))
    BY <2>1, BuildTreeSpans, RowsSpan
  <2>3. Opposite("dependents", "dependencies") /\ Opposite("dependencies", "dependents")
    BY DEF Opposite
  <2> HIDE DEF trace, rows
  <2> DEFINE its == rows(n.id)
             id == n.id
  <2>4. /\ Spans(its, Below(g, "dependencies"), id, Ids(g)) /\ id \in Ids(g)
    BY <2>1, <2>2
  <2> HIDE DEF its, id
  <2>5. (\E r \in ToSet(trace) : r.id = id) => (\E r \in ToSet(its) : r.id = t)
    BY <1>1, <2>3, <2>4, RowsMeet
  <2>6. (\E r \in ToSet(its) : r.id = t) => (\E r \in ToSet(trace) : r.id = id)
    BY <1>1, <2>3, <2>4, RowsMeet
  <2> QED
    BY <2>5, <2>6 DEF its, id
<1>3. AffectedComponents(g, t) =
         {n \in g.nodes : /\ n.kind \in {"vue-component", "vue-composable", "pinia-store"}
                          /\ \E r \in ToSet(trace) : r.id = n.id}
  BY DEF AffectedComponents
<1> HIDE DEF trace, rows
<1>4. AffectedComponents(g, t) =
         {n \in g.nodes : /\ n.kind \in {"vue-component", "vue-composable", "pinia-store"}
                          /\ \E r \in ToSet(rows(n.id)) : r.id = t}
  BY <1>2, <1>3
<1> QED
  BY <1>4 DEF rows

LEMMA FilteredFinite ==
  ASSUME NEW g, FiniteGraph(g), NEW kinds
  PROVE  FiniteGraph(Filtered(g, kinds))
<1>1. /\ Filtered(g, kinds).nodes \in SUBSET g.nodes
      /\ Filtered(g, kinds).edges \in SUBSET g.edges
  BY DEF Filtered
<1> QED
  BY <1>1, FS_Subset DEF FiniteGraph

LEMMA BothExact ==
  ASSUME NEW g, FiniteGraph(g), NEW id \in Ids(g)
  PROVE  /\ Exact(Rows(BuildTree(g, id, "dependencies", Cardinality(g.nodes)), {}), id,
                  Needs(g), Ids(g))
         /\ Exact(Rows(BuildTree(g, id, "dependents", Cardinality(g.nodes)), {}), id,
                  Backward(Needs(g)), Ids(g))
         /\ Unfolded(Rows(BuildTree(g, id, "dependencies", Cardinality(g.nodes)), {}))
         /\ Unfolded(Rows(BuildTree(g, id, "dependents", Cardinality(g.nodes)), {}))
<1>1. ASSUME NEW direction
      PROVE  /\ Exact(Rows(BuildTree(g, id, direction, Cardinality(g.nodes)), {}), id,
                      Walked(g, direction), Ids(g))
             /\ Unfolded(Rows(BuildTree(g, id, direction, Cardinality(g.nodes)), {}))
  BY BuildTreeSpans, RowsSpan, SpansExact DEF FiniteGraph
<1>2. Walked(g, "dependencies") = Needs(g) /\ Walked(g, "dependents") = Backward(Needs(g))
  BY DEF Walked
<1> QED
  BY <1>1, <1>2

LEMMA TreesAreExact ==
  ASSUME FiniteGraph(graph)
  PROVE  TreesExact
<1> DEFINE all    == {n.kind : n \in graph.nodes}
           kinds(hidden) == [nodes |-> all \ {hidden}, edges |-> {e.kind : e \in graph.edges}]
           tables == {n.id : n \in {x \in graph.nodes : x.kind = "db-table"}}
           rows(g, id, direction) == Rows(BuildTree(g, id, direction, Cardinality(g.nodes)), {})
<1>1. ASSUME NEW hidden, NEW id \in Ids(Filtered(graph, kinds(hidden)))
      PROVE  LET g == Filtered(graph, kinds(hidden)) IN
             /\ Exact(rows(g, id, "dependencies"), id, Needs(g), Ids(g))
             /\ Exact(rows(g, id, "dependents"), id, Backward(Needs(g)), Ids(g))
             /\ Unfolded(rows(g, id, "dependencies"))
             /\ Unfolded(rows(g, id, "dependents"))
  BY FilteredFinite, BothExact
<1>2. ASSUME NEW t \in tables
      PROVE  LET trace == Rows(BuildTrace(graph, t), {}) IN
             /\ Exact(trace, t, Backward(Needs(graph)), Ids(graph))
             /\ Cardinality({r.key : r \in ToSet(trace)}) = Len(trace)
             /\ AffectedComponents(graph, t) =
                    {n \in graph.nodes :
                        /\ n.kind \in {"vue-component", "vue-composable", "pinia-store"}
                        /\ \E r \in ToSet(rows(graph, n.id, "dependencies")) : r.id = t}
  <2> DEFINE trace == Rows(BuildTrace(graph, t), {})
  <2>1. t \in Ids(graph)
    BY DEF Ids
  <2>2. Spans(trace, Below(graph, "dependents"), t, Ids(graph)) /\ Alone(trace)
    BY <2>1, TraceSpans
  <2> HIDE DEF trace
  <2>3. Walked(graph, "dependents") = Backward(Needs(graph))
    BY DEF Walked
  <2>4. Exact(trace, t, Backward(Needs(graph)), Ids(graph))
    BY <2>2, <2>3, SpansExact DEF FiniteGraph
  <2>5. Cardinality({r.key : r \in ToSet(trace)}) = Len(trace)
    BY <2>2, KeysTell
  <2>6. AffectedComponents(graph, t) =
                    {n \in graph.nodes :
                        /\ n.kind \in {"vue-component", "vue-composable", "pinia-store"}
                        /\ \E r \in ToSet(rows(graph, n.id, "dependencies")) : r.id = t}
    BY <2>1, AffectedIs
  <2> QED
    BY <2>4, <2>5, <2>6 DEF trace
<1> HIDE DEF all, kinds, tables, rows
<1> QED
  BY <1>1, <1>2 DEF TreesExact, Ids, Backward, all, kinds, tables, rows

---------------------------------------------------------------------------
(* What is linked stays finite.                                            *)
LEMMA ImageFinite ==
  ASSUME NEW S, IsFiniteSet(S), NEW f
  PROVE  IsFiniteSet({f[x] : x \in S})
<1> DEFINE T == {f[x] : x \in S}
           h == [x \in S |-> f[x]]
<1>1. h \in [S -> T] /\ \A t \in T : \E x \in S : h[x] = t
  OBVIOUS
<1> HIDE DEF T, h
<1>2. h \in Surjection(S, T)
  BY <1>1 DEF Surjection
<1>3. IsFiniteSet(T)
  BY <1>2, FS_Surjection
<1> QED
  BY <1>3 DEF T

(* Things that are put one after the other.                                *)
Placed(T, S) == FoldSet(LAMBDA x, D : Put(D, x), T, S)

Placing(S, G) == [p \in S \X G |-> Put(p[2], p[1])]

LEMMA PlacedFold ==
  ASSUME NEW S, IsFiniteSet(S), NEW G, NEW g \in G,
         \A x \in S, h \in G : Put(h, x) \in G
  PROVE  Placed(g, S) \in G
<1> DEFINE pick == First(S)
           o == Placing(S, G)
           Step(f, s) ==
               IF s = {} THEN g
               ELSE Put(f[s \ {CHOOSE x \in s : TRUE}], (CHOOSE x \in s : TRUE))
           Eq(f) == f = [s \in SUBSET S |-> Step(f, s)]
           iter == CHOOSE f : Eq(f)
<1>1. Placed(g, S) = iter[S]
  BY DEF Placed, FoldSet, MapThenFoldSet
<1>2. Picks(pick, S) /\ \A s \in SUBSET S : pick[s] = CHOOSE x \in s : TRUE
  BY FirstPicks DEF First
<1>3. \A x \in S, h \in G : o[<<x, h>>] = Put(h, x)
  BY DEF Placing
<1>4. Within(o, S, G)
  BY <1>3 DEF Within
<1> HIDE DEF pick, o
<1>5. ASSUME NEW f, NEW s \in SUBSET S, s # {}, f[s \ {pick[s]}] \in G
      PROVE  Step(f, s) = o[<<pick[s], f[s \ {pick[s]}]>>]
  <2>1. pick[s] \in S
    BY <1>2, <1>5 DEF Picks
  <2> QED
    BY <1>2, <1>3, <1>5, <2>1
<1>6. \A f : Step(f, {}) = g
  OBVIOUS
<1> HIDE DEF Step
<1>7. \E f : Eq(f)
  <2>1. PICK f \in [SUBSET S -> G] : Iterates(f, S, g, pick, o)
    BY Zenon, <1>2, <1>4, IterationExists
  <2>2. ASSUME NEW s \in SUBSET S
        PROVE  f[s] = Step(f, s)
    <3>1. s # {} => f[s \ {pick[s]}] \in G
      BY <1>2 DEF Picks
    <3> QED
      BY <1>5, <1>6, <2>1, <3>1 DEF Iterates
  <2>3. f = [s \in SUBSET S |-> f[s]]
    OBVIOUS
  <2> QED
    BY Zenon, <2>2, <2>3
<1>8. Eq(iter)
  <2> HIDE DEF Eq
  <2> QED
    BY <1>7
<1> HIDE DEF iter
<1>9. /\ iter = [s \in SUBSET S |-> iter[s]]
      /\ iter[{}] = g
      /\ \A s \in SUBSET S : s # {} /\ iter[s \ {pick[s]}] \in G =>
            iter[s] = o[<<pick[s], iter[s \ {pick[s]}]>>]
  BY <1>5, <1>6, <1>8
<1>10. IsFold(iter[S], S, G, g, pick, o)
  BY Zenon, <1>2, <1>4, <1>9, FoldIs
<1> QED
  BY <1>1, <1>10 DEF IsFold

LEMMA PlacedFinite ==
  ASSUME NEW T, IsFiniteSet(T), NEW S, IsFiniteSet(S)
  PROVE  Placed(T, S) \in SUBSET (T \cup S) /\ IsFiniteSet(Placed(T, S))
<1>1. \A x \in S, D \in SUBSET (T \cup S) : Put(D, x) \in SUBSET (T \cup S)
  BY DEF Put
<1>2. Placed(T, S) \in SUBSET (T \cup S)
  BY <1>1, PlacedFold
<1> QED
  BY <1>2, FS_Union, FS_Subset

(* A graph, and what is in it.                                             *)
Shaped(g) == g = [nodes |-> g.nodes, edges |-> g.edges, order |-> g.order]

Linkable(g) == Shaped(g) /\ FiniteGraph(g)

(* A part of a graph is changed, or two.                                   *)
LEMMA NodesExcept ==
  ASSUME NEW g, Shaped(g), NEW N
  PROVE  [g EXCEPT !.nodes = N] = [nodes |-> N, edges |-> g.edges, order |-> g.order]
<1> DEFINE M == g.nodes
           E == g.edges
           p == g.order
<1>1. g = [nodes |-> M, edges |-> E, order |-> p]
  BY DEF Shaped
<1> HIDE DEF M, E, p
<1>2. [g EXCEPT !.nodes = N] = [nodes |-> N, edges |-> E, order |-> p]
  BY <1>1
<1> QED
  BY <1>2 DEF M, E, p

LEMMA EdgesExcept ==
  ASSUME NEW g, Shaped(g), NEW D
  PROVE  [g EXCEPT !.edges = D] = [nodes |-> g.nodes, edges |-> D, order |-> g.order]
<1> DEFINE M == g.nodes
           E == g.edges
           p == g.order
<1>1. g = [nodes |-> M, edges |-> E, order |-> p]
  BY DEF Shaped
<1> HIDE DEF M, E, p
<1>2. [g EXCEPT !.edges = D] = [nodes |-> M, edges |-> D, order |-> p]
  BY <1>1
<1> QED
  BY <1>2 DEF M, E, p

LEMMA OrderExcept ==
  ASSUME NEW g, Shaped(g), NEW q
  PROVE  [g EXCEPT !.order = q] = [nodes |-> g.nodes, edges |-> g.edges, order |-> q]
<1> DEFINE M == g.nodes
           E == g.edges
           p == g.order
<1>1. g = [nodes |-> M, edges |-> E, order |-> p]
  BY DEF Shaped
<1> HIDE DEF M, E, p
<1>2. [g EXCEPT !.order = q] = [nodes |-> M, edges |-> E, order |-> q]
  BY <1>1
<1> QED
  BY <1>2 DEF M, E, p

LEMMA TwoExcept ==
  ASSUME NEW g, Shaped(g), NEW N, NEW D, NEW q
  PROVE  /\ [g EXCEPT !.nodes = N, !.edges = D] = [nodes |-> N, edges |-> D, order |-> g.order]
         /\ [g EXCEPT !.nodes = N, !.order = q] = [nodes |-> N, edges |-> g.edges, order |-> q]
<1> DEFINE h == [g EXCEPT !.nodes = N]
<1>1. /\ [g EXCEPT !.nodes = N, !.edges = D] = [h EXCEPT !.edges = D]
      /\ [g EXCEPT !.nodes = N, !.order = q] = [h EXCEPT !.order = q]
  OBVIOUS
<1>2. h = [nodes |-> N, edges |-> g.edges, order |-> g.order]
  BY NodesExcept
<1> HIDE DEF h
<1>3. Shaped(h) /\ h.nodes = N /\ h.edges = g.edges /\ h.order = g.order
  BY <1>2 DEF Shaped
<1>4. [h EXCEPT !.edges = D] = [nodes |-> N, edges |-> D, order |-> g.order]
  BY <1>3, EdgesExcept
<1>5. [h EXCEPT !.order = q] = [nodes |-> N, edges |-> g.edges, order |-> q]
  BY <1>3, OrderExcept
<1> QED
  BY <1>1, <1>4, <1>5

LEMMA AddEdgesIs ==
  ASSUME NEW g, Linkable(g), NEW E, IsFiniteSet(E)
  PROVE  /\ Linkable(AddEdges(g, E))
         /\ AddEdges(g, E).nodes = g.nodes /\ AddEdges(g, E).order = g.order
         /\ AddEdges(g, E).edges \in SUBSET (g.edges \cup E)
<1> DEFINE P == Placed(g.edges, E)
<1>1. AddEdges(g, E) = [g EXCEPT !.edges = P]
  BY DEF AddEdges, Placed
<1>2. P \in SUBSET (g.edges \cup E) /\ IsFiniteSet(P)
  BY PlacedFinite DEF Linkable, FiniteGraph
<1> HIDE DEF P
<1>3. AddEdges(g, E) = [nodes |-> g.nodes, edges |-> P, order |-> g.order]
  BY <1>1, EdgesExcept DEF Linkable
<1> QED
  BY <1>2, <1>3 DEF Linkable, Shaped, FiniteGraph

LEMMA AddFileIs ==
  ASSUME NEW g, Linkable(g), NEW f,
         IsFiniteSet(ParseFile(f).nodes), IsFiniteSet(ParseFile(f).edges)
  PROVE  Linkable(AddFile(g, f))
<1> DEFINE N == Placed(g.nodes, ParseFile(f).nodes)
           q == Append(g.order, f.path)
           h == [g EXCEPT !.nodes = N, !.order = q]
<1>1. AddFile(g, f) = AddEdges(h, ParseFile(f).edges)
  BY DEF AddFile, Placed
<1>2. IsFiniteSet(N)
  BY PlacedFinite DEF Linkable, FiniteGraph
<1>3. h = [nodes |-> N, edges |-> g.edges, order |-> q]
  <2>1. Shaped(g)
    BY DEF Linkable
  <2> HIDE DEF N, q
  <2> QED
    BY <2>1, TwoExcept
<1> HIDE DEF N, q, h
<1>4. Linkable(h)
  BY <1>2, <1>3 DEF Linkable, Shaped, FiniteGraph
<1> QED
  BY <1>1, <1>4, AddEdgesIs

(* Edges that are moved one after the other.                                *)
MovesDone(g, S) == FoldSet(LAMBDA p, h : Move(h, p[1], p[2].id), g, S)

Moving(S, G) == [p \in S \X G |-> Move(p[2], p[1][1], p[1][2].id)]

LEMMA MovesFold ==
  ASSUME NEW S, IsFiniteSet(S), NEW G, NEW g \in G,
         \A x \in S, h \in G : Move(h, x[1], x[2].id) \in G
  PROVE  MovesDone(g, S) \in G
<1> DEFINE pick == First(S)
           o == Moving(S, G)
           Does(h, x) == Move(h, x[1], x[2].id)
           Step(f, s) ==
               IF s = {} THEN g
               ELSE Does(f[s \ {CHOOSE x \in s : TRUE}], (CHOOSE x \in s : TRUE))
           Eq(f) == f = [s \in SUBSET S |-> Step(f, s)]
           iter == CHOOSE f : Eq(f)
<1>1. MovesDone(g, S) = iter[S]
  BY DEF MovesDone, FoldSet, MapThenFoldSet
<1>2. Picks(pick, S) /\ \A s \in SUBSET S : pick[s] = CHOOSE x \in s : TRUE
  BY FirstPicks DEF First
<1>3. \A x \in S, h \in G : o[<<x, h>>] = Does(h, x)
  BY DEF Moving
<1>4. Within(o, S, G)
  BY <1>3 DEF Within
<1> HIDE DEF pick, o, Does
<1>5. ASSUME NEW f, NEW s \in SUBSET S, s # {}, f[s \ {pick[s]}] \in G
      PROVE  Step(f, s) = o[<<pick[s], f[s \ {pick[s]}]>>]
  <2>1. pick[s] \in S
    BY <1>2, <1>5 DEF Picks
  <2> QED
    BY <1>2, <1>3, <1>5, <2>1
<1>6. \A f : Step(f, {}) = g
  OBVIOUS
<1> HIDE DEF Step
<1>7. \E f : Eq(f)
  <2>1. PICK f \in [SUBSET S -> G] : Iterates(f, S, g, pick, o)
    BY Zenon, <1>2, <1>4, IterationExists
  <2>2. ASSUME NEW s \in SUBSET S
        PROVE  f[s] = Step(f, s)
    <3>1. s # {} => f[s \ {pick[s]}] \in G
      BY <1>2 DEF Picks
    <3> QED
      BY <1>5, <1>6, <2>1, <3>1 DEF Iterates
  <2>3. f = [s \in SUBSET S |-> f[s]]
    OBVIOUS
  <2> QED
    BY Zenon, <2>2, <2>3
<1>8. Eq(iter)
  <2> HIDE DEF Eq
  <2> QED
    BY <1>7
<1> HIDE DEF iter
<1>9. /\ iter = [s \in SUBSET S |-> iter[s]]
      /\ iter[{}] = g
      /\ \A s \in SUBSET S : s # {} /\ iter[s \ {pick[s]}] \in G =>
            iter[s] = o[<<pick[s], iter[s \ {pick[s]}]>>]
  BY <1>5, <1>6, <1>8
<1>10. IsFold(iter[S], S, G, g, pick, o)
  BY Zenon, <1>2, <1>4, <1>9, FoldIs
<1> QED
  BY <1>1, <1>10 DEF IsFold

(* Listeners that are moved one after the other.                            *)
HeardDone(g, S) == FoldSet(LAMBDA t, h : Listen(h, t[1], t[2], t[3]), g, S)

Hearing(S, G) == [p \in S \X G |-> Listen(p[2], p[1][1], p[1][2], p[1][3])]

LEMMA HeardFold ==
  ASSUME NEW S, IsFiniteSet(S), NEW G, NEW g \in G,
         \A x \in S, h \in G : Listen(h, x[1], x[2], x[3]) \in G
  PROVE  HeardDone(g, S) \in G
<1> DEFINE pick == First(S)
           o == Hearing(S, G)
           Does(h, x) == Listen(h, x[1], x[2], x[3])
           Step(f, s) ==
               IF s = {} THEN g
               ELSE Does(f[s \ {CHOOSE x \in s : TRUE}], (CHOOSE x \in s : TRUE))
           Eq(f) == f = [s \in SUBSET S |-> Step(f, s)]
           iter == CHOOSE f : Eq(f)
<1>1. HeardDone(g, S) = iter[S]
  BY DEF HeardDone, FoldSet, MapThenFoldSet
<1>2. Picks(pick, S) /\ \A s \in SUBSET S : pick[s] = CHOOSE x \in s : TRUE
  BY FirstPicks DEF First
<1>3. \A x \in S, h \in G : o[<<x, h>>] = Does(h, x)
  BY DEF Hearing
<1>4. Within(o, S, G)
  BY <1>3 DEF Within
<1> HIDE DEF pick, o, Does
<1>5. ASSUME NEW f, NEW s \in SUBSET S, s # {}, f[s \ {pick[s]}] \in G
      PROVE  Step(f, s) = o[<<pick[s], f[s \ {pick[s]}]>>]
  <2>1. pick[s] \in S
    BY <1>2, <1>5 DEF Picks
  <2> QED
    BY <1>2, <1>3, <1>5, <2>1
<1>6. \A f : Step(f, {}) = g
  OBVIOUS
<1> HIDE DEF Step
<1>7. \E f : Eq(f)
  <2>1. PICK f \in [SUBSET S -> G] : Iterates(f, S, g, pick, o)
    BY Zenon, <1>2, <1>4, IterationExists
  <2>2. ASSUME NEW s \in SUBSET S
        PROVE  f[s] = Step(f, s)
    <3>1. s # {} => f[s \ {pick[s]}] \in G
      BY <1>2 DEF Picks
    <3> QED
      BY <1>5, <1>6, <2>1, <3>1 DEF Iterates
  <2>3. f = [s \in SUBSET S |-> f[s]]
    OBVIOUS
  <2> QED
    BY Zenon, <2>2, <2>3
<1>8. Eq(iter)
  <2> HIDE DEF Eq
  <2> QED
    BY <1>7
<1> HIDE DEF iter
<1>9. /\ iter = [s \in SUBSET S |-> iter[s]]
      /\ iter[{}] = g
      /\ \A s \in SUBSET S : s # {} /\ iter[s \ {pick[s]}] \in G =>
            iter[s] = o[<<pick[s], iter[s \ {pick[s]}]>>]
  BY <1>5, <1>6, <1>8
<1>10. IsFold(iter[S], S, G, g, pick, o)
  BY Zenon, <1>2, <1>4, <1>9, FoldIs
<1> QED
  BY <1>1, <1>10 DEF IsFold

Graphs(W, U, q) == [nodes : SUBSET W, edges : SUBSET U, order : {q}]

LEMMA GraphsAre ==
  ASSUME NEW W, IsFiniteSet(W), NEW U, IsFiniteSet(U), NEW q, NEW h \in Graphs(W, U, q)
  PROVE  Linkable(h) /\ h.order = q /\ h.nodes \in SUBSET W /\ h.edges \in SUBSET U
<1>1. h.order = q /\ h.nodes \in SUBSET W /\ h.edges \in SUBSET U
  BY DEF Graphs
<1>2. Shaped(h)
  BY DEF Graphs, Shaped
<1> QED
  BY <1>1, <1>2, FS_Subset DEF Linkable, FiniteGraph

LEMMA GraphsHave ==
  ASSUME NEW W, NEW U, NEW q, NEW N \in SUBSET W, NEW D \in SUBSET U
  PROVE  [nodes |-> N, edges |-> D, order |-> q] \in Graphs(W, U, q)
  BY DEF Graphs

LEMMA LinkableIn ==
  ASSUME NEW g, Linkable(g), NEW W, NEW U, g.nodes \subseteq W, g.edges \subseteq U
  PROVE  g \in Graphs(W, U, g.order)
<1>1. [nodes |-> g.nodes, edges |-> g.edges, order |-> g.order] \in Graphs(W, U, g.order)
  BY GraphsHave
<1> QED
  BY <1>1 DEF Linkable, Shaped

LEMMA MoveIn ==
  ASSUME NEW W, IsFiniteSet(W), NEW U, IsFiniteSet(U), NEW q, NEW h \in Graphs(W, U, q),
         NEW e, NEW id, MovedTo(e, id) \in U
  PROVE  Move(h, e, id) \in Graphs(W, U, q)
<1> DEFINE D == Put(h.edges \ {e}, MovedTo(e, id))
<1>1. Linkable(h) /\ h.order = q /\ h.nodes \in SUBSET W /\ h.edges \in SUBSET U
  BY GraphsAre
<1>2. D \in SUBSET U
  BY <1>1 DEF Put
<1>3. Move(h, e, id) = [h EXCEPT !.edges = D]
  BY DEF Move
<1> HIDE DEF D
<1>4. Move(h, e, id) = [nodes |-> h.nodes, edges |-> D, order |-> q]
  BY <1>1, <1>3, EdgesExcept DEF Linkable
<1> QED
  BY <1>1, <1>2, <1>4, GraphsHave

LEMMA MoveAllIs ==
  ASSUME NEW g, Linkable(g), NEW found, DOMAIN found \subseteq g.edges,
         \A e \in DOMAIN found : found[e] \subseteq g.nodes
  PROVE  Linkable(MoveAll(g, found))
<1> DEFINE S == UNION {{e} \X found[e] : e \in DOMAIN found}
           P == g.edges \X g.nodes
           f == [p \in P |-> MovedTo(p[1], p[2].id)]
           U == g.edges \cup {f[p] : p \in P}
<1>1. MoveAll(g, found) = MovesDone(g, S)
  BY DEF MoveAll, MovesDone
<1>2. S \in SUBSET P
  <2> SUFFICES ASSUME NEW p \in S PROVE p \in P
    OBVIOUS
  <2>1. PICK e \in DOMAIN found : p \in {e} \X found[e]
    OBVIOUS
  <2> QED
    BY <2>1
<1>3. IsFiniteSet(P)
  BY FS_Product DEF Linkable, FiniteGraph
<1>4. IsFiniteSet({f[p] : p \in P})
  <2> HIDE DEF f, P
  <2> QED
    BY <1>3, ImageFinite
<1>5. IsFiniteSet(U) /\ IsFiniteSet(g.nodes)
  BY <1>4, FS_Union DEF Linkable, FiniteGraph
<1>6. IsFiniteSet(S)
  BY <1>2, <1>3, FS_Subset
<1>7. \A p \in S : MovedTo(p[1], p[2].id) \in U
  <2> HIDE DEF S
  <2> SUFFICES ASSUME NEW p \in S PROVE MovedTo(p[1], p[2].id) \in U
    OBVIOUS
  <2>1. p \in P /\ f[p] = MovedTo(p[1], p[2].id)
    BY <1>2
  <2> HIDE DEF f
  <2> QED
    BY <2>1
<1> DEFINE G == Graphs(g.nodes, U, g.order)
<1>8. g \in G
  <2>1. g.edges \subseteq U
    OBVIOUS
  <2> HIDE DEF U
  <2> QED
    BY <2>1, LinkableIn
<1> HIDE DEF U, S
<1>9. \A p \in S, h \in G : Move(h, p[1], p[2].id) \in G
  BY <1>5, <1>7, MoveIn
<1>10. MovesDone(g, S) \in G
  <2> HIDE DEF G
  <2> QED
    BY <1>6, <1>8, <1>9, MovesFold
<1>11. Linkable(MovesDone(g, S))
  BY <1>5, <1>10, GraphsAre
<1> QED
  BY <1>1, <1>11

(* The lookups find nodes of the graph.                                    *)
LEMMA Found ==
  ASSUME NEW g
  PROVE  /\ \A N : LastOf(g, N) \subseteq N /\ FirstOf(g, N) \subseteq N
         /\ \A kinds : OfKind(g, kinds) \subseteq g.nodes
         /\ \A kind, label : Labelled(g, kind, label) \subseteq g.nodes
         /\ \A kind, name : Exporting(g, kind, name) \subseteq g.nodes
<1>1. \A kinds : OfKind(g, kinds) \subseteq g.nodes
  BY DEF OfKind
<1>2. \A kind, label : Labelled(g, kind, label) \subseteq g.nodes
  BY <1>1 DEF Labelled
<1>3. \A kind, name : Exporting(g, kind, name) \subseteq g.nodes
  BY <1>1 DEF Exporting
<1>4. \A N : LastOf(g, N) \subseteq N /\ FirstOf(g, N) \subseteq N
  BY DEF LastOf, FirstOf
<1> QED
  BY <1>1, <1>2, <1>3, <1>4

LEMMA NamesFound ==
  ASSUME NEW g
  PROVE  /\ \A name : /\ ComponentNamed(g, name) \subseteq g.nodes
                      /\ StoreNamed(g, name) \subseteq g.nodes
                      /\ ComposableNamed(g, name) \subseteq g.nodes
                      /\ BeanNamed(g, name) \subseteq g.nodes
         /\ \A e : Imported(g, e) \subseteq g.nodes
<1>1. ASSUME NEW name PROVE ComponentNamed(g, name) \subseteq g.nodes
  BY Found, Zenon DEF ComponentNamed
<1>2. ASSUME NEW name PROVE StoreNamed(g, name) \subseteq g.nodes
  <2> DEFINE N == {n \in OfKind(g, {"pinia-store"}) : StoreNeedle[name] \in LabelIncludes[n.label]}
             M == Exporting(g, "pinia-store", name)
  <2>1. N \subseteq g.nodes /\ M \subseteq g.nodes
    BY Found
  <2>2. LastOf(g, M) \subseteq M /\ FirstOf(g, N) \subseteq N
    BY Found, Zenon
  <2>3. StoreNamed(g, name) = Or(LastOf(g, M), FirstOf(g, N))
    BY DEF StoreNamed
  <2> HIDE DEF N, M
  <2> QED
    BY <2>1, <2>2, <2>3 DEF Or
<1>3. ASSUME NEW name PROVE ComposableNamed(g, name) \subseteq g.nodes
  <2> DEFINE N == Labelled(g, "vue-composable", ComposableLabel[name])
             M == Exporting(g, "vue-composable", name)
  <2>1. N \subseteq g.nodes /\ M \subseteq g.nodes
    BY Found
  <2>2. LastOf(g, M) \subseteq M /\ LastOf(g, N) \subseteq N
    BY Found, Zenon
  <2>3. ComposableNamed(g, name) = Or(LastOf(g, M), LastOf(g, N))
    BY DEF ComposableNamed
  <2> HIDE DEF N, M
  <2> QED
    BY <2>1, <2>2, <2>3 DEF Or
<1>4. ASSUME NEW name PROVE BeanNamed(g, name) \subseteq g.nodes
  <2> DEFINE N == {n \in OfKind(g, {"spring-service", "spring-controller", "mybatis-mapper"}) :
                     Label(n) = name}
  <2>1. N \subseteq g.nodes
    BY Found
  <2>2. BeanNamed(g, name) = LastOf(g, N)
    BY DEF BeanNamed
  <2> HIDE DEF N
  <2>3. LastOf(g, N) \subseteq N
    BY Found, Zenon
  <2> QED
    BY <2>1, <2>2, <2>3
<1>5. ASSUME NEW e PROVE Imported(g, e) \subseteq g.nodes
  <2>1. \A path : NodeOfFile(g, path) \subseteq g.nodes
    BY DEF NodeOfFile
  <2> QED
    BY <2>1 DEF Imported
<1> QED
  BY <1>1, <1>2, <1>3, <1>4, <1>5

EventNode(c, v) ==
    [id |-> EventId(c.id, v), kind |-> "vue-event", label |-> v, file |-> c.file, meta |-> {}]

LEMMA ListenIn ==
  ASSUME NEW W, IsFiniteSet(W), NEW U, IsFiniteSet(U), NEW q, NEW h \in Graphs(W, U, q),
         NEW e, NEW c, NEW v, EventNode(c, v) \in W,
         EdgeBetween(c.id, "emits-event", EventId(c.id, v)) \in U,
         MovedTo(e, EventId(c.id, v)) \in U
  PROVE  Listen(h, e, c, v) \in Graphs(W, U, q)
<1> DEFINE id == EventId(c.id, v)
           N == Put(h.nodes, EventNode(c, v))
           with == [h EXCEPT !.nodes = N]
           E == {EdgeBetween(c.id, "emits-event", id)}
           k == AddEdges(with, E)
<1>1. Linkable(h) /\ h.order = q /\ h.nodes \in SUBSET W /\ h.edges \in SUBSET U
  BY GraphsAre
<1>2. N \in SUBSET W
  BY <1>1 DEF Put
<1>3. Listen(h, e, c, v) = Move(k, e, id)
  BY DEF Listen, EventNode
<1>4. E \in SUBSET U
  OBVIOUS
<1> HIDE DEF N, E
<1>5. with = [nodes |-> N, edges |-> h.edges, order |-> q]
  BY <1>1, NodesExcept DEF Linkable
<1> HIDE DEF with
<1>6. with.nodes = N /\ with.edges = h.edges /\ with.order = q /\ Shaped(with)
  BY <1>5 DEF Shaped
<1>7. IsFiniteSet(E) /\ IsFiniteSet(N) /\ IsFiniteSet(h.edges)
  BY <1>1, <1>2, <1>4, FS_Subset
<1>8. Linkable(with)
  BY <1>6, <1>7 DEF Linkable, FiniteGraph
<1>9. /\ Linkable(k) /\ k.nodes = N /\ k.order = q
      /\ k.edges \in SUBSET (h.edges \cup E)
  BY <1>6, <1>7, <1>8, AddEdgesIs
<1> HIDE DEF k
<1>10. k \in Graphs(W, U, q)
  BY <1>1, <1>2, <1>4, <1>9, LinkableIn
<1>11. MovedTo(e, id) \in U
  OBVIOUS
<1> HIDE DEF id
<1>12. Move(k, e, id) \in Graphs(W, U, q)
  BY <1>10, <1>11, MoveIn
<1> QED
  BY <1>3, <1>12

LEMMA ListenersLinkable ==
  ASSUME NEW g, Linkable(g)
  PROVE  Linkable(ResolveEmitListeners(g))
<1> DEFINE waiting == Waiting(g, "listens-event", "component")
           heard(e) == UNION {{<<e, c, v>> : v \in Emitted(c, e.event)} : c \in ChildOf(g, e)}
           S == UNION {heard(e) : e \in waiting}
           name == [e \in waiting |-> e.event.name]
           camel == [e \in waiting |-> e.event.camel]
           V == {name[e] : e \in waiting} \cup {camel[e] : e \in waiting}
           P == waiting \X g.nodes \X V
           node == [p \in P |-> EventNode(p[2], p[3])]
           emits == [p \in P |-> EdgeBetween(p[2].id, "emits-event", EventId(p[2].id, p[3]))]
           moved == [p \in P |-> MovedTo(p[1], EventId(p[2].id, p[3]))]
           W == g.nodes \cup {node[p] : p \in P}
           U == g.edges \cup {emits[p] : p \in P} \cup {moved[p] : p \in P}
<1>1. ResolveEmitListeners(g) = HeardDone(g, S)
  BY DEF ResolveEmitListeners, HeardDone
<1>2. IsFiniteSet(g.nodes) /\ IsFiniteSet(g.edges) /\ IsFiniteSet(waiting)
  <2>1. waiting \in SUBSET g.edges
    BY DEF Waiting
  <2> HIDE DEF waiting
  <2> QED
    BY <2>1, FS_Subset DEF Linkable, FiniteGraph
<1>3. S \in SUBSET P
  <2> SUFFICES ASSUME NEW e \in waiting, NEW c \in ChildOf(g, e), NEW v \in Emitted(c, e.event)
               PROVE  <<e, c, v>> \in P
    OBVIOUS
  <2>1. c \in g.nodes
    BY NamesFound DEF ChildOf
  <2>2. v \in {e.event.name, e.event.camel}
    BY DEF Emitted, Or
  <2>3. v \in V
    BY <2>2
  <2> HIDE DEF V, waiting
  <2> QED
    BY <2>1, <2>3
<1>4. IsFiniteSet(V)
  <2>1. IsFiniteSet({name[e] : e \in waiting}) /\ IsFiniteSet({camel[e] : e \in waiting})
    <3> HIDE DEF name, camel, waiting
    <3> QED
      BY <1>2, ImageFinite
  <2> HIDE DEF name, camel, waiting
  <2> QED
    BY <2>1, FS_Union
<1>5. IsFiniteSet(P)
  <2> DEFINE Q == waiting \X g.nodes
             f == [p \in Q \X V |-> <<p[1][1], p[1][2], p[2]>>]
  <2>1. IsFiniteSet(Q \X V)
    <3>1. IsFiniteSet(Q)
      <4> HIDE DEF waiting
      <4> QED
        BY <1>2, FS_Product
    <3> HIDE DEF Q, V
    <3> QED
      BY <1>4, <3>1, FS_Product
  <2>2. P = {f[p] : p \in Q \X V}
    <3> HIDE DEF waiting, V
    <3>1. ASSUME NEW p \in Q \X V PROVE f[p] \in P
      OBVIOUS
    <3>2. ASSUME NEW t \in P PROVE \E p \in Q \X V : f[p] = t
      <4>1. PICK e \in waiting, n \in g.nodes, v \in V : t = <<e, n, v>>
        OBVIOUS
      <4>2. <<<<e, n>>, v>> \in Q \X V /\ f[<<<<e, n>>, v>>] = t
        BY <4>1
      <4> QED
        BY <4>2
    <3> HIDE DEF f, Q, P
    <3> QED
      BY <3>1, <3>2
  <2> HIDE DEF f, Q, P, V
  <2>3. IsFiniteSet({f[p] : p \in Q \X V})
    BY <2>1, ImageFinite
  <2> QED
    BY <2>2, <2>3
<1> HIDE DEF V, waiting
<1>6. IsFiniteSet(S)
  <2> HIDE DEF S, P
  <2> QED
    BY <1>3, <1>5, FS_Subset
<1>7. IsFiniteSet(W) /\ IsFiniteSet(U)
  <2> HIDE DEF node, emits, moved, P
  <2>1. /\ IsFiniteSet({node[p] : p \in P}) /\ IsFiniteSet({emits[p] : p \in P})
        /\ IsFiniteSet({moved[p] : p \in P})
    BY <1>5, ImageFinite
  <2> QED
    BY <1>2, <2>1, FS_Union
<1>8. ASSUME NEW t \in S
      PROVE  /\ EventNode(t[2], t[3]) \in W
             /\ EdgeBetween(t[2].id, "emits-event", EventId(t[2].id, t[3])) \in U
             /\ MovedTo(t[1], EventId(t[2].id, t[3])) \in U
  <2>1. t \in P
    <3> HIDE DEF S, P
    <3> QED
      BY <1>3
  <2>2. /\ node[t] = EventNode(t[2], t[3])
        /\ emits[t] = EdgeBetween(t[2].id, "emits-event", EventId(t[2].id, t[3]))
        /\ moved[t] = MovedTo(t[1], EventId(t[2].id, t[3]))
    BY <2>1
  <2> HIDE DEF node, emits, moved, P, S
  <2> QED
    BY <2>1, <2>2
<1> DEFINE G == Graphs(W, U, g.order)
<1>9. g \in G
  <2>1. g.nodes \subseteq W /\ g.edges \subseteq U
    OBVIOUS
  <2> HIDE DEF W, U
  <2> QED
    BY <2>1, LinkableIn
<1> HIDE DEF W, U, S
<1>10. \A t \in S, h \in G : Listen(h, t[1], t[2], t[3]) \in G
  BY <1>7, <1>8, ListenIn
<1>11. HeardDone(g, S) \in G
  <2> HIDE DEF G
  <2> QED
    BY <1>6, <1>9, <1>10, HeardFold
<1>12. Linkable(HeardDone(g, S))
  BY <1>7, <1>11, GraphsAre
<1> QED
  BY <1>1, <1>12

(* The edges of a kind that there may be between two nodes.                *)
EdgesAmong(g, kind) == {EdgeBetween(p[1].id, kind, p[2].id) : p \in g.nodes \X g.nodes}

LEMMA EdgesAmongFinite ==
  ASSUME NEW g, Linkable(g), NEW kind, NEW E, E \subseteq EdgesAmong(g, kind)
  PROVE  Linkable(AddEdges(g, E))
<1> DEFINE P == g.nodes \X g.nodes
           f == [p \in P |-> EdgeBetween(p[1].id, kind, p[2].id)]
<1>1. IsFiniteSet(P)
  BY FS_Product DEF Linkable, FiniteGraph
<1>2. EdgesAmong(g, kind) = {f[p] : p \in P}
  BY DEF EdgesAmong
<1> HIDE DEF P, f
<1>3. IsFiniteSet(EdgesAmong(g, kind))
  BY <1>1, <1>2, ImageFinite
<1>4. IsFiniteSet(E)
  BY <1>3, FS_Subset
<1> QED
  BY <1>4, AddEdgesIs

LEMMA NamesLinkable ==
  ASSUME NEW g, Linkable(g)
  PROVE  Linkable(ResolveNames(g))
<1>1. \A h, kind, prefix : Waiting(h, kind, prefix) \subseteq h.edges
  BY DEF Waiting
<1>2. ASSUME NEW h, Linkable(h) PROVE Linkable(ResolveImports(h))
  <2> DEFINE found == [e \in Waiting(h, "imports", "unresolved") |-> Imported(h, e)]
  <2>1. DOMAIN found \subseteq h.edges /\ \A e \in DOMAIN found : found[e] \subseteq h.nodes
    BY <1>1, NamesFound
  <2>2. ResolveImports(h) = MoveAll(h, found)
    BY DEF ResolveImports
  <2> HIDE DEF found
  <2> QED
    BY <1>2, <2>1, <2>2, MoveAllIs
<1>3. ASSUME NEW h, Linkable(h) PROVE Linkable(ResolveComponentReferences(h))
  <2> DEFINE found == [e \in Waiting(h, "uses-component", "component") |-> ComponentNamed(h, e.name)]
  <2>1. DOMAIN found \subseteq h.edges /\ \A e \in DOMAIN found : found[e] \subseteq h.nodes
    BY <1>1, NamesFound
  <2>2. ResolveComponentReferences(h) = MoveAll(h, found)
    BY DEF ResolveComponentReferences
  <2> HIDE DEF found
  <2> QED
    BY <1>3, <2>1, <2>2, MoveAllIs
<1>4. ASSUME NEW h, Linkable(h) PROVE Linkable(ResolveStoreReferences(h))
  <2> DEFINE found == [e \in Waiting(h, "uses-store", "store") |-> StoreNamed(h, e.name)]
  <2>1. DOMAIN found \subseteq h.edges /\ \A e \in DOMAIN found : found[e] \subseteq h.nodes
    BY <1>1, NamesFound
  <2>2. ResolveStoreReferences(h) = MoveAll(h, found)
    BY DEF ResolveStoreReferences
  <2> HIDE DEF found
  <2> QED
    BY <1>4, <2>1, <2>2, MoveAllIs
<1>5. ASSUME NEW h, Linkable(h) PROVE Linkable(ResolveComposableReferences(h))
  <2> DEFINE found == [e \in Waiting(h, "uses-composable", "composable") |->
                          ComposableNamed(h, e.name)]
  <2>1. DOMAIN found \subseteq h.edges /\ \A e \in DOMAIN found : found[e] \subseteq h.nodes
    BY <1>1, NamesFound
  <2>2. ResolveComposableReferences(h) = MoveAll(h, found)
    BY DEF ResolveComposableReferences
  <2> HIDE DEF found
  <2> QED
    BY <1>5, <2>1, <2>2, MoveAllIs
<1>6. ASSUME NEW h, Linkable(h) PROVE Linkable(ResolveRouteRenders(h))
  <2> DEFINE found == [e \in Waiting(h, "route-renders", "unresolved") |-> Imported(h, e)]
             lazy == MoveAll(h, found)
             named == [e \in Waiting(lazy, "route-renders", "component") |->
                          ComponentNamed(lazy, e.name)]
  <2>1. DOMAIN found \subseteq h.edges /\ \A e \in DOMAIN found : found[e] \subseteq h.nodes
    BY <1>1, NamesFound
  <2>2. ResolveRouteRenders(h) = MoveAll(lazy, named)
    BY DEF ResolveRouteRenders
  <2>3. Linkable(lazy)
    <3> HIDE DEF found
    <3> QED
      BY <1>6, <2>1, MoveAllIs
  <2> HIDE DEF lazy
  <2>4. DOMAIN named \subseteq lazy.edges /\ \A e \in DOMAIN named : named[e] \subseteq lazy.nodes
    BY <1>1, NamesFound
  <2> HIDE DEF named
  <2> QED
    BY <2>2, <2>3, <2>4, MoveAllIs
<1> QED
  BY <1>2, <1>3, <1>4, <1>5, <1>6 DEF ResolveNames

LEMMA CallsLinkable ==
  ASSUME NEW g, Linkable(g)
  PROVE  Linkable(LinkApiCalls(g))
<1> DEFINE S == {q \in OfKind(g, {"api-call-site"}) \X OfKind(g, {"spring-endpoint"}) :
                   /\ q[1].meta.url # <<>>
                   /\ q[1].meta.httpMethod = q[2].meta.httpMethod
                   /\ PathsMatch(NormalizeUrl(q[1].meta.url), NormalizeUrl(q[2].meta.path))}
           E == {EdgeBetween(p[1].id, "api-call", p[2].id) : p \in S}
<1>1. LinkApiCalls(g) = AddEdges(g, E)
  BY DEF LinkApiCalls
<1>2. S \subseteq g.nodes \X g.nodes
  BY DEF OfKind
<1> HIDE DEF S
<1>3. E \subseteq EdgesAmong(g, "api-call")
  BY <1>2 DEF EdgesAmong
<1> QED
  BY <1>1, <1>3, EdgesAmongFinite

LEMMA NativesLinkable ==
  ASSUME NEW g, Linkable(g)
  PROVE  Linkable(LinkNatives(g))
<1> DEFINE calls == {e \in g.edges : e.kind = "native-call"}
           late  == {d \in calls : ~Present(g, MethodNode(d.method).id)}
           bridge == [e \in calls |-> BridgeNode(e.method)]
           method == [e \in calls |-> MethodNode(e.method)]
           called == [e \in calls |-> [e EXCEPT !.target = MethodNode(e.method).id]]
           served == [e \in late |-> EdgeBetween(BridgeNode(e.method).id, "api-serves",
                                                 MethodNode(e.method).id)]
           N == g.nodes \cup UNION {{BridgeNode(e.method), MethodNode(e.method)} : e \in calls}
           D == (g.edges \ calls)
                    \cup {[e EXCEPT !.target = MethodNode(e.method).id] : e \in calls}
           E == {EdgeBetween(BridgeNode(m).id, "api-serves", MethodNode(m).id)
                    : m \in {e.method : e \in late}}
           h == [g EXCEPT !.nodes = N, !.edges = D]
<1>1. LinkNatives(g) = AddEdges(h, E)
  BY DEF LinkNatives
<1>2. /\ calls \in SUBSET g.edges /\ late \in SUBSET g.edges
      /\ IsFiniteSet(g.edges) /\ IsFiniteSet(g.nodes)
  BY DEF Linkable, FiniteGraph
<1>3. N = g.nodes \cup {bridge[e] : e \in calls} \cup {method[e] : e \in calls}
  <2> DEFINE B == UNION {{BridgeNode(e.method), MethodNode(e.method)} : e \in calls}
  <2>1. ASSUME NEW x \in B PROVE x \in {bridge[e] : e \in calls} \cup {method[e] : e \in calls}
    <3>1. PICK e \in calls : x \in {BridgeNode(e.method), MethodNode(e.method)}
      OBVIOUS
    <3> QED
      BY <3>1
  <2>2. ASSUME NEW e \in calls PROVE bridge[e] \in B /\ method[e] \in B
    OBVIOUS
  <2>3. N = g.nodes \cup B
    OBVIOUS
  <2> HIDE DEF bridge, method, N, B, calls
  <2> QED
    BY <2>1, <2>2, <2>3
<1>4. D = (g.edges \ calls) \cup {called[e] : e \in calls}
  OBVIOUS
<1>5. E = {served[e] : e \in late}
  <2> DEFINE Of(m) == EdgeBetween(BridgeNode(m).id, "api-serves", MethodNode(m).id)
  <2>1. \A e \in late : served[e] = Of(e.method)
    OBVIOUS
  <2>2. E = {Of(m) : m \in {e.method : e \in late}}
    OBVIOUS
  <2> HIDE DEF Of, served, late, E
  <2> QED
    BY <2>1, <2>2
<1> HIDE DEF N, D, E, bridge, method, called, served
<1>6. (g.edges \ calls) \in SUBSET g.edges
  OBVIOUS
<1> HIDE DEF calls, late
<1>7. IsFiniteSet(calls) /\ IsFiniteSet(late) /\ IsFiniteSet(g.edges \ calls)
  BY <1>2, <1>6, FS_Subset
<1>8. /\ IsFiniteSet({bridge[e] : e \in calls}) /\ IsFiniteSet({method[e] : e \in calls})
      /\ IsFiniteSet({called[e] : e \in calls}) /\ IsFiniteSet({served[e] : e \in late})
  BY <1>7, ImageFinite
<1>9. IsFiniteSet(N)
  BY <1>2, <1>3, <1>8, FS_Union
<1>10. IsFiniteSet(D)
  BY <1>4, <1>7, <1>8, FS_Union
<1>11. h = [nodes |-> N, edges |-> D, order |-> g.order]
  <2>1. Shaped(g)
    BY DEF Linkable
  <2> QED
    BY <2>1, TwoExcept
<1> HIDE DEF h
<1>12. Linkable(h)
  BY <1>9, <1>10, <1>11 DEF Linkable, Shaped, FiniteGraph
<1> QED
  BY <1>1, <1>5, <1>8, <1>12, AddEdgesIs

LEMMA MappersLinkable ==
  ASSUME NEW g, Linkable(g)
  PROVE  Linkable(LinkMappers(g))
<1> DEFINE E == UNION {{EdgeBetween(n.id, "spring-injects", m.id) : n \in InterfaceOf(g, m)}
                          : m \in OfKind(g, {"mybatis-mapper"})}
<1>1. LinkMappers(g) = AddEdges(g, E)
  BY DEF LinkMappers
<1>2. ASSUME NEW m PROVE InterfaceOf(g, m) \subseteq g.nodes
  <2> DEFINE classes == OfKind(g, {"spring-service", "spring-controller"})
             N == {n \in classes : "fqn" \in DOMAIN n.meta /\ n.meta.fqn = m.meta.fqn}
             M == {n \in classes : n.meta.className = Last(m.meta.fqn)}
  <2>1. N \subseteq g.nodes /\ M \subseteq g.nodes
    BY Found
  <2>2. InterfaceOf(g, m) = Or(FirstOf(g, N), FirstOf(g, M))
    BY DEF InterfaceOf
  <2> HIDE DEF N, M
  <2>3. FirstOf(g, M) \subseteq M /\ FirstOf(g, N) \subseteq N
    BY Found, Zenon
  <2> QED
    BY <2>1, <2>2, <2>3 DEF Or
<1>3. OfKind(g, {"mybatis-mapper"}) \subseteq g.nodes
  BY Found
<1>4. ASSUME NEW m \in OfKind(g, {"mybatis-mapper"}), NEW n \in InterfaceOf(g, m)
      PROVE  EdgeBetween(n.id, "spring-injects", m.id) \in EdgesAmong(g, "spring-injects")
  <2>1. <<n, m>> \in g.nodes \X g.nodes
    BY <1>2, <1>3
  <2> QED
    BY <2>1 DEF EdgesAmong
<1>5. E \subseteq EdgesAmong(g, "spring-injects")
  BY <1>4
<1> HIDE DEF E
<1> QED
  BY <1>1, <1>5, EdgesAmongFinite

LEMMA EventsLinkable ==
  ASSUME NEW g, Linkable(g)
  PROVE  Linkable(CreateSpringEventNodes(g))
<1> DEFINE ends == UNION {{e.source, e.target} : e \in g.edges}
           atSource == [e \in g.edges |-> e.source]
           atTarget == [e \in g.edges |-> e.target]
           new == {j \in ends : j[1] = "event" /\ ~Present(g, j)}
           node == [i \in new |-> [id |-> i, kind |-> "spring-event", label |-> i[2],
                                   file |-> "", meta |-> {}]]
           N == g.nodes \cup {[id |-> i, kind |-> "spring-event", label |-> i[2], file |-> "",
                               meta |-> {}] : i \in new}
<1>1. CreateSpringEventNodes(g) = [g EXCEPT !.nodes = N]
  BY DEF CreateSpringEventNodes
<1>2. ends = {atSource[e] : e \in g.edges} \cup {atTarget[e] : e \in g.edges}
  <2>1. ASSUME NEW x \in ends
        PROVE  x \in {atSource[e] : e \in g.edges} \cup {atTarget[e] : e \in g.edges}
    OBVIOUS
  <2>2. ASSUME NEW e \in g.edges PROVE atSource[e] \in ends /\ atTarget[e] \in ends
    OBVIOUS
  <2> HIDE DEF ends, atSource, atTarget
  <2> QED
    BY <2>1, <2>2
<1>3. N = g.nodes \cup {node[i] : i \in new}
  OBVIOUS
<1>4. new \in SUBSET ends
  OBVIOUS
<1> HIDE DEF N, node, new, ends, atSource, atTarget
<1>5. IsFiniteSet(g.nodes) /\ IsFiniteSet(g.edges)
  BY DEF Linkable, FiniteGraph
<1>6. IsFiniteSet({atSource[e] : e \in g.edges}) /\ IsFiniteSet({atTarget[e] : e \in g.edges})
  BY <1>5, ImageFinite
<1>7. IsFiniteSet(new)
  BY <1>2, <1>4, <1>6, FS_Union, FS_Subset
<1>8. IsFiniteSet(N)
  BY <1>3, <1>5, <1>7, ImageFinite, FS_Union
<1>9. Shaped(g)
  BY DEF Linkable
<1>10. [g EXCEPT !.nodes = N] = [nodes |-> N, edges |-> g.edges, order |-> g.order]
  BY <1>9, NodesExcept
<1> QED
  BY <1>1, <1>5, <1>8, <1>10 DEF Linkable, Shaped, FiniteGraph

LEMMA BeansLinkable ==
  ASSUME NEW g, Linkable(g)
  PROVE  Linkable(ResolveSpringInjects(g))
<1> DEFINE found == [e \in {x \in g.edges : x.kind = "spring-injects" /\ ~Present(g, x.target)} |->
                        {n \in BeanNamed(g, e.target[2]) : n.id # e.source}]
<1>1. DOMAIN found \subseteq g.edges /\ \A e \in DOMAIN found : found[e] \subseteq g.nodes
  BY NamesFound
<1>2. ResolveSpringInjects(g) = MoveAll(g, found)
  BY DEF ResolveSpringInjects
<1> HIDE DEF found
<1> QED
  BY <1>1, <1>2, MoveAllIs

LEMMA RepositoriesLinkable ==
  ASSUME NEW g, Linkable(g)
  PROVE  Linkable(ResolveRepositoryToMapper(g))
<1> DEFINE to(r) == {n \in MapperFor(g, r) : \A e \in g.edges : e.source = r.id => e.target # n.id}
           E == UNION {{EdgeBetween(r.id, "spring-injects", m.id) : m \in to(r)}
                          : r \in {n \in g.nodes : IsRepository(n)}}
<1>1. ResolveRepositoryToMapper(g) = AddEdges(g, E)
  BY DEF ResolveRepositoryToMapper
<1>2. ASSUME NEW r PROVE MapperFor(g, r) \subseteq g.nodes
  <2> DEFINE N == {n \in Labelled(g, "spring-service", MapperOf[Label(r)]) :
                      "Mapper" \in n.meta.marks}
             M == Labelled(g, "mybatis-mapper", MapperOf[Label(r)])
  <2>1. N \subseteq g.nodes /\ M \subseteq g.nodes
    BY Found
  <2>2. MapperFor(g, r) = Or(FirstOf(g, N), FirstOf(g, M))
    BY DEF MapperFor
  <2> HIDE DEF N, M
  <2>3. FirstOf(g, M) \subseteq M /\ FirstOf(g, N) \subseteq N
    BY Found, Zenon
  <2> QED
    BY <2>1, <2>2, <2>3 DEF Or
<1>3. ASSUME NEW r \in g.nodes, NEW m \in to(r)
      PROVE  EdgeBetween(r.id, "spring-injects", m.id) \in EdgesAmong(g, "spring-injects")
  <2>1. <<r, m>> \in g.nodes \X g.nodes
    BY <1>2
  <2> QED
    BY <2>1 DEF EdgesAmong
<1> HIDE DEF to
<1>4. E \subseteq EdgesAmong(g, "spring-injects")
  BY <1>3
<1> HIDE DEF E
<1> QED
  BY <1>1, <1>4, EdgesAmongFinite

LEMMA DtosFound ==
  ASSUME NEW g
  PROVE  /\ \A dto : /\ BackendDto(g, dto) \subseteq g.nodes
                     /\ Frontend(g, dto) \subseteq g.nodes
                     /\ StatementsOf(g, dto) \subseteq g.nodes
<1>1. ASSUME NEW dto PROVE BackendDto(g, dto) \subseteq g.nodes
  <2>1. Labelled(g, "spring-dto", dto) \subseteq g.nodes
    BY Found
  <2>2. BackendDto(g, dto) \subseteq Labelled(g, "spring-dto", dto)
    BY Found, Zenon DEF BackendDto
  <2> QED
    BY <2>1, <2>2
<1>2. ASSUME NEW dto PROVE Frontend(g, dto) \subseteq g.nodes
  <2>1. FrontendNodes(g) \subseteq g.nodes
    BY Found DEF FrontendNodes
  <2>2. Declaring(g, dto) \subseteq FrontendNodes(g)
    BY DEF Declaring
  <2>3. Frontend(g, dto) \subseteq Declaring(g, dto)
    BY Found, Zenon DEF Frontend
  <2> QED
    BY <2>1, <2>2, <2>3
<1>3. ASSUME NEW dto PROVE StatementsOf(g, dto) \subseteq g.nodes
  <2>1. OfKind(g, {"mybatis-statement"}) \subseteq g.nodes
    BY Found
  <2> QED
    BY <2>1 DEF StatementsOf
<1> QED
  BY <1>1, <1>2, <1>3

LEMMA FlowsAmong ==
  ASSUME NEW g, NEW S \in SUBSET g.nodes, NEW T \in SUBSET g.nodes
  PROVE  FlowEdges(S, T) \subseteq EdgesAmong(g, "dto-flows")
<1>1. S \X T \subseteq g.nodes \X g.nodes
  OBVIOUS
<1> QED
  BY <1>1 DEF FlowEdges, EdgesAmong

LEMMA FlowsLinkable ==
  ASSUME NEW g, Linkable(g)
  PROVE  Linkable(LinkDtoFlows(g))
<1> DEFINE among == EdgesAmong(g, "dto-flows")
           A == UNION {UNION {FlowEdges({n}, BackendDto(g, dto)) : dto \in DtosOf(n)}
                          : n \in OfKind(g, {"spring-endpoint"})}
           Of(c) == FlowEdges(c.frontend, c.backend)
                    \cup FlowEdges(Or(c.backend, c.frontend), c.statements)
           B == UNION {Of(c) : c \in BuildFieldChains(g)}
<1>1. LinkDtoFlows(g) = AddEdges(g, A \cup B)
  BY DEF LinkDtoFlows
<1>2. ASSUME NEW n \in OfKind(g, {"spring-endpoint"}), NEW dto
      PROVE  FlowEdges({n}, BackendDto(g, dto)) \subseteq among
  <2>1. {n} \in SUBSET g.nodes
    BY Found
  <2>2. BackendDto(g, dto) \in SUBSET g.nodes
    BY DtosFound
  <2> HIDE DEF among
  <2> QED
    BY <2>1, <2>2, FlowsAmong DEF among
<1>3. ASSUME NEW c \in BuildFieldChains(g)
      PROVE  Of(c) \subseteq among
  <2>1. PICK dto : c = Chain(g, dto)
    BY DEF BuildFieldChains
  <2>2. /\ c.frontend = Frontend(g, dto) /\ c.backend = BackendDto(g, dto)
        /\ c.statements = StatementsOf(g, dto)
    BY <2>1 DEF Chain
  <2>3. /\ c.frontend \in SUBSET g.nodes /\ c.backend \in SUBSET g.nodes
        /\ c.statements \in SUBSET g.nodes /\ Or(c.backend, c.frontend) \in SUBSET g.nodes
    BY <2>2, DtosFound DEF Or
  <2>4. FlowEdges(c.frontend, c.backend) \subseteq among
    BY <2>3, FlowsAmong
  <2>5. FlowEdges(Or(c.backend, c.frontend), c.statements) \subseteq among
    BY <2>3, FlowsAmong
  <2> HIDE DEF among
  <2> QED
    BY <2>4, <2>5
<1> HIDE DEF among, Of
<1>4. A \subseteq among
  <2> SUFFICES ASSUME NEW x \in A PROVE x \in among
    OBVIOUS
  <2>1. PICK n \in OfKind(g, {"spring-endpoint"}) :
           x \in UNION {FlowEdges({n}, BackendDto(g, dto)) : dto \in DtosOf(n)}
    OBVIOUS
  <2>2. PICK dto \in DtosOf(n) : x \in FlowEdges({n}, BackendDto(g, dto))
    BY <2>1
  <2> QED
    BY <1>2, <2>2
<1>5. B \subseteq among
  BY <1>3
<1> HIDE DEF A, B
<1>6. A \cup B \subseteq among
  BY <1>4, <1>5
<1> QED
  BY <1>1, <1>6, EdgesAmongFinite DEF among

LEMMA ResolveLinkable ==
  ASSUME NEW g, Linkable(g)
  PROVE  Linkable(Resolve(g))
<1>1. Linkable(LinkMappers(LinkNatives(LinkApiCalls(ResolveNames(g)))))
  BY NamesLinkable, CallsLinkable, NativesLinkable, MappersLinkable
<1> QED
  BY <1>1, ListenersLinkable, EventsLinkable, BeansLinkable, RepositoriesLinkable,
     FlowsLinkable DEF Resolve

LinkingInv == files \in Projects /\ Linkable(graph)

LEMMA LinkingInitHolds == ASSUME LinkingInit PROVE LinkingInv
<1>1. graph = [nodes |-> {}, edges |-> {}, order |-> <<>>] /\ files \in Projects
  BY DEF LinkingInit, NoFiles
<1> QED
  BY <1>1, FS_EmptySet DEF LinkingInv, Linkable, Shaped, FiniteGraph

LEMMA LinkingStepHolds ==
  ASSUME LinkingInv, [LinkingNext]_linkingVars
  PROVE  LinkingInv'
<1> USE DEF LinkingInv
<1>1. ASSUME NEW f \in files PROVE Linkable(AddFile(graph, f))
  BY ProjectsAssumption, AddFileIs
<1>2. ASSUME NEW f \in files \ added, Add(f) PROVE LinkingInv'
  BY <1>1, <1>2 DEF Add
<1>3. ASSUME NEW f \in files \ added, Watch(f) PROVE LinkingInv'
  BY <1>1, <1>3, ResolveLinkable DEF Watch
<1>4. CASE Finish
  BY <1>4, ResolveLinkable DEF Finish
<1>5. CASE WatchGone
  BY <1>5, ResolveLinkable DEF WatchGone
<1>6. CASE UNCHANGED linkingVars
  BY <1>6 DEF linkingVars
<1> QED
  BY <1>2, <1>3, <1>4, <1>5, <1>6 DEF LinkingNext

(***************************************************************************)
(* The trees are exact, whatever the project, the order of its files and   *)
(* what the watcher adds to it.                                            *)
(***************************************************************************)
THEOREM TreesExactAlways == LinkingSpec => []TreesExact
<1>1. LinkingInv => TreesExact
  BY TreesAreExact DEF LinkingInv, Linkable
<1> QED
  BY <1>1, LinkingInitHolds, LinkingStepHolds, PTL DEF LinkingSpec
===========================================================================
