----------------------- MODULE SnapshotStoresProofs ------------------------
(***************************************************************************)
(* Proofs about SnapshotStores.tla for any projects, whatever they hold:   *)
(* no order of edits, runs, commands and reports, however often they are   *)
(* killed, mixes the rows of two projects under a label; what a report     *)
(* says is the difference between the two projects it names, and that is   *)
(* what their sources differ in; and a snapshot of the schema is what the  *)
(* migrations of its project leave.                                        *)
(***************************************************************************)
EXTENDS SnapshotStores, FiniteSetTheorems, TLAPS

(* What a report says is the difference of the two projects it names: the  *)
(* one the baseline was written for when it was read, and the one the      *)
(* pending rows were, though they may be another process's (SignatureStore *)
(* .diff, AnalysisEngine.getBreakingChanges, impactCommand).               *)
Compared(j) == Report(Diff(RowsOf[j.compared[1]], RowsOf[j.compared[2]]), Waivers)

ReportsCompared == \A r \in Reporter : job[r].pc = "reported" => job[r].changes = Compared(job[r])

(* What a reporter has in hand.                                            *)
Fields6(j) == j = [pc |-> j.pc, project |-> j.project, before |-> j.before,
                   changes |-> j.changes, renamed |-> j.renamed, compared |-> j.compared]

InHand(j) ==
    /\ Fields6(j)
    /\ j.compared = <<j.compared[1], j.compared[2]>>
    /\ j.pc = "loaded" => j.before = RowsOf[j.compared[1]]
    /\ j.pc = "reported" => j.changes = Compared(j)

Labels == {Baseline, Pending} \cup Label

StoresInv ==
    /\ DOMAIN of = Labels
    /\ job = [r \in Reporter |-> job[r]]
    /\ \A r \in Reporter : InHand(job[r])
    /\ RowsWhole

LEMMA HandOf ==
  ASSUME NEW j, NEW pc, NEW project, NEW before, NEW changes, NEW renamed, NEW from, NEW to,
         j = [pc |-> pc, project |-> project, before |-> before, changes |-> changes,
              renamed |-> renamed, compared |-> <<from, to>>],
         pc = "loaded" => before = RowsOf[from],
         pc = "reported" => changes = Report(Diff(RowsOf[from], RowsOf[to]), Waivers)
  PROVE  InHand(j)
<1>1. /\ j.pc = pc /\ j.project = project /\ j.before = before /\ j.changes = changes
      /\ j.renamed = renamed /\ j.compared = <<from, to>>
  OBVIOUS
<1>2. j.compared[1] = from /\ j.compared[2] = to
  BY <1>1
<1>3. Fields6(j)
  BY <1>1 DEF Fields6
<1>4. j.compared = <<j.compared[1], j.compared[2]>>
  BY <1>1, <1>2
<1>5. j.pc = "loaded" => j.before = RowsOf[j.compared[1]]
  BY <1>1, <1>2
<1>6. j.pc = "reported" => j.changes = Compared(j)
  BY <1>1, <1>2 DEF Compared
<1> QED BY <1>3, <1>4, <1>5, <1>6 DEF InHand

LEMMA NamesDiffer == Baseline # Pending /\ Baseline \notin Label /\ Pending \notin Label
  BY StoresAssumption DEF Baseline, Pending

RowsIn(t, l) == {x.row : x \in {x \in t : x.label = l}}

(* A snapshot replaces the rows of its label and leaves the others.        *)
LEMMA SnapshotLoads ==
  ASSUME NEW t, NEW label, NEW rows, NEW l
  PROVE  RowsIn(Snapshot(t, label, rows), l) = IF l = label THEN rows ELSE RowsIn(t, l)
<1> DEFINE Written == {[label |-> label, row |-> r] : r \in rows}
<1>1. \A x \in Written : x.label = label /\ x.row \in rows
  OBVIOUS
<1>2. \A r \in rows : [label |-> label, row |-> r] \in Written
  OBVIOUS
<1> HIDE DEF Written
<1>3. Snapshot(t, label, rows) = {x \in t : x.label # label} \cup Written
  BY DEF Snapshot, Written
<1>4. CASE l = label
  <2>1. {x \in Snapshot(t, label, rows) : x.label = l} = Written
    BY <1>1, <1>3, <1>4
  <2>2. {x.row : x \in Written} \subseteq rows
    BY <1>1
  <2>3. ASSUME NEW r \in rows PROVE r \in {x.row : x \in Written}
    <3>1. [label |-> label, row |-> r] \in Written /\ [label |-> label, row |-> r].row = r
      BY <1>2
    <3> QED BY <3>1
  <2> QED BY <1>4, <2>1, <2>2, <2>3 DEF RowsIn
<1>5. CASE l # label
  <2>1. {x \in Snapshot(t, label, rows) : x.label = l} = {x \in t : x.label = l}
    BY <1>1, <1>3, <1>5
  <2> QED BY <1>5, <2>1 DEF RowsIn
<1> QED BY <1>4, <1>5

LEMMA Copied ==
  ASSUME StoresInv, NEW r \in Reporter, NEW pc \in {"counted", "written"}
  PROVE  InHand([job[r] EXCEPT !.pc = pc])
<1> DEFINE h == job[r]
<1>1. InHand(h)
  BY DEF StoresInv
<1>2. h = [pc |-> h.pc, project |-> h.project, before |-> h.before, changes |-> h.changes,
           renamed |-> h.renamed, compared |-> <<h.compared[1], h.compared[2]>>]
  BY <1>1 DEF InHand, Fields6
<1> HIDE DEF h
<1> DEFINE k == [h EXCEPT !.pc = pc]
<1>3. k = [pc |-> pc, project |-> h.project, before |-> h.before, changes |-> h.changes,
           renamed |-> h.renamed, compared |-> <<h.compared[1], h.compared[2]>>]
  BY <1>2
<1> HIDE DEF k
<1>4. InHand(k)
  BY <1>3, HandOf
<1> QED BY <1>4 DEF h, k

LEMMA IdleHand == InHand(Idle)
  BY HandOf DEF Idle

LEMMA InitStores == Init => StoresInv
<1> SUFFICES ASSUME Init PROVE StoresInv
  OBVIOUS
<1>1. InHand(Idle)
  BY IdleHand
<1>2. RowsWhole
  BY StoresAssumption, NamesDiffer DEF Init, RowsWhole, Load
<1> QED BY <1>1, <1>2 DEF Init, StoresInv, Labels

(* A step that leaves the rows, and sets the hand of one reporter at most. *)
LEMMA RowsUnchanged ==
  ASSUME StoresInv, UNCHANGED <<table, of>>
  PROVE  RowsWhole' /\ DOMAIN of' = Labels
  BY DEF StoresInv, RowsWhole, Load

LEMMA HandSet ==
  ASSUME StoresInv, NEW r \in Reporter, NEW j, InHand(j), job' = [job EXCEPT ![r] = j]
  PROVE  job' = [x \in Reporter |-> job'[x]] /\ \A x \in Reporter : InHand(job'[x])
  BY DEF StoresInv

(* A step that writes the rows of a project under a label.                 *)
LEMMA RowsWritten ==
  ASSUME StoresInv, NEW label \in {Baseline, Pending}, NEW p,
         table' = Snapshot(table, label, RowsOf[p]), of' = [of EXCEPT ![label] = p]
  PROVE  RowsWhole' /\ DOMAIN of' = Labels
<1>1. ASSUME NEW l \in {Baseline, Pending}
      PROVE  RowsIn(table', l) = RowsOf[of'[l]]
  <2>1. l \in DOMAIN of /\ RowsIn(table, l) = RowsOf[of[l]]
    BY <1>1 DEF StoresInv, RowsWhole, Load, Labels, RowsIn
  <2>2. RowsIn(table', l) = IF l = label THEN RowsOf[p] ELSE RowsIn(table, l)
    BY SnapshotLoads
  <2>3. of'[l] = IF l = label THEN p ELSE of[l]
    BY <2>1
  <2> QED BY <2>1, <2>2, <2>3
<1> QED BY <1>1 DEF RowsWhole, Load, StoresInv, RowsIn

LEMMA StepStores == StoresInv /\ [Next]_vars => StoresInv'
<1> SUFFICES ASSUME StoresInv, [Next]_vars PROVE StoresInv'
  OBVIOUS
<1> USE DEF Labels
<1>1. CASE UNCHANGED <<table, of, job>>
  BY <1>1, RowsUnchanged DEF StoresInv
<1>2. CASE WriteBaseline
  <2>1. RowsWhole' /\ DOMAIN of' = Labels
    BY <1>2, RowsWritten DEF WriteBaseline
  <2> QED BY <1>2, <2>1 DEF WriteBaseline, StoresInv
<1>3. ASSUME NEW r \in Reporter, Begin(r) PROVE StoresInv'
  <2> DEFINE j == [Idle EXCEPT !.pc = "begun", !.project = IF r = Server THEN graph ELSE sources]
  <2>1. InHand(j)
    <3> DEFINE p == IF r = Server THEN graph ELSE sources
    <3>2. j = [Idle EXCEPT !.pc = "begun", !.project = p]
      OBVIOUS
    <3> HIDE DEF p, j
    <3>1. j = [pc |-> "begun", project |-> p, before |-> {}, changes |-> {},
               renamed |-> {}, compared |-> <<NoProject, NoProject>>]
      BY <3>2 DEF Idle
    <3> QED BY <3>1, HandOf
  <2>2. job' = [job EXCEPT ![r] = j] /\ UNCHANGED <<table, of>>
    BY <1>3 DEF Begin
  <2> QED BY ONLY <2>1, <2>2, HandSet, RowsUnchanged, StoresInv, r \in Reporter DEF StoresInv
<1>4. ASSUME NEW r \in Reporter, Count(r) PROVE StoresInv'
  <2> DEFINE j == IF Load(Baseline) = {} THEN Idle ELSE [job[r] EXCEPT !.pc = "counted"]
  <2>1. InHand(j)
    <3>1. InHand([job[r] EXCEPT !.pc = "counted"])
      BY Copied
    <3> QED BY <3>1, IdleHand
  <2>2. job' = [job EXCEPT ![r] = j] /\ UNCHANGED <<table, of>>
    BY <1>4 DEF Count, StoresInv
  <2> QED BY ONLY <2>1, <2>2, HandSet, RowsUnchanged, StoresInv, r \in Reporter DEF StoresInv
<1>5. ASSUME NEW r \in Reporter, WritePending(r) PROVE StoresInv'
  <2> DEFINE j == [job[r] EXCEPT !.pc = "written"]
  <2>1. InHand(j)
    BY Copied
  <2>2. job' = [job EXCEPT ![r] = j]
    BY <1>5 DEF WritePending
  <2>3. RowsWhole' /\ DOMAIN of' = Labels
    BY <1>5, RowsWritten DEF WritePending
  <2> QED BY ONLY <2>1, <2>2, <2>3, HandSet, StoresInv, r \in Reporter DEF StoresInv
<1>6. ASSUME NEW r \in Reporter, LoadBefore(r) PROVE StoresInv'
  <2> DEFINE j == [job[r] EXCEPT !.pc = "loaded", !.before = Load(Baseline),
                                 !.compared = <<of[Baseline], @[2]>>]
  <2>1. Load(Baseline) = RowsOf[of[Baseline]]
    BY DEF StoresInv, RowsWhole
  <2>2. InHand(j)
    <3> DEFINE h == job[r]
    <3>1. h = [pc |-> h.pc, project |-> h.project, before |-> h.before, changes |-> h.changes,
               renamed |-> h.renamed, compared |-> <<h.compared[1], h.compared[2]>>]
      BY DEF StoresInv, InHand, Fields6
    <3>2. j = [h EXCEPT !.pc = "loaded", !.before = Load(Baseline),
                        !.compared = <<of[Baseline], @[2]>>]
      OBVIOUS
    <3> HIDE DEF h, j
    <3>3. j = [pc |-> "loaded", project |-> h.project, before |-> Load(Baseline),
               changes |-> h.changes, renamed |-> h.renamed,
               compared |-> <<of[Baseline], h.compared[2]>>]
      BY <3>1, <3>2
    <3> QED BY <2>1, <3>3, HandOf
  <2>3. job' = [job EXCEPT ![r] = j] /\ UNCHANGED <<table, of>>
    BY <1>6 DEF LoadBefore, StoresInv, InHand, Fields6
  <2> QED BY ONLY <2>2, <2>3, HandSet, RowsUnchanged, StoresInv, r \in Reporter DEF StoresInv
<1>7. ASSUME NEW r \in Reporter, LoadAfter(r) PROVE StoresInv'
  <2> DEFINE diff == Diff(job[r].before, Load(Pending))
             j == [job[r] EXCEPT !.pc = "reported", !.before = {},
                                 !.changes = Report(diff, Waivers), !.renamed = diff.renamed,
                                 !.compared = <<@[1], of[Pending]>>]
  <2>1. Load(Pending) = RowsOf[of[Pending]] /\ job[r].before = RowsOf[job[r].compared[1]]
    BY <1>7 DEF StoresInv, RowsWhole, LoadAfter, InHand
  <2>2. InHand(j)
    <3> DEFINE h == job[r]
               c == Report(diff, Waivers)
    <3>1. h = [pc |-> h.pc, project |-> h.project, before |-> h.before, changes |-> h.changes,
               renamed |-> h.renamed, compared |-> <<h.compared[1], h.compared[2]>>]
      BY DEF StoresInv, InHand, Fields6
    <3>2. c = Report(Diff(RowsOf[h.compared[1]], RowsOf[of[Pending]]), Waivers)
      BY <2>1
    <3>3. j = [h EXCEPT !.pc = "reported", !.before = {}, !.changes = c,
                        !.renamed = diff.renamed, !.compared = <<@[1], of[Pending]>>]
      OBVIOUS
    <3> HIDE DEF h, c, diff, j
    <3>4. j = [pc |-> "reported", project |-> h.project, before |-> {}, changes |-> c,
               renamed |-> diff.renamed, compared |-> <<h.compared[1], of[Pending]>>]
      BY <3>1, <3>3
    <3> QED BY <3>2, <3>4, HandOf
  <2>3. job' = [job EXCEPT ![r] = j] /\ UNCHANGED <<table, of>>
    BY <1>7 DEF LoadAfter, StoresInv, InHand, Fields6
  <2> QED BY ONLY <2>2, <2>3, HandSet, RowsUnchanged, StoresInv, r \in Reporter DEF StoresInv
<1>8. ASSUME NEW r \in Reporter, End(r) PROVE StoresInv'
  <2>1. InHand(Idle)
    BY IdleHand
  <2>2. job' = [job EXCEPT ![r] = Idle] /\ UNCHANGED <<table, of>>
    BY <1>8 DEF End
  <2> QED BY ONLY <2>1, <2>2, HandSet, RowsUnchanged, StoresInv, r \in Reporter DEF StoresInv
<1>9. ASSUME NEW l \in Label, SchemaSnapshot(l) PROVE StoresInv'
  <2>1. UNCHANGED <<table, job>> /\ of' = [of EXCEPT ![l] = sources]
    BY <1>9 DEF SchemaSnapshot
  <2>2. DOMAIN of' = Labels /\ \A m \in {Baseline, Pending} : of'[m] = of[m]
    BY <2>1, NamesDiffer DEF StoresInv
  <2> QED BY <2>1, <2>2 DEF StoresInv, RowsWhole, Load
<1> QED
  BY <1>1, <1>2, <1>3, <1>4, <1>5, <1>6, <1>7, <1>8, <1>9
  DEF Next, vars, Edit, StartRun, EndRun, ParseBaseline, TakeArchSnapshot

(* No order of runs, commands and reports, killed or not, leaves under a   *)
(* label anything but the rows of the project last written there           *)
(* (SignatureStore.snapshot).                                              *)
THEOREM RowsWholeAlways == Spec => []RowsWhole
<1>1. StoresInv => RowsWhole
  BY DEF StoresInv
<1> QED BY <1>1, InitStores, StepStores, PTL DEF Spec

(* Every report is the difference of the two projects whose rows it read,  *)
(* whichever process wrote them and whatever was written since.            *)
THEOREM ReportsComparedAlways == Spec => []ReportsCompared
<1>1. StoresInv => ReportsCompared
  BY DEF StoresInv, InHand, ReportsCompared
<1> QED BY <1>1, InitStores, StepStores, PTL DEF Spec

---------------------------------------------------------------------------
(* Differences that lose nothing.                                          *)

LEMMA LeastNatural ==
  ASSUME NEW S \in SUBSET Nat, S # {}
  PROVE  \E i \in S : \A j \in S : i <= j
<1>1. PICK i \in S : \A j \in S : ~(<<j, i>> \in OpToRel(<, Nat))
  BY NatLessThanWellFounded, WFMin
<1>2. ASSUME NEW j \in S
      PROVE  i <= j
  <2>1. ~(j < i)
    BY <1>1 DEF OpToRel
  <2> QED
    BY <2>1
<1> QED
  BY <1>2

(* The last column of a name, which is the one a Map keeps.                *)
LEMMA LastOfName ==
  ASSUME NEW C, NEW columns \in Seq(C), NEW n, NEW k \in DOMAIN columns, columns[k].name = n
  PROVE  \E i \in DOMAIN columns :
            /\ columns[i].name = n
            /\ \A j \in DOMAIN columns : columns[j].name = n => j <= i
<1> DEFINE S == {m \in Nat : Len(columns) - m \in DOMAIN columns
                              /\ columns[Len(columns) - m].name = n}
<1>1. Len(columns) \in Nat /\ DOMAIN columns = 1..Len(columns)
  OBVIOUS
<1>2. \A j \in DOMAIN columns : columns[j].name = n => Len(columns) - j \in S
  <2> SUFFICES ASSUME NEW j \in DOMAIN columns, columns[j].name = n
               PROVE  Len(columns) - j \in S
    OBVIOUS
  <2>1. Len(columns) - j \in Nat /\ Len(columns) - (Len(columns) - j) = j
    BY <1>1
  <2> QED
    BY <2>1
<1>3. S \in SUBSET Nat /\ S # {}
  BY <1>2
<1>4. PICK m \in S : \A j \in S : m <= j
  BY ONLY <1>3, LeastNatural
<1>5. ASSUME NEW j \in DOMAIN columns, columns[j].name = n
      PROVE  j <= Len(columns) - m
  <2>1. m <= Len(columns) - j
    BY <1>2, <1>4, <1>5
  <2> QED
    BY <1>1, <1>4, <2>1
<1> QED
  BY <1>4, <1>5

Named(a) ==
    /\ a = [n \in DOMAIN a |-> a[n]]
    /\ \A n \in DOMAIN a : IsColumn(a[n]) /\ a[n].name = n

LEMMA ByNameNamed ==
  ASSUME NEW columns, AreColumns(columns)
  PROVE  Named(ByName(columns))
<1> DEFINE a == ByName(columns)
<1>1. a = [n \in DOMAIN a |-> a[n]]
  BY DEF ByName
<1>2. ASSUME NEW n \in DOMAIN a
      PROVE  IsColumn(a[n]) /\ a[n].name = n
  <2> DEFINE last == CHOOSE i \in DOMAIN columns :
                        /\ columns[i].name = n
                        /\ \A k \in DOMAIN columns : columns[k].name = n => k <= i
  <2>1. n \in {columns[i].name : i \in DOMAIN columns} /\ a[n] = columns[last]
    BY <1>2 DEF ByName
  <2>2. PICK k \in DOMAIN columns : columns[k].name = n
    BY <2>1
  <2>3. \E i \in DOMAIN columns :
            /\ columns[i].name = n
            /\ \A j \in DOMAIN columns : columns[j].name = n => j <= i
    BY <2>2, LastOfName DEF AreColumns
  <2>4. last \in DOMAIN columns /\ columns[last].name = n
    BY <2>3
  <2> HIDE DEF last
  <2> QED
    BY <2>1, <2>4 DEF AreColumns
<1> QED
  BY <1>1, <1>2 DEF Named

(* Columns that are not told to have changed are the same.                 *)
LEMMA UnchangedColumn ==
  ASSUME NEW a, NEW b, Named(a), Named(b), NEW n \in DOMAIN a \cap DOMAIN b,
         n \notin ChangedColumns(a, b)
  PROVE  a[n] = b[n]
<1>1. a[n].type = b[n].type /\ a[n].nullable = b[n].nullable /\ a[n].default = b[n].default
  BY DEF ChangedColumns
<1>2. a[n].name = b[n].name /\ IsColumn(a[n]) /\ IsColumn(b[n])
  BY DEF Named
<1> QED
  BY <1>1, <1>2 DEF IsColumn

(* The columns of a table in one snapshot, with what the difference to     *)
(* another one says, are those of the other one.                           *)
LEMMA ColumnsPatched ==
  ASSUME NEW a, NEW b, Named(a), Named(b), NEW d,
         d.added = {b[n] : n \in DOMAIN b \ DOMAIN a},
         d.removed = {a[n] : n \in DOMAIN a \ DOMAIN b},
         d.changed = {[name |-> n, from |-> a[n], to |-> b[n]] : n \in ChangedColumns(a, b)}
  PROVE  PatchColumns(a, d) = b
<1>1. {c.name : c \in d.removed} = DOMAIN a \ DOMAIN b
  BY DEF Named
<1>2. {c.name : c \in d.added} = DOMAIN b \ DOMAIN a
  BY DEF Named
<1>3. (DOMAIN a \ {c.name : c \in d.removed}) \cup {c.name : c \in d.added} = DOMAIN b
  BY <1>1, <1>2
<1> DEFINE now(n) == IF \E c \in d.added : c.name = n THEN CHOOSE c \in d.added : c.name = n
                     ELSE IF \E c \in d.changed : c.name = n
                     THEN (CHOOSE c \in d.changed : c.name = n).to ELSE a[n]
<1>4. ASSUME NEW n \in DOMAIN b
      PROVE  now(n) = b[n]
  <2>1. CASE \E c \in d.added : c.name = n
    <3>1. \A c \in d.added : c.name = n => c = b[n]
      BY DEF Named
    <3> QED
      BY <2>1, <3>1
  <2>2. CASE ~(\E c \in d.added : c.name = n) /\ \E c \in d.changed : c.name = n
    <3>1. \A c \in d.changed : c.name = n => c.to = b[n]
      OBVIOUS
    <3> QED
      BY <2>2, <3>1
  <2>3. CASE ~(\E c \in d.added : c.name = n) /\ ~(\E c \in d.changed : c.name = n)
    <3>1. n \in DOMAIN a
      BY <1>2, <2>3
    <3>2. n \notin ChangedColumns(a, b)
      <4> SUFFICES ASSUME n \in ChangedColumns(a, b)
                   PROVE  FALSE
        OBVIOUS
      <4> DEFINE c == [name |-> n, from |-> a[n], to |-> b[n]]
      <4>1. c \in d.changed /\ c.name = n
        OBVIOUS
      <4> QED
        BY <2>3, <4>1
    <3> QED
      BY <2>3, <3>1, <3>2, UnchangedColumn
  <2> QED
    BY <2>1, <2>2, <2>3
<1>5. PatchColumns(a, d) = [n \in DOMAIN b |-> now(n)]
  BY <1>3 DEF PatchColumns
<1>6. [n \in DOMAIN b |-> now(n)] = [n \in DOMAIN b |-> b[n]]
  BY <1>4
<1> QED
  BY <1>5, <1>6 DEF Named

(* The changes of one table, and when there are any.                       *)
Delta(from, to, t) ==
    [table |-> t,
     added |-> {ByName(to[t])[n] : n \in DOMAIN ByName(to[t]) \ DOMAIN ByName(from[t])},
     removed |-> {ByName(from[t])[n] : n \in DOMAIN ByName(from[t]) \ DOMAIN ByName(to[t])},
     changed |-> {[name |-> n, from |-> ByName(from[t])[n], to |-> ByName(to[t])[n]]
                     : n \in ChangedColumns(ByName(from[t]), ByName(to[t]))}]

Tells(d) == d.added \cup d.removed # {} \/ d.changed # {}

LEMMA DiffSchemasIs ==
  ASSUME NEW from, NEW to, NEW d, d = DiffSchemas(from, to)
  PROVE  /\ d.addedTables = {[table |-> t, columns |-> to[t]] : t \in DOMAIN to \ DOMAIN from}
         /\ d.removedTables = {[table |-> t, was |-> from[t]] : t \in DOMAIN from \ DOMAIN to}
         /\ d.changedTables
               = {x \in {Delta(from, to, t) : t \in DOMAIN from \cap DOMAIN to} : Tells(x)}
  BY DEF DiffSchemas, Delta, Tells

(* A table in both snapshots, of which nothing is told.                    *)
LEMMA NothingTold ==
  ASSUME NEW from, NEW to, NEW t, Named(ByName(from[t])), Named(ByName(to[t])),
         ~Tells(Delta(from, to, t))
  PROVE  ByName(from[t]) = ByName(to[t])
<1> DEFINE a == ByName(from[t])
           b == ByName(to[t])
           d == Delta(from, to, t)
<1>1. /\ d.added = {b[n] : n \in DOMAIN b \ DOMAIN a}
      /\ d.removed = {a[n] : n \in DOMAIN a \ DOMAIN b}
      /\ d.changed = {[name |-> n, from |-> a[n], to |-> b[n]] : n \in ChangedColumns(a, b)}
  BY DEF Delta
<1>2. d.added = {} /\ d.removed = {} /\ d.changed = {}
  BY DEF Tells
<1> HIDE DEF a, b, d
<1>3. Named(a) /\ Named(b)
  BY DEF a, b
<1>4. DOMAIN a = DOMAIN b
  BY <1>1, <1>2
<1>5. ChangedColumns(a, b) = {}
  BY <1>1, <1>2
<1>6. \A n \in DOMAIN a : a[n] = b[n]
  BY <1>3, <1>4, <1>5, UnchangedColumn
<1>7. a = b
  BY <1>3, <1>4, <1>6 DEF Named
<1> QED
  BY <1>7 DEF a, b

(* The tables of one snapshot, with what the difference to another one     *)
(* says, are those of the other one.                                       *)
LEMMA TablesPatched ==
  ASSUME NEW from, NEW to, IsSchema(from), IsSchema(to)
  PROVE  PatchTables(from, DiffSchemas(from, to)) = [t \in DOMAIN to |-> ByName(to[t])]
<1> DEFINE d == DiffSchemas(from, to)
<1>1. /\ d.addedTables = {[table |-> t, columns |-> to[t]] : t \in DOMAIN to \ DOMAIN from}
      /\ d.removedTables = {[table |-> t, was |-> from[t]] : t \in DOMAIN from \ DOMAIN to}
      /\ d.changedTables
            = {x \in {Delta(from, to, t) : t \in DOMAIN from \cap DOMAIN to} : Tells(x)}
  BY DiffSchemasIs
<1> HIDE DEF d
<1> DEFINE now(t) == IF \E x \in d.addedTables : x.table = t
                     THEN ByName((CHOOSE x \in d.addedTables : x.table = t).columns)
                     ELSE IF \E x \in d.changedTables : x.table = t
                     THEN PatchColumns(ByName(from[t]), CHOOSE x \in d.changedTables : x.table = t)
                     ELSE ByName(from[t])
<1>2. {x.table : x \in d.removedTables} = DOMAIN from \ DOMAIN to
  <2>1. \A x \in d.removedTables : x.table \in DOMAIN from \ DOMAIN to
    BY <1>1
  <2>2. ASSUME NEW t \in DOMAIN from \ DOMAIN to
        PROVE  t \in {x.table : x \in d.removedTables}
    <3> DEFINE x == [table |-> t, was |-> from[t]]
    <3>1. x \in d.removedTables /\ x.table = t
      BY <1>1, <2>2
    <3> QED
      BY <3>1
  <2> QED
    BY <2>1, <2>2
<1>3. {x.table : x \in d.addedTables} = DOMAIN to \ DOMAIN from
  <2>1. \A x \in d.addedTables : x.table \in DOMAIN to \ DOMAIN from
    BY <1>1
  <2>2. ASSUME NEW t \in DOMAIN to \ DOMAIN from
        PROVE  t \in {x.table : x \in d.addedTables}
    <3> DEFINE x == [table |-> t, columns |-> to[t]]
    <3>1. x \in d.addedTables /\ x.table = t
      BY <1>1, <2>2
    <3> QED
      BY <3>1
  <2> QED
    BY <2>1, <2>2
<1>4. (DOMAIN from \ {x.table : x \in d.removedTables}) \cup {x.table : x \in d.addedTables}
         = DOMAIN to
  BY <1>2, <1>3
<1>5. \A t : Delta(from, to, t).table = t
  BY DEF Delta
<1>6. ASSUME NEW t \in DOMAIN to
      PROVE  now(t) = ByName(to[t])
  <2>1. Named(ByName(to[t])) /\ (t \in DOMAIN from => Named(ByName(from[t])))
    BY ByNameNamed DEF IsSchema
  <2>2. CASE t \notin DOMAIN from
    <3>1. \E x \in d.addedTables : x.table = t
      BY <1>3, <2>2
    <3>2. \A x \in d.addedTables : x.table = t => x.columns = to[t]
      BY <1>1
    <3> QED
      BY <3>1, <3>2
  <2>3. CASE t \in DOMAIN from /\ Tells(Delta(from, to, t))
    <3>1. ~(\E x \in d.addedTables : x.table = t)
      BY <1>3, <2>3
    <3>2. \E x \in d.changedTables : x.table = t
      BY <1>1, <1>5, <2>3
    <3>3. \A x \in d.changedTables : x.table = t => x = Delta(from, to, t)
      BY <1>1, <1>5
    <3>4. now(t) = PatchColumns(ByName(from[t]), Delta(from, to, t))
      BY <3>1, <3>2, <3>3
    <3> DEFINE a == ByName(from[t])
               b == ByName(to[t])
    <3>5. /\ Delta(from, to, t).added = {b[n] : n \in DOMAIN b \ DOMAIN a}
          /\ Delta(from, to, t).removed = {a[n] : n \in DOMAIN a \ DOMAIN b}
          /\ Delta(from, to, t).changed
                = {[name |-> n, from |-> a[n], to |-> b[n]] : n \in ChangedColumns(a, b)}
      BY DEF Delta
    <3>6. Named(a) /\ Named(b)
      BY <2>1, <2>3
    <3> HIDE DEF a, b
    <3>7. PatchColumns(a, Delta(from, to, t)) = b
      BY <3>5, <3>6, ColumnsPatched
    <3> QED
      BY <3>4, <3>7 DEF a, b
  <2>4. CASE t \in DOMAIN from /\ ~Tells(Delta(from, to, t))
    <3>1. ~(\E x \in d.addedTables : x.table = t)
      BY <1>3, <2>4
    <3>2. ~(\E x \in d.changedTables : x.table = t)
      BY <1>1, <1>5, <2>4
    <3>3. ByName(from[t]) = ByName(to[t])
      BY <2>1, <2>4, NothingTold
    <3> QED
      BY <3>1, <3>2, <3>3
  <2> QED
    BY <2>2, <2>3, <2>4
<1>7. PatchTables(from, d) = [t \in DOMAIN to |-> now(t)]
  BY <1>4 DEF PatchTables
<1>8. [t \in DOMAIN to |-> now(t)] = [t \in DOMAIN to |-> ByName(to[t])]
  BY <1>6
<1> QED
  BY <1>7, <1>8 DEF d

IsCount(counts) == counts = [k \in DOMAIN counts |-> counts[k]]

LEMMA CountsPatched ==
  ASSUME NEW from, NEW to, IsCount(to)
  PROVE  PatchCounts(from, BucketDiff(from, to)) = to
<1> DEFINE d == BucketDiff(from, to)
<1>1. /\ d.added = {[kind |-> k, count |-> to[k]] : k \in DOMAIN to \ DOMAIN from}
      /\ d.removed = {[kind |-> k, was |-> from[k]] : k \in DOMAIN from \ DOMAIN to}
      /\ d.changed = {[kind |-> k, from |-> from[k], to |-> to[k]]
                         : k \in {j \in DOMAIN from \cap DOMAIN to : from[j] # to[j]}}
  BY DEF BucketDiff
<1> HIDE DEF d
<1> DEFINE now(k) == IF \E x \in d.added : x.kind = k
                     THEN (CHOOSE x \in d.added : x.kind = k).count
                     ELSE IF \E x \in d.changed : x.kind = k
                     THEN (CHOOSE x \in d.changed : x.kind = k).to ELSE from[k]
<1>2. {x.kind : x \in d.removed} = DOMAIN from \ DOMAIN to
  <2>1. \A x \in d.removed : x.kind \in DOMAIN from \ DOMAIN to
    BY <1>1
  <2>2. ASSUME NEW k \in DOMAIN from \ DOMAIN to
        PROVE  k \in {x.kind : x \in d.removed}
    <3> DEFINE x == [kind |-> k, was |-> from[k]]
    <3>1. x \in d.removed /\ x.kind = k
      BY <1>1, <2>2
    <3> QED
      BY <3>1
  <2> QED
    BY <2>1, <2>2
<1>3. {x.kind : x \in d.added} = DOMAIN to \ DOMAIN from
  <2>1. \A x \in d.added : x.kind \in DOMAIN to \ DOMAIN from
    BY <1>1
  <2>2. ASSUME NEW k \in DOMAIN to \ DOMAIN from
        PROVE  k \in {x.kind : x \in d.added}
    <3> DEFINE x == [kind |-> k, count |-> to[k]]
    <3>1. x \in d.added /\ x.kind = k
      BY <1>1, <2>2
    <3> QED
      BY <3>1
  <2> QED
    BY <2>1, <2>2
<1>4. (DOMAIN from \ {x.kind : x \in d.removed}) \cup {x.kind : x \in d.added} = DOMAIN to
  BY <1>2, <1>3
<1>5. ASSUME NEW k \in DOMAIN to
      PROVE  now(k) = to[k]
  <2>1. \A x \in d.added : x.kind = k => x.count = to[k]
    BY <1>1
  <2>2. \A x \in d.changed : x.kind = k => x.to = to[k]
    BY <1>1
  <2>3. CASE ~(\E x \in d.added : x.kind = k) /\ ~(\E x \in d.changed : x.kind = k)
    <3>1. k \in DOMAIN from
      BY <1>3, <2>3
    <3>2. from[k] = to[k]
      <4> SUFFICES ASSUME from[k] # to[k]
                   PROVE  FALSE
        OBVIOUS
      <4> DEFINE x == [kind |-> k, from |-> from[k], to |-> to[k]]
      <4>1. x \in d.changed /\ x.kind = k
        BY <1>1, <3>1
      <4> QED
        BY <2>3, <4>1
    <3> QED
      BY <2>3, <3>2
  <2> QED
    BY <2>1, <2>2, <2>3
<1>6. PatchCounts(from, d) = [k \in DOMAIN to |-> now(k)]
  BY <1>4 DEF PatchCounts
<1>7. [k \in DOMAIN to |-> now(k)] = [k \in DOMAIN to |-> to[k]]
  BY <1>5
<1> QED
  BY <1>6, <1>7 DEF IsCount, d

(* What is stored under the labels: schemas, and counts by kind.           *)
SnapshotsInv ==
    /\ sources \in Project
    /\ schema = [l \in Label |-> schema[l]]
    /\ arch = [l \in Label |-> arch[l]]
    /\ \A l \in Label : /\ IsSchema(schema[l])
                        /\ IsCount(arch[l].nodesByKind) /\ IsCount(arch[l].edgesByKind)

LEMMA ArchCounts ==
  ASSUME NEW g, NEW hubs
  PROVE  /\ IsCount(ArchSnapshot(g, hubs).nodesByKind)
         /\ IsCount(ArchSnapshot(g, hubs).edgesByKind)
  BY DEF ArchSnapshot, CountsByKind, IsCount

LEMMA InitSnapshots == Init => SnapshotsInv
<1> SUFFICES ASSUME Init
             PROVE  SnapshotsInv
  OBVIOUS
<1>1. IsSchema(NoTables)
  BY DEF NoTables, IsSchema
<1> QED
  BY <1>1, ArchCounts DEF Init, SnapshotsInv, NoShape

LEMMA StepSnapshots == SnapshotsInv /\ [Next]_vars => SnapshotsInv'
<1> SUFFICES ASSUME SnapshotsInv, [Next]_vars
             PROVE  SnapshotsInv'
  OBVIOUS
<1>1. CASE UNCHANGED <<sources, schema, arch>>
  BY <1>1 DEF SnapshotsInv
<1>2. CASE Edit
  BY <1>2 DEF Edit, SnapshotsInv
<1>3. ASSUME NEW l \in Label, SchemaSnapshot(l)
      PROVE  SnapshotsInv'
  <2> DEFINE tables == ReadFlywayMigrations(Content[sources].migrations)
  <2>1. IsSchema(tables)
    BY MigrationsAssumption DEF SnapshotsInv
  <2>2. schema' = [schema EXCEPT ![l] = tables] /\ UNCHANGED <<sources, arch>>
    BY <1>3 DEF SchemaSnapshot
  <2> HIDE DEF tables
  <2> QED
    BY <2>1, <2>2 DEF SnapshotsInv
<1>4. ASSUME NEW l \in Label, TakeArchSnapshot(l)
      PROVE  SnapshotsInv'
  <2> DEFINE g == Parse(Content[sources])
  <2>1. PICK hubs \in HubSamples(g, HubSampleSize) :
            arch' = [arch EXCEPT ![l] = ArchSnapshot(g, hubs)]
    BY <1>4 DEF TakeArchSnapshot
  <2>2. UNCHANGED <<sources, schema>>
    BY <1>4 DEF TakeArchSnapshot
  <2> HIDE DEF g
  <2> DEFINE shape == ArchSnapshot(g, hubs)
  <2>3. IsCount(shape.nodesByKind) /\ IsCount(shape.edgesByKind)
    BY ArchCounts
  <2> HIDE DEF shape
  <2>4. arch' = [arch EXCEPT ![l] = shape]
    BY <2>1 DEF shape
  <2> QED
    BY <2>2, <2>3, <2>4 DEF SnapshotsInv
<1> QED
  BY <1>1, <1>2, <1>3, <1>4
  DEF Next, vars, StartRun, EndRun, ParseBaseline, WriteBaseline, Begin, Count, WritePending,
      LoadBefore, LoadAfter, End

(* Of any two snapshots of the schema or of the architecture, the older    *)
(* one with the difference applied is the newer one: no table, column,     *)
(* count or hub that is new, gone or changed is left out (diffSchemas,     *)
(* diffSnapshots).                                                         *)
THEOREM DiffsLosslessAlways == Spec => []DiffsLossless
<1>1. SnapshotsInv => DiffsLossless
  <2> SUFFICES ASSUME SnapshotsInv, NEW a \in Label, NEW b \in Label
               PROVE  LET shape == DiffSnapshots(arch[a], arch[b]) IN
                      /\ PatchTables(schema[a], DiffSchemas(schema[a], schema[b]))
                            = [t \in DOMAIN schema[b] |-> ByName(schema[b][t])]
                      /\ PatchCounts(arch[a].nodesByKind, shape.nodes) = arch[b].nodesByKind
                      /\ PatchCounts(arch[a].edgesByKind, shape.edges) = arch[b].edgesByKind
                      /\ (arch[a].hubs \ shape.goneHubs) \cup shape.newHubs = arch[b].hubs
    BY DEF DiffsLossless
  <2>1. PatchTables(schema[a], DiffSchemas(schema[a], schema[b]))
            = [t \in DOMAIN schema[b] |-> ByName(schema[b][t])]
    BY TablesPatched DEF SnapshotsInv
  <2> DEFINE shape == DiffSnapshots(arch[a], arch[b])
  <2>2. /\ shape.nodes = BucketDiff(arch[a].nodesByKind, arch[b].nodesByKind)
        /\ shape.edges = BucketDiff(arch[a].edgesByKind, arch[b].edgesByKind)
        /\ shape.newHubs = arch[b].hubs \ arch[a].hubs
        /\ shape.goneHubs = arch[a].hubs \ arch[b].hubs
    BY DEF DiffSnapshots
  <2> HIDE DEF shape
  <2>3. /\ PatchCounts(arch[a].nodesByKind, shape.nodes) = arch[b].nodesByKind
        /\ PatchCounts(arch[a].edgesByKind, shape.edges) = arch[b].edgesByKind
    BY <2>2, CountsPatched DEF SnapshotsInv
  <2>4. (arch[a].hubs \ shape.goneHubs) \cup shape.newHubs = arch[b].hubs
    BY <2>2
  <2> QED
    BY <2>1, <2>3, <2>4 DEF shape
<1> QED
  BY <1>1, InitSnapshots, StepSnapshots, PTL DEF Spec

(***************************************************************************)
(* Reports that are exact.  The rows of a project are, one for one, what   *)
(* its sources declare (Faithful), so a row that is lost, changed or       *)
(* paired with another is a declaration that is, and the change reported   *)
(* for it says what happened to the declaration.                           *)
(***************************************************************************)
LEMMA AllNaturals ==
  ASSUME NEW T, 0 \in T, \A n \in Nat : n \in T => n + 1 \in T
  PROVE  Nat \subseteq T
<1>1. SUFFICES ASSUME Nat \ T # {}
               PROVE  FALSE
  OBVIOUS
<1>2. PICK i \in Nat \ T : \A j \in Nat \ T : i <= j
  BY <1>1, LeastNatural
<1>3. i # 0 /\ i - 1 \in Nat
  BY <1>2
<1>4. i - 1 \in T
  BY <1>2, <1>3
<1>5. (i - 1) + 1 \in T
  BY <1>3, <1>4
<1> QED
  BY <1>2, <1>5

(* The place of a number in a set of them.                                 *)
Rank(S, i) == Cardinality({j \in S : j <= i})

LEMMA RankWithin ==
  ASSUME NEW S \in SUBSET Nat, IsFiniteSet(S), NEW i \in S
  PROVE  /\ Cardinality(S) \in Nat
         /\ Rank(S, i) \in 1..Cardinality(S)
<1> DEFINE T == {j \in S : j <= i}
<1>1. T \in SUBSET S /\ i \in T
  OBVIOUS
<1>2. IsFiniteSet(T) /\ Cardinality(T) <= Cardinality(S)
  BY <1>1, FS_Subset
<1>3. Cardinality(T) \in Nat /\ Cardinality(S) \in Nat
  BY <1>2, FS_CardinalityType
<1>4. Cardinality(T) # 0
  BY <1>1, <1>2, FS_EmptySet
<1> QED
  BY <1>2, <1>3, <1>4 DEF Rank

LEMMA RankGrows ==
  ASSUME NEW S \in SUBSET Nat, IsFiniteSet(S), NEW i \in S, NEW j \in S, i < j
  PROVE  Rank(S, i) < Rank(S, j)
<1> DEFINE T == {x \in S : x <= i}
           U == {x \in S : x <= j}
<1>0. i \in Nat /\ j \in Nat
  OBVIOUS
<1>1. T \in SUBSET U /\ U \in SUBSET S /\ j \in U /\ j \notin T
  <2>1. \A x \in S : x \in Nat /\ (x <= i => x <= j)
    BY <1>0
  <2>2. ~(j <= i) /\ j <= j
    BY <1>0
  <2> QED
    BY <2>1, <2>2
<1>2. IsFiniteSet(U)
  BY <1>1, FS_Subset
<1>3. IsFiniteSet(T) /\ Cardinality(T) <= Cardinality(U) /\ Cardinality(U) # Cardinality(T)
  BY <1>1, <1>2, FS_Subset
<1>4. Cardinality(T) \in Nat /\ Cardinality(U) \in Nat
  BY <1>2, <1>3, FS_CardinalityType
<1> QED
  BY <1>3, <1>4 DEF Rank

LEMMA RankFound ==
  ASSUME NEW S \in SUBSET Nat, IsFiniteSet(S), NEW k \in 1..Cardinality(S)
  PROVE  \E i \in S : Rank(S, i) = k
<1> DEFINE f == [i \in S |-> Rank(S, i)]
           n == Cardinality(S)
           T == (1..n) \ {k}
<1>1. n \in Nat
  BY FS_CardinalityType
<1>2. SUFFICES ASSUME \A i \in S : Rank(S, i) # k PROVE FALSE
  OBVIOUS
<1>3. \A i \in S : Rank(S, i) \in T
  BY <1>2, RankWithin
<1>4. f \in [S -> T]
  BY <1>3
<1>5. IsFiniteSet(1..n) /\ Cardinality(1..n) = n
  BY <1>1, FS_Interval
<1>6. IsFiniteSet(T) /\ Cardinality(T) = n - 1
  BY <1>5, FS_RemoveElement
<1> HIDE DEF T, f
<1>9. Cardinality(T) < Cardinality(S)
  BY <1>1, <1>6
<1>7. PICK i, j \in S : i # j /\ f[i] = f[j]
  BY ONLY <1>4, <1>6, <1>9, FS_PigeonHole, IsFiniteSet(S)
<1>8. Rank(S, i) = Rank(S, j) /\ Rank(S, i) \in Nat /\ i \in Nat /\ j \in Nat
  BY <1>7, RankWithin DEF f
<1> HIDE DEF n
<1> QED
  BY <1>7, <1>8, RankGrows

(* InOrder() goes through all of a finite set, from the least on.          *)
Ordered(e, n, S) ==
    /\ e \in [1..n -> S]
    /\ \A i \in S : \E k \in 1..n : e[k] = i
    /\ \A k, l \in 1..n : k < l => e[k] < e[l]

LEMMA InOrderIs ==
  ASSUME NEW S \in SUBSET Nat, IsFiniteSet(S)
  PROVE  Cardinality(S) \in Nat /\ Ordered(InOrder(S), Cardinality(S), S)
<1> DEFINE n == Cardinality(S)
           e == InOrder(S)
<1>1. n \in Nat
  BY FS_CardinalityType
<1>2. ASSUME NEW k \in 1..n PROVE e[k] \in S /\ Rank(S, e[k]) = k
  <2>1. e[k] = CHOOSE i \in S : Rank(S, i) = k
    BY DEF InOrder, Rank
  <2> QED
    BY <2>1, RankFound
<1>3. e \in [1..n -> S]
  BY <1>2 DEF InOrder
<1> HIDE DEF n, e
<1>4. ASSUME NEW i \in S PROVE \E k \in 1..n : e[k] = i
  <2>1. Rank(S, i) \in 1..n
    BY RankWithin DEF n
  <2>2. e[Rank(S, i)] \in S /\ Rank(S, e[Rank(S, i)]) = Rank(S, i)
    BY <1>2, <2>1
  <2>3. ~(e[Rank(S, i)] < i) /\ ~(i < e[Rank(S, i)])
    <3>1. ASSUME NEW a \in S, NEW b \in S, Rank(S, a) = Rank(S, b) PROVE ~(a < b)
      <4>1. Rank(S, a) \in Nat
        BY RankWithin
      <4> QED
        BY <3>1, <4>1, RankGrows
    <3> QED
      BY <2>2, <3>1
  <2> DEFINE r == Rank(S, i)
  <2>4. e[r] \in Nat /\ i \in Nat
    BY <2>2
  <2> HIDE DEF r
  <2>5. e[r] = i
    BY <2>3, <2>4 DEF r
  <2> QED
    BY <2>1, <2>5 DEF r
<1>5. ASSUME NEW k \in 1..n, NEW l \in 1..n, k < l PROVE e[k] < e[l]
  <2>1. e[k] \in S /\ e[l] \in S /\ Rank(S, e[k]) = k /\ Rank(S, e[l]) = l
    BY <1>2
  <2>2. e[k] # e[l]
    BY <1>1, <1>5, <2>1
  <2>3. ~(e[l] < e[k])
    <3>1. e[l] < e[k] => l < k
      BY <2>1, RankGrows
    <3> QED
      BY <1>1, <1>5, <3>1
  <2>4. e[k] \in Nat /\ e[l] \in Nat
    BY <2>1
  <2> QED
    BY <2>2, <2>3, <2>4
<1> QED
  BY <1>1, <1>3, <1>4, <1>5 DEF Ordered, n, e

Firsts(e, k, S) == {j \in S : \E i \in 1..k : e[i] = j}

LEMMA RankInOrder ==
  ASSUME NEW S \in SUBSET Nat, NEW n \in Nat, NEW e, Ordered(e, n, S), NEW k \in 0..n
  PROVE  IsFiniteSet(Firsts(e, k, S)) /\ Cardinality(Firsts(e, k, S)) = k
<1> DEFINE T(m) == Firsts(e, m, S)
           Good == {m \in Nat : m <= n => IsFiniteSet(T(m)) /\ Cardinality(T(m)) = m}
<1>1. 0 \in Good
  <2>1. T(0) = {}
    BY DEF Firsts
  <2> QED
    BY <2>1, FS_EmptySet
<1>2. ASSUME NEW m \in Nat, m \in Good PROVE m + 1 \in Good
  <2> SUFFICES ASSUME m + 1 <= n
               PROVE  IsFiniteSet(T(m + 1)) /\ Cardinality(T(m + 1)) = m + 1
    OBVIOUS
  <2>1. m + 1 \in 1..n /\ \A i \in 1..m : i \in 1..n /\ i < m + 1
    OBVIOUS
  <2>2. e[m + 1] \in S /\ \A i \in 1..m : e[i] < e[m + 1] /\ e[i] \in Nat
    BY <2>1 DEF Ordered
  <2>3. e[m + 1] \notin T(m)
    BY <2>2 DEF Firsts
  <2>4. \A i : i \in 1..(m + 1) <=> i \in 1..m \/ i = m + 1
    OBVIOUS
  <2>5. T(m + 1) = T(m) \cup {e[m + 1]}
    BY <2>2, <2>4 DEF Firsts
  <2>6. IsFiniteSet(T(m)) /\ Cardinality(T(m)) = m
    BY <1>2
  <2> HIDE DEF T
  <2> QED
    BY <2>3, <2>5, <2>6, FS_AddElement
<1> HIDE DEF T, Good
<1>3. Nat \subseteq Good
  BY <1>1, <1>2, AllNaturals
<1>4. k \in Good
  BY <1>3
<1> QED
  BY <1>4 DEF T, Good

LEMMA OneOrder ==
  ASSUME NEW S \in SUBSET Nat, NEW n \in Nat, NEW e, Ordered(e, n, S)
  PROVE  InOrder(S) = e
<1>1. IsFiniteSet(S) /\ Cardinality(S) = n
  <2>1. Firsts(e, n, S) = S
    BY DEF Ordered, Firsts
  <2>2. n \in 0..n
    OBVIOUS
  <2> QED
    BY <2>1, <2>2, RankInOrder
<1>2. ASSUME NEW k \in 1..n PROVE Rank(S, e[k]) = k
  <2>1. Firsts(e, k, S) = {j \in S : j <= e[k]}
    <3>1. ASSUME NEW i \in 1..k PROVE e[i] <= e[k]
      <4>1. i \in 1..n /\ (i < k \/ i = k)
        OBVIOUS
      <4>2. e[i] \in Nat /\ e[k] \in Nat
        BY <4>1 DEF Ordered
      <4> QED
        BY <4>1, <4>2 DEF Ordered
    <3>2. ASSUME NEW j \in S, j <= e[k] PROVE \E i \in 1..k : e[i] = j
      <4>1. PICK i \in 1..n : e[i] = j
        BY DEF Ordered
      <4>2. e[k] \in Nat /\ e[i] \in Nat
        BY DEF Ordered
      <4>3. k < i => e[k] < e[i]
        BY DEF Ordered
      <4>4. ~(k < i)
        BY <3>2, <4>1, <4>2, <4>3
      <4> QED
        BY <4>1, <4>4
    <3> QED
      BY <3>1, <3>2 DEF Firsts
  <2>2. k \in 0..n
    OBVIOUS
  <2>3. Cardinality(Firsts(e, k, S)) = k
    BY <2>2, RankInOrder
  <2> QED
    BY <2>1, <2>3 DEF Rank
<1>3. ASSUME NEW k \in 1..n PROVE (CHOOSE i \in S : Rank(S, i) = k) = e[k]
  <2>1. \A i \in S : Rank(S, i) = k => i = e[k]
    BY <1>2 DEF Ordered
  <2>2. e[k] \in S
    BY DEF Ordered
  <2> QED
    BY <1>2, <2>1, <2>2
<1>4. InOrder(S) = [k \in 1..n |-> CHOOSE i \in S : Rank(S, i) = k]
  BY <1>1 DEF InOrder, Rank
<1> QED
  BY <1>3, <1>4 DEF Ordered

(* The words of a path, and the path they make.                            *)
WordsAt(p) == {i \in DOMAIN p : p[i] # "/"}

Spell(w) == [j \in 1..(IF Len(w) = 0 THEN 1 ELSE 2 * Len(w)) |->
                IF j % 2 = 1 THEN "/" ELSE w[j \div 2]]

LEMMA WordsIs ==
  ASSUME NEW C, NEW p \in Seq(C)
  PROVE  LET n == Cardinality(WordsAt(p))
             e == InOrder(WordsAt(p)) IN
         /\ n \in Nat /\ Ordered(e, n, WordsAt(p))
         /\ Words(p) = [k \in 1..n |-> p[e[k]]]
         /\ Words(p) \in Seq(C) /\ Len(Words(p)) = n
         /\ \A k \in 1..n : Words(p)[k] # "/"
<1> DEFINE n == Cardinality(WordsAt(p))
           e == InOrder(WordsAt(p))
<1>1. WordsAt(p) \in SUBSET Nat /\ IsFiniteSet(WordsAt(p))
  <2>1. DOMAIN p = 1..Len(p) /\ Len(p) \in Nat
    OBVIOUS
  <2>2. IsFiniteSet(DOMAIN p) /\ WordsAt(p) \in SUBSET DOMAIN p
    BY <2>1, FS_Interval DEF WordsAt
  <2> QED
    BY <2>1, <2>2, FS_Subset
<1>2. n \in Nat /\ Ordered(e, n, WordsAt(p))
  BY <1>1, InOrderIs
<1>3. DOMAIN e = 1..n /\ \A k \in 1..n : e[k] \in DOMAIN p /\ p[e[k]] # "/"
  BY <1>2 DEF Ordered, WordsAt
<1>4. Words(p) = [k \in 1..n |-> p[e[k]]]
  BY <1>3 DEF Words, WordsAt
<1> HIDE DEF n, e
<1>5. Words(p) \in Seq(C) /\ Len(Words(p)) = n
  <2>1. \A k \in 1..n : p[e[k]] \in C
    BY <1>3
  <2> QED
    BY <1>2, <1>4, <2>1
<1>6. \A k \in 1..n : Words(p)[k] # "/"
  BY <1>3, <1>4
<1> QED
  BY <1>2, <1>4, <1>5, <1>6 DEF n, e

LEMMA Halves ==
  ASSUME NEW j \in Nat
  PROVE  \/ \E a \in Nat : j = 2 * a /\ j % 2 = 0 /\ j \div 2 = a
         \/ \E a \in Nat : j = 2 * a + 1 /\ j % 2 = 1 /\ (j + 1) \div 2 = a + 1
  OBVIOUS

LEMMA WordsOfSpell ==
  ASSUME NEW C, NEW w \in Seq(C), \A k \in 1..Len(w) : w[k] # "/"
  PROVE  Words(Spell(w)) = w
<1> DEFINE n == Len(w)
           m == IF n = 0 THEN 1 ELSE 2 * n
           s == Spell(w)
           e == [k \in 1..n |-> 2 * k]
<1>1. n \in Nat /\ m \in Nat /\ w = [k \in 1..n |-> w[k]]
  OBVIOUS
<1>2. s = [j \in 1..m |-> IF j % 2 = 1 THEN "/" ELSE w[j \div 2]]
  BY DEF Spell
<1>3. \A k \in 1..n : 2 * k \in 1..m /\ s[2 * k] = w[k]
  <2> TAKE k \in 1..n
  <2>1. 2 * k \in 1..m /\ (2 * k) % 2 = 0 /\ (2 * k) \div 2 = k
    BY <1>1
  <2> QED
    BY <1>2, <2>1
<1>4. ASSUME NEW j \in 1..m, s[j] # "/" PROVE \E k \in 1..n : j = 2 * k
  <2>1. j \in Nat /\ j % 2 # 1 /\ j # 0 /\ j <= m
    BY <1>1, <1>2, <1>4
  <2>2. PICK a \in Nat : j = 2 * a
    BY <2>1, Halves
  <2> QED
    BY <1>1, <2>1, <2>2
<1>5. DOMAIN s = 1..m
  BY <1>2
<1>6. \A i : i \in WordsAt(s) <=> \E k \in 1..n : i = 2 * k
  BY <1>3, <1>4, <1>5 DEF WordsAt
<1>7. WordsAt(s) \in SUBSET Nat
  BY <1>5, <1>1 DEF WordsAt
<1>8. Ordered(e, n, WordsAt(s))
  <2>1. e \in [1..n -> WordsAt(s)]
    BY <1>6
  <2>2. \A i \in WordsAt(s) : \E k \in 1..n : e[k] = i
    BY <1>6
  <2>3. \A k, l \in 1..n : k < l => e[k] < e[l]
    BY <1>1
  <2> QED
    BY <2>1, <2>2, <2>3 DEF Ordered
<1>9. InOrder(WordsAt(s)) = e
  BY <1>1, <1>7, <1>8, OneOrder
<1>10. Words(s) = [k \in DOMAIN e |-> s[e[k]]]
  BY <1>9 DEF Words, WordsAt
<1> HIDE DEF s
<1>11. Words(s) = [k \in 1..n |-> w[k]]
  BY <1>3, <1>10
<1> QED
  BY <1>1, <1>11 DEF s

(* A path is normalized by spelling out its words.                         *)
KeptAt(p) ==
    {i \in DOMAIN p : p[i] # "/" \/ (i > 1 /\ p[i - 1] # "/" /\ \E k \in DOMAIN p : k > i /\ p[k] # "/")}

LEMMA StepsGrow ==
  ASSUME NEW m \in Nat, NEW g \in [1..m -> Nat],
         \A j \in 1..m : j + 1 \in 1..m => g[j] < g[j + 1]
  PROVE  \A j, i \in 1..m : j < i => g[j] < g[i]
<1> DEFINE Good == {i \in Nat : i \in 1..m => \A j \in 1..m : j < i => g[j] < g[i]}
<1>1. 0 \in Good
  OBVIOUS
<1>2. ASSUME NEW i \in Nat, i \in Good PROVE i + 1 \in Good
  <2> SUFFICES ASSUME i + 1 \in 1..m, NEW j \in 1..m, j < i + 1 PROVE g[j] < g[i + 1]
    OBVIOUS
  <2>1. i \in 1..m /\ (j = i \/ j < i)
    OBVIOUS
  <2>2. g[i] < g[i + 1] /\ (j < i => g[j] < g[i])
    BY <1>2, <2>1
  <2>3. g[i] \in Nat /\ g[j] \in Nat /\ g[i + 1] \in Nat
    BY <2>1
  <2> QED
    BY <2>1, <2>2, <2>3
<1> HIDE DEF Good
<1>3. Nat \subseteq Good
  BY <1>1, <1>2, AllNaturals
<1> QED
  BY <1>3 DEF Good

Interleaved(e, n) ==
    [j \in 1..(2 * n - 1) |-> IF j % 2 = 1 THEN e[(j + 1) \div 2] ELSE e[j \div 2] + 1]

LEMMA KeptInOrder ==
  ASSUME NEW C, NEW p \in Seq(C),
         \A i \in 1..(Len(p) - 1) : p[i] = "/" \/ p[i + 1] = "/",
         NEW n \in Nat, NEW e, Ordered(e, n, WordsAt(p)), n # 0
  PROVE  /\ Ordered(Interleaved(e, n), 2 * n - 1, KeptAt(p))
         /\ \A k \in 1..(n - 1) : e[k] + 1 \in DOMAIN p /\ p[e[k] + 1] = "/"
<1> DEFINE m == 2 * n - 1
           g == Interleaved(e, n)
<1>0. g = [j \in 1..m |-> IF j % 2 = 1 THEN e[(j + 1) \div 2] ELSE e[j \div 2] + 1]
  BY DEF Interleaved
<1>1. m \in Nat /\ m >= 1
  OBVIOUS
<1>2. DOMAIN p = 1..Len(p) /\ Len(p) \in Nat
  OBVIOUS
<1>3. \A k \in 1..n : e[k] \in DOMAIN p /\ p[e[k]] # "/" /\ e[k] \in Nat
  BY <1>2 DEF Ordered, WordsAt
<1>4. \A k \in 1..(n - 1) : e[k] + 1 \in DOMAIN p /\ p[e[k] + 1] = "/" /\ e[k] + 1 < e[k + 1]
  <2> TAKE k \in 1..(n - 1)
  <2>1. k \in 1..n /\ k + 1 \in 1..n /\ k < k + 1
    OBVIOUS
  <2>2. e[k] < e[k + 1]
    BY <2>1 DEF Ordered
  <2>3. e[k] \in 1..(Len(p) - 1)
    BY <1>2, <1>3, <2>1, <2>2
  <2>4. p[e[k] + 1] = "/" /\ e[k] + 1 \in DOMAIN p
    BY <1>2, <1>3, <2>1, <2>3
  <2>5. e[k] + 1 # e[k + 1]
    BY <1>3, <2>1, <2>4
  <2> QED
    BY <1>3, <2>1, <2>2, <2>4, <2>5
<1>5. \A k \in 1..n : 2 * k - 1 \in 1..m /\ g[2 * k - 1] = e[k]
  <2> TAKE k \in 1..n
  <2>1. 2 * k - 1 \in 1..m /\ (2 * k - 1) % 2 = 1 /\ ((2 * k - 1) + 1) \div 2 = k
    OBVIOUS
  <2> QED
    BY <1>0, <2>1
<1>6. \A k \in 1..(n - 1) : 2 * k \in 1..m /\ g[2 * k] = e[k] + 1
  <2> TAKE k \in 1..(n - 1)
  <2>1. 2 * k \in 1..m /\ (2 * k) % 2 = 0 /\ (2 * k) \div 2 = k
    OBVIOUS
  <2> QED
    BY <1>0, <2>1
<1>7. \A j \in 1..m : \/ \E k \in 1..n : j = 2 * k - 1
                      \/ \E k \in 1..(n - 1) : j = 2 * k
  <2> TAKE j \in 1..m
  <2>1. j \in Nat
    OBVIOUS
  <2>2. CASE \E a \in Nat : j = 2 * a
    <3>1. PICK a \in Nat : j = 2 * a
      BY <2>2
    <3>2. a \in 1..(n - 1)
      BY <3>1
    <3> QED
      BY <3>1, <3>2
  <2>3. CASE \E a \in Nat : j = 2 * a + 1
    <3>1. PICK a \in Nat : j = 2 * a + 1
      BY <2>3
    <3>2. a + 1 \in 1..n /\ j = 2 * (a + 1) - 1
      BY <3>1
    <3> QED
      BY <3>2
  <2> QED
    BY <2>1, <2>2, <2>3, Halves
<1>8. g = [j \in 1..m |-> g[j]]
  BY <1>0
<1> HIDE DEF g
<1>9. ASSUME NEW k \in 1..(n - 1) PROVE e[k] + 1 \in KeptAt(p)
  <2>1. k \in 1..n /\ k + 1 \in 1..n
    OBVIOUS
  <2>2. e[k + 1] \in DOMAIN p /\ e[k + 1] > e[k] + 1 /\ p[e[k + 1]] # "/"
    BY <1>3, <1>4, <2>1
  <2>3. e[k] + 1 > 1 /\ (e[k] + 1) - 1 = e[k] /\ p[e[k]] # "/"
    BY <1>2, <1>3, <2>1
  <2> QED
    BY <1>4, <2>2, <2>3 DEF KeptAt
<1>10. \A j \in 1..m : g[j] \in KeptAt(p)
  <2> TAKE j \in 1..m
  <2>1. ASSUME NEW k \in 1..n, j = 2 * k - 1 PROVE g[j] \in KeptAt(p)
    BY <1>3, <1>5, <2>1 DEF KeptAt
  <2>2. ASSUME NEW k \in 1..(n - 1), j = 2 * k PROVE g[j] \in KeptAt(p)
    BY <1>6, <1>9, <2>2
  <2> QED
    BY <1>7, <2>1, <2>2
<1>11. ASSUME NEW i \in KeptAt(p) PROVE \E j \in 1..m : g[j] = i
  <2>1. CASE p[i] # "/"
    <3>1. i \in WordsAt(p)
      BY <2>1 DEF KeptAt, WordsAt
    <3>2. PICK k \in 1..n : e[k] = i
      BY <3>1 DEF Ordered
    <3> QED
      BY <1>5, <3>2
  <2>2. CASE p[i] = "/"
    <3>1. i \in 1..Len(p) /\ i > 1 /\ p[i - 1] # "/"
      BY <1>2, <2>2 DEF KeptAt
    <3>2. PICK l \in DOMAIN p : l > i /\ p[l] # "/"
      BY <2>2 DEF KeptAt
    <3>3. i - 1 \in WordsAt(p) /\ l \in WordsAt(p)
      BY <1>2, <3>1, <3>2 DEF WordsAt
    <3>4. PICK k \in 1..n : e[k] = i - 1
      BY <3>3 DEF Ordered
    <3>5. PICK h \in 1..n : e[h] = l
      BY <3>3 DEF Ordered
    <3>6. k # n
      <4>1. i - 1 < l
        BY <1>2, <3>1, <3>2
      <4>2. h < k => e[h] < e[k]
        BY DEF Ordered
      <4>3. i - 1 \in Nat /\ l \in Nat
        BY <1>2, <3>1, <3>2
      <4>4. h # k /\ ~(h < k)
        BY <3>4, <3>5, <4>1, <4>2, <4>3
      <4> QED
        BY <4>4
    <3>7. k \in 1..(n - 1) /\ e[k] + 1 = i
      BY <1>2, <3>1, <3>4, <3>6
    <3> QED
      BY <1>6, <3>7
  <2> QED
    BY <2>1, <2>2
<1>12. \A k, h \in 1..n : k < h => e[k] < e[h]
  BY DEF Ordered
<1>13. ASSUME NEW j \in 1..m, j + 1 \in 1..m PROVE g[j] < g[j + 1]
  <2>1. ASSUME NEW k \in 1..n, j = 2 * k - 1 PROVE g[j] < g[j + 1]
    <3>1. k \in 1..(n - 1) /\ j + 1 = 2 * k
      BY <1>13, <2>1
    <3>2. g[j] = e[k] /\ e[k] \in Nat
      BY <1>3, <1>5, <2>1
    <3>3. g[j + 1] = e[k] + 1
      BY <1>6, <3>1
    <3> QED
      BY <3>2, <3>3
  <2>2. ASSUME NEW k \in 1..(n - 1), j = 2 * k PROVE g[j] < g[j + 1]
    <3>1. k + 1 \in 1..n /\ j + 1 = 2 * (k + 1) - 1
      BY <2>2
    <3> QED
      BY <1>4, <1>5, <1>6, <2>2, <3>1
  <2> QED
    BY <1>7, <2>1, <2>2
<1>14. \A j, i \in 1..m : j < i => g[j] < g[i]
  <2>1. KeptAt(p) \in SUBSET Nat
    BY <1>2 DEF KeptAt
  <2>2. g \in [1..m -> Nat]
    BY <1>8, <1>10, <2>1
  <2> HIDE DEF m
  <2> QED
    BY <1>1, <1>13, <2>2, StepsGrow
<1> QED
  BY <1>4, <1>8, <1>10, <1>11, <1>14 DEF Ordered, g

LEMMA NormalizeIs ==
  ASSUME NEW p, Spelled(p)
  PROVE  /\ NormalizePath(p) = Spell(Words(p))
         /\ Words(NormalizePath(p)) = Words(p)
<1>0. PICK C : p \in Seq(C)
  BY DEF Spelled
<1> DEFINE W == WordsAt(p)
           n == Cardinality(W)
           e == InOrder(W)
           w == Words(p)
<1>1. p \in Seq(C) /\ \A i \in 1..(Len(p) - 1) : p[i] = "/" \/ p[i + 1] = "/"
  BY <1>0 DEF Spelled
<1>2. /\ n \in Nat /\ Ordered(e, n, W)
      /\ w = [k \in 1..n |-> p[e[k]]]
      /\ w \in Seq(C) /\ Len(w) = n
      /\ \A k \in 1..n : w[k] # "/"
  BY <1>1, WordsIs
<1> DEFINE kept == InOrder(KeptAt(p))
<1>3. NormalizePath(p) = <<"/">> \o [k \in DOMAIN kept |-> p[kept[k]]]
  BY DEF NormalizePath, KeptAt
<1> HIDE DEF kept, n, e, w
<1>4. KeptAt(p) \in SUBSET Nat
  BY <1>1 DEF KeptAt
<1>5. CASE n = 0
  <2>1. \A i \in DOMAIN p : p[i] = "/"
    <3> SUFFICES ASSUME NEW i \in DOMAIN p, p[i] # "/" PROVE FALSE
      OBVIOUS
    <3>1. i \in W
      BY DEF WordsAt
    <3> QED
      BY <1>2, <1>5, <3>1 DEF Ordered
  <2>2. KeptAt(p) = {}
    BY <2>1 DEF KeptAt
  <2>3. Ordered(<<>>, 0, KeptAt(p))
    BY <2>2 DEF Ordered
  <2>4. kept = <<>>
    BY <1>4, <2>3, OneOrder DEF kept
  <2>5. NormalizePath(p) = <<"/">>
    BY <1>3, <2>4
  <2>6. Spell(w) = <<"/">>
    BY <1>2, <1>5 DEF Spell
  <2> QED
    BY <1>1, <1>2, <2>5, <2>6, WordsOfSpell DEF w
<1>6. CASE n # 0
  <2> DEFINE m == 2 * n - 1
             g == Interleaved(e, n)
             h == [j \in 1..m |-> p[g[j]]]
  <2>1. m \in Nat /\ m >= 1
    BY <1>2, <1>6
  <2>2. /\ Ordered(g, m, KeptAt(p))
        /\ \A k \in 1..(n - 1) : e[k] + 1 \in DOMAIN p /\ p[e[k] + 1] = "/"
    BY <1>1, <1>2, <1>6, KeptInOrder
  <2>3. kept = g
    <3> HIDE DEF m
    <3> HIDE DEF g
    <3> QED
      BY <1>4, <2>1, <2>2, OneOrder DEF kept
  <2>4. NormalizePath(p) = <<"/">> \o h
    <3>1. DOMAIN g = 1..m
      BY DEF Interleaved
    <3>2. [k \in DOMAIN kept |-> p[kept[k]]] = h
      <4> HIDE DEF g, m
      <4> QED
        BY <2>3, <3>1
    <3> QED
      BY <1>3, <3>2
  <2>5. \A j \in 1..m : g[j] \in DOMAIN p
    <3> HIDE DEF g, m
    <3> QED
      BY <2>2 DEF Ordered, KeptAt
  <2>6. h \in Seq(C) /\ Len(h) = m
    <3>1. \A j \in 1..m : p[g[j]] \in C
      BY <1>1, <2>5
    <3> HIDE DEF g, m
    <3> QED
      BY <2>1, <3>1
  <2>7. \A j \in 1..m : h[j] = IF j % 2 = 1 THEN w[(j + 1) \div 2] ELSE "/"
    <3> TAKE j \in 1..m
    <3>1. h[j] = IF j % 2 = 1 THEN p[e[(j + 1) \div 2]] ELSE p[e[j \div 2] + 1]
      BY DEF Interleaved
    <3>2. CASE j % 2 = 1
      <4>1. (j + 1) \div 2 \in 1..n
        BY <1>2, <2>1, <3>2
      <4> QED
        BY <1>2, <3>1, <3>2, <4>1
    <3>3. CASE j % 2 # 1
      <4>1. j \div 2 \in 1..(n - 1)
        BY <1>2, <2>1, <3>3
      <4> QED
        BY <2>2, <3>1, <3>3, <4>1
    <3> QED
      BY <3>2, <3>3
  <2> HIDE DEF g, h
  <2>8. <<"/">> \o h = [j \in 1..(m + 1) |-> IF j = 1 THEN "/" ELSE h[j - 1]]
    BY <2>1, <2>6
  <2>9. Spell(w) = [j \in 1..(m + 1) |-> IF j % 2 = 1 THEN "/" ELSE w[j \div 2]]
    BY <1>2, <1>6 DEF Spell
  <2>10. ASSUME NEW j \in 1..(m + 1)
         PROVE  (IF j = 1 THEN "/" ELSE h[j - 1]) = IF j % 2 = 1 THEN "/" ELSE w[j \div 2]
    <3>1. CASE j = 1
      BY <3>1
    <3>2. CASE j # 1
      <4>1. j - 1 \in 1..m /\ (j - 1) + 1 = j /\ ((j - 1) % 2 = 1 <=> j % 2 # 1)
        BY <2>1, <3>2
      <4> QED
        BY <2>7, <3>2, <4>1
    <3> QED
      BY <3>1, <3>2
  <2>11. NormalizePath(p) = Spell(w)
    BY <2>4, <2>8, <2>9, <2>10
  <2> QED
    BY <1>2, <2>11, WordsOfSpell DEF w
<1> QED
  BY <1>5, <1>6

(* Endpoints.                                                              *)

Turn(m) == CHOOSE v \in DOMAIN Verbs : Verbs[v] = m.annotation

LEMMA FirstFound ==
  ASSUME NEW f, AreMappings(f), NEW j \in DOMAIN f.mappings
  PROVE  \E i \in DOMAIN f.mappings :
            /\ EndpointId(f, f.mappings[i]) = EndpointId(f, f.mappings[j])
            /\ \A k \in DOMAIN f.mappings : FoundBefore(f, k, i) =>
                  EndpointId(f, f.mappings[k]) # EndpointId(f, f.mappings[i])
<1> DEFINE turn(k) == Turn(f.mappings[k])
           Same == {k \in DOMAIN f.mappings :
                       EndpointId(f, f.mappings[k]) = EndpointId(f, f.mappings[j])}
           Turns == {t \in Nat : \E k \in Same : turn(k) = t}
<1>1. \A k \in DOMAIN f.mappings : turn(k) \in Nat
  <2> TAKE k \in DOMAIN f.mappings
  <2>1. f.mappings[k].annotation \in Range(Verbs)
    BY DEF AreMappings, Range
  <2>2. \E v \in DOMAIN Verbs : Verbs[v] = f.mappings[k].annotation
    BY <2>1 DEF Range
  <2>3. turn(k) \in DOMAIN Verbs
    BY <2>2 DEF Turn
  <2>4. DOMAIN Verbs \subseteq Nat
    BY DEF Verbs
  <2> QED
    BY <2>3, <2>4
<1>2. \A k, i \in DOMAIN f.mappings :
         FoundBefore(f, k, i) <=> turn(k) < turn(i) \/ (turn(k) = turn(i) /\ k < i)
  BY DEF FoundBefore, Turn
<1>3. DOMAIN f.mappings \subseteq Nat
  BY DEF AreMappings
<1>4. Turns \in SUBSET Nat /\ Turns # {}
  <2>1. j \in Same /\ turn(j) \in Nat
    BY <1>1
  <2> QED
    BY <2>1
<1>5. PICK t \in Turns : \A u \in Turns : t <= u
  BY ONLY <1>4, LeastNatural
<1> DEFINE Left == {k \in Same : turn(k) = t}
<1>6. Left \in SUBSET Nat /\ Left # {}
  BY <1>3, <1>5
<1>7. PICK i \in Left : \A k \in Left : i <= k
  BY ONLY <1>6, LeastNatural
<1>8. ASSUME NEW k \in DOMAIN f.mappings, FoundBefore(f, k, i), k \in Same
      PROVE  FALSE
  <2>1. turn(k) < turn(i) \/ (turn(k) = turn(i) /\ k < i)
    BY <1>2, <1>7, <1>8
  <2>2. turn(k) \in Turns /\ turn(k) \in Nat /\ t \in Nat /\ turn(i) = t
    BY <1>1, <1>7, <1>8
  <2>3. t <= turn(k)
    BY <1>5, <2>2
  <2>4. turn(k) = t /\ k < i
    BY <2>1, <2>2, <2>3
  <2>5. k \in Left /\ k \in Nat /\ i \in Nat
    BY <1>3, <1>7, <1>8, <2>4
  <2> QED
    BY <1>7, <2>4, <2>5
<1> QED
  BY <1>7, <1>8

LEMMA OnePerIdIs ==
  ASSUME NEW S
  PROVE  /\ OnePerId(S) \subseteq S
         /\ \A x \in S : \E y \in OnePerId(S) : y.id = x.id
         /\ \A x, y \in OnePerId(S) : x.id = y.id => x = y
<1> DEFINE I == {x.id : x \in S}
           pick(i) == CHOOSE x \in S : x.id = i
<1>1. \A i \in I : pick(i) \in S /\ pick(i).id = i
  <2> TAKE i \in I
  <2>1. \E x \in S : x.id = i
    OBVIOUS
  <2> QED
    BY <2>1
<1>2. OnePerId(S) = {pick(i) : i \in I}
  BY DEF OnePerId
<1>3. \A x \in S : x.id \in I
  OBVIOUS
<1> HIDE DEF I, pick
<1> QED
  BY <1>1, <1>2, <1>3

(* The nodes of a project before one of each id is kept.                   *)
Found(P) == UNION {q.nodes : q \in {ParseJava(f) : f \in P.java}
                                   \cup {ParseKotlin(f) : f \in P.kotlin}
                                   \cup {ParseMyBatis(f) : f \in P.mybatis}}

LEMMA FoundIs ==
  ASSUME NEW P
  PROVE  /\ Parse(P).nodes = OnePerId(Found(P))
         /\ \A n : n \in Found(P) <=> \/ \E f \in P.java : n \in ParseJava(f).nodes
                                      \/ \E f \in P.kotlin : n \in ParseKotlin(f).nodes
                                      \/ \E f \in P.mybatis : n \in ParseMyBatis(f).nodes
<1>1. Parse(P).nodes = OnePerId(Found(P))
  BY DEF Parse, Found
<1> QED
  BY <1>1 DEF Found

LEMMA ClassKinds ==
  ASSUME NEW f
  PROVE  /\ ClassNode(f).id[1] = ClassNode(f).kind
         /\ ClassNode(f).kind \in {"spring-controller", "spring-service"}
  BY DEF ClassNode, ControllerId, ServiceId

LEMMA JavaFound ==
  ASSUME NEW f, NEW n \in ParseJava(f).nodes
  PROVE  /\ f.declaresClass
         /\ n.id[1] = n.kind
         /\ n.kind # "db-table"
         /\ n.kind = "spring-dto" => f.dtoSuffix /\ n = DtoNode(f)
         /\ n.kind = "spring-endpoint" => /\ IsController(f)
                                          /\ n \in EndpointNodes(f)
<1>1. f.declaresClass /\ n \in JavaNodes(f)
  BY DEF ParseJava
<1>2. \/ n = ClassNode(f)
      \/ IsController(f) /\ n \in EndpointNodes(f)
      \/ f.dtoSuffix /\ n = DtoNode(f)
  BY <1>1 DEF JavaNodes
<1>3. CASE n = ClassNode(f)
  BY <1>1, <1>3, ClassKinds
<1>4. CASE IsController(f) /\ n \in EndpointNodes(f)
  <2>1. n.kind = "spring-endpoint" /\ n.id[1] = "spring-endpoint"
    BY <1>4 DEF EndpointNodes, EndpointNode, EndpointId
  <2> QED
    BY <1>1, <1>4, <2>1
<1>5. CASE f.dtoSuffix /\ n = DtoNode(f)
  <2>1. n.kind = "spring-dto" /\ n.id[1] = "spring-dto"
    BY <1>5 DEF DtoNode, DtoId
  <2> QED
    BY <1>1, <1>5, <2>1
<1> QED
  BY <1>2, <1>3, <1>4, <1>5

LEMMA KotlinFound ==
  ASSUME NEW f, NEW n \in ParseKotlin(f).nodes
  PROVE  /\ f.declaresClass
         /\ n.id[1] = n.kind
         /\ n.kind \notin {"db-table", "spring-dto"}
         /\ n.kind = "spring-endpoint" =>
                /\ IsController(f)
                /\ \E m \in KotlinMappings(f) : n = KotlinEndpoint(f, m)
<1> DEFINE c == ClassNode(f)
<1>1. /\ f.declaresClass
      /\ \/ \E meta : n = [c EXCEPT !.meta = meta]
         \/ IsController(f) /\ \E m \in KotlinMappings(f) : n = KotlinEndpoint(f, m)
  BY DEF ParseKotlin
<1>2. CASE \E meta : n = [c EXCEPT !.meta = meta]
  <2>1. PICK meta : n = [c EXCEPT !.meta = meta]
    BY <1>2
  <2>2. c = [id |-> c.id, kind |-> c.kind, file |-> c.file, meta |-> c.meta]
    BY DEF ClassNode
  <2>3. n.id = c.id /\ n.kind = c.kind
    <3> HIDE DEF c
    <3> QED
      BY <2>1, <2>2
  <2> QED
    BY <1>1, <2>3, ClassKinds
<1>3. CASE IsController(f) /\ \E m \in KotlinMappings(f) : n = KotlinEndpoint(f, m)
  <2>1. n.kind = "spring-endpoint" /\ n.id[1] = "spring-endpoint"
    BY <1>3 DEF KotlinEndpoint, EndpointNode, EndpointId
  <2> QED
    BY <1>1, <1>3, <2>1
<1> QED
  BY <1>1, <1>2, <1>3

LEMMA MyBatisFound ==
  ASSUME NEW f, NEW n \in ParseMyBatis(f).nodes
  PROVE  /\ f.namespace # Missing
         /\ n.id[1] = n.kind
         /\ n.kind \notin {"spring-endpoint", "spring-dto"}
         /\ n.kind = "db-table" =>
                \E s \in f.statements : s.id # Missing /\ \E t \in s.tables : n = TableNode(f, t)
<1>1. /\ f.namespace # Missing
      /\ \/ n = [id |-> MapperId(f), kind |-> "mybatis-mapper", file |-> f.path,
                 meta |-> [fqn |-> f.namespace]]
         \/ \E s \in f.statements : n = StatementNode(f, s)
         \/ \E s \in f.statements : s.id # Missing /\ \E t \in s.tables : n = TableNode(f, t)
  BY DEF ParseMyBatis
<1> QED
  BY <1>1 DEF MapperId, StatementNode, StatementId, TableNode, TableId

(* The node of a handler, and the rows of what the sources declare.        *)
NodeOfHandler(n, h) ==
    /\ n.kind = "spring-endpoint"
    /\ n.id = <<"spring-endpoint", h.verb, Spell(h.words)>>
    /\ n.file = h.file
    /\ n.meta = [httpMethod |-> h.verb, path |-> Spell(h.words),
                 returnType |-> h.returns, paramTypes |-> h.takes]
    /\ Words(Spell(h.words)) = h.words

RowOfField(r, x) ==
    /\ r.kind = "dto-field"
    /\ r.id = <<"dto-field", <<x.package, x.class>>, x.field>>
    /\ r.file = x.file
    /\ r.meta[1] = x.type
    /\ (r.meta[2] = "true") <=> x.null

RowOfHandler(r, h) ==
    /\ r.kind = "endpoint"
    /\ r.id = <<"endpoint", h.verb, Spell(h.words)>>
    /\ r.file = h.file
    /\ r.meta = <<h.verb, Spell(h.words), h.returns, h.takes>>
    /\ Words(Spell(h.words)) = h.words

RowOfTable(r, u) ==
    /\ r.kind = "db-column"
    /\ r.id = <<"db-column", u.table>>
    /\ r.file = u.file
    /\ r.meta = <<u.table>>

Faithful(R, P) ==
    /\ \A r \in R : \/ \E x \in Fields(P) : RowOfField(r, x)
                    \/ \E h \in Handlers(P) : RowOfHandler(r, h)
                    \/ \E u \in UsedTables(P) : RowOfTable(r, u)
    /\ \A x \in Fields(P) : \E r \in R : RowOfField(r, x)
    /\ \A h \in Handlers(P) : \E r \in R : RowOfHandler(r, h)
    /\ \A u \in UsedTables(P) : \E r \in R : \E v \in UsedTables(P) :
            v.table = u.table /\ RowOfTable(r, v)
    /\ \A r, s \in R : r.id = s.id => r = s

AreFiles(P) ==
    /\ \A f \in P.java : AreMappings(f)
    /\ \A f \in P.kotlin : AreMappings(f)
    /\ \A f, g \in P.java : f.path = g.path => f = g

HandlerOf(f, m, returns, takes) ==
    [verb |-> m.verb, words |-> Words(f.basePath \o m.path), returns |-> returns,
     takes |-> takes, file |-> f.path]

LEMMA HandlersAre ==
  ASSUME NEW P
  PROVE  \A h : h \in Handlers(P) <=>
            \/ \E f \in P.java : f.declaresClass /\ IsController(f)
                  /\ \E i \in DOMAIN f.mappings :
                        h = HandlerOf(f, f.mappings[i], f.mappings[i].returnType,
                                      f.mappings[i].paramTypes)
            \/ \E f \in P.kotlin : f.declaresClass /\ IsController(f)
                  /\ \E i \in DOMAIN f.mappings :
                        /\ f.mappings[i].annotation # "REQUEST"
                        /\ h = HandlerOf(f, f.mappings[i], Missing, Missing)
  BY DEF Handlers, HandlerOf, Declared, Range

LEMMA EndpointOfHandler ==
  ASSUME NEW f, AreMappings(f), NEW i \in DOMAIN f.mappings
  PROVE  LET m == f.mappings[i] IN
         /\ NodeOfHandler(EndpointNode(f, m), HandlerOf(f, m, m.returnType, m.paramTypes))
         /\ NodeOfHandler(KotlinEndpoint(f, m), HandlerOf(f, m, Missing, Missing))
<1> DEFINE m == f.mappings[i]
           p == f.basePath \o m.path
<1>1. m \in Range(f.mappings)
  BY DEF Range
<1>2. Spelled(p)
  BY <1>1 DEF AreMappings
<1>3. NormalizePath(p) = Spell(Words(p)) /\ Words(Spell(Words(p))) = Words(p)
  BY <1>2, NormalizeIs
<1> HIDE DEF m
<1>4. EndpointId(f, m) = <<"spring-endpoint", m.verb, Spell(Words(p))>>
  BY <1>3 DEF EndpointId
<1> HIDE DEF p
<1>5. Words(f.basePath \o m.path) = Words(p)
  BY DEF p
<1>6. NodeOfHandler(EndpointNode(f, m), HandlerOf(f, m, m.returnType, m.paramTypes))
  BY <1>3, <1>4, <1>5 DEF NodeOfHandler, EndpointNode, HandlerOf
<1>7. NodeOfHandler(KotlinEndpoint(f, m), HandlerOf(f, m, Missing, Missing))
  BY <1>3, <1>4, <1>5 DEF NodeOfHandler, KotlinEndpoint, EndpointNode, HandlerOf
<1> QED
  BY <1>6, <1>7 DEF m

LEMMA EndpointsSay ==
  ASSUME NEW P, AreFiles(P), NEW n \in Found(P), n.kind = "spring-endpoint"
  PROVE  \E h \in Handlers(P) : NodeOfHandler(n, h)
<1>1. CASE \E f \in P.java : n \in ParseJava(f).nodes
  <2>1. PICK f \in P.java : n \in ParseJava(f).nodes
    BY <1>1
  <2>2. f.declaresClass /\ IsController(f) /\ n \in EndpointNodes(f) /\ AreMappings(f)
    BY <2>1, JavaFound DEF AreFiles
  <2>3. PICK i \in DOMAIN f.mappings : n = EndpointNode(f, f.mappings[i])
    BY <2>2 DEF EndpointNodes
  <2> DEFINE h == HandlerOf(f, f.mappings[i], f.mappings[i].returnType, f.mappings[i].paramTypes)
  <2>4. NodeOfHandler(n, h)
    BY <2>2, <2>3, EndpointOfHandler
  <2>5. h \in Handlers(P)
    BY <2>2, HandlersAre
  <2> QED
    BY <2>4, <2>5
<1>2. CASE \E f \in P.kotlin : n \in ParseKotlin(f).nodes
  <2>1. PICK f \in P.kotlin : n \in ParseKotlin(f).nodes
    BY <1>2
  <2>2. /\ f.declaresClass /\ IsController(f) /\ AreMappings(f)
        /\ \E m \in KotlinMappings(f) : n = KotlinEndpoint(f, m)
    BY <2>1, KotlinFound DEF AreFiles
  <2>3. PICK i \in DOMAIN f.mappings : /\ f.mappings[i].annotation # "REQUEST"
                                       /\ n = KotlinEndpoint(f, f.mappings[i])
    BY <2>2 DEF KotlinMappings
  <2> DEFINE h == HandlerOf(f, f.mappings[i], Missing, Missing)
  <2>4. NodeOfHandler(n, h)
    BY <2>2, <2>3, EndpointOfHandler
  <2>5. h \in Handlers(P)
    BY <2>2, <2>3, HandlersAre
  <2> QED
    BY <2>4, <2>5
<1>3. CASE \E f \in P.mybatis : n \in ParseMyBatis(f).nodes
  BY <1>3, MyBatisFound
<1> QED
  BY <1>1, <1>2, <1>3, FoundIs

LEMMA HandlersFound ==
  ASSUME NEW P, AreFiles(P), NEW h \in Handlers(P)
  PROVE  /\ Words(Spell(h.words)) = h.words
         /\ \E n \in Found(P) : n.id = <<"spring-endpoint", h.verb, Spell(h.words)>>
<1>1. ASSUME NEW f \in P.java, f.declaresClass, IsController(f), NEW j \in DOMAIN f.mappings,
             h = HandlerOf(f, f.mappings[j], f.mappings[j].returnType, f.mappings[j].paramTypes)
      PROVE  /\ Words(Spell(h.words)) = h.words
             /\ \E n \in Found(P) : n.id = <<"spring-endpoint", h.verb, Spell(h.words)>>
  <2>1. AreMappings(f)
    BY DEF AreFiles
  <2>2. NodeOfHandler(EndpointNode(f, f.mappings[j]), h)
    BY <1>1, <2>1, EndpointOfHandler
  <2>3. PICK i \in DOMAIN f.mappings :
            /\ EndpointId(f, f.mappings[i]) = EndpointId(f, f.mappings[j])
            /\ \A k \in DOMAIN f.mappings : FoundBefore(f, k, i) =>
                  EndpointId(f, f.mappings[k]) # EndpointId(f, f.mappings[i])
    BY <2>1, FirstFound
  <2>4. EndpointNode(f, f.mappings[i]) \in EndpointNodes(f)
    BY <2>3 DEF EndpointNodes
  <2>5. EndpointNode(f, f.mappings[i]) \in ParseJava(f).nodes
    BY <1>1, <2>4 DEF ParseJava, JavaNodes
  <2>6. EndpointNode(f, f.mappings[i]) \in Found(P)
    BY <2>5, FoundIs
  <2>7. EndpointNode(f, f.mappings[i]).id = EndpointNode(f, f.mappings[j]).id
    BY <2>3 DEF EndpointNode
  <2> QED
    BY <2>2, <2>6, <2>7 DEF NodeOfHandler
<1>2. ASSUME NEW f \in P.kotlin, f.declaresClass, IsController(f), NEW j \in DOMAIN f.mappings,
             f.mappings[j].annotation # "REQUEST", h = HandlerOf(f, f.mappings[j], Missing, Missing)
      PROVE  /\ Words(Spell(h.words)) = h.words
             /\ \E n \in Found(P) : n.id = <<"spring-endpoint", h.verb, Spell(h.words)>>
  <2>1. AreMappings(f)
    BY DEF AreFiles
  <2>2. NodeOfHandler(KotlinEndpoint(f, f.mappings[j]), h)
    BY <1>2, <2>1, EndpointOfHandler
  <2>3. f.mappings[j] \in KotlinMappings(f)
    BY <1>2 DEF KotlinMappings
  <2>4. KotlinEndpoint(f, f.mappings[j]) \in ParseKotlin(f).nodes
    BY <1>2, <2>3 DEF ParseKotlin
  <2>5. KotlinEndpoint(f, f.mappings[j]) \in Found(P)
    BY <2>4, FoundIs
  <2> QED
    BY <2>2, <2>5 DEF NodeOfHandler
<1> QED
  BY <1>1, <1>2, HandlersAre

(* The declarations of fields of a file that are looked at.                *)
Declarations(f) ==
    IF f.components # <<>> THEN Range(f.components) ELSE {x \in Range(f.fields) : x.private}

FieldOf(f, x) ==
    [class |-> f.className, package |-> f.package, field |-> x.name, type |-> x.type,
     null |-> MayBeNull(x), file |-> f.path]

LEMMA FieldsAre ==
  ASSUME NEW P
  PROVE  \A y : y \in Fields(P) <=>
            \E f \in P.java : f.declaresClass /\ f.dtoSuffix
                              /\ \E x \in Declarations(f) : y = FieldOf(f, x)
  BY DEF Fields, FieldOf, Declared, Declarations

LEMMA TablesAre ==
  ASSUME NEW P
  PROVE  \A u : u \in UsedTables(P) <=>
            \E f \in P.mybatis : f.namespace # Missing
               /\ \E s \in f.statements : s.id # Missing
                     /\ \E t \in s.tables : u = [table |-> t, file |-> f.path]
<1> TAKE u
<1>1. ASSUME u \in UsedTables(P)
      PROVE  \E f \in P.mybatis : f.namespace # Missing
               /\ \E s \in f.statements : s.id # Missing
                     /\ \E t \in s.tables : u = [table |-> t, file |-> f.path]
  BY <1>1 DEF UsedTables
<1>2. ASSUME NEW f \in P.mybatis, f.namespace # Missing, NEW s \in f.statements, s.id # Missing,
             NEW t \in s.tables, u = [table |-> t, file |-> f.path]
      PROVE  u \in UsedTables(P)
  <2>1. t \in UNION {x.tables : x \in {x \in f.statements : x.id # Missing}}
    BY <1>2
  <2>2. f \in {g \in P.mybatis : g.namespace # Missing}
    BY <1>2
  <2> QED
    BY <1>2, <2>1, <2>2 DEF UsedTables
<1> QED
  BY <1>1, <1>2

DtoRow(f, x) ==
    [id |-> <<"dto-field", Fqn(f), x.name>>, kind |-> "dto-field", file |-> f.path,
     meta |-> <<x.typeRef, x.nullable, x.jsonName>>]

LEMMA DtoRowsAre ==
  ASSUME NEW f
  PROVE  \A r : r \in DtoRows(DtoNode(f)) <=>
            \E x \in Declarations(f) : r = DtoRow(f, BuildDtoField(x))
<1>1. /\ DtoNode(f).meta.fqn = Fqn(f) /\ DtoNode(f).file = f.path
      /\ DtoNode(f).meta.fields = ExtractDtoFields(f)
  BY DEF DtoNode
<1>2. \A y : y \in ExtractDtoFields(f) <=> \E x \in Declarations(f) : y = BuildDtoField(x)
  BY DEF ExtractDtoFields, Declarations
<1> QED
  BY <1>1, <1>2 DEF DtoRows, DtoRow

LEMMA FieldRow ==
  ASSUME NEW f, NEW x
  PROVE  RowOfField(DtoRow(f, BuildDtoField(x)), FieldOf(f, x))
<1> DEFINE b == BuildDtoField(x)
           r == DtoRow(f, b)
           y == FieldOf(f, x)
<1>1. b.name = x.name /\ b.typeRef = x.type
  BY DEF BuildDtoField
<1>2. b.nullable = IF x.optional THEN "true"
                   ELSE IF x.marks \cap Required # {} THEN "false"
                   ELSE IF "Nullable" \in x.marks THEN "true" ELSE Missing
  BY DEF BuildDtoField
<1>3. (b.nullable = "true") <=> MayBeNull(x)
  BY <1>2 DEF MayBeNull, Missing
<1> HIDE DEF b
<1>4. /\ r.kind = "dto-field" /\ r.id = <<"dto-field", <<f.package, f.className>>, b.name>>
      /\ r.file = f.path /\ r.meta[1] = b.typeRef /\ r.meta[2] = b.nullable
  BY DEF DtoRow, Fqn
<1>5. /\ y.package = f.package /\ y.class = f.className /\ y.field = x.name /\ y.type = x.type
      /\ y.file = f.path
  BY DEF FieldOf
<1>6. y.null = MayBeNull(x)
  BY DEF FieldOf
<1>7. y.null <=> MayBeNull(x)
  BY <1>6
<1> HIDE DEF r, y
<1>8. RowOfField(r, y)
  BY <1>1, <1>3, <1>4, <1>5, <1>7 DEF RowOfField
<1> QED
  BY <1>8 DEF r, y, b

LEMMA CollectIs ==
  ASSUME NEW g
  PROVE  \A r : r \in Collect(g) <=>
            \E n \in g.nodes : \/ n.kind = "spring-dto" /\ r \in DtoRows(n)
                               \/ n.kind = "spring-endpoint" /\ r = EndpointRow(n)
                               \/ n.kind = "db-table" /\ r \in TableRows(n)
<1> DEFINE made(n) == CASE n.kind = "spring-dto" -> DtoRows(n)
                        [] n.kind = "spring-endpoint" -> {EndpointRow(n)}
                        [] n.kind = "db-table" -> TableRows(n)
                        [] OTHER -> {}
<1>1. \A n : \A r : r \in made(n) <=> \/ n.kind = "spring-dto" /\ r \in DtoRows(n)
                                      \/ n.kind = "spring-endpoint" /\ r = EndpointRow(n)
                                      \/ n.kind = "db-table" /\ r \in TableRows(n)
  OBVIOUS
<1>2. Collect(g) = UNION {made(n) : n \in g.nodes}
  BY DEF Collect
<1> HIDE DEF made
<1> QED
  BY <1>1, <1>2

LEMMA HandlerRow ==
  ASSUME NEW n, NEW h, NodeOfHandler(n, h)
  PROVE  RowOfHandler(EndpointRow(n), h)
  BY DEF NodeOfHandler, RowOfHandler, EndpointRow

LEMMA TableRow ==
  ASSUME NEW f, NEW t, NEW r, r \in TableRows(TableNode(f, t))
  PROVE  RowOfTable(r, [table |-> t, file |-> f.path])
  BY DEF TableRows, TableNode, RowOfTable

LEMMA TableRowFound ==
  ASSUME NEW f, NEW t
  PROVE  \E r \in TableRows(TableNode(f, t)) : TRUE
  BY DEF TableRows, TableNode

LEMMA RowsFaithful ==
  ASSUME NEW P, AreFiles(P), Unambiguous(P)
  PROVE  Faithful(OnePerId(Collect(Parse(P))), P)
<1> DEFINE N == Parse(P).nodes
           all == Collect(Parse(P))
           R == OnePerId(all)
<1>1. /\ N \subseteq Found(P)
      /\ \A n \in Found(P) : \E m \in N : m.id = n.id
  BY FoundIs, OnePerIdIs
<1>2. /\ R \subseteq all
      /\ \A r \in all : \E s \in R : s.id = r.id
      /\ \A r, s \in R : r.id = s.id => r = s
  BY OnePerIdIs
<1>3. \A r : r \in all <=>
            \E n \in N : \/ n.kind = "spring-dto" /\ r \in DtoRows(n)
                         \/ n.kind = "spring-endpoint" /\ r = EndpointRow(n)
                         \/ n.kind = "db-table" /\ r \in TableRows(n)
  BY CollectIs
<1> HIDE DEF N, all, R
<1>4. ASSUME NEW n \in Found(P)
      PROVE  /\ n.id[1] = n.kind
             /\ n.kind = "spring-dto" =>
                   \E f \in P.java : n = DtoNode(f) /\ f.dtoSuffix /\ f.declaresClass
             /\ n.kind = "db-table" =>
                   \E f \in P.mybatis : f.namespace # Missing /\ \E s \in f.statements :
                        s.id # Missing /\ \E t \in s.tables : n = TableNode(f, t)
  BY FoundIs, JavaFound, KotlinFound, MyBatisFound
<1>5. ASSUME NEW r \in all
      PROVE  \/ \E x \in Fields(P) : RowOfField(r, x)
             \/ \E h \in Handlers(P) : RowOfHandler(r, h)
             \/ \E u \in UsedTables(P) : RowOfTable(r, u)
  <2>1. PICK n \in N : \/ n.kind = "spring-dto" /\ r \in DtoRows(n)
                       \/ n.kind = "spring-endpoint" /\ r = EndpointRow(n)
                       \/ n.kind = "db-table" /\ r \in TableRows(n)
    BY <1>3
  <2>2. n \in Found(P)
    BY <1>1
  <2>3. CASE n.kind = "spring-dto" /\ r \in DtoRows(n)
    <3>1. PICK f \in P.java : n = DtoNode(f) /\ f.dtoSuffix /\ f.declaresClass
      BY <1>4, <2>2, <2>3
    <3>2. PICK x \in Declarations(f) : r = DtoRow(f, BuildDtoField(x))
      BY <2>3, <3>1, DtoRowsAre
    <3>3. FieldOf(f, x) \in Fields(P)
      BY <3>1, FieldsAre
    <3> QED
      BY <3>2, <3>3, FieldRow
  <2>4. CASE n.kind = "spring-endpoint" /\ r = EndpointRow(n)
    BY <2>2, <2>4, EndpointsSay, HandlerRow
  <2>5. CASE n.kind = "db-table" /\ r \in TableRows(n)
    <3>1. PICK f \in P.mybatis : f.namespace # Missing /\ \E s \in f.statements :
                s.id # Missing /\ \E t \in s.tables : n = TableNode(f, t)
      BY <1>4, <2>2, <2>5
    <3>2. PICK s \in f.statements : s.id # Missing /\ \E t \in s.tables : n = TableNode(f, t)
      BY <3>1
    <3>3. PICK t \in s.tables : n = TableNode(f, t)
      BY <3>2
    <3>4. [table |-> t, file |-> f.path] \in UsedTables(P)
      BY <3>1, <3>2, <3>3, TablesAre
    <3>5. RowOfTable(r, [table |-> t, file |-> f.path])
      BY <2>5, <3>3, TableRow
    <3> QED
      BY <3>4, <3>5
  <2> QED
    BY <2>1, <2>3, <2>4, <2>5
<1>6. \A x \in Fields(P) : \A y \in Fields(P) :
            <<x.package, x.class, x.field>> = <<y.package, y.class, y.field>> => x = y
  BY DEF Unambiguous, SameField
<1>7. \A x \in Handlers(P) : \A y \in Handlers(P) :
            <<x.verb, x.words>> = <<y.verb, y.words>> => x = y
  BY DEF Unambiguous, SameHandler
<1>8. ASSUME NEW x \in Fields(P) PROVE \E r \in R : RowOfField(r, x)
  <2>1. PICK f \in P.java : f.declaresClass /\ f.dtoSuffix
                            /\ \E d \in Declarations(f) : x = FieldOf(f, d)
    BY FieldsAre
  <2>2. PICK d \in Declarations(f) : x = FieldOf(f, d)
    BY <2>1
  <2>3. DtoNode(f) \in ParseJava(f).nodes
    BY <2>1 DEF ParseJava, JavaNodes
  <2>4. DtoNode(f) \in Found(P)
    BY <2>3, FoundIs
  <2>5. PICK n \in N : n.id = DtoNode(f).id
    BY <1>1, <2>4
  <2>6. n \in Found(P) /\ n.kind = "spring-dto"
    <3>1. n.id = <<"spring-dto", f.path>>
      BY <2>5 DEF DtoNode, DtoId
    <3> QED
      BY <1>1, <1>4, <3>1
  <2>7. PICK g \in P.java : n = DtoNode(g)
    BY <1>4, <2>6
  <2>8. g = f
    <3>1. <<"spring-dto", g.path>> = <<"spring-dto", f.path>>
      BY <2>5, <2>7 DEF DtoNode, DtoId
    <3>2. g.path = f.path
      BY <3>1
    <3> QED
      BY <3>2 DEF AreFiles
  <2> DEFINE q == DtoRow(f, BuildDtoField(d))
  <2>9. q \in all /\ RowOfField(q, x)
    BY <1>3, <2>2, <2>6, <2>7, <2>8, DtoRowsAre, FieldRow
  <2> HIDE DEF q
  <2>10. PICK r \in R : r.id = q.id
    BY <1>2, <2>9
  <2>11. r.id = <<"dto-field", <<x.package, x.class>>, x.field>>
    BY <2>9, <2>10 DEF RowOfField
  <2>12. PICK y \in Fields(P) : RowOfField(r, y)
    <3>1. \A h : ~RowOfHandler(r, h)
      BY <2>11 DEF RowOfHandler
    <3>2. \A u : ~RowOfTable(r, u)
      BY <2>11 DEF RowOfTable
    <3>3. r \in all
      BY <1>2
    <3> QED
      BY <1>5, <3>1, <3>2, <3>3
  <2>13. <<"dto-field", <<y.package, y.class>>, y.field>>
             = <<"dto-field", <<x.package, x.class>>, x.field>>
    BY <2>11, <2>12 DEF RowOfField
  <2>14. y.package = x.package /\ y.class = x.class /\ y.field = x.field
    BY <2>13
  <2>15. x = y
    BY <1>6, <2>14
  <2> QED
    BY <2>12, <2>15
<1>9. ASSUME NEW h \in Handlers(P) PROVE \E r \in R : RowOfHandler(r, h)
  <2>1. /\ Words(Spell(h.words)) = h.words
        /\ \E n \in Found(P) : n.id = <<"spring-endpoint", h.verb, Spell(h.words)>>
    BY HandlersFound
  <2>2. PICK n \in N : n.id = <<"spring-endpoint", h.verb, Spell(h.words)>>
    BY <1>1, <2>1
  <2>3. n \in Found(P) /\ n.kind = "spring-endpoint"
    BY <1>1, <1>4, <2>2
  <2>4. PICK k \in Handlers(P) : NodeOfHandler(n, k)
    BY <2>3, EndpointsSay
  <2>5. <<"spring-endpoint", k.verb, Spell(k.words)>> = <<"spring-endpoint", h.verb, Spell(h.words)>>
    BY <2>2, <2>4 DEF NodeOfHandler
  <2>6. k.verb = h.verb /\ Spell(k.words) = Spell(h.words)
    BY <2>5
  <2>7. k.words = h.words
    BY <2>1, <2>4, <2>6 DEF NodeOfHandler
  <2>8. k = h
    BY <1>7, <2>6, <2>7
  <2>9. EndpointRow(n) \in all /\ RowOfHandler(EndpointRow(n), h)
    BY <1>3, <2>3, <2>4, <2>8, HandlerRow
  <2>10. PICK r \in R : r.id = EndpointRow(n).id
    BY <1>2, <2>9
  <2>11. r.id = <<"endpoint", h.verb, Spell(h.words)>>
    BY <2>9, <2>10 DEF RowOfHandler
  <2>12. PICK l \in Handlers(P) : RowOfHandler(r, l)
    <3>1. \A x : ~RowOfField(r, x)
      BY <2>11 DEF RowOfField
    <3>2. \A u : ~RowOfTable(r, u)
      BY <2>11 DEF RowOfTable
    <3>3. r \in all
      BY <1>2
    <3> QED
      BY <1>5, <3>1, <3>2, <3>3
  <2>13. <<"endpoint", l.verb, Spell(l.words)>> = <<"endpoint", h.verb, Spell(h.words)>>
    BY <2>11, <2>12 DEF RowOfHandler
  <2>14. l.verb = h.verb /\ Spell(l.words) = Spell(h.words)
    BY <2>13
  <2>15. l.words = h.words
    BY <2>1, <2>12, <2>14 DEF RowOfHandler
  <2>16. l = h
    BY <1>7, <2>14, <2>15
  <2> QED
    BY <2>12, <2>16
<1>10. ASSUME NEW u \in UsedTables(P)
       PROVE  \E r \in R : \E v \in UsedTables(P) : v.table = u.table /\ RowOfTable(r, v)
  <2>1. PICK f \in P.mybatis : f.namespace # Missing
               /\ \E s \in f.statements : s.id # Missing
                     /\ \E t \in s.tables : u = [table |-> t, file |-> f.path]
    BY TablesAre
  <2>2. PICK s \in f.statements : s.id # Missing
                     /\ \E t \in s.tables : u = [table |-> t, file |-> f.path]
    BY <2>1
  <2>3. PICK t \in s.tables : u = [table |-> t, file |-> f.path]
    BY <2>2
  <2>4. TableNode(f, t) \in ParseMyBatis(f).nodes
    <3>1. t \in UNION {x.tables : x \in {x \in f.statements : x.id # Missing}}
      BY <2>2
    <3> QED
      BY <2>1, <3>1 DEF ParseMyBatis
  <2>5. TableNode(f, t) \in Found(P)
    BY <2>4, FoundIs
  <2>6. PICK n \in N : n.id = TableNode(f, t).id
    BY <1>1, <2>5
  <2>7. n.id = <<"db-table", t>>
    BY <2>6 DEF TableNode, TableId
  <2>8. n \in Found(P) /\ n.kind = "db-table"
    BY <1>1, <1>4, <2>7
  <2>9. PICK g \in P.mybatis : \E z \in g.statements : \E w \in z.tables : n = TableNode(g, w)
    BY <1>4, <2>8
  <2>10. PICK w : n = TableNode(g, w)
    BY <2>9
  <2>11. w = t
    <3>1. <<"db-table", w>> = <<"db-table", t>>
      BY <2>7, <2>10 DEF TableNode, TableId
    <3> QED
      BY <3>1
  <2>12. PICK q \in TableRows(n) : TRUE
    BY <2>10, TableRowFound
  <2>13. q \in all /\ q.id = <<"db-column", t>>
    <3>1. RowOfTable(q, [table |-> t, file |-> g.path])
      BY <2>10, <2>11, <2>12, TableRow
    <3> QED
      BY <1>3, <2>8, <2>12, <3>1 DEF RowOfTable
  <2>14. PICK r \in R : r.id = <<"db-column", t>>
    BY <1>2, <2>13
  <2>15. PICK v \in UsedTables(P) : RowOfTable(r, v)
    <3>1. \A x : ~RowOfField(r, x)
      BY <2>14 DEF RowOfField
    <3>2. \A h : ~RowOfHandler(r, h)
      BY <2>14 DEF RowOfHandler
    <3>3. r \in all
      BY <1>2
    <3> QED
      BY <1>5, <3>1, <3>2, <3>3
  <2>16. v.table = t /\ u.table = t
    <3>1. <<"db-column", v.table>> = <<"db-column", t>>
      BY <2>14, <2>15 DEF RowOfTable
    <3> QED
      BY <2>3, <3>1
  <2> QED
    BY <2>15, <2>16
<1>11. Faithful(R, P)
  BY <1>2, <1>5, <1>8, <1>9, <1>10 DEF Faithful
<1> QED
  BY <1>11 DEF R, all

(* What rows say of each other is what the declarations do.                *)
LEMMA FieldInRows ==
  ASSUME NEW R, NEW P, Faithful(R, P), NEW r, NEW x, RowOfField(r, x)
  PROVE  r.id \in Ids(R) <=> \E y \in Fields(P) : SameField(x, y)
<1>1. ASSUME NEW y \in Fields(P), SameField(x, y) PROVE r.id \in Ids(R)
  <2>1. PICK s \in R : RowOfField(s, y)
    BY DEF Faithful
  <2>2. x.package = y.package /\ x.class = y.class /\ x.field = y.field
    BY <1>1 DEF SameField
  <2>3. s.id = r.id
    BY <2>1, <2>2 DEF RowOfField
  <2> QED
    BY <2>3 DEF Ids
<1>2. ASSUME r.id \in Ids(R) PROVE \E y \in Fields(P) : SameField(x, y)
  <2>1. PICK s \in R : s.id = r.id
    BY <1>2 DEF Ids
  <2>2. r.id = <<"dto-field", <<x.package, x.class>>, x.field>>
    BY DEF RowOfField
  <2>3. PICK y \in Fields(P) : RowOfField(s, y)
    <3>1. \A h : ~RowOfHandler(s, h)
      BY <2>1, <2>2 DEF RowOfHandler
    <3>2. \A u : ~RowOfTable(s, u)
      BY <2>1, <2>2 DEF RowOfTable
    <3> QED
      BY <3>1, <3>2 DEF Faithful
  <2>4. <<"dto-field", <<y.package, y.class>>, y.field>>
            = <<"dto-field", <<x.package, x.class>>, x.field>>
    BY <2>1, <2>2, <2>3 DEF RowOfField
  <2> QED
    BY <2>4 DEF SameField
<1> QED
  BY <1>1, <1>2

LEMMA HandlerInRows ==
  ASSUME NEW R, NEW P, Faithful(R, P), NEW r, NEW x, RowOfHandler(r, x)
  PROVE  r.id \in Ids(R) <=> \E y \in Handlers(P) : SameHandler(x, y)
<1>1. ASSUME NEW y \in Handlers(P), SameHandler(x, y) PROVE r.id \in Ids(R)
  <2>1. PICK s \in R : RowOfHandler(s, y)
    BY DEF Faithful
  <2>2. x.verb = y.verb /\ x.words = y.words
    BY <1>1 DEF SameHandler
  <2>3. s.id = r.id
    BY <2>1, <2>2 DEF RowOfHandler
  <2> QED
    BY <2>3 DEF Ids
<1>2. ASSUME r.id \in Ids(R) PROVE \E y \in Handlers(P) : SameHandler(x, y)
  <2>1. PICK s \in R : s.id = r.id
    BY <1>2 DEF Ids
  <2>2. r.id = <<"endpoint", x.verb, Spell(x.words)>> /\ Words(Spell(x.words)) = x.words
    BY DEF RowOfHandler
  <2>3. PICK y \in Handlers(P) : RowOfHandler(s, y)
    <3>1. \A h : ~RowOfField(s, h)
      BY <2>1, <2>2 DEF RowOfField
    <3>2. \A u : ~RowOfTable(s, u)
      BY <2>1, <2>2 DEF RowOfTable
    <3> QED
      BY <3>1, <3>2 DEF Faithful
  <2>4. <<"endpoint", y.verb, Spell(y.words)>> = <<"endpoint", x.verb, Spell(x.words)>>
    BY <2>1, <2>2, <2>3 DEF RowOfHandler
  <2>5. y.verb = x.verb /\ Spell(y.words) = Spell(x.words)
    BY <2>4
  <2>6. y.words = x.words
    BY <2>2, <2>3, <2>5 DEF RowOfHandler
  <2> QED
    BY <2>5, <2>6 DEF SameHandler
<1> QED
  BY <1>1, <1>2

LEMMA TableInRows ==
  ASSUME NEW R, NEW P, Faithful(R, P), NEW r, NEW x, RowOfTable(r, x)
  PROVE  /\ r.id \in Ids(R) <=> \E y \in UsedTables(P) : x.table = y.table
         /\ \A s \in R : s.id = r.id => s.meta = r.meta
<1>1. ASSUME NEW y \in UsedTables(P), x.table = y.table PROVE r.id \in Ids(R)
  <2>1. PICK s \in R : \E v \in UsedTables(P) : v.table = y.table /\ RowOfTable(s, v)
    BY DEF Faithful
  <2>2. s.id = r.id
    BY <1>1, <2>1 DEF RowOfTable
  <2> QED
    BY <2>2 DEF Ids
<1>2. ASSUME NEW s \in R, s.id = r.id
      PROVE  s.meta = r.meta /\ \E y \in UsedTables(P) : x.table = y.table
  <2>2. r.id = <<"db-column", x.table>>
    BY DEF RowOfTable
  <2>3. PICK y \in UsedTables(P) : RowOfTable(s, y)
    <3>1. \A h : ~RowOfField(s, h)
      BY <1>2, <2>2 DEF RowOfField
    <3>2. \A h : ~RowOfHandler(s, h)
      BY <1>2, <2>2 DEF RowOfHandler
    <3> QED
      BY <3>1, <3>2 DEF Faithful
  <2>4. <<"db-column", y.table>> = <<"db-column", x.table>>
    BY <1>2, <2>2, <2>3 DEF RowOfTable
  <2>5. y.table = x.table
    BY <2>4
  <2> QED
    BY <2>3, <2>5 DEF RowOfTable
<1> QED
  BY <1>1, <1>2 DEF Ids

(* The row of an id.                                                       *)
LEMMA RowOfIs ==
  ASSUME NEW R, NEW i \in Ids(R)
  PROVE  RowOf(R, i) \in R /\ RowOf(R, i).id = i
<1>1. \E r \in R : r.id = i
  BY DEF Ids
<1> QED
  BY <1>1 DEF RowOf

LEMMA FieldAfter ==
  ASSUME NEW R, NEW P, Faithful(R, P), Unambiguous(P), NEW r, NEW x, RowOfField(r, x),
         NEW y \in Fields(P), SameField(x, y)
  PROVE  RowOfField(RowOf(R, r.id), y)
<1>1. r.id \in Ids(R)
  BY FieldInRows
<1>2. PICK s \in R : RowOfField(s, y)
  BY DEF Faithful
<1>3. x.package = y.package /\ x.class = y.class /\ x.field = y.field
  BY DEF SameField
<1>4. s.id = r.id
  BY <1>2, <1>3 DEF RowOfField
<1>5. RowOf(R, r.id) = s
  BY <1>1, <1>2, <1>4, RowOfIs DEF Faithful
<1> QED
  BY <1>2, <1>5

LEMMA HandlerAfter ==
  ASSUME NEW R, NEW P, Faithful(R, P), NEW r, NEW x, RowOfHandler(r, x),
         NEW y \in Handlers(P), SameHandler(x, y)
  PROVE  RowOfHandler(RowOf(R, r.id), y)
<1>1. r.id \in Ids(R)
  BY HandlerInRows
<1>2. PICK s \in R : RowOfHandler(s, y)
  BY DEF Faithful
<1>3. x.verb = y.verb /\ x.words = y.words
  BY DEF SameHandler
<1>4. s.id = r.id
  BY <1>2, <1>3 DEF RowOfHandler
<1>5. RowOf(R, r.id) = s
  BY <1>1, <1>2, <1>4, RowOfIs DEF Faithful
<1> QED
  BY <1>2, <1>5

(* The same declaration has the same row, and one row says one thing.      *)
LEMMA OneField ==
  ASSUME NEW P, Unambiguous(P), NEW r, NEW x \in Fields(P), NEW y \in Fields(P),
         RowOfField(r, x), RowOfField(r, y)
  PROVE  x = y
<1>1. <<"dto-field", <<y.package, y.class>>, y.field>>
          = <<"dto-field", <<x.package, x.class>>, x.field>>
  BY DEF RowOfField
<1>2. SameField(x, y)
  BY <1>1 DEF SameField
<1> QED
  BY <1>2 DEF Unambiguous

LEMMA OneHandler ==
  ASSUME NEW P, Unambiguous(P), NEW r, NEW x \in Handlers(P), NEW y \in Handlers(P),
         RowOfHandler(r, x), RowOfHandler(r, y)
  PROVE  x = y
<1>1. <<"endpoint", y.verb, Spell(y.words)>> = <<"endpoint", x.verb, Spell(x.words)>>
  BY DEF RowOfHandler
<1>2. y.verb = x.verb /\ Spell(y.words) = Spell(x.words)
  BY <1>1
<1>3. SameHandler(x, y)
  BY <1>2 DEF RowOfHandler, SameHandler
<1> QED
  BY <1>3 DEF Unambiguous

(* The kinds of rows.                                                      *)
LEMMA RowKinds ==
  ASSUME NEW R, NEW P, Faithful(R, P), NEW r \in R
  PROVE  /\ r.kind = "dto-field" => \E x \in Fields(P) : RowOfField(r, x)
         /\ r.kind = "endpoint" => \E x \in Handlers(P) : RowOfHandler(r, x)
         /\ r.kind \notin {"dto-field", "endpoint"} =>
               r.kind = "db-column" /\ \E x \in UsedTables(P) : RowOfTable(r, x)
<1>1. \/ \E x \in Fields(P) : RowOfField(r, x)
      \/ \E h \in Handlers(P) : RowOfHandler(r, h)
      \/ \E u \in UsedTables(P) : RowOfTable(r, u)
  BY DEF Faithful
<1> QED
  BY <1>1 DEF RowOfField, RowOfHandler, RowOfTable

(* Fields that moved and rows that are paired.                             *)
Only(R, S) == {q \in R : q.id \notin Ids(S)}

Alike(rows, r) == {q \in {q \in rows : q.kind = "dto-field"} : SimpleKey(q) = SimpleKey(r)}

Lost(P, Q, x) == {y \in Fields(P) : Namesakes(x, y) /\ \A z \in Fields(Q) : ~SameField(y, z)}

Single(T) == \E q : T = {q}

Paired(B, A, r) == r.id \in {p.before.id : p \in PairRenamed(Only(B, A), Only(A, B))}

LEMMA MovedIs ==
  ASSUME NEW b, NEW a, NEW x
  PROVE  Moved(b, a, x) <=> Single(Lost(b, a, x)) /\ Single(Lost(a, b, x))
<1>1. Moved(b, a, x) <=> /\ \E y \in Fields(b) : Lost(b, a, x) = {y}
                         /\ \E y \in Fields(a) : Lost(a, b, x) = {y}
  BY DEF Moved, Lost
<1>2. Lost(b, a, x) \subseteq Fields(b) /\ Lost(a, b, x) \subseteq Fields(a)
  BY DEF Lost
<1> QED
  BY <1>1, <1>2 DEF Single

LEMMA AlikeIs ==
  ASSUME NEW R, NEW P, NEW S, NEW Q, Faithful(R, P), Faithful(S, Q), Unambiguous(P),
         NEW r, NEW x, RowOfField(r, x)
  PROVE  Single(Alike(Only(R, S), r)) <=> Single(Lost(P, Q, x))
<1> DEFINE T == Alike(Only(R, S), r)
           V == Lost(P, Q, x)
<1>1. ASSUME NEW q \in R, NEW y \in Fields(P), RowOfField(q, y)
      PROVE  q \in T <=> y \in V
  <2>1. q.id \in Ids(S) <=> \E z \in Fields(Q) : SameField(y, z)
    BY <1>1, FieldInRows
  <2>2. SimpleKey(q) = <<y.class, y.field>> /\ SimpleKey(r) = <<x.class, x.field>>
    BY <1>1 DEF RowOfField, SimpleKey
  <2>3. SimpleKey(q) = SimpleKey(r) <=> Namesakes(x, y)
    BY <2>2 DEF Namesakes
  <2>4. q.kind = "dto-field"
    BY <1>1 DEF RowOfField
  <2> QED
    BY <2>1, <2>3, <2>4 DEF Alike, Only, Lost
<1>2. \A q \in T : q \in R /\ \E y \in Fields(P) : RowOfField(q, y)
  BY RowKinds DEF Alike, Only
<1>3. \A y \in V : y \in Fields(P) /\ \E q \in R : RowOfField(q, y)
  BY DEF Lost, Faithful
<1>4. ASSUME NEW q, T = {q} PROVE \E y : V = {y}
  <2>1. PICK y \in Fields(P) : RowOfField(q, y)
    BY <1>2, <1>4
  <2>2. y \in V
    BY <1>1, <1>2, <1>4, <2>1
  <2>3. ASSUME NEW z \in V PROVE z = y
    <3>1. PICK p \in R : RowOfField(p, z)
      BY <1>3
    <3>2. p = q
      BY <1>1, <1>3, <1>4, <3>1
    <3> QED
      BY <1>3, <2>1, <3>1, <3>2, OneField
  <2> QED
    BY <2>2, <2>3
<1>5. ASSUME NEW y, V = {y} PROVE \E q : T = {q}
  <2>0. y \in V /\ y \in Fields(P)
    BY <1>3, <1>5
  <2>1. PICK q \in R : RowOfField(q, y)
    BY <1>3, <2>0
  <2>2. q \in T
    BY <1>1, <2>0, <2>1
  <2>3. ASSUME NEW p \in T PROVE p = q
    <3>1. PICK z \in Fields(P) : p \in R /\ RowOfField(p, z)
      BY <1>2
    <3>2. z = y
      BY <1>1, <1>5, <3>1
    <3>3. p.id = q.id
      BY <2>1, <3>1, <3>2 DEF RowOfField
    <3> QED
      BY <2>1, <3>1, <3>3 DEF Faithful
  <2> QED
    BY <2>2, <2>3
<1> QED
  BY <1>4, <1>5 DEF Single

LEMMA PairRenamedIs ==
  ASSUME NEW B, NEW A, NEW r, NEW b, Faithful(B, b), r \in Only(B, A), r.kind = "dto-field"
  PROVE  Paired(B, A, r) <=> Alike(Only(B, A), r) = {r} /\ Single(Alike(Only(A, B), r))
<1> DEFINE F(rows) == {q \in rows : q.kind = "dto-field"}
           K == PairRenamed(Only(B, A), Only(A, B))
<1>1. \A p : p \in K <=> /\ p \in [before : F(Only(B, A)), after : F(Only(A, B))]
                         /\ Alike(Only(B, A), p.before) = {p.before}
                         /\ Alike(Only(A, B), p.before) = {p.after}
  BY DEF PairRenamed, Alike
<1> HIDE DEF K
<1>2. ASSUME NEW p \in K, p.before.id = r.id
      PROVE  Alike(Only(B, A), r) = {r} /\ \E s : Alike(Only(A, B), r) = {s}
  <2>1. p.before \in Only(B, A)
    BY <1>1
  <2>2. p.before = r
    BY <1>2, <2>1 DEF Only, Faithful
  <2> QED
    BY <1>1, <2>2
<1>3. ASSUME NEW s, Alike(Only(B, A), r) = {r}, Alike(Only(A, B), r) = {s}
      PROVE  \E p \in K : p.before.id = r.id
  <2> DEFINE p == [before |-> r, after |-> s]
  <2>1. s \in F(Only(A, B))
    BY <1>3 DEF Alike
  <2>2. p \in [before : F(Only(B, A)), after : F(Only(A, B))] /\ p.before = r /\ p.after = s
    BY <2>1
  <2>3. p \in K
    BY <1>1, <1>3, <2>2
  <2> QED
    BY <2>2, <2>3
<1>4. r.id \in {p.before.id : p \in K} <=> \E p \in K : p.before.id = r.id
  OBVIOUS
<1> QED
  BY <1>2, <1>3, <1>4 DEF K, Paired, Single

LEMMA PairedMoved ==
  ASSUME NEW B, NEW b, NEW A, NEW a, Faithful(B, b), Faithful(A, a),
         Unambiguous(b), Unambiguous(a),
         NEW r \in Only(B, A), NEW x, RowOfField(r, x)
  PROVE  Paired(B, A, r) <=> Moved(b, a, x)
<1>1. r.kind = "dto-field"
  BY DEF RowOfField
<1>2. r \in Alike(Only(B, A), r)
  BY <1>1 DEF Alike
<1>3. Single(Alike(Only(B, A), r)) <=> Alike(Only(B, A), r) = {r}
  BY <1>2 DEF Single
<1>4. Single(Alike(Only(B, A), r)) <=> Single(Lost(b, a, x))
  BY AlikeIs
<1>5. Single(Alike(Only(A, B), r)) <=> Single(Lost(a, b, x))
  BY AlikeIs
<1>6. Paired(B, A, r) <=> Alike(Only(B, A), r) = {r} /\ Single(Alike(Only(A, B), r))
  BY <1>1, PairRenamedIs
<1> QED
  BY <1>3, <1>4, <1>5, <1>6, MovedIs

(* The changes a row is reported for: it is gone, or s took its place.     *)
GoneAs(c, r, paired) ==
    \/ r.kind = "dto-field" /\ ~paired /\ c = Change("B1", "error", r)
    \/ r.kind = "endpoint" /\ c = Change("B3", "error", r)
    \/ r.kind \notin {"dto-field", "endpoint"} /\ c = Change("B4", "error", r)

AlteredAs(c, r, s) ==
    /\ s.meta # r.meta
    /\ \/ r.kind = "dto-field" /\ r.meta[2] = "true" /\ s.meta[2] # "true"
          /\ c = Change("B2", "warning", r)
       \/ r.kind = "dto-field" /\ r.meta[1] # s.meta[1] /\ c = Change("B1", "error", r)
       \/ r.kind = "endpoint" /\ c = Change("B3", "error", r)
       \/ r.kind = "db-column" /\ c = Change("B4", "warning", r)

ChangeAs(c, r, B, A) ==
    \/ r.id \notin Ids(A) /\ GoneAs(c, r, Paired(B, A, r))
    \/ r.id \in Ids(A) /\ AlteredAs(c, r, RowOf(A, r.id))

LEMMA GoneIs ==
  ASSUME NEW B, NEW A
  PROVE  \A c : c \in Gone(Diff(B, A)) <=>
            \E r \in B : r.id \notin Ids(A) /\ GoneAs(c, r, Paired(B, A, r))
<1> DEFINE d == Diff(B, A)
           paired == {p.before.id : p \in d.renamed}
           code(r) == CASE r.kind = "dto-field" -> "B1" [] r.kind = "endpoint" -> "B3"
                        [] OTHER -> "B4"
<1>1. d.removed = Only(B, A)
  BY DEF Diff, Only
<1>2. d.renamed = PairRenamed(Only(B, A), Only(A, B))
  BY DEF Diff, Only
<1>3. \A r : r.id \in paired <=> Paired(B, A, r)
  BY <1>2 DEF Paired
<1>4. Gone(d) = {Change(code(r), "error", r)
                    : r \in {r \in d.removed : r.kind # "dto-field" \/ r.id \notin paired}}
  BY DEF Gone
<1> HIDE DEF d, paired
<1>5. \A c : c \in Gone(d) <=> \E r \in Only(B, A) : /\ r.kind # "dto-field" \/ ~Paired(B, A, r)
                                                     /\ c = Change(code(r), "error", r)
  BY <1>1, <1>3, <1>4
<1>6. \A c, r : (/\ r.kind # "dto-field" \/ ~Paired(B, A, r)
                 /\ c = Change(code(r), "error", r)) <=> GoneAs(c, r, Paired(B, A, r))
  BY DEF GoneAs
<1> QED
  BY <1>5, <1>6 DEF d, Only

LEMMA AlteredIs ==
  ASSUME NEW B, NEW A
  PROVE  \A c : c \in Altered(Diff(B, A)) <=>
            \E r \in B : r.id \in Ids(A) /\ AlteredAs(c, r, RowOf(A, r.id))
<1> DEFINE d == Diff(B, A)
           M == d.modified
           ofKind(kind) == {m \in M : m.before.kind = kind}
<1>1. M = {[before |-> r, after |-> RowOf(A, r.id)]
              : r \in {r \in B \ {x \in B : x.id \notin Ids(A)} : RowOf(A, r.id).meta # r.meta}}
  BY DEF Diff
<1>2. \A m : m \in M <=> \E r \in B : /\ r.id \in Ids(A) /\ RowOf(A, r.id).meta # r.meta
                                      /\ m = [before |-> r, after |-> RowOf(A, r.id)]
  BY <1>1
<1>3. Altered(d) =
        {Change("B2", "warning", m.before) : m \in {m \in ofKind("dto-field") : MadeRequired(m)}}
        \cup {Change("B1", "error", m.before)
                : m \in {m \in ofKind("dto-field") : m.before.meta[1] # m.after.meta[1]}}
        \cup {Change("B3", "error", m.before) : m \in ofKind("endpoint")}
        \cup {Change("B4", "warning", m.before) : m \in ofKind("db-column")}
  BY DEF Altered
<1> HIDE DEF d, M
<1>4. \A c : c \in Altered(d) <=> \E m \in M : AlteredAs(c, m.before, m.after)
  <2>1. \A m \in M : m.after.meta # m.before.meta
    BY <1>2
  <2>2. \A c : c \in Altered(d) <=> \E m \in M :
           \/ m.before.kind = "dto-field" /\ MadeRequired(m) /\ c = Change("B2", "warning", m.before)
           \/ m.before.kind = "dto-field" /\ m.before.meta[1] # m.after.meta[1]
              /\ c = Change("B1", "error", m.before)
           \/ m.before.kind = "endpoint" /\ c = Change("B3", "error", m.before)
           \/ m.before.kind = "db-column" /\ c = Change("B4", "warning", m.before)
    BY <1>3
  <2> QED
    BY <2>1, <2>2 DEF AlteredAs, MadeRequired
<1>5. ASSUME NEW c PROVE c \in Altered(d) <=> \E r \in B : r.id \in Ids(A) /\ AlteredAs(c, r, RowOf(A, r.id))
  <2>1. ASSUME NEW m \in M, AlteredAs(c, m.before, m.after)
        PROVE  \E r \in B : r.id \in Ids(A) /\ AlteredAs(c, r, RowOf(A, r.id))
    BY <1>2, <2>1
  <2>2. ASSUME NEW r \in B, r.id \in Ids(A), AlteredAs(c, r, RowOf(A, r.id))
        PROVE  \E m \in M : AlteredAs(c, m.before, m.after)
    <3> DEFINE m == [before |-> r, after |-> RowOf(A, r.id)]
    <3>1. m.before = r /\ m.after = RowOf(A, r.id)
      OBVIOUS
    <3>2. RowOf(A, r.id).meta # r.meta
      BY <2>2 DEF AlteredAs
    <3>3. m \in M
      BY <1>2, <2>2, <3>2
    <3> QED
      BY <2>2, <3>1, <3>3
  <2> QED
    BY <1>4, <2>1, <2>2
<1> QED
  BY <1>5 DEF d

LEMMA ChangesAre ==
  ASSUME NEW B, NEW A
  PROVE  \A c : c \in DetectBreakingChanges(Diff(B, A)) <=> \E r \in B : ChangeAs(c, r, B, A)
  BY GoneIs, AlteredIs DEF DetectBreakingChanges, ChangeAs

LEMMA ChangeIs ==
  ASSUME NEW code, NEW severity, NEW r
  PROVE  LET c == Change(code, severity, r) IN
         c.code = code /\ c.severity = severity /\ c.id = r.id /\ c.file = r.file
  BY DEF Change

Said(code, key, file) == [code |-> code, key |-> key, file |-> file]

FieldKey(x) == <<x.package, x.class, x.field>>

FieldGone(b, a, x)    == (\A y \in Fields(a) : ~SameField(x, y)) /\ ~Moved(b, a, x)
FieldRetyped(a, x)    == \E y \in Fields(a) : SameField(x, y) /\ x.type # y.type
FieldRequired(a, x)   == x.null /\ \E y \in Fields(a) : SameField(x, y) /\ ~y.null
HandlerBroken(a, x)   ==
    \A y \in Handlers(a) : ~(SameHandler(x, y) /\ x.returns = y.returns /\ x.takes = y.takes)
TableGone(a, x)       == \A y \in UsedTables(a) : x.table # y.table

BrokenAs(z, b, a) ==
    \/ \E x \in Fields(b) : /\ FieldGone(b, a, x) \/ FieldRetyped(a, x)
                            /\ z = Said("B1", FieldKey(x), x.file)
    \/ \E x \in Fields(b) : FieldRequired(a, x) /\ z = Said("B2", FieldKey(x), x.file)
    \/ \E x \in Handlers(b) : /\ HandlerBroken(a, x)
                              /\ z = Said("B3", <<x.verb, x.words>>, x.file)
    \/ \E x \in UsedTables(b) : TableGone(a, x) /\ z = Said("B4", <<x.table>>, x.file)

LEMMA BrokenIs ==
  ASSUME NEW b, NEW a
  PROVE  \A z : z \in Broken(b, a) <=> BrokenAs(z, b, a)
<1> DEFINE S1 == {x \in Fields(b) : \/ (\A y \in Fields(a) : ~SameField(x, y)) /\ ~Moved(b, a, x)
                                    \/ \E y \in Fields(a) : SameField(x, y) /\ x.type # y.type}
           S2 == {x \in Fields(b) : x.null /\ \E y \in Fields(a) : SameField(x, y) /\ ~y.null}
           S3 == {x \in Handlers(b) : \A y \in Handlers(a) :
                      ~(SameHandler(x, y) /\ x.returns = y.returns /\ x.takes = y.takes)}
           S4 == {x \in UsedTables(b) : \A y \in UsedTables(a) : x.table # y.table}
<1>1. \A x : x \in S1 <=> x \in Fields(b) /\ (FieldGone(b, a, x) \/ FieldRetyped(a, x))
  BY DEF FieldGone, FieldRetyped
<1>2. \A x : x \in S2 <=> x \in Fields(b) /\ FieldRequired(a, x)
  BY DEF FieldRequired
<1>3. \A x : x \in S3 <=> x \in Handlers(b) /\ HandlerBroken(a, x)
  BY DEF HandlerBroken
<1>4. \A x : x \in S4 <=> x \in UsedTables(b) /\ TableGone(a, x)
  BY DEF TableGone
<1>5. Broken(b, a) = {Said("B1", FieldKey(x), x.file) : x \in S1}
                     \cup {Said("B2", FieldKey(x), x.file) : x \in S2}
                     \cup {Said("B3", <<x.verb, x.words>>, x.file) : x \in S3}
                     \cup {Said("B4", <<x.table>>, x.file) : x \in S4}
  BY DEF Broken, Said, FieldKey
<1> HIDE DEF S1, S2, S3, S4
<1> QED
  BY <1>1, <1>2, <1>3, <1>4, <1>5 DEF BrokenAs

(* The key of a change in the words of the sources.                        *)
LEMMA KeyOfField ==
  ASSUME NEW r, NEW x, RowOfField(r, x), NEW code \in {"B1", "B2"}, NEW severity
  PROVE  KeyOf(Change(code, severity, r)) = FieldKey(x)
<1> DEFINE c == Change(code, severity, r)
<1>1. c.code = code /\ c.id = <<"dto-field", <<x.package, x.class>>, x.field>>
  BY ChangeIs DEF RowOfField
<1> HIDE DEF c
<1>2. KeyOf(c) = <<c.id[2][1], c.id[2][2], c.id[3]>>
  BY <1>1 DEF KeyOf
<1> QED
  BY <1>1, <1>2 DEF FieldKey, c

LEMMA KeyOfHandler ==
  ASSUME NEW r, NEW x, RowOfHandler(r, x), NEW severity
  PROVE  KeyOf(Change("B3", severity, r)) = <<x.verb, x.words>>
<1> DEFINE c == Change("B3", severity, r)
<1>1. c.code = "B3" /\ c.id = <<"endpoint", x.verb, Spell(x.words)>>
  BY ChangeIs DEF RowOfHandler
<1> HIDE DEF c
<1>2. KeyOf(c) = <<c.id[2], Words(c.id[3])>>
  BY <1>1 DEF KeyOf
<1> QED
  BY <1>1, <1>2 DEF RowOfHandler, c

LEMMA KeyOfTable ==
  ASSUME NEW r, NEW x, RowOfTable(r, x), NEW severity
  PROVE  KeyOf(Change("B4", severity, r)) = <<x.table>>
<1> DEFINE c == Change("B4", severity, r)
<1>1. c.code = "B4" /\ c.id = <<"db-column", x.table>>
  BY ChangeIs DEF RowOfTable
<1> HIDE DEF c
<1>2. KeyOf(c) = <<c.id[2]>>
  BY <1>1 DEF KeyOf
<1> QED
  BY <1>1, <1>2 DEF c

Projects2(B, b, A, a) ==
    /\ Faithful(B, b) /\ Faithful(A, a)
    /\ Unambiguous(b) /\ Unambiguous(a)

(* What is reported of a row, by its kind.                                 *)
LEMMA FieldReported ==
  ASSUME NEW B, NEW b, NEW A, NEW a, Projects2(B, b, A, a), NEW r \in B, NEW x, RowOfField(r, x)
  PROVE  \A c : ChangeAs(c, r, B, A) <=>
            \/ /\ FieldGone(b, a, x) \/ FieldRetyped(a, x)
               /\ c = Change("B1", "error", r)
            \/ FieldRequired(a, x) /\ c = Change("B2", "warning", r)
<1>1. r.kind = "dto-field" /\ r.meta[1] = x.type /\ ((r.meta[2] = "true") <=> x.null)
  BY DEF RowOfField
<1>2. Faithful(B, b) /\ Faithful(A, a) /\ Unambiguous(b) /\ Unambiguous(a)
  BY DEF Projects2
<1>3. r.id \in Ids(A) <=> \E y \in Fields(a) : SameField(x, y)
  BY <1>2, FieldInRows
<1>4. CASE r.id \notin Ids(A)
  <2>1. Paired(B, A, r) <=> Moved(b, a, x)
    <3>1. r \in Only(B, A)
      BY <1>4 DEF Only
    <3> QED
      BY <1>2, <3>1, PairedMoved
  <2>2. ~FieldRetyped(a, x) /\ ~FieldRequired(a, x)
    BY <1>3, <1>4 DEF FieldRetyped, FieldRequired
  <2>3. FieldGone(b, a, x) <=> ~Moved(b, a, x)
    BY <1>3, <1>4 DEF FieldGone
  <2>4. \A c : ChangeAs(c, r, B, A) <=> GoneAs(c, r, Paired(B, A, r))
    BY <1>4 DEF ChangeAs
  <2>5. \A c : GoneAs(c, r, Paired(B, A, r)) <=> ~Moved(b, a, x) /\ c = Change("B1", "error", r)
    BY <1>1, <2>1 DEF GoneAs
  <2> QED
    BY <2>2, <2>3, <2>4, <2>5
<1>5. CASE r.id \in Ids(A)
  <2>1. PICK y \in Fields(a) : SameField(x, y)
    BY <1>3, <1>5
  <2> DEFINE s == RowOf(A, r.id)
  <2>2. RowOfField(s, y)
    BY <1>2, <2>1, FieldAfter
  <2> HIDE DEF s
  <2>3. s.meta[1] = y.type /\ ((s.meta[2] = "true") <=> y.null)
    BY <2>2 DEF RowOfField
  <2>4. \A z \in Fields(a) : SameField(x, z) => z = y
    <3> SUFFICES ASSUME NEW z \in Fields(a), SameField(x, z) PROVE z = y
      OBVIOUS
    <3>1. SameField(z, y)
      BY <2>1 DEF SameField
    <3> QED
      BY <1>2, <3>1 DEF Unambiguous
  <2>5. ~FieldGone(b, a, x)
    BY <2>1 DEF FieldGone
  <2>6. FieldRetyped(a, x) <=> r.meta[1] # s.meta[1]
    BY <1>1, <2>1, <2>3, <2>4 DEF FieldRetyped
  <2>7. FieldRequired(a, x) <=> r.meta[2] = "true" /\ s.meta[2] # "true"
    BY <1>1, <2>1, <2>3, <2>4 DEF FieldRequired
  <2>8. \A c : ChangeAs(c, r, B, A) <=> AlteredAs(c, r, s)
    BY <1>5 DEF ChangeAs, s
  <2>9. \A c : AlteredAs(c, r, s) <=>
            \/ r.meta[1] # s.meta[1] /\ c = Change("B1", "error", r)
            \/ r.meta[2] = "true" /\ s.meta[2] # "true" /\ c = Change("B2", "warning", r)
    BY <1>1 DEF AlteredAs
  <2> QED
    BY <2>5, <2>6, <2>7, <2>8, <2>9
<1> QED
  BY <1>4, <1>5

LEMMA HandlerReported ==
  ASSUME NEW B, NEW b, NEW A, NEW a, Projects2(B, b, A, a), NEW r \in B, NEW x, RowOfHandler(r, x)
  PROVE  \A c : ChangeAs(c, r, B, A) <=> HandlerBroken(a, x) /\ c = Change("B3", "error", r)
<1>1. /\ r.kind = "endpoint"
      /\ r.meta = <<x.verb, Spell(x.words), x.returns, x.takes>>
  BY DEF RowOfHandler
<1>2. Faithful(B, b) /\ Faithful(A, a) /\ Unambiguous(b) /\ Unambiguous(a)
  BY DEF Projects2
<1>3. r.id \in Ids(A) <=> \E y \in Handlers(a) : SameHandler(x, y)
  BY <1>2, HandlerInRows
<1>4. CASE r.id \notin Ids(A)
  <2>1. HandlerBroken(a, x)
    BY <1>3, <1>4 DEF HandlerBroken
  <2>2. \A c : ChangeAs(c, r, B, A) <=> c = Change("B3", "error", r)
    BY <1>1, <1>4 DEF ChangeAs, GoneAs
  <2> QED
    BY <2>1, <2>2
<1>5. CASE r.id \in Ids(A)
  <2>1. PICK y \in Handlers(a) : SameHandler(x, y)
    BY <1>3, <1>5
  <2> DEFINE s == RowOf(A, r.id)
  <2>2. RowOfHandler(s, y)
    BY <1>2, <2>1, HandlerAfter
  <2> HIDE DEF s
  <2>3. s.meta = <<y.verb, Spell(y.words), y.returns, y.takes>>
    BY <2>2 DEF RowOfHandler
  <2>4. \A z \in Handlers(a) : SameHandler(x, z) => z = y
    <3> SUFFICES ASSUME NEW z \in Handlers(a), SameHandler(x, z) PROVE z = y
      OBVIOUS
    <3>1. SameHandler(z, y)
      BY <2>1 DEF SameHandler
    <3> QED
      BY <1>2, <3>1 DEF Unambiguous
  <2>5. x.verb = y.verb /\ x.words = y.words
    BY <2>1 DEF SameHandler
  <2>6. s.meta # r.meta <=> ~(x.returns = y.returns /\ x.takes = y.takes)
    BY <1>1, <2>3, <2>5
  <2>7. HandlerBroken(a, x) <=> s.meta # r.meta
    BY <2>1, <2>4, <2>6 DEF HandlerBroken
  <2>8. \A c : ChangeAs(c, r, B, A) <=> AlteredAs(c, r, s)
    BY <1>5 DEF ChangeAs, s
  <2>9. \A c : AlteredAs(c, r, s) <=> s.meta # r.meta /\ c = Change("B3", "error", r)
    BY <1>1 DEF AlteredAs
  <2> QED
    BY <2>7, <2>8, <2>9
<1> QED
  BY <1>4, <1>5

LEMMA TableReported ==
  ASSUME NEW B, NEW b, NEW A, NEW a, Projects2(B, b, A, a), NEW r \in B, NEW x, RowOfTable(r, x)
  PROVE  \A c : ChangeAs(c, r, B, A) <=> TableGone(a, x) /\ c = Change("B4", "error", r)
<1>1. r.kind = "db-column"
  BY DEF RowOfTable
<1>2. Faithful(A, a)
  BY DEF Projects2
<1>3. /\ r.id \in Ids(A) <=> \E y \in UsedTables(a) : x.table = y.table
      /\ \A s \in A : s.id = r.id => s.meta = r.meta
  BY <1>2, TableInRows
<1>4. TableGone(a, x) <=> r.id \notin Ids(A)
  BY <1>3 DEF TableGone
<1>5. CASE r.id \notin Ids(A)
  BY <1>1, <1>4, <1>5 DEF ChangeAs, GoneAs
<1>6. CASE r.id \in Ids(A)
  <2>1. RowOf(A, r.id).meta = r.meta
    BY <1>3, <1>6, RowOfIs
  <2> QED
    BY <1>4, <1>6, <2>1 DEF ChangeAs, AlteredAs
<1> QED
  BY <1>5, <1>6

LEMMA ChangeBroken ==
  ASSUME NEW B, NEW b, NEW A, NEW a, Projects2(B, b, A, a),
         NEW r \in B, NEW c, ChangeAs(c, r, B, A)
  PROVE  Said(c.code, KeyOf(c), c.file) \in Broken(b, a)
<1>1. CASE r.kind = "dto-field"
  <2>1. PICK x \in Fields(b) : RowOfField(r, x)
    BY <1>1, RowKinds DEF Projects2
  <2>2. r.file = x.file
    BY <2>1 DEF RowOfField
  <2>3. CASE (FieldGone(b, a, x) \/ FieldRetyped(a, x)) /\ c = Change("B1", "error", r)
    <3>1. Said(c.code, KeyOf(c), c.file) = Said("B1", FieldKey(x), x.file)
      BY <2>1, <2>2, <2>3, ChangeIs, KeyOfField
    <3> QED
      BY <2>3, <3>1, BrokenIs DEF BrokenAs
  <2>4. CASE FieldRequired(a, x) /\ c = Change("B2", "warning", r)
    <3>1. Said(c.code, KeyOf(c), c.file) = Said("B2", FieldKey(x), x.file)
      BY <2>1, <2>2, <2>4, ChangeIs, KeyOfField
    <3> QED
      BY <2>4, <3>1, BrokenIs DEF BrokenAs
  <2> QED
    BY <2>1, <2>3, <2>4, FieldReported
<1>2. CASE r.kind = "endpoint"
  <2>1. PICK x \in Handlers(b) : RowOfHandler(r, x)
    BY <1>2, RowKinds DEF Projects2
  <2>2. HandlerBroken(a, x) /\ c = Change("B3", "error", r) /\ r.file = x.file
    BY <2>1, HandlerReported DEF RowOfHandler
  <2>3. Said(c.code, KeyOf(c), c.file) = Said("B3", <<x.verb, x.words>>, x.file)
    BY <2>1, <2>2, ChangeIs, KeyOfHandler
  <2> QED
    BY <2>2, <2>3, BrokenIs DEF BrokenAs
<1>3. CASE r.kind \notin {"dto-field", "endpoint"}
  <2>1. PICK x \in UsedTables(b) : RowOfTable(r, x)
    BY <1>3, RowKinds DEF Projects2
  <2>2. TableGone(a, x) /\ c = Change("B4", "error", r) /\ r.file = x.file
    BY <2>1, TableReported DEF RowOfTable
  <2>3. Said(c.code, KeyOf(c), c.file) = Said("B4", <<x.table>>, x.file)
    BY <2>1, <2>2, ChangeIs, KeyOfTable
  <2> QED
    BY <2>2, <2>3, BrokenIs DEF BrokenAs
<1> QED
  BY <1>1, <1>2, <1>3

LEMMA BrokenChange ==
  ASSUME NEW B, NEW b, NEW A, NEW a, Projects2(B, b, A, a), NEW z \in Broken(b, a)
  PROVE  \E r \in B : \E c :
            /\ ChangeAs(c, r, B, A)
            /\ c.code = z.code /\ KeyOf(c) = z.key
            /\ Lifted(z.code, z.file) <=> Lifted(c.code, c.file)
<1>1. ASSUME NEW x \in Fields(b), NEW code, NEW severity,
             z = Said(code, FieldKey(x), x.file), code \in {"B1", "B2"},
             \A r \in B : RowOfField(r, x) => ChangeAs(Change(code, severity, r), r, B, A)
      PROVE  \E r \in B : \E c :
                /\ ChangeAs(c, r, B, A)
                /\ c.code = z.code /\ KeyOf(c) = z.key
                /\ Lifted(z.code, z.file) <=> Lifted(c.code, c.file)
  <2>1. PICK r \in B : RowOfField(r, x)
    BY DEF Projects2, Faithful
  <2> DEFINE c == Change(code, severity, r)
  <2>2. c.code = code /\ c.file = x.file /\ KeyOf(c) = FieldKey(x)
    BY <1>1, <2>1, ChangeIs, KeyOfField DEF RowOfField
  <2>3. ChangeAs(c, r, B, A)
    BY <1>1, <2>1
  <2>4. z.code = code /\ z.key = FieldKey(x) /\ z.file = x.file
    BY <1>1 DEF Said
  <2> HIDE DEF c
  <2> QED
    BY <2>2, <2>3, <2>4
<1>2. ASSUME NEW x \in Fields(b), FieldGone(b, a, x) \/ FieldRetyped(a, x), NEW r \in B, RowOfField(r, x)
      PROVE  ChangeAs(Change("B1", "error", r), r, B, A)
  BY <1>2, FieldReported
<1>3. ASSUME NEW x \in Fields(b), FieldRequired(a, x), NEW r \in B, RowOfField(r, x)
      PROVE  ChangeAs(Change("B2", "warning", r), r, B, A)
  BY <1>3, FieldReported
<1>4. ASSUME NEW x \in Handlers(b), HandlerBroken(a, x), z = Said("B3", <<x.verb, x.words>>, x.file)
      PROVE  \E r \in B : \E c :
                /\ ChangeAs(c, r, B, A)
                /\ c.code = z.code /\ KeyOf(c) = z.key
                /\ Lifted(z.code, z.file) <=> Lifted(c.code, c.file)
  <2>1. PICK r \in B : RowOfHandler(r, x)
    BY DEF Projects2, Faithful
  <2> DEFINE c == Change("B3", "error", r)
  <2>2. c.code = "B3" /\ c.file = x.file /\ KeyOf(c) = <<x.verb, x.words>>
    BY <2>1, ChangeIs, KeyOfHandler DEF RowOfHandler
  <2>3. ChangeAs(c, r, B, A)
    BY <1>4, <2>1, HandlerReported
  <2>4. z.code = "B3" /\ z.key = <<x.verb, x.words>> /\ z.file = x.file
    BY <1>4 DEF Said
  <2> HIDE DEF c
  <2> QED
    BY <2>2, <2>3, <2>4
<1>5. ASSUME NEW u \in UsedTables(b), TableGone(a, u), z = Said("B4", <<u.table>>, u.file)
      PROVE  \E r \in B : \E c :
                /\ ChangeAs(c, r, B, A)
                /\ c.code = z.code /\ KeyOf(c) = z.key
                /\ Lifted(z.code, z.file) <=> Lifted(c.code, c.file)
  <2>1. PICK r \in B : \E v \in UsedTables(b) : v.table = u.table /\ RowOfTable(r, v)
    BY DEF Projects2, Faithful
  <2>2. PICK v \in UsedTables(b) : v.table = u.table /\ RowOfTable(r, v)
    BY <2>1
  <2> DEFINE c == Change("B4", "error", r)
  <2>3. c.code = "B4" /\ c.file = v.file /\ KeyOf(c) = <<u.table>>
    BY <2>2, ChangeIs, KeyOfTable DEF RowOfTable
  <2>4. TableGone(a, v)
    BY <1>5, <2>2 DEF TableGone
  <2>5. ChangeAs(c, r, B, A)
    BY <2>2, <2>4, TableReported
  <2>6. Lifted("B4", v.file) <=> Lifted("B4", u.file)
    BY <2>2 DEF Projects2, Unambiguous
  <2>7. z.code = "B4" /\ z.key = <<u.table>> /\ z.file = u.file
    BY <1>5 DEF Said
  <2> HIDE DEF c
  <2> QED
    BY <2>3, <2>5, <2>6, <2>7
<1>0. BrokenAs(z, b, a)
  BY BrokenIs
<1>6. \/ \E x \in Fields(b) : /\ FieldGone(b, a, x) \/ FieldRetyped(a, x)
                              /\ z = Said("B1", FieldKey(x), x.file)
      \/ \E x \in Fields(b) : FieldRequired(a, x) /\ z = Said("B2", FieldKey(x), x.file)
      \/ \E x \in Handlers(b) : /\ HandlerBroken(a, x)
                                /\ z = Said("B3", <<x.verb, x.words>>, x.file)
      \/ \E x \in UsedTables(b) : TableGone(a, x) /\ z = Said("B4", <<x.table>>, x.file)
  BY <1>0 DEF BrokenAs
<1>7. CASE \E x \in Fields(b) : /\ FieldGone(b, a, x) \/ FieldRetyped(a, x)
                                /\ z = Said("B1", FieldKey(x), x.file)
  <2>1. PICK x \in Fields(b) : /\ FieldGone(b, a, x) \/ FieldRetyped(a, x)
                               /\ z = Said("B1", FieldKey(x), x.file)
    BY <1>7
  <2>2. \A r \in B : RowOfField(r, x) => ChangeAs(Change("B1", "error", r), r, B, A)
    BY <1>2, <2>1
  <2> QED
    BY <1>1, <2>1, <2>2
<1>8. CASE \E x \in Fields(b) : FieldRequired(a, x) /\ z = Said("B2", FieldKey(x), x.file)
  <2>1. PICK x \in Fields(b) : FieldRequired(a, x) /\ z = Said("B2", FieldKey(x), x.file)
    BY <1>8
  <2>2. \A r \in B : RowOfField(r, x) => ChangeAs(Change("B2", "warning", r), r, B, A)
    BY <1>3, <2>1
  <2> QED
    BY <1>1, <2>1, <2>2
<1>9. CASE \E x \in Handlers(b) : /\ HandlerBroken(a, x)
                                  /\ z = Said("B3", <<x.verb, x.words>>, x.file)
  BY <1>4, <1>9
<1>10. CASE \E x \in UsedTables(b) : TableGone(a, x) /\ z = Said("B4", <<x.table>>, x.file)
  BY <1>5, <1>10
<1> QED
  BY <1>6, <1>7, <1>8, <1>9, <1>10

(* No two changes are of one code and say the same.                        *)
LEMMA KindOfChange ==
  ASSUME NEW B, NEW b, NEW A, NEW a, Projects2(B, b, A, a),
         NEW r \in B, NEW c, ChangeAs(c, r, B, A)
  PROVE  \/ \E x \in Fields(b) : RowOfField(r, x) /\ c = Change("B1", "error", r)
         \/ \E x \in Fields(b) : RowOfField(r, x) /\ c = Change("B2", "warning", r)
         \/ \E x \in Handlers(b) : RowOfHandler(r, x) /\ c = Change("B3", "error", r)
         \/ \E x \in UsedTables(b) : RowOfTable(r, x) /\ c = Change("B4", "error", r)
<1>1. CASE r.kind = "dto-field"
  BY <1>1, RowKinds, FieldReported DEF Projects2
<1>2. CASE r.kind = "endpoint"
  BY <1>2, RowKinds, HandlerReported DEF Projects2
<1>3. CASE r.kind \notin {"dto-field", "endpoint"}
  BY <1>3, RowKinds, TableReported DEF Projects2
<1> QED
  BY <1>1, <1>2, <1>3

LEMMA OneChange ==
  ASSUME NEW B, NEW b, NEW A, NEW a, Projects2(B, b, A, a),
         NEW r \in B, NEW c, ChangeAs(c, r, B, A),
         NEW s \in B, NEW d, ChangeAs(d, s, B, A),
         c.code = d.code, KeyOf(c) = KeyOf(d)
  PROVE  c = d
<1>1. \A p, q \in B : p.id = q.id => p = q
  BY DEF Projects2, Faithful
<1>2. \A q : /\ Change("B1", "error", q).code = "B1" /\ Change("B2", "warning", q).code = "B2"
             /\ Change("B3", "error", q).code = "B3" /\ Change("B4", "error", q).code = "B4"
  BY ChangeIs
<1>3. ASSUME NEW x, RowOfField(r, x), NEW y, RowOfField(s, y), FieldKey(x) = FieldKey(y)
      PROVE  r = s
  <2>1. r.id = s.id
    BY <1>3 DEF RowOfField, FieldKey
  <2> QED
    BY <1>1, <2>1
<1>4. ASSUME NEW x, RowOfHandler(r, x), NEW y, RowOfHandler(s, y),
             <<x.verb, x.words>> = <<y.verb, y.words>>
      PROVE  r = s
  <2>1. r.id = s.id
    BY <1>4 DEF RowOfHandler
  <2> QED
    BY <1>1, <2>1
<1>5. ASSUME NEW x, RowOfTable(r, x), NEW y, RowOfTable(s, y), <<x.table>> = <<y.table>>
      PROVE  r = s
  <2>1. r.id = s.id
    BY <1>5 DEF RowOfTable
  <2> QED
    BY <1>1, <2>1
<1>6. CASE \E x \in Fields(b) : RowOfField(r, x) /\ c = Change("B1", "error", r)
  <2>1. PICK x : RowOfField(r, x) /\ c = Change("B1", "error", r)
    BY <1>6
  <2>2. PICK y : RowOfField(s, y) /\ d = Change("B1", "error", s)
    BY <1>2, <2>1, KindOfChange
  <2> QED
    BY <1>3, <2>1, <2>2, KeyOfField
<1>7. CASE \E x \in Fields(b) : RowOfField(r, x) /\ c = Change("B2", "warning", r)
  <2>1. PICK x : RowOfField(r, x) /\ c = Change("B2", "warning", r)
    BY <1>7
  <2>2. PICK y : RowOfField(s, y) /\ d = Change("B2", "warning", s)
    BY <1>2, <2>1, KindOfChange
  <2> QED
    BY <1>3, <2>1, <2>2, KeyOfField
<1>8. CASE \E x \in Handlers(b) : RowOfHandler(r, x) /\ c = Change("B3", "error", r)
  <2>1. PICK x : RowOfHandler(r, x) /\ c = Change("B3", "error", r)
    BY <1>8
  <2>2. PICK y : RowOfHandler(s, y) /\ d = Change("B3", "error", s)
    BY <1>2, <2>1, KindOfChange
  <2> QED
    BY <1>4, <2>1, <2>2, KeyOfHandler
<1>9. CASE \E x \in UsedTables(b) : RowOfTable(r, x) /\ c = Change("B4", "error", r)
  <2>1. PICK x : RowOfTable(r, x) /\ c = Change("B4", "error", r)
    BY <1>9
  <2>2. PICK y : RowOfTable(s, y) /\ d = Change("B4", "error", s)
    BY <1>2, <2>1, KindOfChange
  <2> QED
    BY <1>5, <2>1, <2>2, KeyOfTable
<1> QED
  BY <1>6, <1>7, <1>8, <1>9, KindOfChange

LEMMA ReportedIs ==
  ASSUME NEW diff
  PROVE  \A c : c \in Report(diff, Waivers) <=>
            c \in DetectBreakingChanges(diff) /\ ~Lifted(c.code, c.file)
  BY DEF Report, Lifted

(* A report of two projects says what is broken between them.              *)
ReportSays(changes, b, a) ==
    LET broken == Broken(b, a)
        told == {<<c.code, KeyOf(c)>> : c \in changes} IN
    /\ told = {<<x.code, x.key>> : x \in {x \in broken : ~Lifted(x.code, x.file)}}
    /\ \A c, d \in changes : <<c.code, KeyOf(c)>> = <<d.code, KeyOf(d)>> => c = d

LEMMA ReportOfProjects ==
  ASSUME NEW B, NEW b, NEW A, NEW a, Projects2(B, b, A, a)
  PROVE  ReportSays(Report(Diff(B, A), Waivers), b, a)
<1> DEFINE C == Report(Diff(B, A), Waivers)
           K == Broken(b, a)
<1>1. \A c : c \in C <=> (\E r \in B : ChangeAs(c, r, B, A)) /\ ~Lifted(c.code, c.file)
  BY ReportedIs, ChangesAre
<1> HIDE DEF C
<1>2. ASSUME NEW c \in C
      PROVE  \E x \in K : /\ ~Lifted(x.code, x.file)
                          /\ <<c.code, KeyOf(c)>> = <<x.code, x.key>>
  <2> DEFINE x == Said(c.code, KeyOf(c), c.file)
  <2>1. x \in K
    BY <1>1, ChangeBroken
  <2>2. x.code = c.code /\ x.key = KeyOf(c) /\ x.file = c.file
    BY DEF Said
  <2>3. ~Lifted(c.code, c.file)
    BY <1>1
  <2> HIDE DEF x, K
  <2> QED
    BY <2>1, <2>2, <2>3
<1>3. ASSUME NEW x \in K, ~Lifted(x.code, x.file)
      PROVE  \E c \in C : <<c.code, KeyOf(c)>> = <<x.code, x.key>>
  <2>1. PICK r \in B : \E c : /\ ChangeAs(c, r, B, A)
                              /\ c.code = x.code /\ KeyOf(c) = x.key
                              /\ Lifted(x.code, x.file) <=> Lifted(c.code, c.file)
    BY BrokenChange
  <2>2. PICK c : /\ ChangeAs(c, r, B, A)
                 /\ c.code = x.code /\ KeyOf(c) = x.key
                 /\ Lifted(x.code, x.file) <=> Lifted(c.code, c.file)
    BY <2>1
  <2>3. c \in C
    BY <1>1, <1>3, <2>2
  <2> QED
    BY <2>2, <2>3
<1>4. {<<c.code, KeyOf(c)>> : c \in C}
          = {<<x.code, x.key>> : x \in {x \in K : ~Lifted(x.code, x.file)}}
  <2> HIDE DEF K
  <2> QED
    BY <1>2, <1>3
<1>5. \A c, d \in C : <<c.code, KeyOf(c)>> = <<d.code, KeyOf(d)>> => c = d
  BY <1>1, OneChange
<1> QED
  BY <1>4, <1>5 DEF ReportSays, C

(* Every project that is in hand is one there is.                          *)
KnownInv ==
    /\ {sources, graph, writer} \subseteq DOMAIN Content
    /\ \A l \in DOMAIN of : of[l] \in DOMAIN Content
    /\ \A r \in Reporter : {job[r].project, job[r].compared[1], job[r].compared[2]}
                              \subseteq DOMAIN Content

LEMMA InitKnown == Init => KnownInv
<1> SUFFICES ASSUME Init PROVE KnownInv
  OBVIOUS
<1>1. NoProject \in DOMAIN Content
  BY ContentAssumption
<1>2. sources \in DOMAIN Content /\ graph = NoProject /\ writer = NoProject
  BY DEF Init, Project
<1>3. \A l \in DOMAIN of : of[l] = NoProject
  BY DEF Init
<1>4. \A r \in Reporter : job[r] = Idle
  BY DEF Init
<1>5. Idle.project = NoProject /\ Idle.compared[1] = NoProject /\ Idle.compared[2] = NoProject
  BY DEF Idle
<1> QED
  BY <1>1, <1>2, <1>3, <1>4, <1>5 DEF KnownInv

LEMMA StepKnown == StoresInv /\ KnownInv /\ [Next]_vars => KnownInv'
<1> SUFFICES ASSUME StoresInv, KnownInv, [Next]_vars PROVE KnownInv'
  OBVIOUS
<1> DEFINE Known(j) == {j.project, j.compared[1], j.compared[2]} \subseteq DOMAIN Content
<1>1. NoProject \in DOMAIN Content
  BY ContentAssumption
<1>2. Known(Idle)
  BY <1>1 DEF Idle
<1>3. /\ DOMAIN of = Labels /\ job = [r \in Reporter |-> job[r]]
      /\ \A r \in Reporter : Fields6(job[r]) /\ job[r].compared = <<job[r].compared[1], job[r].compared[2]>>
  BY DEF StoresInv, InHand
<1>4. /\ {sources, graph, writer} \subseteq DOMAIN Content
      /\ \A l \in DOMAIN of : of[l] \in DOMAIN Content
      /\ \A r \in Reporter : Known(job[r])
  BY DEF KnownInv
<1>5. ASSUME \/ UNCHANGED <<sources, graph, writer>>
             \/ Edit \/ StartRun \/ EndRun \/ ParseBaseline \/ WriteBaseline
      PROVE  {sources', graph', writer'} \subseteq DOMAIN Content
  BY <1>1, <1>4, <1>5 DEF Edit, StartRun, EndRun, ParseBaseline, WriteBaseline, Project
<1>6. ASSUME NEW r \in Reporter, NEW j, Known(j), job' = [job EXCEPT ![r] = j]
      PROVE  \A x \in Reporter : Known(job'[x])
  <2> HIDE DEF Known
  <2> QED
    BY <1>3, <1>4, <1>6
<1>7. ASSUME NEW l, NEW p \in DOMAIN Content, of' = [of EXCEPT ![l] = p]
      PROVE  \A x \in DOMAIN of' : of'[x] \in DOMAIN Content
  BY <1>3, <1>4, <1>7
<1>8. ASSUME UNCHANGED of PROVE \A x \in DOMAIN of' : of'[x] \in DOMAIN Content
  BY <1>4, <1>8
<1>9. ASSUME UNCHANGED job PROVE \A x \in Reporter : Known(job'[x])
  BY <1>4, <1>9
<1>10. ASSUME {sources', graph', writer'} \subseteq DOMAIN Content,
              \A x \in DOMAIN of' : of'[x] \in DOMAIN Content,
              \A x \in Reporter : Known(job'[x])
       PROVE  KnownInv'
  BY <1>10 DEF KnownInv
<1>11. CASE UNCHANGED vars \/ Edit \/ StartRun \/ EndRun \/ ParseBaseline
  <2>1. UNCHANGED <<of, job>>
    BY <1>11 DEF vars, Edit, StartRun, EndRun, ParseBaseline
  <2>2. {sources', graph', writer'} \subseteq DOMAIN Content
    BY <1>5, <1>11 DEF vars
  <2> HIDE DEF Known
  <2> QED
    BY <1>8, <1>9, <1>10, <2>1, <2>2
<1>12. CASE WriteBaseline
  <2>1. UNCHANGED job /\ of' = [of EXCEPT ![Baseline] = writer] /\ writer \in DOMAIN Content
    BY <1>4, <1>12 DEF WriteBaseline
  <2>2. {sources', graph', writer'} \subseteq DOMAIN Content
    BY <1>5, <1>12
  <2> HIDE DEF Known
  <2> QED
    BY <1>7, <1>9, <1>10, <2>1, <2>2
<1>13. ASSUME NEW l \in Label, SchemaSnapshot(l) \/ TakeArchSnapshot(l) PROVE KnownInv'
  <2>1. UNCHANGED <<job, sources, graph, writer>>
    BY <1>13 DEF SchemaSnapshot, TakeArchSnapshot
  <2>2. UNCHANGED of \/ of' = [of EXCEPT ![l] = sources]
    BY <1>13 DEF SchemaSnapshot, TakeArchSnapshot
  <2>3. sources \in DOMAIN Content
    BY <1>4
  <2>4. \A x \in DOMAIN of' : of'[x] \in DOMAIN Content
    BY <1>7, <1>8, <2>2, <2>3
  <2> HIDE DEF Known
  <2> QED
    BY <1>5, <1>9, <1>10, <2>1, <2>4
<1>14. ASSUME NEW r \in Reporter, Begin(r) \/ Count(r) \/ WritePending(r) \/ LoadBefore(r)
                                  \/ LoadAfter(r) \/ End(r)
       PROVE  KnownInv'
  <2> DEFINE h == job[r]
  <2>1. /\ h = [pc |-> h.pc, project |-> h.project, before |-> h.before, changes |-> h.changes,
                renamed |-> h.renamed, compared |-> <<h.compared[1], h.compared[2]>>]
        /\ Known(h)
    BY <1>3, <1>4 DEF Fields6
  <2>2. UNCHANGED <<sources, graph, writer>>
    BY <1>14 DEF Begin, Count, WritePending, LoadBefore, LoadAfter, End
  <2>3. UNCHANGED of \/ of' = [of EXCEPT ![Pending] = h.project]
    BY <1>14 DEF Begin, Count, WritePending, LoadBefore, LoadAfter, End
  <2>4. \A x \in DOMAIN of' : of'[x] \in DOMAIN Content
    BY <1>7, <1>8, <2>1, <2>3
  <2>5. of[Baseline] \in DOMAIN Content /\ of[Pending] \in DOMAIN Content
    BY <1>3, <1>4 DEF Labels
  <2>6. PICK j : job' = [job EXCEPT ![r] = j] /\ Known(j)
    <3>1. CASE Begin(r)
      <4> DEFINE j == [Idle EXCEPT !.pc = "begun", !.project = IF r = Server THEN graph ELSE sources]
      <4>1. job' = [job EXCEPT ![r] = j]
        BY <3>1 DEF Begin
      <4>2. Known(j)
        BY <1>1, <1>4 DEF Idle
      <4> QED
        BY <4>1, <4>2
    <3>2. CASE Count(r)
      <4> DEFINE k == [h EXCEPT !.pc = "counted"]
                 j == IF Load(Baseline) = {} THEN Idle ELSE k
      <4>1. job' = [job EXCEPT ![r] = j]
        BY <1>3, <3>2 DEF Count
      <4>2. Known(k)
        <5> HIDE DEF h
        <5> QED
          BY <2>1
      <4> HIDE DEF k, Known
      <4>3. Known(j)
        BY <1>2, <4>2
      <4> QED
        BY <4>1, <4>3
    <3>3. CASE WritePending(r)
      <4> DEFINE j == [h EXCEPT !.pc = "written"]
      <4>1. job' = [job EXCEPT ![r] = j]
        BY <1>3, <3>3 DEF WritePending
      <4>2. Known(j)
        <5> HIDE DEF h
        <5> QED
          BY <2>1
      <4> QED
        BY <4>1, <4>2
    <3>4. CASE LoadBefore(r)
      <4> DEFINE j == [h EXCEPT !.pc = "loaded", !.before = Load(Baseline),
                                !.compared = <<of[Baseline], @[2]>>]
      <4>1. job' = [job EXCEPT ![r] = j]
        BY <1>3, <3>4 DEF LoadBefore, Fields6
      <4>2. Known(j)
        <5> HIDE DEF h
        <5> QED
          BY <2>1, <2>5
      <4> QED
        BY <4>1, <4>2
    <3>5. CASE LoadAfter(r)
      <4> DEFINE diff == Diff(job[r].before, Load(Pending))
                 j == [h EXCEPT !.pc = "reported", !.before = {},
                                !.changes = Report(diff, Waivers), !.renamed = diff.renamed,
                                !.compared = <<@[1], of[Pending]>>]
      <4>1. job' = [job EXCEPT ![r] = j]
        BY <1>3, <3>5 DEF LoadAfter, Fields6
      <4> HIDE DEF diff
      <4>2. Known(j)
        <5> HIDE DEF h
        <5> QED
          BY <2>1, <2>5
      <4> QED
        BY <4>1, <4>2
    <3>6. CASE End(r)
      <4>1. job' = [job EXCEPT ![r] = Idle]
        BY <3>6 DEF End
      <4> QED
        BY <1>2, <4>1
    <3> QED
      BY <1>14, <3>1, <3>2, <3>3, <3>4, <3>5, <3>6
  <2> HIDE DEF Known
  <2> QED
    BY <1>5, <1>6, <1>10, <2>2, <2>4, <2>6
<1> QED
  BY <1>11, <1>12, <1>13, <1>14 DEF Next

(* A report says exactly what the sources of the two projects it names say *)
(* is broken between them, each break once and none that is waived: the    *)
(* parsers lose no field, handler or table, normalizePath() confuses no    *)
(* two paths, and the pairing of renamed fields hides nothing but a move   *)
(* of a class (JavaFileParser, SignatureStore.diff, pairRenamedDtoFields,  *)
(* detectBreakingChanges).                                                 *)
THEOREM ReportExactAlways ==
  ASSUME ProjectsUnambiguous
  PROVE  Spec => []ReportExact
<1>1. ASSUME NEW p \in DOMAIN Content
      PROVE  Faithful(RowsOf[p], Content[p]) /\ Unambiguous(Content[p])
  <2>1. AreFiles(Content[p]) /\ Unambiguous(Content[p])
    BY FilesAssumption DEF AreFiles, ProjectsUnambiguous
  <2> QED
    BY <2>1, RowsFaithful DEF RowsOf
<1>2. ASSUME NEW p \in DOMAIN Content, NEW q \in DOMAIN Content
      PROVE  ReportSays(Report(Diff(RowsOf[p], RowsOf[q]), Waivers), Content[p], Content[q])
  <2>1. Projects2(RowsOf[p], Content[p], RowsOf[q], Content[q])
    BY <1>1 DEF Projects2
  <2> QED
    BY <2>1, ReportOfProjects
<1>3. StoresInv /\ KnownInv => ReportExact
  <2> SUFFICES ASSUME StoresInv, KnownInv, NEW r \in Reporter, job[r].pc = "reported"
               PROVE  ReportSays(job[r].changes, Content[job[r].compared[1]],
                                 Content[job[r].compared[2]])
    BY DEF ReportExact, ReportSays
  <2>1. job[r].changes = Report(Diff(RowsOf[job[r].compared[1]], RowsOf[job[r].compared[2]]), Waivers)
    BY DEF StoresInv, InHand, Compared
  <2>2. job[r].compared[1] \in DOMAIN Content /\ job[r].compared[2] \in DOMAIN Content
    BY DEF KnownInv
  <2> QED
    BY <1>2, <2>1, <2>2
<1> QED
  BY <1>3, InitStores, StepStores, InitKnown, StepKnown, PTL DEF Spec

(***************************************************************************)
(* Snapshots of the schema that are exact.                                 *)
(***************************************************************************)

(* The tables after each of the statements, and after each of the files.   *)
IsAfterOps(g, n, tables, ops) ==
    g = [i \in 0..n |-> IF i = 0 THEN tables ELSE ApplyOp(g[i - 1], ops[i])]

AfterOps(tables, ops) == CHOOSE g : IsAfterOps(g, Len(ops), tables, ops)

LEMMA OpsHaveRun ==
  ASSUME NEW tables, NEW ops, NEW m \in Nat
  PROVE  \E g : IsAfterOps(g, m, tables, ops)
<1> DEFINE T == {n \in Nat : \E g : IsAfterOps(g, n, tables, ops)}
<1>1. 0 \in T
  <2> DEFINE g == [i \in 0..0 |-> tables]
  <2>1. IsAfterOps(g, 0, tables, ops)
    BY DEF IsAfterOps
  <2> QED
    BY <2>1
<1>2. ASSUME NEW n \in Nat, n \in T PROVE n + 1 \in T
  <2>1. PICK g : IsAfterOps(g, n, tables, ops)
    BY <1>2
  <2> DEFINE h == [i \in 0..(n + 1) |-> IF i = n + 1 THEN ApplyOp(g[n], ops[n + 1]) ELSE g[i]]
  <2>2. ASSUME NEW i \in 0..(n + 1)
        PROVE  h[i] = IF i = 0 THEN tables ELSE ApplyOp(h[i - 1], ops[i])
    <3>1. CASE i = n + 1
      <4>1. h[i] = ApplyOp(g[n], ops[i]) /\ i # 0
        BY <3>1
      <4>2. h[i - 1] = g[n]
        BY <3>1
      <4> HIDE DEF h
      <4> QED
        BY <4>1, <4>2
    <3>2. CASE i = 0
      BY <3>2, <2>1 DEF IsAfterOps
    <3>3. CASE i \in 1..n
      <4>1. h[i] = g[i] /\ h[i - 1] = g[i - 1]
        BY <3>3
      <4>2. g[i] = ApplyOp(g[i - 1], ops[i])
        BY <3>3, <2>1 DEF IsAfterOps
      <4> HIDE DEF h
      <4> QED
        BY <3>3, <4>1, <4>2
    <3> QED
      BY <3>1, <3>2, <3>3
  <2>3. DOMAIN h = 0..(n + 1) /\ h = [i \in 0..(n + 1) |-> h[i]]
    OBVIOUS
  <2> HIDE DEF h
  <2>4. IsAfterOps(h, n + 1, tables, ops)
    BY <2>2, <2>3 DEF IsAfterOps
  <2> QED
    BY <2>4
<1>3. m \in T
  BY <1>1, <1>2, AllNaturals
<1> QED
  BY <1>3

LEMMA AfterOpsIs ==
  ASSUME NEW tables, NEW ops, Len(ops) \in Nat
  PROVE  LET g == AfterOps(tables, ops) IN
         /\ ApplyOps(tables, ops) = g[Len(ops)]
         /\ g[0] = tables
         /\ \A i \in 1..Len(ops) : g[i] = ApplyOp(g[i - 1], ops[i])
<1> DEFINE g == AfterOps(tables, ops)
<1>1. IsAfterOps(g, Len(ops), tables, ops)
  BY OpsHaveRun DEF AfterOps
<1>2. ApplyOps(tables, ops) = g[Len(ops)]
  BY DEF ApplyOps, AfterOps, IsAfterOps
<1> HIDE DEF g
<1>3. g[0] = tables /\ \A i \in 1..Len(ops) : g[i] = ApplyOp(g[i - 1], ops[i])
  BY <1>1 DEF IsAfterOps
<1> QED
  BY <1>2, <1>3 DEF g

(* What is known of one table: it is not there, or has these columns.      *)
Same(s, u, t) ==
    /\ t \in DOMAIN s <=> t \in DOMAIN u
    /\ t \in DOMAIN s => s[t] = u[t]

LEMMA SameIs ==
  ASSUME NEW s, NEW u, NEW v, NEW t
  PROVE  /\ Same(s, s, t)
         /\ Same(s, u, t) => Same(u, s, t)
         /\ Same(s, u, t) /\ Same(u, v, t) => Same(s, v, t)
  BY DEF Same

(* A statement is about one table.                                         *)
LEMMA OpElsewhere ==
  ASSUME NEW s, NEW op, NEW t, op.table # t
  PROVE  Same(ApplyOp(s, op), s, t)
<1> DEFINE columns == AlterColumns(ColumnsOf(s, op.table), op)
           kept == Restrict(s, DOMAIN s \ {op.table})
<1>1. Same(kept, s, t)
  BY DEF Same, Restrict
<1> HIDE DEF columns
<1>2. Same(With(s, op.table, columns), s, t)
  BY DEF Same, With
<1> HIDE DEF kept
<1>3. ApplyOp(s, op) \in {kept, s, With(s, op.table, columns)}
  BY DEF ApplyOp, kept, columns
<1> QED
  BY <1>1, <1>2, <1>3, SameIs

LEMMA OpHere ==
  ASSUME NEW s, NEW u, NEW op, Same(s, u, op.table)
  PROVE  Same(ApplyOp(s, op), ApplyOp(u, op), op.table)
<1> DEFINE t == op.table
           has == t \in DOMAIN s
           a == AlterColumns(ColumnsOf(s, t), op)
           b == AlterColumns(ColumnsOf(u, t), op)
<1>1. ColumnsOf(s, t) = ColumnsOf(u, t)
  BY DEF Same, ColumnsOf
<1>2. a = b
  BY <1>1
<1>3. Same(With(s, t, a), With(u, t, b), t)
  <2> HIDE DEF a, b
  <2> QED
    BY <1>2 DEF Same, With
<1>4. Same(Restrict(s, DOMAIN s \ {t}), Restrict(u, DOMAIN u \ {t}), t)
  BY DEF Same, Restrict
<1> HIDE DEF a, b
<1>5. CASE op.op = "drop-table"
  BY <1>4, <1>5 DEF ApplyOp
<1>6. CASE /\ op.op # "drop-table"
           /\ op.op \in {"drop-column", "modify-column", "rename-column"} /\ t \notin DOMAIN s
  <2>1. t \notin DOMAIN u
    BY <1>6 DEF Same
  <2>2. ApplyOp(s, op) = s /\ ApplyOp(u, op) = u
    BY <1>6, <2>1 DEF ApplyOp
  <2> QED
    BY <2>2
<1>7. CASE /\ op.op # "drop-table"
           /\ ~(op.op \in {"drop-column", "modify-column", "rename-column"} /\ t \notin DOMAIN s)
  <2>1. ~(op.op \in {"drop-column", "modify-column", "rename-column"} /\ t \notin DOMAIN u)
    BY <1>7 DEF Same
  <2>2. ApplyOp(s, op) = With(s, t, a) /\ ApplyOp(u, op) = With(u, t, b)
    BY <1>7, <2>1 DEF ApplyOp, a, b
  <2> QED
    BY <1>3, <2>2
<1> QED
  BY <1>5, <1>6, <1>7

(* Statements about other tables make no difference.                       *)
LEMMA OpsElsewhere ==
  ASSUME NEW tables, NEW ops, Len(ops) \in Nat, NEW t, NEW p \in 0..Len(ops), NEW q \in p..Len(ops),
         \A i \in (p + 1)..q : ops[i].table # t
  PROVE  Same(AfterOps(tables, ops)[q], AfterOps(tables, ops)[p], t)
<1> DEFINE g == AfterOps(tables, ops)
           T == {n \in Nat : p + n <= q => Same(g[p + n], g[p], t)}
<1>1. 0 \in T
  BY SameIs
<1>2. ASSUME NEW n \in Nat, n \in T PROVE n + 1 \in T
  <2>1. SUFFICES ASSUME p + (n + 1) <= q
                 PROVE  Same(g[p + (n + 1)], g[p], t)
    OBVIOUS
  <2> DEFINE i == p + (n + 1)
  <2>2. i \in 1..Len(ops) /\ i \in (p + 1)..q /\ i - 1 = p + n /\ p + n <= q
    BY <2>1
  <2>3. g[i] = ApplyOp(g[i - 1], ops[i])
    BY <2>2, AfterOpsIs
  <2>4. ops[i].table # t
    BY <2>2
  <2> HIDE DEF g, i
  <2>5. Same(g[i], g[i - 1], t)
    BY <2>3, <2>4, OpElsewhere
  <2>6. Same(g[p + n], g[p], t)
    BY <1>2, <2>2
  <2>7. Same(g[i], g[p], t)
    BY <2>2, <2>5, <2>6, SameIs
  <2> QED
    BY <2>7 DEF i
<1>3. Nat \subseteq T
  <2> HIDE DEF T
  <2> QED
    BY <1>1, <1>2, AllNaturals
<1> HIDE DEF g
<1>4. q - p \in Nat /\ p + (q - p) = q
  OBVIOUS
<1>5. p + (q - p) <= q => Same(g[p + (q - p)], g[p], t)
  BY <1>3, <1>4
<1>6. Same(g[q], g[p], t)
  BY <1>4, <1>5
<1> QED
  BY <1>6 DEF g

(* The statements of one sequence in another order, where those about a    *)
(* table are in the same order: at[k] is the place of the k-th.            *)
Reordered(ops, text, at, t) ==
    /\ \A k \in 1..Len(ops) : at[k] \in 1..Len(text) /\ ops[k] = text[at[k]]
    /\ \A j, k \in 1..Len(ops) :
          j < k /\ ops[j].table = t /\ ops[k].table = t => at[j] < at[k]
    /\ \A i \in 1..Len(text) : text[i].table = t => \E k \in 1..Len(ops) : at[k] = i

Done(ops, at, m, t) == {at[k] : k \in {k \in 1..m : ops[k].table = t}}
About(text, i, t)   == {k \in 1..i : text[k].table = t}

(* As long as what is done of one is what is done of the other, they agree.*)
LEMMA StepTogether ==
  ASSUME NEW ops, NEW text, NEW at, NEW t, Reordered(ops, text, at, t),
         Len(ops) \in Nat, Len(text) \in Nat,
         NEW s, NEW u, Same(s, u, t), NEW m \in Nat, m + 1 <= Len(ops),
         \A i \in 0..Len(text) : Done(ops, at, m, t) = About(text, i, t) =>
             Same(AfterOps(s, ops)[m], AfterOps(u, text)[i], t),
         NEW i \in 0..Len(text), Done(ops, at, m + 1, t) = About(text, i, t)
  PROVE  Same(AfterOps(s, ops)[m + 1], AfterOps(u, text)[i], t)
<1> DEFINE g == AfterOps(s, ops)
           h == AfterOps(u, text)
           n == m + 1
           p == at[n]
<1>0. n \in 1..Len(ops) /\ n - 1 = m
  OBVIOUS
<1>1. g[n] = ApplyOp(g[m], ops[n])
  BY <1>0, AfterOpsIs
<1>2. CASE ops[n].table # t
  <2>1. \A k : k \in 1..n /\ ops[k].table = t <=> k \in 1..m /\ ops[k].table = t
    BY <1>0, <1>2
  <2>2. Done(ops, at, n, t) = Done(ops, at, m, t)
    BY <2>1 DEF Done
  <2>3. Same(g[m], h[i], t)
    BY <2>2
  <2> HIDE DEF g, h, n
  <2>4. Same(g[n], g[m], t)
    BY <1>1, <1>2, OpElsewhere
  <2>5. Same(g[n], h[i], t)
    BY <2>3, <2>4, SameIs
  <2> QED
    BY <2>5 DEF g, h, n
<1>3. CASE ops[n].table = t
  <2>1. p \in About(text, i, t)
    BY <1>0, <1>3 DEF Done
  <2>2. p \in 1..i /\ p \in 1..Len(text) /\ text[p] = ops[n]
    BY <1>0, <2>1 DEF Reordered, About
  <2>3. \A k \in 1..m : ops[k].table = t => at[k] \in 1..Len(text) /\ at[k] < p
    BY <1>0, <1>3 DEF Reordered
  <2>4. \A k \in (p + 1)..i : text[k].table # t
    <3> SUFFICES ASSUME NEW k \in (p + 1)..i, text[k].table = t
                 PROVE  FALSE
      OBVIOUS
    <3>1. k \in About(text, i, t)
      BY <2>2 DEF About
    <3>2. PICK j \in 1..n : ops[j].table = t /\ at[j] = k
      BY <3>1 DEF Done
    <3>3. j # n
      BY <2>2, <3>2
    <3> QED
      BY <1>0, <2>2, <2>3, <3>2, <3>3
  <2>5. Done(ops, at, m, t) = About(text, p - 1, t)
    <3>1. ASSUME NEW x \in Done(ops, at, m, t) PROVE x \in About(text, p - 1, t)
      <4>1. PICK k \in 1..m : ops[k].table = t /\ at[k] = x
        BY DEF Done
      <4>2. x \in Done(ops, at, n, t)
        BY <1>0, <4>1 DEF Done
      <4>3. x \in 1..i /\ text[x].table = t /\ x < p
        BY <2>3, <4>1, <4>2 DEF About
      <4> QED
        BY <2>2, <4>3 DEF About
    <3>2. ASSUME NEW x \in About(text, p - 1, t) PROVE x \in Done(ops, at, m, t)
      <4>1. x \in 1..(p - 1) /\ text[x].table = t
        BY DEF About
      <4>2. x \in About(text, i, t)
        BY <2>2, <4>1 DEF About
      <4>3. PICK k \in 1..n : ops[k].table = t /\ at[k] = x
        BY <4>2 DEF Done
      <4>4. k # n
        BY <2>2, <4>1, <4>3
      <4>5. k \in 1..m
        BY <1>0, <4>4
      <4> QED
        BY <4>3, <4>5 DEF Done
    <3> QED
      BY <3>1, <3>2
  <2>6. p - 1 \in 0..Len(text)
    BY <2>2
  <2>7. Same(g[m], h[p - 1], t)
    BY <2>5, <2>6
  <2>8. h[p] = ApplyOp(h[p - 1], text[p])
    BY <2>2, AfterOpsIs
  <2>9. Same(h[i], h[p], t)
    <3>1. p \in 0..Len(text) /\ i \in p..Len(text)
      BY <2>2
    <3> HIDE DEF p
    <3> QED
      BY <2>4, <3>1, OpsElsewhere
  <2> HIDE DEF g, h, n, p
  <2>10. Same(g[n], h[p], t)
    BY <1>1, <1>3, <2>2, <2>7, <2>8, OpHere
  <2>11. Same(g[n], h[i], t)
    BY <2>9, <2>10, SameIs
  <2> QED
    BY <2>11 DEF g, h, n
<1> QED
  BY <1>2, <1>3

LEMMA ReorderedSame ==
  ASSUME NEW ops, NEW text, NEW at, NEW t, Reordered(ops, text, at, t),
         Len(ops) \in Nat, Len(text) \in Nat, NEW s, NEW u, Same(s, u, t)
  PROVE  Same(ApplyOps(s, ops), ApplyOps(u, text), t)
<1> DEFINE g == AfterOps(s, ops)
           h == AfterOps(u, text)
           Agrees(m) == \A i \in 0..Len(text) : Done(ops, at, m, t) = About(text, i, t) =>
                            Same(g[m], h[i], t)
           T == {m \in Nat : m <= Len(ops) => Agrees(m)}
<1>1. 0 \in T
  <2> SUFFICES ASSUME NEW i \in 0..Len(text), Done(ops, at, 0, t) = About(text, i, t)
               PROVE  Same(g[0], h[i], t)
    OBVIOUS
  <2>1. About(text, i, t) = {}
    BY DEF Done
  <2>2. \A k \in 1..i : text[k].table # t
    BY <2>1 DEF About
  <2>3. 0 \in 0..Len(text) /\ i \in 0..Len(text) /\ (0 + 1)..i = 1..i
    OBVIOUS
  <2>4. Same(h[i], h[0], t)
    BY <2>2, <2>3, OpsElsewhere
  <2>5. g[0] = s /\ h[0] = u
    BY AfterOpsIs
  <2> HIDE DEF g, h
  <2> QED
    BY <2>4, <2>5, SameIs
<1>2. ASSUME NEW m \in Nat, m \in T PROVE m + 1 \in T
  <2>1. SUFFICES ASSUME m + 1 <= Len(ops)
                 PROVE  Agrees(m + 1)
    OBVIOUS
  <2>2. Agrees(m)
    BY <1>2, <2>1
  <2>3. SUFFICES ASSUME NEW i \in 0..Len(text), Done(ops, at, m + 1, t) = About(text, i, t)
                 PROVE  Same(g[m + 1], h[i], t)
    OBVIOUS
  <2> QED
    BY <2>1, <2>2, <2>3, StepTogether
<1>3. Len(ops) \in T
  <2> HIDE DEF T
  <2> QED
    BY <1>1, <1>2, AllNaturals
<1>4. Agrees(Len(ops))
  BY <1>3
<1>5. Done(ops, at, Len(ops), t) = About(text, Len(text), t)
  BY DEF Done, About, Reordered
<1>6. Same(g[Len(ops)], h[Len(text)], t)
  BY <1>4, <1>5
<1>7. ApplyOps(s, ops) = g[Len(ops)] /\ ApplyOps(u, text) = h[Len(text)]
  BY AfterOpsIs
<1> HIDE DEF g, h
<1> QED
  BY <1>6, <1>7

(* Three sequences, one behind the other.                                  *)
LEMMA JoinedIs ==
  ASSUME NEW x, NEW y, NEW m \in Nat, NEW n \in Nat,
         x = [k \in 1..m |-> x[k]], y = [k \in 1..n |-> y[k]]
  PROVE  x \o y = [k \in 1..(m + n) |-> IF k <= m THEN x[k] ELSE y[k - m]]
<1> DEFINE X == {x[k] : k \in 1..m} \cup {y[k] : k \in 1..n}
<1>1. x \in [1..m -> X] /\ y \in [1..n -> X]
  OBVIOUS
<1>2. x \in Seq(X) /\ Len(x) = m /\ y \in Seq(X) /\ Len(y) = n
  BY <1>1
<1> HIDE DEF X
<1>3. x \o y \in Seq(X) /\ Len(x \o y) = m + n
  BY <1>2
<1>4. \A k \in 1..(m + n) : (x \o y)[k] = IF k <= m THEN x[k] ELSE y[k - m]
  BY <1>2
<1>5. x \o y = [k \in 1..(m + n) |-> (x \o y)[k]]
  BY <1>3
<1> QED
  BY <1>4, <1>5

Where(s, kinds) == {i \in DOMAIN s : s[i].op \in kinds}

Kinds == <<{"create-table"}, Alterations, {"drop-table"}>>

(* The place in the text of the k-th statement that is done.               *)
PlaceOf(s) ==
    LET a == Cardinality(Where(s, Kinds[1]))
        b == Cardinality(Where(s, Kinds[2]))
        c == Cardinality(Where(s, Kinds[3])) IN
    [k \in 1..(a + b + c) |->
        IF k <= a THEN InOrder(Where(s, Kinds[1]))[k]
        ELSE IF k <= a + b THEN InOrder(Where(s, Kinds[2]))[k - a]
        ELSE InOrder(Where(s, Kinds[3]))[k - (a + b)]]

LEMMA WhereInOrder ==
  ASSUME NEW s, NEW S, s \in Seq(S), NEW kinds
  PROVE  LET W == Where(s, kinds) IN
         /\ Cardinality(W) \in Nat /\ Ordered(InOrder(W), Cardinality(W), W)
         /\ W \in SUBSET (1..Len(s))
<1> DEFINE W == Where(s, kinds)
<1>1. DOMAIN s = 1..Len(s) /\ Len(s) \in Nat
  OBVIOUS
<1>2. W \in SUBSET (1..Len(s))
  BY <1>1 DEF Where
<1>3. IsFiniteSet(1..Len(s))
  BY <1>1, FS_Interval
<1>4. IsFiniteSet(W) /\ W \in SUBSET Nat
  BY <1>1, <1>2, <1>3, FS_Subset
<1> HIDE DEF W
<1>5. Cardinality(W) \in Nat /\ Ordered(InOrder(W), Cardinality(W), W)
  BY <1>4, InOrderIs
<1> QED
  BY <1>2, <1>5 DEF W

LEMMA ParsedIs ==
  ASSUME NEW s, NEW S, s \in Seq(S)
  PROVE  LET a == Cardinality(Where(s, Kinds[1]))
             b == Cardinality(Where(s, Kinds[2]))
             c == Cardinality(Where(s, Kinds[3])) IN
         ParseSqlDdl(s) = [k \in 1..(a + b + c) |-> s[PlaceOf(s)[k]]]
<1> DEFINE W1 == Where(s, Kinds[1])
           W2 == Where(s, Kinds[2])
           W3 == Where(s, Kinds[3])
           a == Cardinality(W1)
           b == Cardinality(W2)
           c == Cardinality(W3)
           e1 == InOrder(W1)
           e2 == InOrder(W2)
           e3 == InOrder(W3)
           x == [k \in DOMAIN e1 |-> s[e1[k]]]
           y == [k \in DOMAIN e2 |-> s[e2[k]]]
           z == [k \in DOMAIN e3 |-> s[e3[k]]]
           at == PlaceOf(s)
<1>1. ParseSqlDdl(s) = x \o y \o z
  BY DEF ParseSqlDdl, Where, Kinds
<1>2. /\ a \in Nat /\ b \in Nat /\ c \in Nat
      /\ Ordered(e1, a, W1) /\ Ordered(e2, b, W2) /\ Ordered(e3, c, W3)
  BY WhereInOrder
<1>3. at = [k \in 1..(a + b + c) |-> IF k <= a THEN e1[k]
                                     ELSE IF k <= a + b THEN e2[k - a] ELSE e3[k - (a + b)]]
  BY DEF PlaceOf
<1>4. DOMAIN e1 = 1..a /\ DOMAIN e2 = 1..b /\ DOMAIN e3 = 1..c
  BY <1>2 DEF Ordered
<1> HIDE DEF W1, W2, W3, a, b, c, e1, e2, e3, at
<1>5. x = [k \in 1..a |-> x[k]] /\ y = [k \in 1..b |-> y[k]] /\ z = [k \in 1..c |-> z[k]]
  BY <1>4
<1>6. /\ \A k \in 1..a : x[k] = s[e1[k]]
      /\ \A k \in 1..b : y[k] = s[e2[k]]
      /\ \A k \in 1..c : z[k] = s[e3[k]]
  BY <1>4
<1> HIDE DEF x, y, z
<1> DEFINE w == x \o y
<1>7. w = [k \in 1..(a + b) |-> IF k <= a THEN x[k] ELSE y[k - a]]
  BY <1>2, <1>5, JoinedIs
<1>8. w = [k \in 1..(a + b) |-> w[k]] /\ a + b \in Nat
  BY <1>2, <1>7
<1> HIDE DEF w
<1>9. w \o z = [k \in 1..((a + b) + c) |-> IF k <= a + b THEN w[k] ELSE z[k - (a + b)]]
  <2> DEFINE m == a + b
  <2>1. w = [k \in 1..m |-> w[k]] /\ m \in Nat
    BY <1>8
  <2> HIDE DEF m
  <2>2. w \o z = [k \in 1..(m + c) |-> IF k <= m THEN w[k] ELSE z[k - m]]
    BY <1>2, <1>5, <2>1, JoinedIs
  <2> QED
    BY <2>2 DEF m
<1>10. ASSUME NEW k \in 1..(a + b + c) PROVE (w \o z)[k] = s[at[k]]
  <2>1. CASE k <= a
    <3>1. k \in 1..(a + b) /\ k \in 1..a /\ k <= a + b
      BY <1>2, <2>1
    <3> QED
      BY <1>3, <1>6, <1>7, <1>9, <2>1, <3>1
  <2>2. CASE ~(k <= a) /\ k <= a + b
    <3>1. k \in 1..(a + b) /\ k - a \in 1..b
      BY <1>2, <2>2
    <3> QED
      BY <1>3, <1>6, <1>7, <1>9, <2>2, <3>1
  <2>3. CASE ~(k <= a + b)
    <3>1. k - (a + b) \in 1..c /\ ~(k <= a)
      BY <1>2, <2>3
    <3> QED
      BY <1>3, <1>6, <1>9, <2>3, <3>1
  <2> QED
    BY <2>1, <2>2, <2>3
<1>11. w \o z = [k \in 1..(a + b + c) |-> s[at[k]]]
  BY <1>9, <1>10
<1> QED
  BY <1>1, <1>11 DEF w, a, b, c, W1, W2, W3, at

(* How the places lie: those of one kind behind each other.                *)
LEMMA PlacesAre ==
  ASSUME NEW s, NEW S, s \in Seq(S),
         \A i \in 1..Len(s) : s[i].op \in {"create-table", "drop-table"} \cup Alterations
  PROVE  LET n == Len(ParseSqlDdl(s))
             at == PlaceOf(s) IN
         /\ n \in Nat
         /\ \A k \in 1..n : at[k] \in 1..Len(s) /\ ParseSqlDdl(s)[k] = s[at[k]]
         /\ \A i \in 1..Len(s) : \E k \in 1..n : at[k] = i
         /\ \A j, k \in 1..n : j < k =>
               \/ at[j] < at[k]
               \/ s[at[j]].op = "create-table" /\ s[at[k]].op \in Alterations
               \/ s[at[j]].op # "drop-table" /\ s[at[k]].op = "drop-table"
<1> DEFINE W1 == Where(s, Kinds[1])
           W2 == Where(s, Kinds[2])
           W3 == Where(s, Kinds[3])
           a == Cardinality(W1)
           b == Cardinality(W2)
           c == Cardinality(W3)
           e1 == InOrder(W1)
           e2 == InOrder(W2)
           e3 == InOrder(W3)
           at == PlaceOf(s)
           G == ParseSqlDdl(s)
           n == a + b + c
<1>2. /\ a \in Nat /\ b \in Nat /\ c \in Nat
      /\ Ordered(e1, a, W1) /\ Ordered(e2, b, W2) /\ Ordered(e3, c, W3)
      /\ W1 \in SUBSET (1..Len(s)) /\ W2 \in SUBSET (1..Len(s)) /\ W3 \in SUBSET (1..Len(s))
  BY WhereInOrder
<1>3. at = [k \in 1..n |-> IF k <= a THEN e1[k]
                           ELSE IF k <= a + b THEN e2[k - a] ELSE e3[k - (a + b)]]
  BY DEF PlaceOf
<1>4. G = [k \in 1..n |-> s[at[k]]]
  BY ParsedIs
<1>5. /\ \A i \in W1 : s[i].op = "create-table"
      /\ \A i \in W2 : s[i].op \in Alterations
      /\ \A i \in W3 : s[i].op = "drop-table"
      /\ \A i \in 1..Len(s) : i \in W1 \/ i \in W2 \/ i \in W3
  BY DEF Where, Kinds
<1>6. Len(s) \in Nat /\ "create-table" \notin Alterations /\ "drop-table" \notin Alterations
  BY DEF Alterations
<1> HIDE DEF W1, W2, W3, a, b, c, e1, e2, e3, at, G
<1>7. n \in Nat /\ Len(G) = n
  <2>1. n \in Nat
    BY <1>2
  <2> HIDE DEF n
  <2>2. G \in Seq({G[k] : k \in 1..n})
    BY <1>4, <2>1
  <2> QED
    BY <1>4, <2>1, <2>2
<1>8. ASSUME NEW k \in 1..n
      PROVE  \/ k <= a /\ k \in 1..a /\ at[k] = e1[k] /\ at[k] \in W1
             \/ ~(k <= a) /\ k <= a + b /\ k - a \in 1..b /\ at[k] = e2[k - a] /\ at[k] \in W2
             \/ ~(k <= a + b) /\ k - (a + b) \in 1..c /\ at[k] = e3[k - (a + b)] /\ at[k] \in W3
  <2>1. CASE k <= a
    <3>1. k \in 1..a
      BY <1>2, <2>1
    <3> QED
      BY <1>2, <1>3, <2>1, <3>1 DEF Ordered
  <2>2. CASE ~(k <= a) /\ k <= a + b
    <3>1. k - a \in 1..b
      BY <1>2, <2>2
    <3> QED
      BY <1>2, <1>3, <2>2, <3>1 DEF Ordered
  <2>3. CASE ~(k <= a + b)
    <3>1. k - (a + b) \in 1..c /\ ~(k <= a)
      BY <1>2, <2>3
    <3> QED
      BY <1>2, <1>3, <2>3, <3>1 DEF Ordered
  <2> QED
    BY <2>1, <2>2, <2>3
<1>9. \A k \in 1..n : at[k] \in 1..Len(s) /\ G[k] = s[at[k]]
  BY <1>2, <1>4, <1>8
<1>10. ASSUME NEW i \in 1..Len(s) PROVE \E k \in 1..n : at[k] = i
  <2>1. CASE i \in W1
    <3>1. PICK k \in 1..a : e1[k] = i
      BY <1>2, <2>1 DEF Ordered
    <3>2. k \in 1..n /\ k <= a
      BY <1>2
    <3> QED
      BY <1>3, <3>1, <3>2
  <2>2. CASE i \in W2
    <3>1. PICK k \in 1..b : e2[k] = i
      BY <1>2, <2>2 DEF Ordered
    <3>2. a + k \in 1..n /\ ~(a + k <= a) /\ a + k <= a + b /\ (a + k) - a = k
      BY <1>2
    <3> QED
      BY <1>3, <3>1, <3>2
  <2>3. CASE i \in W3
    <3>1. PICK k \in 1..c : e3[k] = i
      BY <1>2, <2>3 DEF Ordered
    <3> DEFINE l == (a + b) + k
    <3>2. l \in 1..n /\ ~(l <= a) /\ ~(l <= a + b) /\ l - (a + b) = k
      BY <1>2
    <3> HIDE DEF l
    <3> QED
      BY <1>3, <3>1, <3>2
  <2> QED
    BY <1>5, <2>1, <2>2, <2>3
<1>11. ASSUME NEW j \in 1..n, NEW k \in 1..n, j < k
       PROVE  \/ at[j] < at[k]
              \/ s[at[j]].op = "create-table" /\ s[at[k]].op \in Alterations
              \/ s[at[j]].op # "drop-table" /\ s[at[k]].op = "drop-table"
  <2>1. CASE k <= a
    <3>1. k \in 1..a /\ j \in 1..a /\ j <= a /\ k <= a + b /\ j <= a + b
      BY <1>2, <1>11, <2>1
    <3>2. at[j] = e1[j] /\ at[k] = e1[k]
      BY <1>8, <3>1
    <3> QED
      BY <1>2, <1>11, <3>1, <3>2 DEF Ordered
  <2>2. CASE ~(k <= a) /\ k <= a + b
    <3>1. at[k] = e2[k - a] /\ at[k] \in W2 /\ k - a \in 1..b /\ j <= a + b
      BY <1>2, <1>8, <1>11, <2>2
    <3>2. CASE j <= a
      <4>1. at[j] \in W1
        BY <1>2, <1>8, <3>1, <3>2
      <4> QED
        BY <1>5, <3>1, <4>1
    <3>3. CASE ~(j <= a)
      <4>1. at[j] = e2[j - a] /\ j - a \in 1..b
        BY <1>8, <3>1, <3>3
      <4>2. j - a < k - a
        BY <1>2, <1>11
      <4> QED
        BY <1>2, <3>1, <4>1, <4>2 DEF Ordered
    <3> QED
      BY <3>2, <3>3
  <2>3. CASE ~(k <= a + b)
    <3>1. at[k] = e3[k - (a + b)] /\ at[k] \in W3 /\ k - (a + b) \in 1..c
      BY <1>2, <1>8, <2>3
    <3>2. CASE j <= a + b
      <4>1. at[j] \in W1 \/ at[j] \in W2
        BY <1>2, <1>8, <3>2
      <4> QED
        BY <1>5, <1>6, <3>1, <4>1
    <3>3. CASE ~(j <= a + b)
      <4>1. at[j] = e3[j - (a + b)] /\ j - (a + b) \in 1..c
        BY <1>2, <1>8, <3>3
      <4>2. j - (a + b) < k - (a + b)
        BY <1>2, <1>11
      <4> QED
        BY <1>2, <3>1, <4>1, <4>2 DEF Ordered
    <3> QED
      BY <3>2, <3>3
  <2> QED
    BY <2>1, <2>2, <2>3
<1> HIDE DEF n
<1> QED
  BY <1>7, <1>9, <1>10, <1>11 DEF G, at

(* A file, statement by statement or grouped.                              *)
DroppedEarly(f) ==
    {f.statements[i].table : i \in {i \in DOMAIN f.statements :
        /\ f.statements[i].op = "drop-table"
        /\ \E k \in DOMAIN f.statements : /\ k > i
                                          /\ f.statements[k].table = f.statements[i].table}}

LEMMA FileReordered ==
  ASSUME NEW f, IsMigration(f), Executable(f), NEW t, t \notin DroppedEarly(f)
  PROVE  Reordered(ParseSqlDdl(f.statements), f.statements, PlaceOf(f.statements), t)
<1> DEFINE s == f.statements
           G == ParseSqlDdl(s)
           at == PlaceOf(s)
<1>1. s \in Seq(Range(s)) /\ Len(s) \in Nat /\ DOMAIN s = 1..Len(s)
  BY DEF IsMigration
<1>2. \A i \in 1..Len(s) : s[i].op \in {"create-table", "drop-table"} \cup Alterations
  BY <1>1 DEF IsMigration, Range
<1>3. /\ Len(G) \in Nat
      /\ \A k \in 1..Len(G) : at[k] \in 1..Len(s) /\ G[k] = s[at[k]]
      /\ \A i \in 1..Len(s) : \E k \in 1..Len(G) : at[k] = i
      /\ \A j, k \in 1..Len(G) : j < k =>
            \/ at[j] < at[k]
            \/ s[at[j]].op = "create-table" /\ s[at[k]].op \in Alterations
            \/ s[at[j]].op # "drop-table" /\ s[at[k]].op = "drop-table"
  BY <1>1, <1>2, PlacesAre
<1>4. \A i, k \in 1..Len(s) : i < k /\ s[i].op = "drop-table" => ~(s[i].table = t /\ s[k].table = t)
  BY <1>1 DEF DroppedEarly
<1>5. \A i, k \in 1..Len(s) :
         i < k /\ s[i].op \in Alterations /\ s[k].op = "create-table" /\ s[k].table = s[i].table
            => \E j \in i..k : s[j].op = "drop-table" /\ s[j].table = s[i].table
  BY <1>1 DEF Executable
<1>6. "create-table" \notin Alterations /\ "drop-table" \notin Alterations
  BY DEF Alterations
<1> HIDE DEF s, G, at
<1>7. ASSUME NEW j \in 1..Len(G), NEW k \in 1..Len(G), j < k, G[j].table = t, G[k].table = t
      PROVE  at[j] < at[k]
  <2> DEFINE x == at[j]
             y == at[k]
  <2>1. x \in 1..Len(s) /\ y \in 1..Len(s) /\ s[x].table = t /\ s[y].table = t
    BY <1>3, <1>7
  <2>2. \/ x < y
        \/ s[x].op = "create-table" /\ s[y].op \in Alterations
        \/ s[x].op # "drop-table" /\ s[y].op = "drop-table"
    BY <1>3, <1>7
  <2> HIDE DEF x, y
  <2>3. CASE s[x].op = "create-table" /\ s[y].op \in Alterations
    <3>1. x # y
      BY <1>6, <2>3
    <3>2. ASSUME y < x PROVE FALSE
      <4>1. PICK i \in y..x : s[i].op = "drop-table" /\ s[i].table = t
        BY <1>5, <2>1, <2>3, <3>2
      <4>2. i \in 1..Len(s) /\ i < x
        BY <2>1, <2>3, <4>1
      <4> QED
        BY <1>4, <2>1, <4>1, <4>2
    <3> QED
      BY <1>1, <2>1, <3>1, <3>2 DEF x, y
  <2>4. CASE s[x].op # "drop-table" /\ s[y].op = "drop-table"
    <3>1. x # y
      BY <2>4
    <3>2. ~(y < x)
      BY <1>4, <2>1, <2>4
    <3> QED
      BY <1>1, <2>1, <3>1, <3>2 DEF x, y
  <2> QED
    BY <2>2, <2>3, <2>4 DEF x, y
<1>8. Reordered(G, s, at, t)
  BY <1>3, <1>7 DEF Reordered
<1> QED
  BY <1>8 DEF G, s, at

LEMMA FileSame ==
  ASSUME NEW f, IsMigration(f), Executable(f), NEW t, t \notin DroppedEarly(f),
         NEW s, NEW u, Same(s, u, t)
  PROVE  Same(ApplyOps(s, ParseSqlDdl(f.statements)), ApplyOps(u, f.statements), t)
<1> DEFINE text == f.statements
           G == ParseSqlDdl(text)
           at == PlaceOf(text)
<1>1. text \in Seq(Range(text)) /\ Len(text) \in Nat
  BY DEF IsMigration
<1>2. Len(G) \in Nat
  <2>1. \A i \in 1..Len(text) : text[i].op \in {"create-table", "drop-table"} \cup Alterations
    BY <1>1 DEF IsMigration, Range
  <2> QED
    BY <1>1, <2>1, PlacesAre
<1>3. Reordered(G, text, at, t)
  BY FileReordered
<1> HIDE DEF text, G, at
<1>4. Same(ApplyOps(s, G), ApplyOps(u, text), t)
  BY <1>1, <1>2, <1>3, ReorderedSame
<1> QED
  BY <1>4 DEF G, text

(* File by file.                                                           *)
IsAfterFiles(g, n, scripts) ==
    g = [i \in 0..n |-> IF i = 0 THEN NoTables ELSE ApplyOps(g[i - 1], scripts[i])]

AfterFiles(scripts) == CHOOSE g : IsAfterFiles(g, Len(scripts), scripts)

LEMMA FilesHaveRun ==
  ASSUME NEW scripts, NEW m \in Nat
  PROVE  \E g : IsAfterFiles(g, m, scripts)
<1> DEFINE T == {n \in Nat : \E g : IsAfterFiles(g, n, scripts)}
<1>1. 0 \in T
  <2> DEFINE g == [i \in 0..0 |-> NoTables]
  <2>1. IsAfterFiles(g, 0, scripts)
    BY DEF IsAfterFiles
  <2> QED
    BY <2>1
<1>2. ASSUME NEW n \in Nat, n \in T PROVE n + 1 \in T
  <2>1. PICK g : IsAfterFiles(g, n, scripts)
    BY <1>2
  <2> DEFINE h == [i \in 0..(n + 1) |->
                      IF i = n + 1 THEN ApplyOps(g[n], scripts[n + 1]) ELSE g[i]]
  <2>2. ASSUME NEW i \in 0..(n + 1)
        PROVE  h[i] = IF i = 0 THEN NoTables ELSE ApplyOps(h[i - 1], scripts[i])
    <3>1. CASE i = n + 1
      <4>1. h[i] = ApplyOps(g[n], scripts[i]) /\ i # 0
        BY <3>1
      <4>2. h[i - 1] = g[n]
        BY <3>1
      <4> HIDE DEF h
      <4> QED
        BY <4>1, <4>2
    <3>2. CASE i = 0
      BY <3>2, <2>1 DEF IsAfterFiles
    <3>3. CASE i \in 1..n
      <4>1. h[i] = g[i] /\ h[i - 1] = g[i - 1]
        BY <3>3
      <4>2. g[i] = ApplyOps(g[i - 1], scripts[i])
        BY <3>3, <2>1 DEF IsAfterFiles
      <4> HIDE DEF h
      <4> QED
        BY <3>3, <4>1, <4>2
    <3> QED
      BY <3>1, <3>2, <3>3
  <2>3. DOMAIN h = 0..(n + 1) /\ h = [i \in 0..(n + 1) |-> h[i]]
    OBVIOUS
  <2> HIDE DEF h
  <2>4. IsAfterFiles(h, n + 1, scripts)
    BY <2>2, <2>3 DEF IsAfterFiles
  <2> QED
    BY <2>4
<1>3. m \in T
  BY <1>1, <1>2, AllNaturals
<1> QED
  BY <1>3

LEMMA AfterFilesIs ==
  ASSUME NEW scripts, Len(scripts) \in Nat
  PROVE  LET g == AfterFiles(scripts) IN
         /\ ApplyMigrations(scripts) = g[Len(scripts)]
         /\ g[0] = NoTables
         /\ \A i \in 1..Len(scripts) : g[i] = ApplyOps(g[i - 1], scripts[i])
<1> DEFINE g == AfterFiles(scripts)
<1>1. IsAfterFiles(g, Len(scripts), scripts)
  BY FilesHaveRun DEF AfterFiles
<1>2. ApplyMigrations(scripts) = g[Len(scripts)]
  BY DEF ApplyMigrations, AfterFiles, IsAfterFiles, NoTables
<1> HIDE DEF g
<1>3. g[0] = NoTables /\ \A i \in 1..Len(scripts) : g[i] = ApplyOps(g[i - 1], scripts[i])
  BY <1>1 DEF IsAfterFiles
<1> QED
  BY <1>2, <1>3 DEF g

LEMMA FilesSame ==
  ASSUME NEW a, NEW b, Len(a) \in Nat, Len(b) = Len(a), NEW t,
         \A k \in 1..Len(a) : \A s, u : Same(s, u, t) => Same(ApplyOps(s, a[k]), ApplyOps(u, b[k]), t)
  PROVE  Same(ApplyMigrations(a), ApplyMigrations(b), t)
<1> DEFINE g == AfterFiles(a)
           h == AfterFiles(b)
           T == {n \in Nat : n <= Len(a) => Same(g[n], h[n], t)}
<1>1. 0 \in T
  BY AfterFilesIs, SameIs
<1>2. ASSUME NEW n \in Nat, n \in T PROVE n + 1 \in T
  <2>1. SUFFICES ASSUME n + 1 <= Len(a) PROVE Same(g[n + 1], h[n + 1], t)
    OBVIOUS
  <2>2. n + 1 \in 1..Len(a) /\ n + 1 \in 1..Len(b) /\ (n + 1) - 1 = n /\ n <= Len(a)
    BY <2>1
  <2>3. Same(g[n], h[n], t)
    BY <1>2, <2>2
  <2>4. g[n + 1] = ApplyOps(g[n], a[n + 1]) /\ h[n + 1] = ApplyOps(h[n], b[n + 1])
    BY <2>2, AfterFilesIs
  <2> HIDE DEF g, h
  <2> QED
    BY <2>2, <2>3, <2>4
<1>3. Len(a) \in T
  <2> HIDE DEF T
  <2> QED
    BY <1>1, <1>2, AllNaturals
<1>4. Same(g[Len(a)], h[Len(b)], t)
  BY <1>3
<1>5. ApplyMigrations(a) = g[Len(a)] /\ ApplyMigrations(b) = h[Len(b)]
  BY AfterFilesIs
<1> HIDE DEF g, h
<1> QED
  BY <1>4, <1>5

(* Versions: a part that is not said is 0.                                 *)
Part(v, i) == IF i \in DOMAIN v THEN v[i] ELSE 0

LessAt(v, w, i) == Part(v, i) < Part(w, i) /\ \A k \in 1..(i - 1) : Part(v, k) = Part(w, k)

Parts(v, w) == IF Len(v) > Len(w) THEN Len(v) ELSE Len(w)

LEMMA PartIs ==
  ASSUME NEW v \in Seq(Nat), NEW i \in Nat
  PROVE  Part(v, i) \in Nat /\ (i > Len(v) => Part(v, i) = 0)
  BY DEF Part

LEMMA CompareIs ==
  ASSUME NEW v \in Seq(Nat), NEW w \in Seq(Nat)
  PROVE  /\ Parts(v, w) \in Nat
         /\ CompareVersion(v, w) <=> \E i \in 1..Parts(v, w) : LessAt(v, w, i)
         /\ CompareVersion(v, w) <=> \E i \in Nat \ {0} : LessAt(v, w, i)
<1>1. Parts(v, w) \in Nat /\ Parts(v, w) >= Len(v) /\ Parts(v, w) >= Len(w)
  BY DEF Parts
<1>2. CompareVersion(v, w) <=> \E i \in 1..Parts(v, w) : LessAt(v, w, i)
  BY DEF CompareVersion, Parts, LessAt, Part
<1>3. ASSUME NEW i \in Nat \ {0}, LessAt(v, w, i) PROVE i \in 1..Parts(v, w)
  <2>1. SUFFICES ASSUME i > Parts(v, w) PROVE FALSE
    BY <1>1, <1>3
  <2>2. i > Len(v) /\ i > Len(w) /\ i \in Nat
    BY <1>1, <2>1
  <2>3. Part(v, i) = 0 /\ Part(w, i) = 0
    BY <2>2, PartIs
  <2> QED
    BY <1>3, <2>3 DEF LessAt
<1>4. \A i \in 1..Parts(v, w) : i \in Nat \ {0}
  BY <1>1
<1> QED
  BY <1>1, <1>2, <1>3, <1>4

(* Two versions are the same or differ first at some part.                 *)
LEMMA FirstPart ==
  ASSUME NEW v \in Seq(Nat), NEW w \in Seq(Nat)
  PROVE  \/ \A i \in Nat \ {0} : Part(v, i) = Part(w, i)
         \/ \E i \in Nat \ {0} : LessAt(v, w, i) \/ LessAt(w, v, i)
<1> DEFINE S == {i \in Nat \ {0} : Part(v, i) # Part(w, i)}
<1>1. CASE S = {}
  BY <1>1
<1>2. CASE S # {}
  <2>1. PICK i \in S : \A j \in S : i <= j
    BY <1>2, LeastNatural
  <2>2. \A k \in 1..(i - 1) : Part(v, k) = Part(w, k)
    BY <2>1
  <2>3. Part(v, i) \in Nat /\ Part(w, i) \in Nat /\ Part(v, i) # Part(w, i)
    BY <2>1, PartIs
  <2>4. LessAt(v, w, i) \/ LessAt(w, v, i)
    BY <2>2, <2>3 DEF LessAt
  <2> QED
    BY <2>1, <2>4
<1> QED
  BY <1>1, <1>2

LEMMA LessTransitive ==
  ASSUME NEW u \in Seq(Nat), NEW v \in Seq(Nat), NEW w \in Seq(Nat),
         NEW i \in Nat \ {0}, LessAt(u, v, i), NEW j \in Nat \ {0}, LessAt(v, w, j)
  PROVE  \E k \in Nat \ {0} : LessAt(u, w, k)
<1>1. \A k \in Nat : Part(u, k) \in Nat /\ Part(v, k) \in Nat /\ Part(w, k) \in Nat
  BY PartIs
<1>2. CASE i < j
  <2>1. i \in 1..(j - 1) /\ \A k \in 1..(i - 1) : k \in 1..(j - 1)
    BY <1>2
  <2>2. LessAt(u, w, i)
    BY <1>1, <2>1 DEF LessAt
  <2> QED
    BY <2>2
<1>3. CASE i = j
  <2>0. Part(u, i) < Part(v, i) /\ Part(v, i) < Part(w, i)
    BY <1>3 DEF LessAt
  <2>1. Part(u, i) < Part(w, i)
    BY <1>1, <2>0
  <2>2. \A k \in 1..(i - 1) : Part(u, k) = Part(w, k)
    BY <1>3 DEF LessAt
  <2>3. LessAt(u, w, i)
    BY <2>1, <2>2 DEF LessAt
  <2> QED
    BY <2>3
<1>4. CASE j < i
  <2>1. j \in 1..(i - 1) /\ \A k \in 1..(j - 1) : k \in 1..(i - 1)
    BY <1>4
  <2>2. LessAt(u, w, j)
    BY <1>1, <2>1 DEF LessAt
  <2> QED
    BY <2>2
<1> QED
  BY <1>2, <1>3, <1>4

LEMMA NotBothLess ==
  ASSUME NEW v \in Seq(Nat), NEW w \in Seq(Nat),
         NEW i \in Nat \ {0}, LessAt(v, w, i), NEW j \in Nat \ {0}, LessAt(w, v, j)
  PROVE  FALSE
<1>1. PICK k \in Nat \ {0} : LessAt(v, v, k)
  BY LessTransitive
<1>2. Part(v, k) \in Nat
  BY PartIs
<1> QED
  BY <1>1, <1>2 DEF LessAt

(* Files go by their versions, and then by their paths.                    *)
LEMMA BeforeOrders ==
  ASSUME NEW S, \A f \in S : IsMigration(f), \A f, g \in S : f.path = g.path => f = g
  PROVE  /\ \A f \in S : ~Before(f, f)
         /\ \A f, g \in S : f = g \/ Before(f, g) \/ Before(g, f)
         /\ \A f, g, h \in S : Before(f, g) /\ Before(g, h) => Before(f, h)
<1> DEFINE L(f, g) == \E i \in Nat \ {0} : LessAt(f.version, g.version, i)
<1>0. \A f \in S : f.version \in Seq(Nat) /\ f.path \in Nat
  BY DEF IsMigration
<1>1. \A f, g \in S : Before(f, g) <=> L(f, g) \/ (~L(g, f) /\ f.path < g.path)
  BY <1>0, CompareIs DEF Before
<1>2. \A f, g \in S : ~(L(f, g) /\ L(g, f))
  BY <1>0, NotBothLess
<1>3. \A f, g, h \in S : L(f, g) /\ L(g, h) => L(f, h)
  BY <1>0, LessTransitive
<1>4. \A f, g, h \in S : ~L(f, g) /\ ~L(g, f) /\ ~L(g, h) /\ ~L(h, g) => ~L(f, h)
  <2> SUFFICES ASSUME NEW f \in S, NEW g \in S, NEW h \in S,
                      ~L(f, g) /\ ~L(g, f) /\ ~L(g, h) /\ ~L(h, g), L(f, h)
               PROVE  FALSE
    OBVIOUS
  <2>1. \A i \in Nat \ {0} : Part(f.version, i) = Part(g.version, i)
    BY <1>0, FirstPart
  <2>2. \A i \in Nat \ {0} : Part(g.version, i) = Part(h.version, i)
    BY <1>0, FirstPart
  <2>3. PICK i \in Nat \ {0} : LessAt(f.version, h.version, i)
    OBVIOUS
  <2>4. Part(f.version, i) = Part(h.version, i) /\ Part(f.version, i) \in Nat
    BY <1>0, <2>1, <2>2, PartIs
  <2> QED
    BY <2>3, <2>4 DEF LessAt
<1>5. \A f, g, h \in S : L(f, g) /\ ~L(g, h) /\ ~L(h, g) => L(f, h)
  <2> SUFFICES ASSUME NEW f \in S, NEW g \in S, NEW h \in S, L(f, g), ~L(g, h), ~L(h, g)
               PROVE  L(f, h)
    OBVIOUS
  <2>1. \A i \in Nat \ {0} : Part(g.version, i) = Part(h.version, i)
    BY <1>0, FirstPart
  <2>2. PICK i \in Nat \ {0} : LessAt(f.version, g.version, i)
    OBVIOUS
  <2>3. LessAt(f.version, h.version, i)
    BY <2>1, <2>2 DEF LessAt
  <2> QED
    BY <2>3
<1>6. \A f, g, h \in S : ~L(f, g) /\ ~L(g, f) /\ L(g, h) => L(f, h)
  <2> SUFFICES ASSUME NEW f \in S, NEW g \in S, NEW h \in S, ~L(f, g), ~L(g, f), L(g, h)
               PROVE  L(f, h)
    OBVIOUS
  <2>1. \A i \in Nat \ {0} : Part(f.version, i) = Part(g.version, i)
    BY <1>0, FirstPart
  <2>2. PICK i \in Nat \ {0} : LessAt(g.version, h.version, i)
    OBVIOUS
  <2>3. LessAt(f.version, h.version, i)
    BY <2>1, <2>2 DEF LessAt
  <2> QED
    BY <2>3
<1> HIDE DEF L
<1>7. \A f \in S : ~Before(f, f)
  BY <1>0, <1>1, <1>2
<1>8. \A f, g \in S : f = g \/ Before(f, g) \/ Before(g, f)
  <2> SUFFICES ASSUME NEW f \in S, NEW g \in S, f # g
               PROVE  Before(f, g) \/ Before(g, f)
    OBVIOUS
  <2>1. f.path \in Nat /\ g.path \in Nat /\ f.path # g.path
    BY <1>0
  <2> QED
    BY <1>1, <2>1
<1>9. ASSUME NEW f \in S, NEW g \in S, NEW h \in S, Before(f, g), Before(g, h)
      PROVE  Before(f, h)
  <2>1. f.path \in Nat /\ g.path \in Nat /\ h.path \in Nat
    BY <1>0
  <2>2. CASE L(f, g) /\ L(g, h)
    BY <1>1, <1>3, <2>2
  <2>3. CASE L(f, g) /\ ~L(g, h)
    <3>1. ~L(h, g)
      BY <1>1, <1>9, <2>3
    <3> QED
      BY <1>1, <1>5, <2>3, <3>1
  <2>4. CASE ~L(f, g) /\ L(g, h)
    <3>1. ~L(g, f)
      BY <1>1, <1>9, <2>4
    <3> QED
      BY <1>1, <1>6, <2>4, <3>1
  <2>5. CASE ~L(f, g) /\ ~L(g, h)
    <3>1. ~L(g, f) /\ ~L(h, g) /\ f.path < g.path /\ g.path < h.path
      BY <1>1, <1>9, <2>5
    <3>2. ~L(h, f)
      BY <1>4, <2>5, <3>1
    <3> QED
      BY <1>1, <2>1, <3>1, <3>2
  <2> QED
    BY <2>2, <2>3, <2>4, <2>5
<1> QED
  BY <1>7, <1>8, <1>9

(* The number of a version, part for part.                                 *)
IsUpto(u, n, v, base) ==
    u = [i \in 0..n |-> IF i = 0 THEN 0 ELSE u[i - 1] * base + Part(v, i)]

Upto(v, n, base) == CHOOSE u : IsUpto(u, n, v, base)

LEMMA NumbersRun ==
  ASSUME NEW v, NEW base, NEW m \in Nat
  PROVE  \E u : IsUpto(u, m, v, base)
<1> DEFINE T == {n \in Nat : \E u : IsUpto(u, n, v, base)}
<1>1. 0 \in T
  <2> DEFINE g == [i \in 0..0 |-> 0]
  <2>1. IsUpto(g, 0, v, base)
    BY DEF IsUpto
  <2> QED
    BY <2>1
<1>2. ASSUME NEW n \in Nat, n \in T PROVE n + 1 \in T
  <2>1. PICK g : IsUpto(g, n, v, base)
    BY <1>2
  <2> DEFINE last == g[n] * base + Part(v, n + 1)
             h == [i \in 0..(n + 1) |-> IF i = n + 1 THEN last ELSE g[i]]
  <2>2. ASSUME NEW i \in 0..(n + 1)
        PROVE  h[i] = IF i = 0 THEN 0 ELSE h[i - 1] * base + Part(v, i)
    <3>1. CASE i = n + 1
      <4>1. h[i] = g[n] * base + Part(v, i) /\ i # 0
        BY <3>1
      <4>2. h[i - 1] = g[n]
        BY <3>1
      <4> HIDE DEF h
      <4> QED
        BY <4>1, <4>2
    <3>2. CASE i = 0
      <4>1. g[0] = 0
        BY <2>1 DEF IsUpto
      <4> HIDE DEF last
      <4> QED
        BY <3>2, <4>1
    <3>3. CASE i \in 1..n
      <4> HIDE DEF last
      <4>1. h[i] = g[i] /\ h[i - 1] = g[i - 1]
        BY <3>3
      <4>2. g[i] = g[i - 1] * base + Part(v, i)
        BY <3>3, <2>1 DEF IsUpto
      <4> HIDE DEF h
      <4> QED
        BY <3>3, <4>1, <4>2
    <3> QED
      BY <3>1, <3>2, <3>3
  <2> HIDE DEF last
  <2>3. DOMAIN h = 0..(n + 1) /\ h = [i \in 0..(n + 1) |-> h[i]]
    OBVIOUS
  <2> HIDE DEF h
  <2>4. IsUpto(h, n + 1, v, base)
    BY <2>2, <2>3 DEF IsUpto
  <2> QED
    BY <2>4
<1>3. m \in T
  BY <1>1, <1>2, AllNaturals
<1> QED
  BY <1>3

LEMMA UptoIs ==
  ASSUME NEW v, NEW base, NEW n \in Nat
  PROVE  LET u == Upto(v, n, base) IN
         /\ Number(v, n, base) = u[n]
         /\ u[0] = 0
         /\ \A i \in 1..n : u[i] = u[i - 1] * base + Part(v, i)
<1> DEFINE u == Upto(v, n, base)
<1>1. IsUpto(u, n, v, base)
  BY NumbersRun DEF Upto
<1>2. Number(v, n, base) = u[n]
  BY DEF Number, Upto, IsUpto, Part
<1> HIDE DEF u
<1>3. u[0] = 0 /\ \A i \in 1..n : u[i] = u[i - 1] * base + Part(v, i)
  BY <1>1 DEF IsUpto
<1> QED
  BY <1>2, <1>3 DEF u

LEMMA UptoNatural ==
  ASSUME NEW v \in Seq(Nat), NEW base \in Nat, NEW n \in Nat, NEW m \in 0..n
  PROVE  Upto(v, n, base)[m] \in Nat
<1> DEFINE u == Upto(v, n, base)
           T == {i \in Nat : i <= n => u[i] \in Nat}
<1>1. 0 \in T
  BY UptoIs
<1>2. ASSUME NEW i \in Nat, i \in T PROVE i + 1 \in T
  <2> SUFFICES ASSUME i + 1 <= n PROVE u[i + 1] \in Nat
    OBVIOUS
  <2>1. u[i] \in Nat /\ i + 1 \in 1..n /\ (i + 1) - 1 = i
    BY <1>2
  <2>2. u[i + 1] = u[i] * base + Part(v, i + 1)
    BY <2>1, UptoIs
  <2>3. Part(v, i + 1) \in Nat
    BY PartIs
  <2> HIDE DEF u
  <2>4. u[i] * base \in Nat
    BY <2>1
  <2> QED
    BY <2>2, <2>3, <2>4
<1>3. m \in T
  <2> HIDE DEF T
  <2> QED
    BY <1>1, <1>2, AllNaturals
<1> QED
  BY <1>3

LEMMA SameNumber ==
  ASSUME NEW v \in Seq(Nat), NEW w \in Seq(Nat), NEW base \in Nat, NEW n \in Nat, NEW m \in 0..n,
         \A k \in 1..m : Part(v, k) = Part(w, k)
  PROVE  Upto(v, n, base)[m] = Upto(w, n, base)[m]
<1> DEFINE a == Upto(v, n, base)
           b == Upto(w, n, base)
           T == {i \in Nat : i <= m => a[i] = b[i]}
<1>1. 0 \in T
  BY UptoIs
<1>2. ASSUME NEW i \in Nat, i \in T PROVE i + 1 \in T
  <2> SUFFICES ASSUME i + 1 <= m PROVE a[i + 1] = b[i + 1]
    OBVIOUS
  <2>1. a[i] = b[i] /\ i + 1 \in 1..n /\ i + 1 \in 1..m /\ (i + 1) - 1 = i
    BY <1>2
  <2>2. a[i + 1] = a[i] * base + Part(v, i + 1) /\ b[i + 1] = b[i] * base + Part(w, i + 1)
    BY <2>1, UptoIs
  <2>3. Part(v, i + 1) = Part(w, i + 1)
    BY <2>1
  <2> DEFINE x == a[i]
             y == b[i]
             p == Part(v, i + 1)
             q == Part(w, i + 1)
  <2>4. x = y /\ p = q /\ a[i + 1] = x * base + p /\ b[i + 1] = y * base + q
    BY <2>1, <2>2, <2>3
  <2> HIDE DEF a, b, x, y, p, q
  <2> QED
    BY <2>4
<1>3. Nat \subseteq T
  <2> HIDE DEF T
  <2> QED
    BY <1>1, <1>2, AllNaturals
<1> QED
  BY <1>3

LEMMA TimesBase ==
  ASSUME NEW x \in Nat, NEW y \in Nat, NEW base \in Nat, x < y
  PROVE  x * base + base <= y * base
<1>1. PICK d \in Nat : y = x + 1 + d
  <2>1. y - x - 1 \in Nat /\ y = x + 1 + (y - x - 1)
    OBVIOUS
  <2> QED
    BY <2>1
<1>2. y * base = x * base + base + d * base
  BY <1>1
<1>3. d * base \in Nat /\ x * base \in Nat
  OBVIOUS
<1> QED
  BY <1>2, <1>3

(* A part decides, whatever comes after it: no part reaches the base.      *)
LEMMA LessNumber ==
  ASSUME NEW v \in Seq(Nat), NEW w \in Seq(Nat), NEW base \in Nat, NEW n \in Nat,
         \A k \in 1..n : Part(v, k) < base,
         NEW i \in 1..n, LessAt(v, w, i)
  PROVE  Number(v, n, base) < Number(w, n, base)
<1> DEFINE a == Upto(v, n, base)
           b == Upto(w, n, base)
           T == {k \in Nat : i + k <= n => a[i + k] < b[i + k]}
<1>0. \A k \in 0..n : a[k] \in Nat /\ b[k] \in Nat
  BY UptoNatural
<1>1. 0 \in T
  <2>1. i - 1 \in 0..n /\ i \in 1..n /\ i \in Nat
    OBVIOUS
  <2>2. a[i - 1] = b[i - 1]
    BY <2>1, SameNumber DEF LessAt
  <2>3. a[i] = a[i - 1] * base + Part(v, i) /\ b[i] = b[i - 1] * base + Part(w, i)
    BY UptoIs
  <2>4. Part(v, i) < Part(w, i) /\ Part(v, i) \in Nat /\ Part(w, i) \in Nat
    BY <2>1, PartIs DEF LessAt
  <2>5. a[i - 1] \in Nat
    BY <1>0, <2>1
  <2> HIDE DEF a, b
  <2>6. a[i - 1] * base \in Nat
    BY <2>5
  <2>7. a[i] < b[i]
    BY <2>2, <2>3, <2>4, <2>6
  <2> QED
    BY <2>1, <2>7
<1>2. ASSUME NEW k \in Nat, k \in T PROVE k + 1 \in T
  <2> SUFFICES ASSUME i + (k + 1) <= n PROVE a[i + (k + 1)] < b[i + (k + 1)]
    OBVIOUS
  <2> DEFINE l == i + (k + 1)
  <2>1. l \in 1..n /\ l - 1 = i + k /\ i + k <= n /\ l \in Nat /\ l \in 0..n /\ i + k \in 0..n
    OBVIOUS
  <2>2. a[i + k] < b[i + k]
    BY <1>2, <2>1
  <2>3. a[l] = a[l - 1] * base + Part(v, l) /\ b[l] = b[l - 1] * base + Part(w, l)
    BY <2>1, UptoIs
  <2>4. Part(v, l) < base /\ Part(v, l) \in Nat /\ Part(w, l) \in Nat
    BY <2>1, PartIs
  <2>5. a[i + k] \in Nat /\ b[i + k] \in Nat
    BY <1>0, <2>1
  <2> HIDE DEF a, b, l
  <2>6. a[i + k] * base + base <= b[i + k] * base
    BY <2>2, <2>5, TimesBase
  <2>7. a[i + k] * base \in Nat /\ b[i + k] * base \in Nat
    BY <2>5
  <2> DEFINE x == a[i + k] * base
             y == b[i + k] * base
  <2>8. a[l] = x + Part(v, l) /\ b[l] = y + Part(w, l)
    BY <2>1, <2>3
  <2> HIDE DEF x, y
  <2>9. x + base <= y /\ x \in Nat /\ y \in Nat
    BY <2>6, <2>7 DEF x, y
  <2>10. a[l] < b[l]
    BY <2>4, <2>8, <2>9
  <2> QED
    BY <2>10 DEF l
<1>3. Nat \subseteq T
  <2> HIDE DEF T
  <2> QED
    BY <1>1, <1>2, AllNaturals
<1>4. n - i \in Nat /\ i + (n - i) = n
  OBVIOUS
<1>5. a[n] < b[n]
  BY <1>3, <1>4
<1> QED
  BY <1>5, UptoIs

LEMMA MaxIs ==
  ASSUME NEW S \in SUBSET Nat, IsFiniteSet(S), S # {}
  PROVE  Max(S) \in S /\ \A i \in S : i <= Max(S)
<1>1. Cardinality(S) \in Nat /\ Cardinality(S) # 0
  BY FS_CardinalityType, FS_EmptySet
<1>2. PICK m \in S : Rank(S, m) = Cardinality(S)
  BY <1>1, RankFound
<1> DEFINE T == {j \in S : j <= m}
<1>3. T \in SUBSET S /\ Cardinality(S) = Cardinality(T)
  BY <1>2 DEF Rank
<1>4. S = T
  BY <1>3, FS_Subset
<1>5. \A j \in S : m >= j /\ m \in S
  BY <1>4
<1>6. Max(S) \in S /\ \A j \in S : Max(S) >= j
  BY <1>5 DEF Max
<1> QED
  BY <1>6

LEMMA RangeFinite ==
  ASSUME NEW v \in Seq(Nat)
  PROVE  IsFiniteSet(Range(v)) /\ Range(v) \in SUBSET Nat
<1>1. DOMAIN v = 1..Len(v) /\ Len(v) \in Nat /\ v \in [1..Len(v) -> Nat]
  OBVIOUS
<1>2. IsFiniteSet(1..Len(v))
  BY <1>1, FS_Interval
<1>3. v \in Surjection(1..Len(v), Range(v))
  BY <1>1 DEF Surjection, Range
<1>4. IsFiniteSet(Range(v))
  BY <1>2, <1>3, FS_Surjection
<1> QED
  BY <1>1, <1>4 DEF Range

Base(v, w) == Max({0} \cup Range(v) \cup Range(w)) + 1

LEMMA BaseIs ==
  ASSUME NEW v \in Seq(Nat), NEW w \in Seq(Nat)
  PROVE  /\ Base(v, w) \in Nat
         /\ \A k \in Nat : Part(v, k) < Base(v, w) /\ Part(w, k) < Base(v, w)
<1> DEFINE R == Range(v) \cup Range(w)
           S == {0} \cup Range(v) \cup Range(w)
<1>1. IsFiniteSet(R) /\ R \in SUBSET Nat
  BY RangeFinite, FS_Union
<1>2. S = R \cup {0}
  OBVIOUS
<1>3. IsFiniteSet(S) /\ S \in SUBSET Nat /\ S # {}
  <2> HIDE DEF R
  <2>1. IsFiniteSet(R \cup {0})
    BY <1>1, FS_AddElement
  <2>2. R \cup {0} \in SUBSET Nat /\ R \cup {0} # {}
    BY <1>1
  <2> QED
    BY <1>2, <2>1, <2>2
<1>4. \A k \in Nat : Part(v, k) \in S /\ Part(w, k) \in S
  BY DEF Part, Range
<1>5. Base(v, w) = Max(S) + 1
  BY DEF Base
<1> HIDE DEF S
<1>6. Max(S) \in S /\ \A i \in S : i <= Max(S)
  BY <1>3, MaxIs
<1>7. Max(S) \in Nat
  BY <1>3, <1>6
<1>8. \A i \in S : i \in Nat /\ i < Max(S) + 1
  BY <1>3, <1>6, <1>7
<1>9. \A i \in S : i < Base(v, w)
  BY <1>5, <1>8
<1>10. Base(v, w) \in Nat
  BY <1>5, <1>7
<1> QED
  BY <1>4, <1>9, <1>10

LEMMA MaxOfTwo ==
  ASSUME NEW i \in Nat, NEW j \in Nat
  PROVE  Max({i, j}) = IF i > j THEN i ELSE j
<1> DEFINE S == {i, j}
<1>1. IsFiniteSet(S)
  <2>1. S = {i} \cup {j}
    OBVIOUS
  <2>2. IsFiniteSet({i})
    BY FS_Singleton
  <2>3. IsFiniteSet({i} \cup {j})
    BY <2>2, FS_AddElement
  <2> QED
    BY <2>1, <2>3
<1>2. Max(S) \in S /\ \A k \in S : k <= Max(S)
  <2>1. S \in SUBSET Nat /\ S # {}
    OBVIOUS
  <2> HIDE DEF S
  <2> QED
    BY <1>1, <2>1, MaxIs
<1> QED
  BY <1>2

(* To compare versions part by part is to compare them as numbers.         *)
LEMMA BeforeIsEarlier ==
  ASSUME NEW f, NEW g, IsMigration(f), IsMigration(g)
  PROVE  Before(f, g) <=> Earlier(f, g)
<1> DEFINE v == f.version
           w == g.version
           n == Parts(v, w)
           base == Base(v, w)
           x == Number(v, n, base)
           y == Number(w, n, base)
<1>1. v \in Seq(Nat) /\ w \in Seq(Nat) /\ f.path \in Nat /\ g.path \in Nat
  BY DEF IsMigration
<1>2. Len(v) \in Nat /\ Len(w) \in Nat
  BY <1>1
<1>3. Earlier(f, g) <=> x < y \/ (x = y /\ f.path < g.path)
  <2>1. Max({Len(v), Len(w)}) = n
    BY <1>2, MaxOfTwo DEF Parts
  <2> QED
    BY <2>1 DEF Earlier, Base
<1>4. Before(f, g) <=> \/ CompareVersion(v, w)
                       \/ ~CompareVersion(w, v) /\ f.path < g.path
  BY DEF Before
<1> HIDE DEF v, w
<1>5. n \in Nat /\ Parts(w, v) = n
  <2>1. Parts(w, v) = Parts(v, w)
    BY <1>2 DEF Parts
  <2> QED
    BY <1>1, <2>1, CompareIs
<1>6. base \in Nat /\ \A k \in 1..n : Part(v, k) < base /\ Part(w, k) < base
  BY <1>1, <1>5, BaseIs
<1>7. x \in Nat /\ y \in Nat
  <2>1. n \in 0..n
    BY <1>5
  <2> HIDE DEF n, base
  <2>2. Upto(v, n, base)[n] \in Nat /\ Upto(w, n, base)[n] \in Nat
    BY <1>1, <1>5, <1>6, <2>1, UptoNatural
  <2>3. x = Upto(v, n, base)[n] /\ y = Upto(w, n, base)[n]
    BY <1>5, UptoIs
  <2> QED
    BY <2>2, <2>3
<1> HIDE DEF base
<1>8. ASSUME CompareVersion(v, w) PROVE x < y
  <2>1. PICK i \in 1..n : LessAt(v, w, i)
    BY <1>1, <1>8, CompareIs
  <2> QED
    BY <1>1, <1>5, <1>6, <2>1, LessNumber
<1>9. ASSUME CompareVersion(w, v) PROVE y < x
  <2>1. PICK i \in 1..n : LessAt(w, v, i)
    BY <1>1, <1>5, <1>9, CompareIs
  <2> QED
    BY <1>1, <1>5, <1>6, <2>1, LessNumber
<1>10. ASSUME ~CompareVersion(v, w), ~CompareVersion(w, v) PROVE x = y
  <2>1. \A i \in Nat \ {0} : ~LessAt(v, w, i) /\ ~LessAt(w, v, i)
    BY <1>1, <1>10, CompareIs
  <2>2. \A i \in Nat \ {0} : Part(v, i) = Part(w, i)
    BY <1>1, <2>1, FirstPart
  <2>3. n \in 0..n /\ \A k \in 1..n : Part(v, k) = Part(w, k)
    BY <1>5, <2>2
  <2> HIDE DEF n
  <2>4. Upto(v, n, base)[n] = Upto(w, n, base)[n]
    BY <1>1, <1>5, <1>6, <2>3, SameNumber
  <2> QED
    BY <1>5, <2>4, UptoIs
<1> HIDE DEF x, y
<1> QED
  BY <1>1, <1>3, <1>4, <1>7, <1>8, <1>9, <1>10

(* Every turn is some file's.                                              *)
LEMMA TurnFound ==
  ASSUME NEW S, IsFiniteSet(S),
         \A f \in S : IsMigration(f), \A f, g \in S : f.path = g.path => f = g,
         NEW k \in 1..Cardinality(S)
  PROVE  \E f \in S : Cardinality({g \in S : Before(g, f)}) = k - 1
<1> DEFINE Ahead(f) == {g \in S : Before(g, f)}
           n == Cardinality(S)
           U == 0..(n - 1)
           T == U \ {k - 1}
           r == [f \in S |-> Cardinality(Ahead(f))]
<1>0. n \in Nat
  BY FS_CardinalityType
<1>1. /\ \A f \in S : ~Before(f, f)
      /\ \A f, g \in S : f = g \/ Before(f, g) \/ Before(g, f)
      /\ \A f, g, h \in S : Before(f, g) /\ Before(g, h) => Before(f, h)
  BY BeforeOrders
<1>2. \A f \in S : Ahead(f) \in SUBSET S /\ f \notin Ahead(f)
  BY <1>1
<1>3. ASSUME NEW f \in S PROVE Cardinality(Ahead(f)) \in U /\ IsFiniteSet(Ahead(f))
  <2> DEFINE A == Ahead(f)
  <2>1. A \in SUBSET S /\ A # S
    BY <1>2
  <2> HIDE DEF A
  <2>2. IsFiniteSet(A) /\ Cardinality(A) <= n /\ Cardinality(A) # n
    BY <2>1, FS_Subset
  <2>3. Cardinality(A) \in Nat
    BY <2>2, FS_CardinalityType
  <2>4. Cardinality(A) \in U
    BY <1>0, <2>2, <2>3
  <2> QED
    BY <2>2, <2>4 DEF A
<1>4. ASSUME NEW f \in S, NEW g \in S, Before(f, g)
      PROVE  Cardinality(Ahead(f)) # Cardinality(Ahead(g))
  <2> DEFINE A == Ahead(f)
             B == Ahead(g)
  <2>1. A \in SUBSET B /\ f \in B /\ f \notin A
    BY <1>1, <1>4
  <2>2. IsFiniteSet(B)
    BY <1>3
  <2> HIDE DEF A, B
  <2>3. Cardinality(B) # Cardinality(A)
    BY <2>1, <2>2, FS_Subset
  <2> QED
    BY <2>3 DEF A, B
<1>5. SUFFICES ASSUME \A f \in S : Cardinality(Ahead(f)) # k - 1 PROVE FALSE
  OBVIOUS
<1>6. r \in [S -> T]
  <2>1. \A f \in S : Cardinality(Ahead(f)) \in T
    BY <1>3, <1>5
  <2> HIDE DEF Ahead, T
  <2> QED
    BY <2>1
<1>7. IsFiniteSet(U) /\ Cardinality(U) = n
  <2>1. 0 \in Int /\ n - 1 \in Int /\ ~(0 > n - 1) /\ (n - 1) - 0 + 1 = n
    BY <1>0
  <2>2. IsFiniteSet(0..(n - 1)) /\ Cardinality(0..(n - 1)) = (n - 1) - 0 + 1
    BY <2>1, FS_Interval
  <2> QED
    BY <2>1, <2>2
<1>8. IsFiniteSet(T) /\ Cardinality(T) = n - 1
  <2>1. k - 1 \in U
    BY <1>0
  <2> HIDE DEF U
  <2> QED
    BY <1>7, <2>1, FS_RemoveElement
<1>9. Cardinality(T) < Cardinality(S)
  BY <1>0, <1>8
<1> HIDE DEF T, U, r, Ahead
<1>10. PICK f, g \in S : f # g /\ r[f] = r[g]
  BY <1>6, <1>8, <1>9, FS_PigeonHole
<1>11. r[f] = Cardinality(Ahead(f)) /\ r[g] = Cardinality(Ahead(g))
  BY DEF r
<1>12. Before(f, g) \/ Before(g, f)
  BY <1>1, <1>10
<1> QED
  BY <1>4, <1>10, <1>11, <1>12

(* Two sequences of scripts of the same files.                             *)
LEMMA SequenceOf ==
  ASSUME NEW n \in Nat, NEW x, x = [k \in 1..n |-> x[k]]
  PROVE  Len(x) = n
<1> DEFINE X == {x[k] : k \in 1..n}
<1>1. x \in [1..n -> X]
  OBVIOUS
<1> QED
  BY <1>1

LEMMA MigratedSame ==
  ASSUME NEW files, IsFiniteSet(files),
         \A f \in files : IsMigration(f) /\ Executable(f),
         \A f, g \in files : f.path = g.path => f = g,
         NEW t, t \notin Regrouped(files)
  PROVE  Same(ReadFlywayMigrations(files), Executed(files), t)
<1> DEFINE n == Cardinality(files)
           order == InTurn(files, Before)
           a == [k \in 1..n |-> ParseSqlDdl(order[k].statements)]
           b == [k \in 1..n |-> order[k].statements]
<1>0. n \in Nat
  BY FS_CardinalityType
<1>1. order = [k \in 1..n |-> CHOOSE f \in files : Cardinality({g \in files : Before(g, f)}) = k - 1]
  BY DEF InTurn
<1>2. InTurn(files, Earlier) = order
  <2> DEFINE A(f) == Cardinality({g \in files : Before(g, f)})
             B(f) == Cardinality({g \in files : Earlier(g, f)})
  <2>1. ASSUME NEW f \in files
        PROVE  A(f) = B(f)
    <3>1. {g \in files : Before(g, f)} = {g \in files : Earlier(g, f)}
      BY BeforeIsEarlier
    <3> QED
      BY <3>1
  <2>2. InTurn(files, Earlier) = [k \in 1..n |-> CHOOSE f \in files : B(f) = k - 1]
    BY DEF InTurn
  <2>3. order = [k \in 1..n |-> CHOOSE f \in files : A(f) = k - 1]
    BY <1>1
  <2> HIDE DEF A, B, order
  <2>4. ASSUME NEW k
        PROVE  (CHOOSE f \in files : A(f) = k - 1) = CHOOSE f \in files : B(f) = k - 1
    <3>1. \A f : f \in files /\ A(f) = k - 1 <=> f \in files /\ B(f) = k - 1
      BY <2>1
    <3> QED
      BY <3>1
  <2> QED
    BY <2>2, <2>3, <2>4
<1>3. DOMAIN order = 1..n
  BY <1>1
<1>4. ReadFlywayMigrations(files) = ApplyMigrations(a)
  BY <1>3 DEF ReadFlywayMigrations
<1>5. Executed(files) = ApplyMigrations(b)
  BY <1>2, <1>3 DEF Executed
<1>6. ASSUME NEW k \in 1..n PROVE order[k] \in files
  <2> DEFINE Ahead(f) == Cardinality({g \in files : Before(g, f)})
  <2>1. k \in 1..Cardinality(files)
    OBVIOUS
  <2>2. \E f \in files : Ahead(f) = k - 1
    BY <2>1, TurnFound
  <2>3. order[k] = CHOOSE f \in files : Ahead(f) = k - 1
    BY <1>1
  <2> HIDE DEF Ahead, order
  <2> QED
    BY <2>2, <2>3
<1>7. \A f \in files : t \notin DroppedEarly(f)
  BY DEF Regrouped, DroppedEarly
<1> HIDE DEF order
<1>8. ASSUME NEW k \in 1..n
      PROVE  \A s, u : Same(s, u, t) => Same(ApplyOps(s, a[k]), ApplyOps(u, b[k]), t)
  <2> DEFINE f == order[k]
  <2>1. IsMigration(f) /\ Executable(f) /\ t \notin DroppedEarly(f)
    BY <1>6, <1>7
  <2>2. a[k] = ParseSqlDdl(f.statements) /\ b[k] = f.statements
    OBVIOUS
  <2> HIDE DEF f, a, b
  <2> QED
    BY <2>1, <2>2, FileSame
<1>9. a = [k \in 1..n |-> a[k]] /\ b = [k \in 1..n |-> b[k]]
  OBVIOUS
<1> HIDE DEF n, a, b
<1>10. Len(a) = n /\ Len(b) = n
  BY <1>0, <1>9, SequenceOf
<1>11. Same(ApplyMigrations(a), ApplyMigrations(b), t)
  BY <1>0, <1>8, <1>10, FilesSame
<1> QED
  BY <1>4, <1>5, <1>11

LEMMA SchemaOfProject ==
  ASSUME ProjectsExecutable, NEW p \in Project
  PROVE  LET files == Content[p].migrations
             a == ReadFlywayMigrations(files)
             b == Executed(files) IN
         Restrict(a, DOMAIN a \ Regrouped(files)) = Restrict(b, DOMAIN b \ Regrouped(files))
<1> DEFINE files == Content[p].migrations
           R == Regrouped(files)
           a == ReadFlywayMigrations(files)
           b == Executed(files)
<1>1. /\ IsFiniteSet(files)
      /\ \A f \in files : IsMigration(f)
      /\ \A f, g \in files : f.path = g.path => f = g
  BY MigrationsAssumption
<1>2. \A f \in files : Executable(f)
  BY DEF ProjectsExecutable
<1> HIDE DEF files
<1>3. ASSUME NEW t, t \notin R PROVE Same(a, b, t)
  BY <1>1, <1>2, <1>3, MigratedSame
<1> HIDE DEF R, a, b
<1>4. \A t : t \notin R => (t \in DOMAIN a <=> t \in DOMAIN b) /\ (t \in DOMAIN a => a[t] = b[t])
  BY <1>3 DEF Same
<1> DEFINE D == DOMAIN a \ R
           E == DOMAIN b \ R
<1>5. D = E
  BY <1>4
<1>6. \A t \in D : a[t] = b[t]
  BY <1>4
<1>7. Restrict(a, D) = Restrict(b, E)
  <2> HIDE DEF D, E
  <2> QED
    BY <1>5, <1>6 DEF Restrict
<1> QED
  BY <1>7 DEF a, b, R, files

(* A label has the tables of the project it was last written for.          *)
SchemaInv ==
    /\ sources \in Project
    /\ schema = [l \in Label |-> schema[l]]
    /\ Label \subseteq DOMAIN of
    /\ \A l \in Label :
          \/ schema[l] = NoTables
          \/ /\ of[l] \in Project
             /\ schema[l] = ReadFlywayMigrations(Content[of[l]].migrations)

LEMMA InitSchema == Init => SchemaInv
<1> SUFFICES ASSUME Init
             PROVE  SchemaInv
  OBVIOUS
<1>1. sources \in Project /\ schema = [l \in Label |-> NoTables]
      /\ of = [l \in {Baseline, Pending} \cup Label |-> NoProject]
  BY DEF Init
<1>2. Label \subseteq DOMAIN of /\ \A l \in Label : schema[l] = NoTables
  BY <1>1
<1>3. schema = [l \in Label |-> schema[l]]
  BY <1>1
<1> QED
  BY <1>1, <1>2, <1>3 DEF SchemaInv

LEMMA StepSchema == SchemaInv /\ [Next]_vars => SchemaInv'
<1> SUFFICES ASSUME SchemaInv, [Next]_vars
             PROVE  SchemaInv'
  OBVIOUS
<1>1. CASE UNCHANGED <<sources, schema, of>>
  BY <1>1 DEF SchemaInv
<1>2. CASE Edit
  BY <1>2 DEF Edit, SchemaInv
<1>3. ASSUME NEW l \in Label, SchemaSnapshot(l)
      PROVE  SchemaInv'
  <2> DEFINE tables == ReadFlywayMigrations(Content[sources].migrations)
  <2>1. /\ schema' = [schema EXCEPT ![l] = tables] /\ of' = [of EXCEPT ![l] = sources]
        /\ UNCHANGED sources
    BY <1>3 DEF SchemaSnapshot
  <2>2. schema'[l] = tables /\ of'[l] = sources
    BY <2>1 DEF SchemaInv
  <2>3. \A m \in Label : m # l => schema'[m] = schema[m] /\ of'[m] = of[m]
    BY <2>1 DEF SchemaInv
  <2>4. DOMAIN of' = DOMAIN of /\ schema' = [m \in Label |-> schema'[m]] /\ sources \in Project
    BY <2>1 DEF SchemaInv
  <2>5. tables = ReadFlywayMigrations(Content[of'[l]].migrations)
    BY <2>2
  <2> HIDE DEF tables
  <2>6. ASSUME NEW m \in Label
        PROVE  \/ schema'[m] = NoTables
               \/ /\ of'[m] \in Project
                  /\ schema'[m] = ReadFlywayMigrations(Content[of'[m]].migrations)
    <3>1. CASE m = l
      BY <2>2, <2>4, <2>5, <3>1
    <3>2. CASE m # l
      BY <2>3, <3>2 DEF SchemaInv
    <3> QED
      BY <3>1, <3>2
  <2> QED
    BY <2>1, <2>4, <2>6 DEF SchemaInv
<1>4. ASSUME NEW m, m \in {Baseline, Pending}, NEW p, of' = [of EXCEPT ![m] = p],
             UNCHANGED <<sources, schema>>
      PROVE  SchemaInv'
  <2>1. DOMAIN of' = DOMAIN of /\ \A l \in Label : of'[l] = of[l]
    BY <1>4, StoresAssumption DEF SchemaInv
  <2> QED
    BY <1>4, <2>1 DEF SchemaInv
<1>5. CASE WriteBaseline
  BY <1>4, <1>5 DEF WriteBaseline
<1>6. ASSUME NEW r \in Reporter, WritePending(r)
      PROVE  SchemaInv'
  BY <1>4, <1>6 DEF WritePending
<1> QED
  BY <1>1, <1>2, <1>3, <1>5, <1>6
  DEF Next, vars, StartRun, EndRun, ParseBaseline, Begin, Count, LoadBefore, LoadAfter, End,
      TakeArchSnapshot

(* For any projects whose migrations a database executes, with any number  *)
(* of them, in any versions and with any statements: whatever is edited    *)
(* and snapshot under whatever label, the tables of a snapshot are those   *)
(* that the statements give in the order of the versions as numbers and of *)
(* the text (FlywayMigrationParser, parseSqlDdl, SchemaSnapshotStore).     *)
THEOREM SchemaExactAlways ==
  ASSUME ProjectsExecutable
  PROVE  Spec => []SchemaExact
<1>1. SchemaInv => SchemaExact
  <2> SUFFICES ASSUME SchemaInv, NEW l \in Label, schema[l] # NoTables
               PROVE  LET files == Content[of[l]].migrations
                          kept(tables) == Restrict(tables, DOMAIN tables \ Regrouped(files)) IN
                      kept(schema[l]) = kept(Executed(files))
    BY DEF SchemaExact
  <2>1. of[l] \in Project /\ schema[l] = ReadFlywayMigrations(Content[of[l]].migrations)
    BY DEF SchemaInv
  <2> QED
    BY <2>1, SchemaOfProject
<1> QED
  BY <1>1, InitSchema, StepSchema, PTL DEF Spec
=============================================================================
