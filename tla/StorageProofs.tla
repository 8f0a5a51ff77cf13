---------------------------- MODULE StorageProofs ----------------------------
(***************************************************************************)
(* Proofs about Storage, for every set of tables and every size of its     *)
(* caches: the meta cache counts rows and ids as the file does, and a      *)
(* SELECT by id finds what the file holds, until a statement that rewrites *)
(* the file or fails half-way leaves an entry behind.                      *)
(***************************************************************************)
EXTENDS Storage, CopyingProofs, FiniteSetTheorems, TLAPS

-----------------------------------------------------------------------------
(* The inductive invariant                                                 *)

MetaInv ==
    /\ \A tb \in cached \ stale_meta : next_row_idx[tb] = Len(rows[tb])
    /\ AutoIdsFresh

\* A table has entries in its tree only while the registry knows the tree,
\* and rows only while it has a file.
ShapeInv ==
    /\ DOMAIN tree = Tables
    /\ \A tb \in Tables \ indexed : DOMAIN tree[tb] = {}
    /\ \A tb \in Tables \ exists : rows[tb] = <<>>
    /\ lost \subseteq stale_tree

\* An entry is of an id in the file, so that the next scan mends it; it names
\* the last row with the id; and after a scan no id is missing.
TreeRight(tb) ==
    /\ tb \notin lost =>
           \A i \in DOMAIN tree[tb] : i > 0 => i \in Positive(rows[tb])
    /\ tb \notin stale_tree =>
           \A i \in DOMAIN tree[tb] : i > 0 => tree[tb][i] = LastRow(rows[tb], i)
    /\ tb \in (rebuilt \cap indexed) \ stale_tree =>
           Positive(rows[tb]) \subseteq DOMAIN tree[tb]

TreeInv == \A tb \in Tables : TreeRight(tb)

StorageInv == TypeOK /\ MetaInv /\ ShapeInv /\ TreeInv

-----------------------------------------------------------------------------
(* Facts about sequences of ids                                            *)

\* A nonempty set of naturals below a bound has a greatest element.
LEMMA GreatestNatural ==
  ASSUME NEW n \in Nat, NEW S, S \subseteq 0 .. n, S # {}
  PROVE  \E x \in S : \A y \in S : y <= x
<1> DEFINE T == {n - x : x \in S}
<1>1. T \subseteq Nat
  OBVIOUS
<1>1a. T # {}
  OBVIOUS
<1>2. PICK z \in T : \A y \in T : z <= y
  <2> HIDE DEF T
  <2> QED
    BY <1>1, <1>1a, LeastNatural
<1>3. PICK x \in S : z = n - x
  OBVIOUS
<1>4. \A y \in S : n - x <= n - y
  BY <1>2, <1>3
<1> QED
  BY <1>4

\* scan_csv_meta ends with the largest id of the file, or 0.
LEMMA TopIdIsTop ==
  ASSUME NEW s \in Seq(Ids)
  PROVE  /\ TopId(s) \in Positive(s) \cup {0}
         /\ \A i \in Positive(s) \cup {0} : i <= TopId(s)
<1> DEFINE pos(n) == {s[k] : k \in 1 .. n} \cap (Nat \ {0})
           tops(n) == {m \in pos(n) \cup {0} : \A i \in pos(n) \cup {0} : i <= m}
           bad == {n \in 0 .. Len(s) : tops(n) = {}}
<1>1. bad = {}
  <2> SUFFICES ASSUME bad # {} PROVE FALSE
    OBVIOUS
  <2>1. bad \subseteq Nat
    OBVIOUS
  <2>2. PICK n \in bad : \A y \in bad : n <= y
    <3> HIDE DEF bad
    <3> QED
      BY <2>1, LeastNatural
  <2>3. 0 \in tops(0)
    OBVIOUS
  <2>4. n # 0 /\ n - 1 \in 0 .. Len(s) /\ ~(n <= n - 1)
    BY <2>3
  <2>5a. n - 1 \notin bad
    <3> HIDE DEF bad
    <3> QED
      BY <2>2, <2>4
  <2>5. PICK m : m \in tops(n - 1)
    BY <2>4, <2>5a
  <2>6. pos(n) = pos(n - 1) \cup ({s[n]} \cap (Nat \ {0}))
    BY <2>4
  <2>7. CASE s[n] \in Nat /\ s[n] > m
    <3>1. s[n] \in tops(n)
      BY <2>5, <2>6, <2>7
    <3> QED
      BY <3>1
  <2>8. CASE ~(s[n] \in Nat /\ s[n] > m)
    <3>1. m \in tops(n)
      BY <2>5, <2>6, <2>8
    <3> QED
      BY <3>1
  <2> QED
    BY <2>7, <2>8
<1>2. Len(s) \in 0 .. Len(s) /\ DOMAIN s = 1 .. Len(s)
  OBVIOUS
<1>3. tops(Len(s)) # {}
  BY <1>1, <1>2
<1>4. pos(Len(s)) = Positive(s)
  BY <1>2 DEF Positive
<1>5. PICK m : m \in tops(Len(s))
  BY <1>3
<1> QED
  BY <1>4, <1>5 DEF TopId

\* The ids of a file with one more row.
LEMMA PositiveAppend ==
  ASSUME NEW s \in Seq(Ids), NEW id \in Ids
  PROVE  Positive(Append(s, id)) = Positive(s) \cup ({id} \cap (Nat \ {0}))
<1> DEFINE t == Append(s, id)
<1>1. /\ DOMAIN s = 1 .. Len(s) /\ DOMAIN t = 1 .. Len(s) + 1
      /\ \A k \in 1 .. Len(s) : t[k] = s[k]
      /\ t[Len(s) + 1] = id
  OBVIOUS
<1>2. {t[k] : k \in DOMAIN t} = {s[k] : k \in DOMAIN s} \cup {id}
  <2> HIDE DEF t
  <2>1. \A k \in DOMAIN t : k \in DOMAIN s \/ k = Len(s) + 1
    BY <1>1
  <2>2. DOMAIN s \subseteq DOMAIN t /\ Len(s) + 1 \in DOMAIN t
    BY <1>1
  <2> QED
    BY <1>1, <2>1, <2>2
<1> QED
  BY <1>2 DEF Positive

\* A scan leaves the last row of every id it meets.
LEMMA LastRowIsLast ==
  ASSUME NEW s \in Seq(Ids), NEW i \in Positive(s)
  PROVE  /\ LastRow(s, i) + 1 \in DOMAIN s
         /\ s[LastRow(s, i) + 1] = i
         /\ \A j \in DOMAIN s : s[j] = i => j <= LastRow(s, i) + 1
         /\ LastRow(s, i) \in 0 .. Len(s) - 1
<1> DEFINE at == {k \in DOMAIN s : s[k] = i}
<1>1. DOMAIN s = 1 .. Len(s) /\ Len(s) \in Nat
  OBVIOUS
<1>2. at \subseteq 0 .. Len(s) /\ at # {}
  BY <1>1 DEF Positive
<1>3. PICK k \in at : \A j \in at : j <= k
  <2> HIDE DEF at
  <2> QED
    BY <1>1, <1>2, GreatestNatural
<1> DEFINE last == CHOOSE m \in DOMAIN s :
                       s[m] = i /\ \A j \in DOMAIN s : s[j] = i => j <= m
<1>4. last \in DOMAIN s /\ s[last] = i /\ \A j \in DOMAIN s : s[j] = i => j <= last
  BY <1>3
<1>5. LastRow(s, i) = last - 1
  BY DEF LastRow
<1> HIDE DEF last
<1>6. LastRow(s, i) + 1 = last
  BY <1>1, <1>4, <1>5
<1> QED
  BY <1>1, <1>4, <1>5, <1>6

\* Only one row can be the last.
LEMMA LastRowUnique ==
  ASSUME NEW s \in Seq(Ids), NEW i \in Positive(s), NEW k \in DOMAIN s,
         s[k] = i, \A j \in DOMAIN s : s[j] = i => j <= k
  PROVE  LastRow(s, i) = k - 1
<1>1. DOMAIN s = 1 .. Len(s) /\ Len(s) \in Nat
  OBVIOUS
<1>2. LastRow(s, i) \in Int
  BY <1>1, LastRowIsLast
<1>3. k <= LastRow(s, i) + 1 /\ LastRow(s, i) + 1 <= k
  BY LastRowIsLast
<1> QED
  BY <1>1, <1>2, <1>3

\* A new row is the last one of its id and of no other.
LEMMA LastRowAppend ==
  ASSUME NEW s \in Seq(Ids), NEW id \in Ids
  PROVE  /\ id > 0 => LastRow(Append(s, id), id) = Len(s)
         /\ \A i \in Positive(s) \ {id} : LastRow(Append(s, id), i) = LastRow(s, i)
<1> DEFINE t == Append(s, id)
<1>0. t \in Seq(Ids)
  OBVIOUS
<1>1. /\ DOMAIN s = 1 .. Len(s) /\ Len(s) \in Nat /\ DOMAIN t = 1 .. Len(s) + 1
      /\ \A k \in 1 .. Len(s) : t[k] = s[k]
      /\ t[Len(s) + 1] = id
  OBVIOUS
<1>2. Positive(t) = Positive(s) \cup ({id} \cap (Nat \ {0}))
  BY PositiveAppend
<1> HIDE DEF t
<1>3. ASSUME id > 0 PROVE LastRow(t, id) = Len(s)
  <2>1. id \in Positive(t)
    BY <1>2, <1>3 DEF Ids, Garbled
  <2>2. LastRow(t, id) = (Len(s) + 1) - 1
    BY <1>0, <1>1, <2>1, LastRowUnique
  <2> QED
    BY <1>1, <2>2
<1>4. ASSUME NEW i \in Positive(s) \ {id} PROVE LastRow(t, i) = LastRow(s, i)
  <2> DEFINE k == LastRow(s, i) + 1
  <2>1. /\ k \in DOMAIN s /\ s[k] = i /\ k - 1 = LastRow(s, i)
        /\ \A j \in DOMAIN s : s[j] = i => j <= k
    BY LastRowIsLast
  <2>2. k \in DOMAIN t /\ t[k] = i /\ i \in Positive(t)
    BY <1>1, <1>2, <2>1
  <2>3. \A j \in DOMAIN t : t[j] = i => j <= k
    BY <1>1, <1>4, <2>1
  <2> HIDE DEF k
  <2>4. LastRow(t, i) = k - 1
    BY <1>0, <2>2, <2>3, LastRowUnique
  <2> QED
    BY <2>1, <2>4
<1> QED
  BY <1>3, <1>4 DEF t

-----------------------------------------------------------------------------
(* Facts about the caches                                                  *)

\* A cache of tables grows by one at most, so one with room keeps its bound.
LEMMA TableSets ==
  ASSUME NEW A \in SUBSET Tables, NEW tb \in Tables, NEW M \in Nat
  PROVE  /\ IsFiniteSet(A) /\ Cardinality(A) \in Nat
         /\ Cardinality(A) <= M /\ (tb \in A \/ Cardinality(A) < M) =>
                Cardinality(A \cup {tb}) <= M
<1>1. IsFiniteSet(A)
  BY StorageAssumption, FS_Subset
<1>2. Cardinality(A) \in Nat
  BY <1>1, FS_CardinalityType
<1>3. Cardinality(A \cup {tb}) = IF tb \in A THEN Cardinality(A) ELSE Cardinality(A) + 1
  BY <1>1, FS_AddElement
<1> QED
  BY <1>1, <1>2, <1>3

\* storage_append_fp_get never holds more files than there are slots.
LEMMA OpenedFits ==
  ASSUME NEW tb \in Tables, append_fp \in Seq(Tables), Len(append_fp) <= FpMax
  PROVE  Opened(tb) \in Seq(Tables) /\ Len(Opened(tb)) <= FpMax
<1>0. FpMax \in Nat /\ FpMax > 0
  BY StorageAssumption
<1>1. CASE IsOpen(tb)
  BY <1>1 DEF Opened
<1>2. CASE ~IsOpen(tb) /\ Len(append_fp) >= FpMax
  <2>1. append_fp # <<>>
    BY <1>0, <1>2
  <2>2. Tail(append_fp) \in Seq(Tables) /\ Len(Tail(append_fp)) = Len(append_fp) - 1
    BY <2>1
  <2> QED
    BY <1>0, <1>2, <2>2 DEF Opened
<1>3. CASE ~IsOpen(tb) /\ ~(Len(append_fp) >= FpMax)
  BY <1>0, <1>3 DEF Opened
<1> QED
  BY <1>1, <1>2, <1>3

\* storage_append_fp_invalidate only closes files.
LEMMA ClosedFits ==
  ASSUME NEW fps \in Seq(Tables), NEW tb, Len(fps) <= FpMax
  PROVE  Closed(fps, tb) \in Seq(Tables) /\ Len(Closed(fps, tb)) <= FpMax
<1>1. Closed(fps, tb) \in Seq(Tables) /\ Len(Closed(fps, tb)) <= Len(fps)
  BY CopyIsShorter DEF Closed
<1>2. Len(fps) \in Nat /\ Len(Closed(fps, tb)) \in Nat /\ FpMax \in Nat
  BY <1>1, StorageAssumption
<1> QED
  BY <1>1, <1>2

\* No id of a file reaches what a scan makes next_id.
LEMMA NoneAboveTop ==
  ASSUME NEW s \in Seq(Ids)
  PROVE  \A i \in Positive(s) : ~(i >= TopId(s) + 1)
<1>1. TopId(s) \in Nat /\ \A i \in Positive(s) : i \in Nat /\ i <= TopId(s)
  BY TopIdIsTop DEF Positive
<1> QED
  BY <1>1

\* When the ids of one table stop to count as chosen, those of others stay.
LEMMA OthersStayChosen ==
  ASSUME NEW tb \in Tables, chosen \subseteq Tables \X Ids
  PROVE  /\ Unchosen(tb) \subseteq Tables \X Ids
         /\ \A u \in Tables \ {tb} :
                \A i : <<u, i>> \in chosen => <<u, i>> \in Unchosen(tb)
  BY DEF Unchosen

\* What an INSERT finds in the meta cache are numbers; as long as no statement
\* left the entry wrong they are those of a scan, and an empty file that was
\* not empty before is never met.
LEMMA MetaFound ==
  ASSUME TypeOK, MetaInv, NEW tb \in Tables
  PROVE  /\ MetaId(tb) \in Nat /\ MetaRow(tb) \in Nat
         /\ AutoId(tb) \in Nat /\ AutoRow(tb) \in Nat
         /\ tb \notin stale_meta =>
                MetaRow(tb) = Len(rows[tb]) /\ AutoRow(tb) = Len(rows[tb])
         /\ tb \notin stale_meta => Leads(tb, MetaId(tb)) /\ Leads(tb, AutoId(tb))
<1>1. rows[tb] \in Seq(Ids) /\ Len(rows[tb]) \in Nat
  BY DEF TypeOK
<1>2. TopId(rows[tb]) \in Nat
  BY <1>1, TopIdIsTop DEF Positive
<1>3. next_id[tb] \in Nat /\ next_row_idx[tb] \in Nat
  BY DEF TypeOK
<1>4. /\ MetaId(tb) \in Nat /\ MetaRow(tb) \in Nat
      /\ tb \notin stale_meta => MetaRow(tb) = Len(rows[tb])
      /\ tb \notin stale_meta => Leads(tb, MetaId(tb))
  <2>1. Leads(tb, TopId(rows[tb]) + 1)
    BY <1>1, NoneAboveTop DEF Leads
  <2> QED
    BY <1>1, <1>2, <1>3, <2>1 DEF MetaId, MetaRow, MetaInv, AutoIdsFresh
<1>5. FileGone(tb) => Len(rows[tb]) = 0 /\ Positive(rows[tb]) = {}
  <2>1. SUFFICES ASSUME FileGone(tb) PROVE Len(rows[tb]) = 0 /\ Positive(rows[tb]) = {}
    OBVIOUS
  <2>2. rows[tb] = <<>>
    BY <2>1 DEF FileGone
  <2> QED
    BY <2>2 DEF Positive
<1>6. tb \notin stale_meta => Leads(tb, AutoId(tb))
  <2>1. CASE FileGone(tb)
    BY <1>5, <2>1 DEF Leads
  <2>2. CASE ~FileGone(tb)
    BY <1>4, <2>2 DEF AutoId
  <2> QED
    BY <2>1, <2>2
<1> QED
  BY <1>1, <1>4, <1>5, <1>6 DEF AutoId, AutoRow

\* SetMeta gives one table the entry it says and leaves the others alone.
LEMMA SetMetaSets ==
  ASSUME TypeOK, NEW tb \in id_tables, RoomInMeta(tb),
         NEW id \in Nat, NEW row \in Nat, SetMeta(tb, id, row)
  PROVE  /\ cached' \subseteq id_tables /\ Cardinality(cached') <= MetaMax
         /\ next_id' \in [Tables -> Nat] /\ next_row_idx' \in [Tables -> Nat]
         /\ cached' = cached \cup {tb}
         /\ next_id'[tb] = id /\ next_row_idx'[tb] = row
         /\ \A u \in Tables \ {tb} : /\ next_id'[u] = next_id[u]
                                     /\ next_row_idx'[u] = next_row_idx[u]
<1>1. cached \in SUBSET Tables /\ tb \in Tables /\ MetaMax \in Nat
  BY StorageAssumption DEF TypeOK
<1>2. Cardinality(cached) <= MetaMax
  BY DEF TypeOK
<1>3. Cardinality(cached \cup {tb}) <= MetaMax
  BY <1>1, <1>2, TableSets DEF RoomInMeta
<1> QED
  BY <1>1, <1>3 DEF SetMeta, TypeOK

\* A scan indexes every positive id by its last row.
LEMMA IndexOfScan ==
  ASSUME NEW s \in Seq(Ids)
  PROVE  /\ DOMAIN IndexOf(s) = Positive(s) /\ Positive(s) \subseteq Ids
         /\ \A i \in Positive(s) : /\ i \in Nat /\ i > 0
                                   /\ IndexOf(s)[i] = LastRow(s, i)
                                   /\ IndexOf(s)[i] \in Nat
<1>1. \A i \in Positive(s) : IndexOf(s)[i] = LastRow(s, i)
  BY DEF IndexOf
<1>2. \A i \in Positive(s) : LastRow(s, i) \in Nat
  BY LastRowIsLast
<1>3. DOMAIN IndexOf(s) = Positive(s)
  BY DEF IndexOf
<1> QED
  BY <1>1, <1>2, <1>3 DEF Positive, Ids

-----------------------------------------------------------------------------
(* The steps of INSERT                                                     *)

\* The row goes to the end of one file.
LEMMA RowWritten ==
  ASSUME TypeOK, NEW tb \in Tables, NEW id \in Ids, RowInFile(tb, id)
  PROVE  /\ rows' \in [Tables -> Seq(Ids)]
         /\ rows'[tb] = Append(rows[tb], id)
         /\ \A u \in Tables \ {tb} : rows'[u] = rows[u]
         /\ schema' \subseteq Tables /\ exists' \subseteq Tables
         /\ exists' = exists \cup {tb} /\ id_tables' = id_tables
<1>1. rows' = [rows EXCEPT ![tb] = Append(rows[tb], id)]
  BY DEF RowInFile
<1>2. rows[tb] \in Seq(Ids) /\ rows \in [Tables -> Seq(Ids)]
  BY DEF TypeOK
<1>3. Append(rows[tb], id) \in Seq(Ids)
  BY <1>2
<1> QED
  BY <1>1, <1>2, <1>3 DEF RowInFile, TypeOK, schemaVars

\* The file stays open for the next row.
LEMMA RowAppended ==
  ASSUME TypeOK, NEW tb \in Tables, NEW id \in Ids, NEW row, AppendRow(tb, id, row)
  PROVE  /\ rows' \in [Tables -> Seq(Ids)]
         /\ rows'[tb] = Append(rows[tb], id)
         /\ \A u \in Tables \ {tb} : rows'[u] = rows[u]
         /\ schema' \subseteq Tables /\ exists' \subseteq Tables
         /\ exists' = exists \cup {tb} /\ id_tables' = id_tables
         /\ append_fp' \in Seq(Tables) /\ Len(append_fp') <= FpMax
<1>1. append_fp' \in Seq(Tables) /\ Len(append_fp') <= FpMax
  BY OpenedFits DEF AppendRow, TypeOK
<1>2. RowInFile(tb, id)
  BY DEF AppendRow
<1> QED
  BY <1>1, <1>2, RowWritten

\* A row that is not indexed leaves the tree right: it has no positive id, or
\* the table has no tree, or the history says so.
LEMMA RowUnindexed ==
  ASSUME StorageInv, NEW tb \in Tables, NEW id \in Ids, RowInFile(tb, id),
         UNCHANGED <<indexed, tree, rebuilt, lost>>,
         stale_tree \subseteq stale_tree', stale_tree' \subseteq stale_tree \cup {tb},
         id = Garbled \/ tb \notin indexed \/ tb \in stale_tree'
  PROVE  ShapeInv' /\ TreeInv'
<1>1. /\ rows'[tb] = Append(rows[tb], id) /\ exists' = exists \cup {tb}
      /\ \A u \in Tables \ {tb} : rows'[u] = rows[u]
  BY RowWritten DEF StorageInv
<1>2. ShapeInv'
  BY <1>1 DEF StorageInv, ShapeInv
<1>3. ASSUME NEW u \in Tables PROVE TreeRight(u)'
  <2>0. TreeRight(u)
    BY DEF StorageInv, TreeInv
  <2>1. CASE u # tb
    BY <1>1, <2>0, <2>1 DEF TreeRight
  <2>2. CASE u = tb /\ tb \notin indexed
    BY <2>2 DEF StorageInv, ShapeInv, TreeRight
  <2>3. CASE u = tb /\ id = Garbled
    <3>0. rows[tb] \in Seq(Ids)
      BY DEF StorageInv, TypeOK
    <3>1. Positive(rows'[tb]) = Positive(rows[tb])
      <4>1. Positive(rows'[tb]) = Positive(rows[tb]) \cup ({id} \cap (Nat \ {0}))
        BY <1>1, <3>0, PositiveAppend
      <4> QED
        BY <2>3, <4>1 DEF Garbled
    <3>2. \A i \in Positive(rows[tb]) : i # id
      BY <2>3 DEF Positive, Garbled
    <3>3. \A i \in Positive(rows[tb]) : LastRow(rows'[tb], i) = LastRow(rows[tb], i)
      BY <1>1, <3>0, <3>2, LastRowAppend
    <3>4. lost \subseteq stale_tree
      BY DEF StorageInv, ShapeInv
    <3> QED
      BY <2>0, <2>3, <3>1, <3>3, <3>4 DEF TreeRight
  <2>4. CASE u = tb /\ tb \in stale_tree'
    <3>1. rows[tb] \in Seq(Ids)
      BY DEF StorageInv, TypeOK
    <3>2. Positive(rows[tb]) \subseteq Positive(rows'[tb])
      BY <1>1, <3>1, PositiveAppend
    <3> QED
      BY <2>0, <2>4, <3>2 DEF TreeRight
  <2> QED
    BY <2>1, <2>2, <2>3, <2>4
<1> QED
  BY <1>2, <1>3 DEF TreeInv

\* bptree_insert under the number of the new row keeps the tree right, unless
\* the meta entry was wrong or the tree had been destroyed: Misindexes tells.
LEMMA RowIndexed ==
  ASSUME StorageInv, NEW tb \in id_tables, NEW id \in Nat, NEW row \in Nat,
         tb \notin stale_meta => row = Len(rows[tb]),
         AppendRow(tb, id, row), IndexRow(tb, id, row), Misindexes(tb),
         UNCHANGED <<rebuilt, lost>>
  PROVE  /\ indexed' \subseteq id_tables /\ Cardinality(indexed') <= TreeMax
         /\ \A u \in Tables : /\ DOMAIN tree'[u] \subseteq Ids
                              /\ \A i \in DOMAIN tree'[u] : tree'[u][i] \in Nat
         /\ ShapeInv' /\ TreeInv'
         /\ stale_tree' \subseteq Tables
<1>0. tb \in Tables /\ id \in Ids /\ indexed \in SUBSET Tables /\ rows[tb] \in Seq(Ids)
  BY StorageAssumption DEF StorageInv, TypeOK, Ids
<1>0a. stale_tree \subseteq stale_tree' /\ stale_tree' \subseteq stale_tree \cup {tb}
  BY DEF Misindexes
<1>1. /\ rows'[tb] = Append(rows[tb], id) /\ exists' = exists \cup {tb}
      /\ \A u \in Tables \ {tb} : rows'[u] = rows[u]
  BY <1>0, RowAppended DEF StorageInv
<1>2. CASE ~RoomForTree(tb)
  <2>1. UNCHANGED <<indexed, tree>> /\ tb \notin indexed
    BY <1>2 DEF IndexRow, RoomForTree
  <2>2. ShapeInv' /\ TreeInv'
    BY <1>0, <1>0a, <2>1, RowUnindexed DEF AppendRow
  <2> QED
    BY <1>0, <1>0a, <2>1, <2>2 DEF StorageInv, TypeOK
<1>3. CASE RoomForTree(tb)
  <2> DEFINE new == Overlay([i \in {id} |-> row], tree[tb])
  <2>1. /\ indexed' = indexed \cup {tb}
        /\ tree' = [tree EXCEPT ![tb] = new]
    BY <1>3 DEF IndexRow
  <2>2. Cardinality(indexed') <= TreeMax
    BY <1>0, <1>3, <2>1, TableSets, StorageAssumption DEF StorageInv, TypeOK, RoomForTree
  <2>3. /\ DOMAIN new = {id} \cup DOMAIN tree[tb]
        /\ new[id] = row
        /\ \A i \in DOMAIN tree[tb] \ {id} : new[i] = tree[tb][i]
    BY DEF Overlay
  <2> HIDE DEF new
  <2>4. DOMAIN tree = Tables /\ lost \subseteq stale_tree
    BY DEF StorageInv, ShapeInv
  <2>5. tree'[tb] = new /\ \A u \in Tables \ {tb} : tree'[u] = tree[u]
    BY <1>0, <2>1, <2>4
  <2>6. \A u \in Tables : /\ DOMAIN tree'[u] \subseteq Ids
                          /\ \A i \in DOMAIN tree'[u] : tree'[u][i] \in Nat
    BY <1>0, <2>3, <2>5 DEF StorageInv, TypeOK
  <2>7. ShapeInv'
    <3>1. DOMAIN tree' = Tables
      BY <2>1, <2>4
    <3>2. \A u \in Tables \ indexed' : DOMAIN tree'[u] = {}
      BY <2>1, <2>5 DEF StorageInv, ShapeInv
    <3>3. \A u \in Tables \ exists' : rows'[u] = <<>>
      BY <1>1 DEF StorageInv, ShapeInv
    <3> QED
      BY <1>0a, <2>4, <3>1, <3>2, <3>3 DEF ShapeInv
  <2>8. ASSUME NEW u \in Tables PROVE TreeRight(u)'
    <3>0. TreeRight(u)
      BY DEF StorageInv, TreeInv
    <3>1. CASE u # tb
      BY <1>0a, <1>1, <2>1, <2>5, <3>0, <3>1 DEF TreeRight
    <3>2. CASE u = tb
      <4>1. Positive(rows'[tb]) = Positive(rows[tb]) \cup ({id} \cap (Nat \ {0}))
        BY <1>0, <1>1, PositiveAppend
      <4>2. /\ id > 0 => LastRow(rows'[tb], id) = Len(rows[tb])
            /\ \A i \in Positive(rows[tb]) \ {id} :
                   LastRow(rows'[tb], i) = LastRow(rows[tb], i)
        BY <1>0, <1>1, LastRowAppend
      <4>3. tb \notin lost' => \A i \in DOMAIN tree'[tb] : i > 0 => i \in Positive(rows'[tb])
        BY <2>3, <2>5, <3>0, <3>2, <4>1 DEF TreeRight
      <4>4. tb \notin stale_tree' =>
               /\ tb \notin stale_tree /\ tb \notin lost /\ row = Len(rows[tb])
               /\ tb \in rebuilt => tb \in indexed
        BY <1>0a, <2>4 DEF Misindexes
      <4>5. tb \notin stale_tree' =>
               \A i \in DOMAIN tree'[tb] : i > 0 => tree'[tb][i] = LastRow(rows'[tb], i)
        BY <2>3, <2>5, <3>0, <3>2, <4>2, <4>4 DEF TreeRight
      <4>6. tb \in (rebuilt' \cap indexed') \ stale_tree' =>
               Positive(rows'[tb]) \subseteq DOMAIN tree'[tb]
        BY <2>3, <2>5, <3>0, <3>2, <4>1, <4>4 DEF TreeRight
      <4> QED
        BY <3>2, <4>3, <4>5, <4>6 DEF TreeRight
    <3> QED
      BY <3>1, <3>2
  <2>9. indexed' \subseteq id_tables /\ stale_tree' \subseteq Tables
    BY <1>0, <1>0a, <2>1 DEF StorageInv, TypeOK
  <2> QED
    BY <2>2, <2>6, <2>7, <2>8, <2>9 DEF TreeInv
<1> QED
  BY <1>2, <1>3

-----------------------------------------------------------------------------
(* Every step keeps the invariant                                          *)

\* An empty data directory and empty caches.
LEMMA InitStorage ==
  ASSUME Init PROVE StorageInv
<1>1. Cardinality({}) = 0
  BY FS_EmptySet
<1>2. TypeOK
  <2>1. rows \in [Tables -> Seq(Ids)]
    BY DEF Init
  <2>2. append_fp \in Seq(Tables) /\ Len(append_fp) <= FpMax
    BY StorageAssumption DEF Init
  <2>3. \A tb \in Tables : DOMAIN tree[tb] = {}
    BY DEF Init, NoTree
  <2> QED
    BY <1>1, <2>1, <2>2, <2>3, StorageAssumption DEF Init, TypeOK
<1>3. ShapeInv /\ TreeInv /\ MetaInv
  BY DEF Init, NoTree, ShapeInv, TreeInv, TreeRight, MetaInv, AutoIdsFresh
<1> QED
  BY <1>2, <1>3 DEF StorageInv

\* The scan of storage_ensure_index fills the tree and the meta entry.
LEMMA SelectKeeps ==
  ASSUME StorageInv, NEW tb \in Tables, Select(tb)
  PROVE  StorageInv'
<1>0. /\ TypeOK /\ MetaInv /\ ShapeInv /\ TreeInv
      /\ rows[tb] \in Seq(Ids) /\ indexed \in SUBSET Tables /\ rebuilt \in SUBSET Tables
      /\ MetaMax \in Nat /\ TreeMax \in Nat
  BY StorageAssumption DEF StorageInv, TypeOK
<1>1. /\ rows' = rows /\ id_tables' = id_tables /\ schema' = schema
      /\ exists' = exists /\ append_fp' = append_fp /\ lost' = lost
  BY DEF Select, EnsureIndex, fileVars, schemaVars
<1>2. /\ TopId(rows[tb]) \in Nat /\ Len(rows[tb]) \in Nat
      /\ TopId(rows[tb]) + 1 > TopId(rows[tb])
  <2>1. TopId(rows[tb]) \in Nat
    BY <1>0, TopIdIsTop DEF Positive
  <2> QED
    BY <1>0, <2>1
<1>3. /\ cached' \subseteq id_tables /\ Cardinality(cached') <= MetaMax
      /\ next_id' \in [Tables -> Nat] /\ next_row_idx' \in [Tables -> Nat]
      /\ stale_meta' \subseteq Tables /\ chosen' \subseteq Tables \X Ids
      /\ MetaInv'
  <2>1. CASE Scans(tb) /\ tb \in exists /\ RoomInMeta(tb)
    <3>1. SetMeta(tb, TopId(rows[tb]) + 1, Len(rows[tb]))
      BY <2>1 DEF Select, EnsureIndex
    <3>2. stale_meta' = stale_meta \ {tb} /\ chosen' = Unchosen(tb)
      BY <2>1 DEF Select, EnsureIndex
    <3>3. tb \in id_tables
      BY <2>1 DEF Scans
    <3>4. /\ cached' \subseteq id_tables /\ Cardinality(cached') <= MetaMax
          /\ next_id' \in [Tables -> Nat] /\ next_row_idx' \in [Tables -> Nat]
          /\ cached' = cached \cup {tb}
          /\ next_id'[tb] = TopId(rows[tb]) + 1 /\ next_row_idx'[tb] = Len(rows[tb])
          /\ \A u \in Tables \ {tb} : /\ next_id'[u] = next_id[u]
                                      /\ next_row_idx'[u] = next_row_idx[u]
      BY <1>0, <1>2, <2>1, <3>1, <3>3, SetMetaSets
    <3>5. cached \subseteq Tables
      BY <1>0, StorageAssumption DEF TypeOK
    <3>6. /\ chosen' \subseteq Tables \X Ids
          /\ \A u \in Tables \ {tb} :
                 \A i : <<u, i>> \in chosen => <<u, i>> \in chosen'
      BY <1>0, <3>2, OthersStayChosen DEF TypeOK
    <3>7. \A i \in Positive(rows[tb]) : ~(i >= TopId(rows[tb]) + 1)
      BY <1>0, NoneAboveTop
    <3>8. MetaInv'
      <4> SUFFICES ASSUME NEW u \in cached' \ stale_meta'
                   PROVE  /\ next_row_idx'[u] = Len(rows'[u])
                          /\ \A i \in Positive(rows'[u]) :
                                 i >= next_id'[u] => <<u, i>> \in chosen'
        BY DEF MetaInv, AutoIdsFresh, Leads
      <4>1. CASE u = tb
        BY <1>1, <3>4, <3>7, <4>1
      <4>2. CASE u # tb
        <5>1. u \in cached \ stale_meta /\ u \in Tables \ {tb}
          BY <3>2, <3>4, <3>5, <4>2
        <5> QED
          BY <1>0, <1>1, <3>4, <3>6, <5>1 DEF MetaInv, AutoIdsFresh, Leads
      <4> QED
        BY <4>1, <4>2
    <3> QED
      BY <1>0, <3>2, <3>4, <3>6, <3>8 DEF TypeOK
  <2>2. CASE ~(Scans(tb) /\ tb \in exists /\ RoomInMeta(tb))
    <3>1. UNCHANGED <<cached, next_id, next_row_idx, stale_meta, chosen>>
      BY <2>2 DEF Select, EnsureIndex, metaVars
    <3>2. MetaInv'
      BY <1>0, <1>1, <3>1 DEF MetaInv, AutoIdsFresh, Leads
    <3> QED
      BY <1>0, <3>1, <3>2 DEF TypeOK
  <2> QED
    BY <2>1, <2>2
<1>4. rebuilt' \subseteq Tables /\ Cardinality(rebuilt') <= MetaMax
  <2>1. CASE rebuilt' = rebuilt
    BY <1>0, <2>1 DEF TypeOK
  <2>2. CASE rebuilt' = rebuilt \cup {tb} /\ Cardinality(rebuilt) < MetaMax
    BY <1>0, <2>2, TableSets DEF TypeOK
  <2> QED
    BY <2>1, <2>2 DEF Select, EnsureIndex
<1>5. CASE ~Scans(tb)
  <2>1. UNCHANGED <<indexed, tree, stale_tree>>
    BY <1>5 DEF Select, EnsureIndex
  <2>2. rebuilt' \cap id_tables = rebuilt \cap id_tables
    BY <1>5 DEF Select, EnsureIndex
  <2>3. ShapeInv'
    BY <1>0, <1>1, <2>1 DEF ShapeInv
  <2>4. TreeInv'
    BY <1>0, <1>1, <2>1, <2>2 DEF TreeInv, TreeRight, TypeOK
  <2>5. TypeOK'
    BY <1>0, <1>1, <1>3, <1>4, <2>1 DEF TypeOK
  <2> QED
    BY <1>3, <2>3, <2>4, <2>5 DEF StorageInv
<1>6. CASE Scans(tb)
  <2> DEFINE new == ScannedTree(tb)
  <2>1. /\ indexed' = indexed \cup {tb} /\ tree' = [tree EXCEPT ![tb] = new]
        /\ stale_tree' = IF tb \in exists \ lost THEN stale_tree \ {tb} ELSE stale_tree
        /\ rebuilt' \subseteq rebuilt \cup {tb}
        /\ rebuilt \subseteq rebuilt'
    BY <1>6 DEF Select, EnsureIndex
  <2>2. tb \in id_tables /\ RoomForTree(tb)
    BY <1>6 DEF Scans
  <2>3. indexed' \subseteq id_tables /\ Cardinality(indexed') <= TreeMax
    BY <1>0, <2>1, <2>2, TableSets DEF TypeOK, RoomForTree
  <2>4. /\ tree'[tb] = new /\ \A u \in Tables \ {tb} : tree'[u] = tree[u]
        /\ DOMAIN tree' = Tables
    BY <1>0, <2>1 DEF ShapeInv
  <2>5. \/ /\ tb \in exists
           /\ DOMAIN new = Positive(rows[tb]) \cup DOMAIN tree[tb]
           /\ \A i \in Positive(rows[tb]) : new[i] = LastRow(rows[tb], i) /\ new[i] \in Nat
           /\ \A i \in DOMAIN tree[tb] \ Positive(rows[tb]) : new[i] = tree[tb][i]
        \/ tb \notin exists /\ new = tree[tb] /\ Positive(rows[tb]) = {}
    <3>1. CASE tb \in exists
      <4>1. new = Overlay(IndexOf(rows[tb]), tree[tb])
        BY <3>1 DEF ScannedTree
      <4>2. /\ DOMAIN IndexOf(rows[tb]) = Positive(rows[tb])
            /\ \A i \in Positive(rows[tb]) : /\ IndexOf(rows[tb])[i] = LastRow(rows[tb], i)
                                             /\ IndexOf(rows[tb])[i] \in Nat
        BY <1>0, IndexOfScan
      <4> HIDE DEF new
      <4> QED
        BY <3>1, <4>1, <4>2 DEF Overlay
    <3>2. CASE tb \notin exists
      <4>1. rows[tb] = <<>>
        BY <1>0, <3>2 DEF ShapeInv
      <4> QED
        BY <3>2, <4>1 DEF ScannedTree, Positive
    <3> QED
      BY <3>1, <3>2
  <2> HIDE DEF new
  <2>6. Positive(rows[tb]) \subseteq Ids
    BY <1>0, IndexOfScan
  <2>7. \A u \in Tables : /\ DOMAIN tree'[u] \subseteq Ids
                          /\ \A i \in DOMAIN tree'[u] : tree'[u][i] \in Nat
    BY <1>0, <2>4, <2>5, <2>6 DEF TypeOK
  <2>8. lost \subseteq stale_tree /\ lost' \subseteq stale_tree'
    BY <1>0, <1>1, <2>1 DEF ShapeInv
  <2>9. ShapeInv'
    BY <1>0, <1>1, <2>1, <2>4, <2>8 DEF ShapeInv
  <2>10. ASSUME NEW u \in Tables PROVE TreeRight(u)'
    <3>0. TreeRight(u)
      BY <1>0 DEF TreeInv
    <3>1. CASE u # tb
      BY <1>1, <2>1, <2>4, <3>0, <3>1 DEF TreeRight
    <3>2. CASE u = tb /\ tb \in exists
      <4>1. tb \notin lost =>
               \A i \in DOMAIN tree'[tb] : i > 0 => i \in Positive(rows[tb])
        BY <2>4, <2>5, <3>0, <3>2 DEF TreeRight
      <4>2. tb \notin stale_tree' => tb \notin lost
        BY <1>1, <2>8
      <4>3. tb \notin stale_tree' =>
               \A i \in DOMAIN tree'[tb] : i > 0 => tree'[tb][i] = LastRow(rows[tb], i)
        BY <2>4, <2>5, <3>2, <4>1, <4>2
      <4>4. Positive(rows[tb]) \subseteq DOMAIN tree'[tb]
        BY <2>4, <2>5, <3>2
      <4> QED
        BY <1>1, <3>2, <4>1, <4>3, <4>4 DEF TreeRight
    <3>3. CASE u = tb /\ tb \notin exists
      <4>1. tree'[tb] = tree[tb] /\ stale_tree' = stale_tree /\ Positive(rows[tb]) = {}
        BY <2>1, <2>4, <2>5, <3>3
      <4> QED
        BY <1>1, <3>0, <3>3, <4>1 DEF TreeRight
    <3> QED
      BY <3>1, <3>2, <3>3
  <2>11. TypeOK'
    BY <1>0, <1>1, <1>3, <1>4, <2>1, <2>3, <2>7 DEF TypeOK
  <2> QED
    BY <1>3, <2>9, <2>10, <2>11 DEF StorageInv, TreeInv
<1> QED
  BY <1>5, <1>6

\* An INSERT stores a new meta entry; it is right if the row number and the
\* id in it fit the file the INSERT leaves, and those of other tables stay so.
LEMMA MetaKept ==
  ASSUME TypeOK, MetaInv, NEW tb \in id_tables, RoomInMeta(tb),
         NEW id \in Nat, NEW row \in Nat, SetMeta(tb, id, row),
         \A u \in Tables \ {tb} : rows'[u] = rows[u],
         stale_meta \subseteq stale_meta',
         \A u \in Tables \ {tb} : \A i : <<u, i>> \in chosen => <<u, i>> \in chosen',
         tb \notin stale_meta' => row = Len(rows'[tb]),
         tb \notin stale_meta' =>
             \A i \in Positive(rows'[tb]) : i >= id => <<tb, i>> \in chosen'
  PROVE  /\ cached' \subseteq id_tables /\ Cardinality(cached') <= MetaMax
         /\ next_id' \in [Tables -> Nat] /\ next_row_idx' \in [Tables -> Nat]
         /\ MetaInv'
<1>1. /\ cached' \subseteq id_tables /\ Cardinality(cached') <= MetaMax
      /\ next_id' \in [Tables -> Nat] /\ next_row_idx' \in [Tables -> Nat]
      /\ cached' = cached \cup {tb}
      /\ next_id'[tb] = id /\ next_row_idx'[tb] = row
      /\ \A u \in Tables \ {tb} : /\ next_id'[u] = next_id[u]
                                  /\ next_row_idx'[u] = next_row_idx[u]
  BY SetMetaSets
<1>2. cached \subseteq Tables
  BY StorageAssumption DEF TypeOK
<1>3. MetaInv'
  BY <1>1, <1>2 DEF MetaInv, AutoIdsFresh, Leads
<1> QED
  BY <1>1, <1>3

\* INSERT without an id: row number and id follow those in the file.
LEMMA InsertAutoKeeps ==
  ASSUME StorageInv, NEW tb \in Tables, InsertAuto(tb)
  PROVE  StorageInv'
<1> DEFINE id == AutoId(tb)
           row == AutoRow(tb)
<1>0. /\ TypeOK /\ MetaInv /\ tb \in id_tables /\ RoomInMeta(tb)
      /\ rows[tb] \in Seq(Ids)
  BY DEF StorageInv, InsertAuto, TypeOK
<1>1. /\ id \in Nat /\ row \in Nat
      /\ tb \notin stale_meta => row = Len(rows[tb])
      /\ tb \notin stale_meta =>
             \A i \in Positive(rows[tb]) : i >= id => <<tb, i>> \in chosen
  BY <1>0, MetaFound DEF Leads
<1>2. /\ AppendRow(tb, id, row) /\ IndexRow(tb, id, row) /\ Misindexes(tb)
      /\ SetMeta(tb, id + 1, row + 1)
      /\ chosen' = chosen \ {<<tb, id>>}
      /\ UNCHANGED <<rebuilt, stale_meta, lost>>
  BY DEF InsertAuto
<1> HIDE DEF id, row
<1>3. id \in Ids /\ id + 1 \in Nat /\ row + 1 \in Nat
  BY <1>1 DEF Ids
<1>4. /\ rows' \in [Tables -> Seq(Ids)]
      /\ rows'[tb] = Append(rows[tb], id)
      /\ \A u \in Tables \ {tb} : rows'[u] = rows[u]
      /\ schema' \subseteq Tables /\ exists' \subseteq Tables
      /\ id_tables' = id_tables
      /\ append_fp' \in Seq(Tables) /\ Len(append_fp') <= FpMax
  BY <1>0, <1>2, <1>3, RowAppended
<1>5. tb \notin stale_meta' => row + 1 = Len(rows'[tb])
  BY <1>0, <1>1, <1>2, <1>4
<1>6. tb \notin stale_meta' =>
          \A i \in Positive(rows'[tb]) : i >= id + 1 => <<tb, i>> \in chosen'
  <2> SUFFICES ASSUME tb \notin stale_meta, NEW i \in Positive(rows'[tb]), i >= id + 1
               PROVE  <<tb, i>> \in chosen'
    BY <1>2
  <2>1. i \in Nat /\ i # id /\ i >= id
    BY <1>1 DEF Positive
  <2>2. i \in Positive(rows[tb])
    BY <1>0, <1>3, <1>4, <2>1, PositiveAppend
  <2>3. <<tb, i>> \in chosen
    BY <1>1, <2>1, <2>2
  <2> QED
    BY <1>2, <2>1, <2>3
<1>7. /\ cached' \subseteq id_tables /\ Cardinality(cached') <= MetaMax
      /\ next_id' \in [Tables -> Nat] /\ next_row_idx' \in [Tables -> Nat]
      /\ MetaInv'
  <2>1. \A u \in Tables \ {tb} :
            \A i : <<u, i>> \in chosen => <<u, i>> \in chosen'
    BY <1>2
  <2> QED
    BY <1>0, <1>2, <1>3, <1>4, <1>5, <1>6, <2>1, MetaKept
<1>8. /\ indexed' \subseteq id_tables /\ Cardinality(indexed') <= TreeMax
      /\ \A u \in Tables : /\ DOMAIN tree'[u] \subseteq Ids
                           /\ \A i \in DOMAIN tree'[u] : tree'[u][i] \in Nat
      /\ ShapeInv' /\ TreeInv'
      /\ stale_tree' \subseteq Tables
  BY <1>0, <1>1, <1>2, RowIndexed
<1>9. TypeOK'
  BY <1>0, <1>2, <1>4, <1>7, <1>8 DEF TypeOK
<1> QED
  BY <1>7, <1>8, <1>9 DEF StorageInv

\* INSERT with an id of its own, also one that is no number.
LEMMA InsertUserKeeps ==
  ASSUME StorageInv, NEW tb \in Tables, NEW id \in UserIds, InsertUser(tb, id)
  PROVE  StorageInv'
<1> DEFINE row == MetaRow(tb)
<1>0. /\ TypeOK /\ MetaInv /\ tb \in id_tables
      /\ rows[tb] \in Seq(Ids) /\ id \in Ids
  BY StorageAssumption DEF StorageInv, InsertUser, TypeOK
<1>1. /\ MetaId(tb) \in Nat /\ row \in Nat
      /\ tb \notin stale_meta => row = Len(rows[tb])
      /\ tb \notin stale_meta =>
             \A i \in Positive(rows[tb]) : i >= MetaId(tb) => <<tb, i>> \in chosen
  BY <1>0, MetaFound DEF Leads
<1>2. /\ AppendRow(tb, id, row)
      /\ IF ~RoomInMeta(tb) THEN UNCHANGED <<cached, next_id, next_row_idx>>
         ELSE SetMeta(tb, MetaId(tb), row + (IF id = Garbled THEN 0 ELSE 1))
      /\ stale_meta' = stale_meta \cup
            (IF id = Garbled /\ RoomInMeta(tb) THEN {tb} ELSE {})
      /\ chosen' = chosen \cup
            (IF RoomInMeta(tb) /\ tb \notin stale_meta /\ id >= MetaId(tb)
             THEN {<<tb, id>>} ELSE {})
      /\ UNCHANGED <<rebuilt, lost>>
  BY DEF InsertUser, metaVars
<1>3. /\ id = Garbled => UNCHANGED <<indexed, tree, stale_tree>>
      /\ id # Garbled => IndexRow(tb, id, row) /\ Misindexes(tb)
  BY DEF InsertUser
<1> HIDE DEF row
<1>4. /\ rows' \in [Tables -> Seq(Ids)]
      /\ rows'[tb] = Append(rows[tb], id)
      /\ \A u \in Tables \ {tb} : rows'[u] = rows[u]
      /\ schema' \subseteq Tables /\ exists' \subseteq Tables
      /\ id_tables' = id_tables
      /\ append_fp' \in Seq(Tables) /\ Len(append_fp') <= FpMax
  BY <1>0, <1>2, RowAppended
<1>5. /\ cached' \subseteq id_tables /\ Cardinality(cached') <= MetaMax
      /\ next_id' \in [Tables -> Nat] /\ next_row_idx' \in [Tables -> Nat]
      /\ MetaInv'
  <2>1. CASE ~RoomInMeta(tb)
    <3>1. tb \notin cached /\ UNCHANGED <<cached, next_id, next_row_idx>>
      BY <1>2, <2>1 DEF RoomInMeta
    <3>2. cached \subseteq Tables
      BY <1>0, StorageAssumption DEF TypeOK
    <3>3. MetaInv'
      BY <1>0, <1>2, <1>4, <2>1, <3>1, <3>2 DEF MetaInv, AutoIdsFresh, Leads
    <3> QED
      BY <1>0, <3>1, <3>3 DEF TypeOK
  <2>2. CASE RoomInMeta(tb)
    <3> DEFINE next == row + (IF id = Garbled THEN 0 ELSE 1)
    <3>1. SetMeta(tb, MetaId(tb), next)
      BY <1>2, <2>2
    <3>2. tb \notin stale_meta' => next = Len(rows'[tb])
      BY <1>0, <1>1, <1>2, <1>4, <2>2
    <3>3. next \in Nat
      BY <1>1
    <3>4. stale_meta \subseteq stale_meta' /\ chosen \subseteq chosen'
      BY <1>2
    <3>5. tb \notin stale_meta' =>
              \A i \in Positive(rows'[tb]) : i >= MetaId(tb) => <<tb, i>> \in chosen'
      <4> SUFFICES ASSUME tb \notin stale_meta, NEW i \in Positive(rows'[tb]),
                          i >= MetaId(tb)
                   PROVE  <<tb, i>> \in chosen'
        BY <3>4
      <4>1. i \in Positive(rows[tb]) \/ i = id
        BY <1>0, <1>4, PositiveAppend
      <4>2. CASE i \in Positive(rows[tb])
        BY <1>1, <3>4, <4>2
      <4>3. CASE i = id
        BY <1>2, <2>2, <4>3
      <4> QED
        BY <4>1, <4>2, <4>3
    <3> HIDE DEF next
    <3> QED
      BY <1>0, <1>1, <1>4, <2>2, <3>1, <3>2, <3>3, <3>4, <3>5, MetaKept
  <2> QED
    BY <2>1, <2>2
<1>6. /\ indexed' \subseteq id_tables /\ Cardinality(indexed') <= TreeMax
      /\ \A u \in Tables : /\ DOMAIN tree'[u] \subseteq Ids
                           /\ \A i \in DOMAIN tree'[u] : tree'[u][i] \in Nat
      /\ ShapeInv' /\ TreeInv'
      /\ stale_tree' \subseteq Tables
  <2>1. CASE id = Garbled
    <3>1. ShapeInv' /\ TreeInv'
      BY <1>0, <1>2, <1>3, <2>1, RowUnindexed DEF AppendRow
    <3> QED
      BY <1>0, <1>3, <2>1, <3>1 DEF TypeOK
  <2>2. CASE id # Garbled
    <3>1. id \in Nat
      BY <1>0, <2>2 DEF Ids
    <3> QED
      BY <1>0, <1>1, <1>2, <1>3, <2>2, <3>1, RowIndexed
  <2> QED
    BY <2>1, <2>2
<1>7. stale_meta' \subseteq Tables /\ chosen' \subseteq Tables \X Ids
  BY <1>0, <1>2 DEF TypeOK
<1>8. TypeOK'
  BY <1>0, <1>2, <1>4, <1>5, <1>6, <1>7 DEF TypeOK
<1> QED
  BY <1>5, <1>6, <1>8 DEF StorageInv

\* A table without an id column has neither a meta entry nor a tree.
LEMMA InsertPlainKeeps ==
  ASSUME StorageInv, NEW tb \in Tables, InsertPlain(tb)
  PROVE  StorageInv'
<1>0. TypeOK /\ MetaInv /\ 0 \in Ids /\ tb \notin id_tables
  BY DEF StorageInv, Ids, InsertPlain
<1>1. /\ AppendRow(tb, 0, Len(rows[tb]))
      /\ UNCHANGED <<cached, next_id, next_row_idx, indexed, tree, rebuilt,
                     stale_meta, stale_tree, lost, chosen>>
  BY DEF InsertPlain, metaVars, indexVars, historyVars
<1>2. tb \notin indexed /\ tb \notin cached /\ cached \subseteq Tables
  BY <1>0, StorageAssumption DEF TypeOK
<1>3. ShapeInv' /\ TreeInv'
  BY <1>0, <1>1, <1>2, RowUnindexed DEF AppendRow
<1>4. /\ rows' \in [Tables -> Seq(Ids)]
      /\ \A u \in Tables \ {tb} : rows'[u] = rows[u]
      /\ schema' \subseteq Tables /\ exists' \subseteq Tables
      /\ id_tables' = id_tables
      /\ append_fp' \in Seq(Tables) /\ Len(append_fp') <= FpMax
  BY <1>0, <1>1, RowAppended
<1>5. MetaInv'
  BY <1>0, <1>1, <1>2, <1>4 DEF MetaInv, AutoIdsFresh, Leads
<1>6. TypeOK'
  BY <1>0, <1>1, <1>4 DEF TypeOK
<1> QED
  BY <1>3, <1>5, <1>6 DEF StorageInv

\* The meta entry of an INSERT that fails later fits the file it leaves alone.
LEMMA PreparedKeeps ==
  ASSUME TypeOK, MetaInv, NEW tb \in id_tables, RoomInMeta(tb), MetaPrepared(tb),
         UNCHANGED <<rows, stale_meta, chosen>>
  PROVE  /\ cached' \subseteq id_tables /\ Cardinality(cached') <= MetaMax
         /\ next_id' \in [Tables -> Nat] /\ next_row_idx' \in [Tables -> Nat]
         /\ MetaInv'
<1>0. tb \in Tables
  BY StorageAssumption DEF TypeOK
<1>1. /\ MetaId(tb) \in Nat /\ MetaRow(tb) \in Nat
      /\ AutoId(tb) \in Nat /\ AutoRow(tb) \in Nat
      /\ tb \notin stale_meta =>
             MetaRow(tb) = Len(rows[tb]) /\ AutoRow(tb) = Len(rows[tb])
      /\ tb \notin stale_meta =>
             /\ \A i \in Positive(rows[tb]) : i >= MetaId(tb) => <<tb, i>> \in chosen
             /\ \A i \in Positive(rows[tb]) : i >= AutoId(tb) => <<tb, i>> \in chosen
  BY <1>0, MetaFound DEF Leads
<1>2. CASE SetMeta(tb, MetaId(tb), MetaRow(tb))
  BY <1>1, <1>2, MetaKept
<1>3. CASE SetMeta(tb, AutoId(tb), AutoRow(tb))
  BY <1>1, <1>3, MetaKept
<1> QED
  BY <1>2, <1>3 DEF MetaPrepared

\* An INSERT that is rejected has changed the meta cache only.
LEMMA InsertRejectedKeeps ==
  ASSUME StorageInv, NEW tb \in Tables, InsertRejected(tb)
  PROVE  StorageInv'
<1>1. /\ TypeOK /\ MetaInv /\ ShapeInv /\ TreeInv
      /\ tb \in id_tables /\ RoomInMeta(tb) /\ MetaPrepared(tb)
  BY DEF StorageInv, InsertRejected
<1>2. UNCHANGED <<schema, id_tables, exists, rows, indexed, tree, rebuilt, append_fp,
                  stale_meta, stale_tree, lost, chosen>>
  BY DEF InsertRejected, fileVars, schemaVars, indexVars, historyVars
<1>3. /\ cached' \subseteq id_tables /\ Cardinality(cached') <= MetaMax
      /\ next_id' \in [Tables -> Nat] /\ next_row_idx' \in [Tables -> Nat]
      /\ MetaInv'
  BY <1>1, <1>2, PreparedKeeps
<1>4. TypeOK'
  BY <1>1, <1>2, <1>3 DEF TypeOK
<1>5. ShapeInv' /\ TreeInv'
  BY <1>1, <1>2 DEF ShapeInv, TreeInv, TreeRight
<1> QED
  BY <1>3, <1>4, <1>5 DEF StorageInv

\* An INSERT whose file cannot be written may have closed another one.
LEMMA InsertUnwrittenKeeps ==
  ASSUME StorageInv, NEW tb \in Tables, InsertUnwritten(tb)
  PROVE  StorageInv'
<1>1. TypeOK /\ MetaInv /\ ShapeInv /\ TreeInv
  BY DEF StorageInv
<1>2. /\ UNCHANGED <<schema, id_tables, rows, indexed, tree, rebuilt,
                     stale_meta, stale_tree, lost, chosen>>
      /\ exists \subseteq exists' /\ exists' \subseteq exists \cup {tb}
      /\ append_fp' = Closed(Opened(tb), tb)
  BY DEF InsertUnwritten, schemaVars, indexVars, historyVars
<1>3. /\ cached' \subseteq id_tables /\ Cardinality(cached') <= MetaMax
      /\ next_id' \in [Tables -> Nat] /\ next_row_idx' \in [Tables -> Nat]
      /\ MetaInv'
  <2>1. CASE tb \in id_tables /\ RoomInMeta(tb)
    <3>1. MetaPrepared(tb)
      BY <2>1 DEF InsertUnwritten
    <3> QED
      BY <1>1, <1>2, <2>1, <3>1, PreparedKeeps
  <2>2. CASE ~(tb \in id_tables /\ RoomInMeta(tb))
    <3>1. UNCHANGED <<cached, next_id, next_row_idx>>
      BY <2>2 DEF InsertUnwritten, metaVars
    <3> QED
      BY <1>1, <1>2, <3>1 DEF TypeOK, MetaInv, AutoIdsFresh, Leads
  <2> QED
    BY <2>1, <2>2
<1>4. append_fp' \in Seq(Tables) /\ Len(append_fp') <= FpMax
  <2>1. Opened(tb) \in Seq(Tables) /\ Len(Opened(tb)) <= FpMax
    BY <1>1, OpenedFits DEF TypeOK
  <2> QED
    BY <1>2, <2>1, ClosedFits
<1>5. TypeOK'
  BY <1>1, <1>2, <1>3, <1>4 DEF TypeOK
<1>6. ShapeInv' /\ TreeInv'
  BY <1>1, <1>2 DEF ShapeInv, TreeInv, TreeRight
<1> QED
  BY <1>3, <1>5, <1>6 DEF StorageInv

\* A row that an INSERT wrote although it failed: the tree and the meta entry
\* that do not know of it count as wrong from then on.
LEMMA RowUnnoticedKeeps ==
  ASSUME StorageInv, NEW tb \in Tables, NEW id \in Ids, RowUnnoticed(tb, id),
         \/ /\ tb \in id_tables /\ RoomInMeta(tb)
            /\ \E next, row \in Nat : SetMeta(tb, next, row)
         \/ /\ ~(tb \in id_tables /\ RoomInMeta(tb))
            /\ UNCHANGED metaVars
  PROVE  StorageInv'
<1>0. TypeOK /\ MetaInv /\ cached \subseteq id_tables /\ id_tables \subseteq Tables
  BY StorageAssumption DEF StorageInv, TypeOK
<1>1. /\ RowInFile(tb, id)
      /\ append_fp' = Closed(Opened(tb), tb)
      /\ stale_meta' = stale_meta \cup
            (IF tb \in id_tables /\ RoomInMeta(tb) THEN {tb} ELSE {})
      /\ stale_tree' = stale_tree \cup (indexed \cap {tb})
      /\ chosen' = Unchosen(tb)
      /\ UNCHANGED <<indexed, tree, rebuilt, lost>>
  BY DEF RowUnnoticed, indexVars
<1>2. /\ rows' \in [Tables -> Seq(Ids)]
      /\ \A u \in Tables \ {tb} : rows'[u] = rows[u]
      /\ schema' \subseteq Tables /\ exists' \subseteq Tables
      /\ id_tables' = id_tables
  BY <1>0, <1>1, RowWritten
<1>3. /\ chosen' \subseteq Tables \X Ids
      /\ \A u \in Tables \ {tb} :
             \A i : <<u, i>> \in chosen => <<u, i>> \in chosen'
  BY <1>0, <1>1, OthersStayChosen DEF TypeOK
<1>4. /\ cached' \subseteq id_tables /\ Cardinality(cached') <= MetaMax
      /\ next_id' \in [Tables -> Nat] /\ next_row_idx' \in [Tables -> Nat]
      /\ MetaInv'
  <2>1. CASE tb \in id_tables /\ RoomInMeta(tb)
    <3>1. PICK next, row \in Nat : SetMeta(tb, next, row)
      BY <2>1
    <3>2. stale_meta \subseteq stale_meta' /\ tb \in stale_meta'
      BY <1>1, <2>1
    <3> QED
      BY <1>0, <1>2, <1>3, <2>1, <3>1, <3>2, MetaKept
  <2>2. CASE ~(tb \in id_tables /\ RoomInMeta(tb))
    <3>1. UNCHANGED <<cached, next_id, next_row_idx>> /\ tb \notin cached
      BY <1>0, <2>2 DEF metaVars, RoomInMeta
    <3>2. MetaInv'
      BY <1>0, <1>1, <1>2, <1>3, <2>2, <3>1 DEF MetaInv, AutoIdsFresh, Leads
    <3> QED
      BY <1>0, <3>1, <3>2 DEF TypeOK
  <2> QED
    BY <2>1, <2>2
<1>5. append_fp' \in Seq(Tables) /\ Len(append_fp') <= FpMax
  <2>1. Opened(tb) \in Seq(Tables) /\ Len(Opened(tb)) <= FpMax
    BY <1>0, OpenedFits DEF TypeOK
  <2> QED
    BY <1>1, <2>1, ClosedFits
<1>6. ShapeInv' /\ TreeInv'
  BY <1>1, RowUnindexed
<1>7. TypeOK'
  BY <1>0, <1>1, <1>2, <1>3, <1>4, <1>5 DEF TypeOK
<1> QED
  BY <1>4, <1>6, <1>7 DEF StorageInv

\* With an id of the table's or of the client's, or without one.
LEMMA InsertWrittenLateKeeps ==
  ASSUME StorageInv, NEW tb \in Tables, InsertWrittenLate(tb)
  PROVE  StorageInv'
<1>1. TypeOK /\ MetaInv /\ UserIds \subseteq Ids /\ 0 \in Ids
  BY StorageAssumption DEF StorageInv, Ids
<1>2. /\ MetaId(tb) \in Nat /\ MetaRow(tb) \in Nat
      /\ AutoId(tb) \in Nat /\ AutoRow(tb) \in Nat /\ AutoId(tb) \in Ids
  BY <1>1, MetaFound DEF Ids
<1>3. CASE /\ tb \in id_tables /\ RoomInMeta(tb)
           /\ SetMeta(tb, AutoId(tb), AutoRow(tb))
           /\ RowUnnoticed(tb, AutoId(tb))
  BY <1>2, <1>3, RowUnnoticedKeeps
<1>4. CASE /\ tb \in id_tables
           /\ IF RoomInMeta(tb) THEN SetMeta(tb, MetaId(tb), MetaRow(tb))
                                ELSE UNCHANGED metaVars
           /\ \E id \in UserIds : RowUnnoticed(tb, id)
  <2>1. PICK id \in UserIds : RowUnnoticed(tb, id)
    BY <1>4
  <2> QED
    BY <1>1, <1>2, <1>4, <2>1, RowUnnoticedKeeps
<1>5. CASE /\ tb \notin id_tables
           /\ UNCHANGED metaVars
           /\ RowUnnoticed(tb, 0)
  BY <1>1, <1>5, RowUnnoticedKeeps
<1> QED
  BY <1>3, <1>4, <1>5 DEF InsertWrittenLate

\* DELETE and UPDATE that end well: every tree is destroyed, the one of the
\* table is built from the new file, and its meta entry is left wrong.
LEMMA RewriteKeeps ==
  ASSUME StorageInv, NEW tb \in Tables, NEW s \in Seq(Ids), Rewrite(tb, s)
  PROVE  StorageInv'
<1>0. TypeOK /\ MetaInv /\ ShapeInv /\ TreeInv /\ cached \subseteq Tables
  BY StorageAssumption DEF StorageInv, TypeOK
<1>1. /\ UNCHANGED <<schema, id_tables, exists, rebuilt, cached>>
      /\ tb \in exists
      /\ rows' = [rows EXCEPT ![tb] = s]
      /\ append_fp' = Closed(append_fp, tb)
      /\ stale_meta' = stale_meta \cup (cached \cap {tb})
      /\ chosen' = Unchosen(tb)
  BY DEF Rewrite, InvalidateMeta, schemaVars
<1>2. /\ rows' \in [Tables -> Seq(Ids)] /\ rows'[tb] = s
      /\ \A u \in Tables \ {tb} : rows'[u] = rows[u]
  BY <1>0, <1>1 DEF TypeOK
<1>3. append_fp' \in Seq(Tables) /\ Len(append_fp') <= FpMax
  BY <1>0, <1>1, ClosedFits DEF TypeOK
<1>4. /\ next_id' \in [Tables -> Nat] /\ next_row_idx' \in [Tables -> Nat]
      /\ \A u \in Tables \ {tb} : /\ next_id'[u] = next_id[u]
                                  /\ next_row_idx'[u] = next_row_idx[u]
  BY <1>0 DEF TypeOK, Rewrite, InvalidateMeta
<1>4a. /\ chosen' \subseteq Tables \X Ids
       /\ \A u \in Tables \ {tb} :
              \A i : <<u, i>> \in chosen => <<u, i>> \in chosen'
  BY <1>0, <1>1, OthersStayChosen DEF TypeOK
<1>5. MetaInv'
  BY <1>0, <1>1, <1>2, <1>4, <1>4a DEF MetaInv, AutoIdsFresh, Leads
<1>6. CASE tb \notin id_tables
  <2>1. UNCHANGED <<indexed, tree, stale_tree, lost>>
    BY <1>6 DEF Rewrite, RebuildIndex
  <2>2. tb \notin indexed
    BY <1>0, <1>6 DEF TypeOK
  <2>3. ShapeInv'
    BY <1>0, <1>1, <1>2, <2>1 DEF ShapeInv
  <2>4. ASSUME NEW u \in Tables PROVE TreeRight(u)'
    <3>0. TreeRight(u)
      BY <1>0 DEF TreeInv
    <3>1. CASE u # tb
      BY <1>1, <1>2, <2>1, <3>0, <3>1 DEF TreeRight
    <3>2. CASE u = tb
      BY <1>0, <1>1, <2>1, <2>2, <3>2 DEF TreeRight, ShapeInv
    <3> QED
      BY <3>1, <3>2
  <2>5. TypeOK'
    BY <1>0, <1>1, <1>2, <1>3, <1>4, <1>4a, <2>1 DEF TypeOK
  <2> QED
    BY <1>5, <2>3, <2>4, <2>5 DEF StorageInv, TreeInv
<1>7. CASE tb \in id_tables
  <2>1. /\ stale_tree' = {} /\ lost' = {}
        /\ DOMAIN tree' = Tables
        /\ indexed' \subseteq {tb}
        /\ \A u \in Tables : tree'[u] = IF u \in indexed' THEN IndexOf(s) ELSE NoTree
    BY <1>7 DEF Rewrite, RebuildIndex
  <2>2. Cardinality(indexed') <= TreeMax
    <3>1. TreeMax \in Nat /\ Cardinality({}) = 0 /\ Cardinality({tb}) = 1
      BY StorageAssumption, FS_EmptySet, FS_Singleton
    <3>2. indexed' = {} \/ (indexed' = {tb} /\ TreeMax # 0)
      BY <1>7 DEF Rewrite, RebuildIndex
    <3>3. CASE indexed' = {}
      BY <3>1, <3>3
    <3>4. CASE indexed' = {tb} /\ TreeMax # 0
      BY <3>1, <3>4
    <3> QED
      BY <3>2, <3>3, <3>4
  <2>3. /\ DOMAIN IndexOf(s) = Positive(s) /\ Positive(s) \subseteq Ids
        /\ \A i \in Positive(s) : /\ IndexOf(s)[i] = LastRow(s, i)
                                  /\ IndexOf(s)[i] \in Nat
    BY IndexOfScan
  <2>4. DOMAIN NoTree = {}
    BY DEF NoTree
  <2>5. \A u \in Tables : /\ DOMAIN tree'[u] \subseteq Ids
                          /\ \A i \in DOMAIN tree'[u] : tree'[u][i] \in Nat
    BY <2>1, <2>3, <2>4
  <2>6. ShapeInv'
    BY <1>0, <1>1, <1>2, <2>1, <2>4 DEF ShapeInv
  <2>7. ASSUME NEW u \in Tables PROVE TreeRight(u)'
    <3>1. CASE u \in indexed'
      BY <1>2, <2>1, <2>3, <3>1 DEF TreeRight
    <3>2. CASE u \notin indexed'
      BY <2>1, <2>4, <3>2 DEF TreeRight
    <3> QED
      BY <3>1, <3>2
  <2>8. TypeOK'
    BY <1>0, <1>1, <1>2, <1>3, <1>4, <1>4a, <1>7, <2>1, <2>2, <2>5 DEF TypeOK
  <2> QED
    BY <1>5, <2>6, <2>7, <2>8 DEF StorageInv, TreeInv
<1> QED
  BY <1>6, <1>7

\* The files that DELETE and UPDATE write hold ids.
LEMMA DeleteUpdateKeep ==
  ASSUME StorageInv, NEW tb \in Tables, Delete(tb) \/ Update(tb)
  PROVE  StorageInv'
<1>0. rows[tb] \in Seq(Ids) /\ 1 .. MaxId \subseteq Ids /\ UserIds \subseteq Ids
  BY StorageAssumption DEF StorageInv, TypeOK, Ids
<1>1. CASE Delete(tb)
  <2>1. PICK s \in {Without(rows[tb], id) : id \in 1 .. MaxId} \cup {<<>>} : Rewrite(tb, s)
    BY <1>1 DEF Delete
  <2>2. s \in Seq(Ids)
    <3>1. \A id : Without(rows[tb], id) \in Seq(Ids)
      BY <1>0, CopyIsShorter DEF Without
    <3>2. <<>> \in Seq(Ids)
      OBVIOUS
    <3> QED
      BY <3>1, <3>2
  <2> QED
    BY <2>1, <2>2, RewriteKeeps
<1>2. CASE Update(tb)
  <2>1. PICK s \in {Replaced(rows[tb], id, new) :
                       id \in 1 .. MaxId, new \in 1 .. MaxId \cup UserIds} : Rewrite(tb, s)
    BY <1>2 DEF Update
  <2>2. PICK id \in 1 .. MaxId, new \in 1 .. MaxId \cup UserIds :
            s = Replaced(rows[tb], id, new)
    OBVIOUS
  <2>3. new \in Ids
    BY <1>0
  <2>4. Replaced(rows[tb], id, new) \in Seq(Ids)
    BY <1>0, <2>3 DEF Replaced
  <2> QED
    BY <2>1, <2>2, <2>4, RewriteKeeps
<1> QED
  BY <1>1, <1>2

\* A rewrite that loses the file leaves every cache wrong, as the history says.
LEMMA RewriteFailsKeeps ==
  ASSUME StorageInv, NEW tb \in Tables, RewriteFails(tb)
  PROVE  StorageInv'
<1>0. TypeOK /\ MetaInv /\ ShapeInv /\ TreeInv /\ cached \subseteq Tables
  BY StorageAssumption DEF StorageInv, TypeOK
<1>1. /\ UNCHANGED <<schema, id_tables, cached, next_id, next_row_idx,
                     indexed, tree, rebuilt>>
      /\ rows' = [rows EXCEPT ![tb] = <<>>]
      /\ exists' = exists \ {tb}
      /\ append_fp' = Closed(append_fp, tb)
      /\ lost' = lost \cup {tb} /\ stale_meta' = stale_meta \cup {tb}
      /\ stale_tree' = stale_tree \cup {tb}
      /\ chosen' = Unchosen(tb)
  BY DEF RewriteFails, schemaVars, metaVars, indexVars
<1>2. /\ rows' \in [Tables -> Seq(Ids)] /\ rows'[tb] = <<>>
      /\ \A u \in Tables \ {tb} : rows'[u] = rows[u]
  BY <1>0, <1>1 DEF TypeOK
<1>3. append_fp' \in Seq(Tables) /\ Len(append_fp') <= FpMax
  BY <1>0, <1>1, ClosedFits DEF TypeOK
<1>3a. /\ chosen' \subseteq Tables \X Ids
       /\ \A u \in Tables \ {tb} :
              \A i : <<u, i>> \in chosen => <<u, i>> \in chosen'
  BY <1>0, <1>1, OthersStayChosen DEF TypeOK
<1>4. MetaInv'
  BY <1>0, <1>1, <1>2, <1>3a DEF MetaInv, AutoIdsFresh, Leads
<1>5. ShapeInv'
  BY <1>0, <1>1, <1>2 DEF ShapeInv
<1>6. TreeInv'
  BY <1>0, <1>1, <1>2 DEF TreeInv, TreeRight
<1>7. TypeOK'
  BY <1>0, <1>1, <1>2, <1>3, <1>3a DEF TypeOK
<1> QED
  BY <1>4, <1>5, <1>6, <1>7 DEF StorageInv

\* CREATE leaves rows and caches alone, whether it succeeds or not.
LEMMA CreateKeeps ==
  ASSUME StorageInv, NEW tb \in Tables, Create(tb) \/ CreateFails(tb)
  PROVE  StorageInv'
<1>0. TypeOK /\ MetaInv /\ ShapeInv /\ TreeInv
  BY DEF StorageInv
<1>1. /\ UNCHANGED <<id_tables, rows, cached, next_id, next_row_idx,
                     indexed, tree, rebuilt, stale_meta, stale_tree, lost, chosen>>
      /\ schema' \subseteq schema \cup {tb}
      /\ exists \subseteq exists' /\ exists' \subseteq exists \cup {tb}
      /\ append_fp' = Closed(append_fp, tb)
  BY DEF Create, CreateFails, metaVars, indexVars, historyVars
<1>2. append_fp' \in Seq(Tables) /\ Len(append_fp') <= FpMax
  BY <1>0, <1>1, ClosedFits DEF TypeOK
<1>3. TypeOK'
  BY <1>0, <1>1, <1>2 DEF TypeOK
<1>4. MetaInv' /\ ShapeInv' /\ TreeInv'
  BY <1>0, <1>1 DEF MetaInv, AutoIdsFresh, Leads, ShapeInv, TreeInv, TreeRight
<1> QED
  BY <1>3, <1>4 DEF StorageInv

\* A process that starts again has empty caches, and a file that a crash in a
\* rewrite removed has no rows.
LEMMA ForgetKeeps ==
  ASSUME StorageInv, Restart \/ \E tb \in Tables : CrashInRewrite(tb)
  PROVE  StorageInv'
<1>0. TypeOK /\ ShapeInv
  BY DEF StorageInv
<1>1. Forget
  BY DEF Restart, CrashInRewrite
<1>2. /\ schema' = schema /\ id_tables' = id_tables /\ exists' \subseteq exists
      /\ rows' \in [Tables -> Seq(Ids)]
      /\ \A u \in Tables \ exists' : rows'[u] = <<>>
  <2>1. CASE Restart
    BY <1>0, <2>1 DEF Restart, fileVars, schemaVars, TypeOK, ShapeInv
  <2>2. ASSUME NEW tb \in Tables, CrashInRewrite(tb)
        PROVE  /\ schema' = schema /\ id_tables' = id_tables /\ exists' \subseteq exists
               /\ rows' \in [Tables -> Seq(Ids)]
               /\ \A u \in Tables \ exists' : rows'[u] = <<>>
    BY <1>0, <2>2 DEF CrashInRewrite, schemaVars, TypeOK, ShapeInv
  <2> QED
    BY <2>1, <2>2
<1>3. Cardinality({}) = 0
  BY FS_EmptySet
<1>4. TypeOK'
  <2>1. append_fp' \in Seq(Tables) /\ Len(append_fp') <= FpMax
    BY <1>1, StorageAssumption DEF Forget
  <2>2. \A tb \in Tables : DOMAIN tree'[tb] = {}
    BY <1>1 DEF Forget, NoTree
  <2> QED
    BY <1>0, <1>1, <1>2, <1>3, <2>1, <2>2, StorageAssumption DEF Forget, TypeOK
<1>5. MetaInv' /\ ShapeInv' /\ TreeInv'
  BY <1>1, <1>2 DEF Forget, NoTree, MetaInv, AutoIdsFresh, ShapeInv, TreeInv, TreeRight
<1> QED
  BY <1>4, <1>5 DEF StorageInv

\* So does every statement, restart and crash of the storage layer.
LEMMA StepStorage ==
  ASSUME StorageInv, [Next]_vars
  PROVE  StorageInv'
<1>1. ASSUME NEW tb \in Tables, Statement(tb) PROVE StorageInv'
  BY <1>1, SelectKeeps, InsertAutoKeeps, InsertUserKeeps, InsertPlainKeeps,
     InsertRejectedKeeps, InsertUnwrittenKeeps, InsertWrittenLateKeeps,
     DeleteUpdateKeep, RewriteFailsKeeps, CreateKeeps DEF Statement
<1>2. CASE Restart \/ \E tb \in Tables : CrashInRewrite(tb)
  BY <1>2, ForgetKeeps
<1>3. CASE UNCHANGED vars
  <2>1. UNCHANGED <<schema, id_tables, exists, rows, cached, next_id, next_row_idx, indexed,
                    tree, rebuilt, append_fp, stale_meta, stale_tree, lost, chosen>>
    BY <1>3 DEF vars, fileVars, schemaVars, metaVars, indexVars, historyVars
  <2>2. TypeOK' /\ MetaInv'
    BY <2>1 DEF StorageInv, TypeOK, MetaInv, AutoIdsFresh, Leads
  <2>3. ShapeInv' /\ TreeInv'
    BY <2>1 DEF StorageInv, ShapeInv, TreeInv, TreeRight
  <2> QED
    BY <2>2, <2>3 DEF StorageInv
<1> QED
  BY <1>1, <1>2, <1>3 DEF Next

-----------------------------------------------------------------------------
(* The theorems                                                            *)

\* A SELECT that scans first, or whose table has been scanned, reads each id
\* of the file from the tree with its last row.
LEMMA LookupFromTree ==
  ASSUME StorageInv, NEW tb \in exists \ stale_tree
  PROVE  Exact(tb)
<1>0. /\ TypeOK /\ ShapeInv /\ TreeRight(tb) /\ tb \in Tables
      /\ rows[tb] \in Seq(Ids) /\ tb \notin lost
  BY DEF StorageInv, TypeOK, ShapeInv, TreeInv
<1> SUFFICES ASSUME NEW lo \in 1 .. MaxId, NEW hi \in lo .. MaxId
             PROVE  Lookup(tb, lo, hi) \in Answers(tb, lo, hi)
  BY DEF Exact
<1>1. CASE ~(tb \in indexed \/ Scans(tb))
  BY <1>1 DEF Lookup, Answers
<1>2. CASE tb \in indexed \/ Scans(tb)
  <2> DEFINE t == IF Scans(tb) THEN ScannedTree(tb) ELSE tree[tb]
             ids == Positive(rows[tb]) \cap lo .. hi
  <2>1. /\ DOMAIN IndexOf(rows[tb]) = Positive(rows[tb])
        /\ \A i \in Positive(rows[tb]) : /\ i \in Nat /\ i > 0
                                         /\ IndexOf(rows[tb])[i] = LastRow(rows[tb], i)
    BY <1>0, IndexOfScan
  <2>2. \A i \in lo .. hi : i \in Nat /\ i > 0
    OBVIOUS
  <2>3. DOMAIN t \cap lo .. hi = ids /\ \A i \in ids : t[i] = LastRow(rows[tb], i)
    <3>1. CASE Scans(tb)
      <4>1. t = Overlay(IndexOf(rows[tb]), tree[tb])
        BY <3>1 DEF ScannedTree
      <4>2. \A i \in DOMAIN tree[tb] : i > 0 => i \in Positive(rows[tb])
        BY <1>0 DEF TreeRight
      <4> HIDE DEF t
      <4>3. DOMAIN t = Positive(rows[tb]) \cup DOMAIN tree[tb]
        BY <2>1, <4>1 DEF Overlay
      <4>4. \A i \in Positive(rows[tb]) : t[i] = LastRow(rows[tb], i)
        BY <2>1, <4>1 DEF Overlay
      <4> QED
        BY <2>2, <4>2, <4>3, <4>4
    <3>2. CASE ~Scans(tb)
      <4>1. t = tree[tb] /\ tb \in indexed
        BY <1>2, <3>2
      <4>2. tb \in rebuilt
        BY <1>0, <3>2, <4>1 DEF Scans, RoomForTree, TypeOK
      <4> HIDE DEF t
      <4> QED
        BY <1>0, <2>2, <4>1, <4>2 DEF TreeRight
    <3> QED
      BY <3>1, <3>2
  <2>4. RowsInTree(tb, lo, hi) = {t[i] : i \in DOMAIN t \cap lo .. hi}
    BY DEF RowsInTree
  <2> HIDE DEF t
  <2>5. RowsInTree(tb, lo, hi) = {LastRow(rows[tb], i) : i \in ids}
    BY <2>3, <2>4
  <2>6. \A i \in ids : LastRow(rows[tb], i) \in 0 .. Len(rows[tb]) - 1
    BY <1>0, LastRowIsLast
  <2>7. Lookup(tb, lo, hi) = {LastRow(rows[tb], i) : i \in ids}
    BY <1>2, <2>5, <2>6 DEF Lookup, RowsInFile
  <2> QED
    BY <2>7 DEF Answers
<1> QED
  BY <1>1, <1>2

\* Meta cache, trees and files of storage.c agree as far as the history
\* variables promise.
THEOREM StorageInvariant == Spec => []StorageInv
<1>1. Init => StorageInv
  BY InitStorage
<1>2. StorageInv /\ [Next]_vars => StorageInv'
  BY StepStorage
<1> QED
  BY <1>1, <1>2, PTL DEF Spec

\* Whichever of INSERT and SELECT filled the meta cache, next_row_idx is the
\* number of the next row, and no cache of storage.c outgrows its array, for
\* any number of tables and any size of the caches.
THEOREM RowsAreNumbered == Spec => []RowNumbersExact
<1>1. StorageInv => RowNumbersExact
  BY DEF StorageInv, MetaInv, RowNumbersExact
<1> QED
  BY <1>1, StorageInvariant, PTL

\* Of the ids in a file only those that a client brought, before next_id of
\* the meta cache had passed them, reach next_id: an INSERT without an id of
\* its own repeats no other.
THEOREM IdsHandedOutAreNew == Spec => []AutoIdsFresh
<1>1. StorageInv => AutoIdsFresh
  BY DEF StorageInv, MetaInv
<1> QED
  BY <1>1, StorageInvariant, PTL

\* A SELECT by id or by a range of ids returns what a scan of the file would,
\* through storage_ensure_index, INSERTs, DELETEs and UPDATEs of any tables,
\* full caches, failed statements and crashes.
THEOREM LookupsAnswerTheFile == Spec => []LookupExact
<1>1. StorageInv => LookupExact
  BY LookupFromTree DEF LookupExact
<1> QED
  BY <1>1, StorageInvariant, PTL

=============================================================================
