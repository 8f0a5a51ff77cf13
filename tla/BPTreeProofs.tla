---------------------------- MODULE BPTreeProofs ----------------------------
(***************************************************************************)
(* Proofs about BPTree, for every order from 3 and every finite set of     *)
(* inserts.                                                                *)
(***************************************************************************)
EXTENDS BPTree, CopyingProofs, FiniteSetTheorems, SequenceTheorems, TLAPS

-----------------------------------------------------------------------------
(* Constants                                                               *)

\* Ids and row numbers are integers, and an order is at least 3.
LEMMA Constants ==
  /\ Ids \subseteq Int
  /\ Rows \subseteq Nat
  /\ Orders \subseteq Nat
  /\ \A o \in Orders : o >= 3
<1>1. \A o \in Orders : o \in Nat /\ o >= 3 /\ Calls[o] \subseteq Int \X Nat
  BY BPTreeAssumption DEF Orders
<1>2. Ids \subseteq Int
  BY <1>1 DEF Ids
<1>3. Rows \subseteq Nat
  BY <1>1 DEF Rows
<1> QED
  BY <1>1, <1>2, <1>3

-----------------------------------------------------------------------------
(* Sequences                                                               *)

\* t is s with e put before its i-th element.
Inserted(t, s, i, e) ==
    /\ Len(t) = Len(s) + 1
    /\ \A k \in 1 .. Len(s) + 1 :
           t[k] = IF k < i THEN s[k] ELSE IF k = i THEN e ELSE s[k - 1]

\* t is the part of s with l elements that begins behind the a-th.
Taken(t, s, a, l) ==
    /\ Len(t) = l
    /\ \A k \in 1 .. l : t[k] = s[a + k]

StrictlyUp(s) == \A j, k \in 1 .. Len(s) : j < k => s[j] < s[k]
Up(s) == \A j, k \in 1 .. Len(s) : j < k => s[j] <= s[k]

\* What shifting the tail of an array by one slot and writing the gap does.
LEMMA InsertAtFacts ==
  ASSUME NEW S, NEW s \in Seq(S), NEW i \in 1 .. Len(s) + 1, NEW e \in S
  PROVE  InsertAt(s, i, e) \in Seq(S) /\ Inserted(InsertAt(s, i, e), s, i, e)
<1> DEFINE left == SubSeq(s, 1, i - 1)
           right == SubSeq(s, i, Len(s))
<1>1. /\ left \in Seq(S) /\ Len(left) = i - 1
      /\ \A k \in 1 .. i - 1 : left[k] = s[k]
  OBVIOUS
<1>2. /\ right \in Seq(S) /\ Len(right) = Len(s) - i + 1
      /\ \A k \in 1 .. Len(s) - i + 1 : right[k] = s[i + k - 1]
  OBVIOUS
<1>3. InsertAt(s, i, e) = left \o <<e>> \o right
  BY DEF InsertAt
<1> HIDE DEF left, right
<1>4. /\ left \o <<e>> \in Seq(S) /\ Len(left \o <<e>>) = i
      /\ \A k \in 1 .. i : (left \o <<e>>)[k] = IF k < i THEN s[k] ELSE e
  BY <1>1
<1> DEFINE head == left \o <<e>>
<1>5. /\ head \o right \in Seq(S) /\ Len(head \o right) = Len(s) + 1
      /\ \A k \in 1 .. Len(s) + 1 :
             (head \o right)[k] = IF k <= i THEN head[k] ELSE right[k - i]
  <2> HIDE DEF head
  <2>1. head \in Seq(S) /\ Len(head) = i
    BY <1>4 DEF head
  <2>2. Len(head) + Len(right) = Len(s) + 1
    BY <2>1, <1>2
  <2>3. /\ head \o right \in Seq(S) /\ Len(head \o right) = Len(head) + Len(right)
        /\ \A k \in 1 .. Len(head) + Len(right) :
               (head \o right)[k] = IF k <= Len(head) THEN head[k] ELSE right[k - Len(head)]
    BY <2>1, <1>2, ConcatProperties
  <2> QED
    BY <2>1, <2>2, <2>3
<1> DEFINE w == head \o right
<1>6. ASSUME NEW k \in 1 .. Len(s) + 1
      PROVE  w[k] = IF k < i THEN s[k] ELSE IF k = i THEN e ELSE s[k - 1]
  <2>0. Len(s) \in Nat /\ k \in Int /\ i \in Int
    OBVIOUS
  <2>1. w[k] = IF k <= i THEN head[k] ELSE right[k - i]
    BY <1>5
  <2>2. k <= i => head[k] = IF k < i THEN s[k] ELSE e
    BY <1>4
  <2>3. k > i => right[k - i] = s[k - 1]
    <3> SUFFICES ASSUME k > i PROVE right[k - i] = s[k - 1]
      OBVIOUS
    <3>1. k - i \in 1 .. Len(s) - i + 1
      BY <2>0
    <3>2. right[k - i] = s[i + (k - i) - 1]
      BY <3>1, <1>2, Zenon
    <3>3. i + (k - i) - 1 = k - 1
      BY <2>0
    <3> QED
      BY <3>2, <3>3, Zenon
  <2> HIDE DEF w, head
  <2> QED
    BY <2>0, <2>1, <2>2, <2>3
<1> HIDE DEF w, head
<1> QED
  BY <1>3, <1>5, <1>6 DEF Inserted, w, head

\* The half of an array that a split moves.
LEMMA SubSeqFacts ==
  ASSUME NEW S, NEW s \in Seq(S), NEW a \in 1 .. Len(s) + 1, NEW b \in a - 1 .. Len(s)
  PROVE  /\ SubSeq(s, a, b) \in Seq(S)
         /\ Len(SubSeq(s, a, b)) = b - a + 1
         /\ \A k \in 1 .. b - a + 1 : SubSeq(s, a, b)[k] = s[a + k - 1]
OBVIOUS

\* The part of an array that a split copies into a half: its length, its
\* elements, and that the elements keep their kind.
LEMMA TakenFacts ==
  ASSUME NEW S, NEW s \in Seq(S), NEW a \in 0 .. Len(s), NEW l \in 0 .. Len(s) - a,
         NEW x, x = a + 1, NEW y, y = a + l
  PROVE  SubSeq(s, x, y) \in Seq(S) /\ Taken(SubSeq(s, x, y), s, a, l)
<1> DEFINE t == SubSeq(s, x, y)
<1>1. x \in 1 .. Len(s) + 1 /\ y \in x - 1 .. Len(s) /\ y - x + 1 = l
  OBVIOUS
<1>2. /\ t \in Seq(S) /\ Len(t) = y - x + 1
      /\ \A k \in 1 .. y - x + 1 : t[k] = s[x + k - 1]
  BY <1>1, SubSeqFacts, ZenonT(60)
<1>3. \A k \in 1 .. l : x + k - 1 = a + k
  OBVIOUS
<1> HIDE DEF t
<1>4. \A k \in 1 .. l : t[k] = s[a + k]
  BY <1>1, <1>2, <1>3, Zenon
<1> QED
  BY <1>1, <1>2, <1>4 DEF Taken, t

\* A key put where it belongs keeps the order.
LEMMA InsertedUp ==
  ASSUME NEW s \in Seq(Int), NEW t \in Seq(Int), NEW i \in 1 .. Len(s) + 1, NEW e \in Int,
         Inserted(t, s, i, e)
  PROVE  /\ StrictlyUp(s) /\ (\A j \in 1 .. i - 1 : s[j] < e)
                           /\ (i <= Len(s) => e < s[i])
               => StrictlyUp(t)
         /\ Up(s) /\ (\A j \in 1 .. i - 1 : s[j] <= e)
                   /\ (i <= Len(s) => e <= s[i])
               => Up(t)
<1>0. /\ Len(s) \in Nat /\ Len(t) = Len(s) + 1
      /\ \A j \in 1 .. Len(s) : s[j] \in Int
      /\ \A k \in 1 .. Len(s) + 1 : /\ k < i => t[k] = s[k]
                                    /\ k = i => t[k] = e
                                    /\ k > i => t[k] = s[k - 1]
  BY DEF Inserted
<1>1. ASSUME StrictlyUp(s), \A j \in 1 .. i - 1 : s[j] < e, i <= Len(s) => e < s[i]
      PROVE  StrictlyUp(t)
  <2> SUFFICES ASSUME NEW j \in 1 .. Len(s) + 1, NEW k \in 1 .. Len(s) + 1, j < k
               PROVE  t[j] < t[k]
    BY <1>0 DEF StrictlyUp
  <2>1. \A x, y \in 1 .. Len(s) : x < y => s[x] < s[y]
    BY <1>1 DEF StrictlyUp
  <2>2. CASE k < i
    <3>1. j \in 1 .. Len(s) /\ k \in 1 .. Len(s) /\ j < i
      BY SMTT(40), <1>0, <2>2
    <3>2. t[j] = s[j] /\ t[k] = s[k]
      BY <1>0, <2>2, <3>1
    <3> QED
      BY <2>1, <3>1, <3>2
  <2>3. CASE k = i
    <3>1. j \in 1 .. i - 1 /\ t[j] = s[j] /\ t[k] = e
      BY <1>0, <2>3
    <3> QED
      BY <1>1, <3>1
  <2>4. CASE k > i /\ j < i
    <3>0. j \in 1 .. Len(s) /\ k - 1 \in 1 .. Len(s) /\ j < k - 1
      <4>1. Len(s) \in Nat
        BY <1>0
      <4> QED
        BY <2>4, <4>1
    <3>1. /\ j \in 1 .. Len(s) /\ k - 1 \in 1 .. Len(s) /\ j < k - 1
          /\ t[j] = s[j] /\ t[k] = s[k - 1]
      BY <1>0, <2>4, <3>0
    <3> QED
      BY <2>1, <3>1
  <2>5. CASE j = i
    <3>0. i \in 1 .. Len(s) /\ k - 1 \in 1 .. Len(s) /\ (i = k - 1 \/ i < k - 1) /\ k > i
      <4>1. Len(s) \in Nat
        BY <1>0
      <4> QED
        BY <2>5, <4>1
    <3>1. /\ i \in 1 .. Len(s) /\ k - 1 \in 1 .. Len(s) /\ (i = k - 1 \/ i < k - 1)
          /\ t[j] = e /\ t[k] = s[k - 1] /\ s[i] \in Int /\ s[k - 1] \in Int
      BY <1>0, <2>5, <3>0
    <3>2. e < s[i]
      BY <1>1, <3>1
    <3>3. i = k - 1 \/ s[i] < s[k - 1]
      BY <2>1, <3>1
    <3> QED
      BY <3>1, <3>2, <3>3
  <2>6. CASE j > i
    <3>0. j - 1 \in 1 .. Len(s) /\ k - 1 \in 1 .. Len(s) /\ j - 1 < k - 1 /\ k > i
      <4>1. Len(s) \in Nat
        BY <1>0
      <4> QED
        BY <2>6, <4>1
    <3>1. /\ j - 1 \in 1 .. Len(s) /\ k - 1 \in 1 .. Len(s) /\ j - 1 < k - 1
          /\ t[j] = s[j - 1] /\ t[k] = s[k - 1]
      BY <1>0, <2>6, <3>0
    <3> QED
      BY <2>1, <3>1
  <2> QED
    BY <1>0, <2>2, <2>3, <2>4, <2>5, <2>6
<1>2. ASSUME Up(s), \A j \in 1 .. i - 1 : s[j] <= e, i <= Len(s) => e <= s[i]
      PROVE  Up(t)
  <2> SUFFICES ASSUME NEW j \in 1 .. Len(s) + 1, NEW k \in 1 .. Len(s) + 1, j < k
               PROVE  t[j] <= t[k]
    BY <1>0 DEF Up
  <2>1. \A x, y \in 1 .. Len(s) : x < y => s[x] <= s[y]
    BY <1>2 DEF Up
  <2>2. CASE k < i
    <3>1. j \in 1 .. Len(s) /\ k \in 1 .. Len(s) /\ j < i
      BY SMTT(40), <1>0, <2>2
    <3>2. t[j] = s[j] /\ t[k] = s[k]
      BY <1>0, <2>2, <3>1
    <3> QED
      BY <2>1, <3>1, <3>2
  <2>3. CASE k = i
    <3>1. j \in 1 .. i - 1 /\ t[j] = s[j] /\ t[k] = e
      BY <1>0, <2>3
    <3> QED
      BY <1>2, <3>1
  <2>4. CASE k > i /\ j < i
    <3>0. j \in 1 .. Len(s) /\ k - 1 \in 1 .. Len(s) /\ j < k - 1
      <4>1. Len(s) \in Nat
        BY <1>0
      <4> QED
        BY <2>4, <4>1
    <3>1. /\ j \in 1 .. Len(s) /\ k - 1 \in 1 .. Len(s) /\ j < k - 1
          /\ t[j] = s[j] /\ t[k] = s[k - 1]
      BY <1>0, <2>4, <3>0
    <3> QED
      BY <2>1, <3>1
  <2>5. CASE j = i
    <3>0. i \in 1 .. Len(s) /\ k - 1 \in 1 .. Len(s) /\ (i = k - 1 \/ i < k - 1) /\ k > i
      <4>1. Len(s) \in Nat
        BY <1>0
      <4> QED
        BY <2>5, <4>1
    <3>1. /\ i \in 1 .. Len(s) /\ k - 1 \in 1 .. Len(s) /\ (i = k - 1 \/ i < k - 1)
          /\ t[j] = e /\ t[k] = s[k - 1] /\ s[i] \in Int /\ s[k - 1] \in Int
      BY <1>0, <2>5, <3>0
    <3>2. e <= s[i]
      BY <1>2, <3>1
    <3>3. i = k - 1 \/ s[i] <= s[k - 1]
      BY <2>1, <3>1
    <3> QED
      BY <3>1, <3>2, <3>3
  <2>6. CASE j > i
    <3>0. j - 1 \in 1 .. Len(s) /\ k - 1 \in 1 .. Len(s) /\ j - 1 < k - 1 /\ k > i
      <4>1. Len(s) \in Nat
        BY <1>0
      <4> QED
        BY <2>6, <4>1
    <3>1. /\ j - 1 \in 1 .. Len(s) /\ k - 1 \in 1 .. Len(s) /\ j - 1 < k - 1
          /\ t[j] = s[j - 1] /\ t[k] = s[k - 1]
      BY <1>0, <2>6, <3>0
    <3> QED
      BY <2>1, <3>1
  <2> QED
    BY <1>0, <2>2, <2>3, <2>4, <2>5, <2>6
<1> QED
  BY <1>1, <1>2

\* A part of an ordered array is in order.
LEMMA TakenUp ==
  ASSUME NEW s \in Seq(Int), NEW a \in 0 .. Len(s), NEW l \in 0 .. Len(s) - a,
         NEW t, Taken(t, s, a, l)
  PROVE  /\ StrictlyUp(s) => StrictlyUp(t)
         /\ Up(s) => Up(t)
<1>1. /\ Len(s) \in Nat /\ Len(t) = l
      /\ \A k \in 1 .. l : t[k] = s[a + k] /\ a + k \in 1 .. Len(s)
  BY SMTT(40) DEF Taken
<1>2. \A j, k \in 1 .. l : j < k => a + j < a + k
  OBVIOUS
<1> QED
  BY <1>1, <1>2 DEF StrictlyUp, Up

\* The pairs of t and w are those of s and v, and the pair of e and f.
PairAdded(t, w, s, v, e, f) ==
    /\ \E k \in 1 .. Len(t) : t[k] = e /\ w[k] = f
    /\ \A k \in 1 .. Len(t) :
           \/ t[k] = e /\ w[k] = f
           \/ \E j \in 1 .. Len(s) : s[j] = t[k] /\ v[j] = w[k]
    /\ \A j \in 1 .. Len(s) : \E k \in 1 .. Len(t) : t[k] = s[j] /\ w[k] = v[j]

\* The same position in two arrays: the elements move together.
LEMMA InsertedPairs ==
  ASSUME NEW s, NEW v, Len(s) \in Nat, Len(v) = Len(s),
         NEW i \in 1 .. Len(s) + 1, NEW e, NEW f,
         NEW t, NEW w, Inserted(t, s, i, e), Inserted(w, v, i, f)
  PROVE  Len(w) = Len(t) /\ PairAdded(t, w, s, v, e, f)
<1>0. /\ Len(s) \in Nat /\ Len(t) = Len(s) + 1 /\ Len(w) = Len(s) + 1
      /\ \A k \in 1 .. Len(s) + 1 :
             /\ t[k] = IF k < i THEN s[k] ELSE IF k = i THEN e ELSE s[k - 1]
             /\ w[k] = IF k < i THEN v[k] ELSE IF k = i THEN f ELSE v[k - 1]
  BY DEF Inserted
<1>1. ASSUME NEW k \in 1 .. Len(t), k # i
      PROVE  \E j \in 1 .. Len(s) : s[j] = t[k] /\ v[j] = w[k]
  <2>1. CASE k < i
    BY <1>0, <2>1
  <2>2. CASE k > i
    <3>1. k - 1 \in 1 .. Len(s)
      BY <1>0, <2>2
    <3> QED
      BY <1>0, <2>2, <3>1
  <2> QED
    BY <1>0, <1>1, <2>1, <2>2
<1>2. ASSUME NEW j \in 1 .. Len(s)
      PROVE  \E k \in 1 .. Len(t) : t[k] = s[j] /\ w[k] = v[j]
  <2>1. CASE j < i
    BY <1>0, <2>1
  <2>2. CASE j >= i
    <3>1. j + 1 \in 1 .. Len(t) /\ j + 1 > i /\ (j + 1) - 1 = j
      BY <1>0, <2>2
    <3>2. t[j + 1] = s[(j + 1) - 1] /\ w[j + 1] = v[(j + 1) - 1]
      BY <1>0, <3>1
    <3> QED
      BY <3>1, <3>2, Zenon
  <2> QED
    BY <1>0, <2>1, <2>2
<1>3. t[i] = e /\ w[i] = f /\ i \in 1 .. Len(t) /\ Len(w) = Len(t)
  BY <1>0
<1> QED
  BY <1>1, <1>2, <1>3, Zenon DEF PairAdded

\* The call stack of insert_rec: the innermost call, and what is left when it
\* returns.
LEMMA LastFrontFacts ==
  ASSUME NEW S, NEW s \in Seq(S), s # <<>>
  PROVE  /\ Last(s) = s[Len(s)] /\ Last(s) \in S
         /\ Front(s) \in Seq(S) /\ Len(Front(s)) = Len(s) - 1
         /\ \A k \in 1 .. Len(s) - 1 : Front(s)[k] = s[k]
         /\ Len(s) \in Nat \ {0}
<1>1. Len(s) \in Nat \ {0}
  BY EmptySeq
<1>2. Last(s) = s[Len(s)] /\ s[Len(s)] \in S
  BY <1>1 DEF Last
<1>3. Front(s) = SubSeq(s, 1, Len(s) - 1)
  BY DEF Front
<1>4. 1 \in 1 .. Len(s) + 1 /\ Len(s) - 1 \in 1 - 1 .. Len(s) /\ Len(s) - 1 - 1 + 1 = Len(s) - 1
  BY <1>1
<1>5. /\ SubSeq(s, 1, Len(s) - 1) \in Seq(S)
      /\ Len(SubSeq(s, 1, Len(s) - 1)) = Len(s) - 1 - 1 + 1
      /\ \A k \in 1 .. Len(s) - 1 - 1 + 1 : SubSeq(s, 1, Len(s) - 1)[k] = s[1 + k - 1]
  BY <1>4, SubSeqFacts, Zenon
<1>6. \A k \in 1 .. Len(s) - 1 : 1 + k - 1 = k
  BY <1>1
<1> QED
  BY <1>1, <1>2, <1>3, <1>4, <1>5, <1>6

-----------------------------------------------------------------------------
(* Positions in a node                                                     *)

\* Below i all keys are at most id, and the key at i is above it.
IsChild(keys, id, i) ==
    /\ \A j \in 1 .. i - 1 : keys[j] <= id
    /\ i <= Len(keys) => id < keys[i]

IsSpot(keys, id, i) ==
    /\ \A j \in 1 .. i - 1 : keys[j] < id
    /\ i <= Len(keys) => id <= keys[i]

\* internal_child_idx finds one position and no other is right.
LEMMA ChildIdxFacts ==
  ASSUME NEW n, n.keys \in Seq(Int), NEW id \in Int
  PROVE  /\ ChildIdx(n, id) \in 1 .. Len(n.keys) + 1
         /\ IsChild(n.keys, id, ChildIdx(n, id))
         /\ \A i \in 1 .. Len(n.keys) + 1 :
                IsChild(n.keys, id, i) => i = ChildIdx(n, id)
<1> DEFINE ks == n.keys
           stops == {i \in 1 .. Len(ks) + 1 : i <= Len(ks) => id < ks[i]}
<1>0. ks \in Seq(Int) /\ Len(ks) \in Nat /\ \A j \in 1 .. Len(ks) : ks[j] \in Int
  OBVIOUS
<1>1. \E i \in 1 .. Len(ks) + 1 : IsChild(ks, id, i)
  <2>1. stops \subseteq Nat /\ Len(ks) + 1 \in stops
    BY <1>0
  <2>2. PICK i \in stops : \A y \in stops : i <= y
    <3> HIDE DEF stops
    <3> QED
      BY <2>1, LeastNatural
  <2>3. i \in 1 .. Len(ks) + 1 /\ (i <= Len(ks) => id < ks[i])
    OBVIOUS
  <2>4. ASSUME NEW j \in 1 .. i - 1 PROVE ks[j] <= id
    <3>1. j \notin stops /\ j \in 1 .. Len(ks)
      BY <2>2, <2>3, <1>0
    <3> QED
      BY <3>1, <1>0
  <2> QED
    BY <2>3, <2>4 DEF IsChild
<1>2. ASSUME NEW i \in 1 .. Len(ks) + 1, NEW j \in 1 .. Len(ks) + 1,
             IsChild(ks, id, i), IsChild(ks, id, j)
      PROVE  i = j
  <2>1. ASSUME NEW a \in 1 .. Len(ks) + 1, NEW b \in 1 .. Len(ks) + 1,
               IsChild(ks, id, a), IsChild(ks, id, b), a < b
        PROVE  FALSE
    <3>1. a \in 1 .. b - 1 /\ a \in 1 .. Len(ks) /\ ks[a] \in Int
      BY <2>1, <1>0
    <3>2. ks[a] <= id /\ id < ks[a]
      BY <2>1, <3>1 DEF IsChild
    <3> QED
      BY <3>1, <3>2
  <2>2. i < j \/ j < i \/ i = j
    BY <1>0
  <2> QED
    BY <1>2, <2>1, <2>2
<1>3. ChildIdx(n, id) = CHOOSE i \in 1 .. Len(ks) + 1 : IsChild(ks, id, i)
  BY Zenon DEF ChildIdx, IsChild
<1>4. ChildIdx(n, id) \in 1 .. Len(ks) + 1 /\ IsChild(ks, id, ChildIdx(n, id))
  <2> HIDE DEF ks
  <2> QED
    BY <1>1, <1>3, Zenon
<1> QED
  BY <1>2, <1>4

\* leaf_insert_sorted stops at one position and no other is right.
LEMMA LeafIdxFacts ==
  ASSUME NEW n, n.keys \in Seq(Int), NEW id \in Int
  PROVE  /\ LeafIdx(n, id) \in 1 .. Len(n.keys) + 1
         /\ IsSpot(n.keys, id, LeafIdx(n, id))
<1> DEFINE ks == n.keys
           stops == {i \in 1 .. Len(ks) + 1 : i <= Len(ks) => id <= ks[i]}
<1>0. ks \in Seq(Int) /\ Len(ks) \in Nat /\ \A j \in 1 .. Len(ks) : ks[j] \in Int
  OBVIOUS
<1>1. \E i \in 1 .. Len(ks) + 1 : IsSpot(ks, id, i)
  <2>1. stops \subseteq Nat /\ Len(ks) + 1 \in stops
    BY <1>0
  <2>2. PICK i \in stops : \A y \in stops : i <= y
    <3> HIDE DEF stops
    <3> QED
      BY <2>1, LeastNatural
  <2>3. i \in 1 .. Len(ks) + 1 /\ (i <= Len(ks) => id <= ks[i])
    OBVIOUS
  <2>4. ASSUME NEW j \in 1 .. i - 1 PROVE ks[j] < id
    <3>1. j \notin stops /\ j \in 1 .. Len(ks)
      BY <2>2, <2>3, <1>0
    <3> QED
      BY <3>1, <1>0
  <2> QED
    BY <2>3, <2>4 DEF IsSpot
<1>2. LeafIdx(n, id) = CHOOSE i \in 1 .. Len(ks) + 1 : IsSpot(ks, id, i)
  BY Zenon DEF LeafIdx, IsSpot
<1> HIDE DEF ks
<1>3. LeafIdx(n, id) \in 1 .. Len(ks) + 1 /\ IsSpot(ks, id, LeafIdx(n, id))
  BY <1>1, <1>2, Zenon
<1> QED
  BY <1>3 DEF ks

-----------------------------------------------------------------------------
(* Nodes                                                                   *)

NodeSet == [is_leaf : BOOLEAN, keys : Seq(Ids), vals : Seq(Nat), next : Nat]

\* A node among d nodes is well made: its keys are in order, those of a leaf
\* strictly; a leaf has a row for each key, an inner node a child more than
\* it has keys.
WellMade(n, d) ==
    /\ n \in NodeSet
    /\ \A j, k \in 1 .. Len(n.keys) : j < k => n.keys[j] <= n.keys[k]
    /\ n.is_leaf =>
           /\ Len(n.vals) = Len(n.keys)
           /\ \A k \in 1 .. Len(n.vals) : n.vals[k] \in Rows
           /\ n.next \in 0 .. d
           /\ \A j, k \in 1 .. Len(n.keys) : j < k => n.keys[j] < n.keys[k]
    /\ ~n.is_leaf =>
           /\ Len(n.vals) = Len(n.keys) + 1
           /\ \A k \in 1 .. Len(n.vals) : n.vals[k] \in 1 .. d
           /\ n.next = NULL

\* The fields of a well made node, for the provers.
LEMMA MadeFields ==
  ASSUME NEW n, NEW d \in Nat, WellMade(n, d)
  PROVE  /\ n.keys \in Seq(Ids) /\ n.keys \in Seq(Int) /\ Len(n.keys) \in Nat
         /\ n.vals \in Seq(Nat) /\ Len(n.vals) \in Nat
         /\ n.is_leaf \in BOOLEAN /\ n.next \in Nat
         /\ \A k \in 1 .. Len(n.keys) : n.keys[k] \in Ids /\ n.keys[k] \in Int
         /\ DOMAIN n.keys = 1 .. Len(n.keys) /\ DOMAIN n.vals = 1 .. Len(n.vals)
<1>1. /\ n.keys \in Seq(Ids) /\ n.vals \in Seq(Nat)
      /\ n.is_leaf \in BOOLEAN /\ n.next \in Nat
  BY DEF WellMade, NodeSet
<1>2. n.keys \in Seq(Int)
  BY <1>1, Constants, SeqMonotonic
<1> QED
  BY <1>1, <1>2

\* Leaf m is leaf n, among d nodes, with row entered for id.
EntryPut(m, n, id, row, d) ==
    /\ WellMade(m, d)
    /\ m.is_leaf /\ m.next = n.next
    /\ Len(m.keys) = Len(n.keys) \/ Len(m.keys) = Len(n.keys) + 1
    /\ Len(m.keys) >= 1
    /\ \E k \in 1 .. Len(m.keys) : m.keys[k] = id /\ m.vals[k] = row
    /\ \A k \in 1 .. Len(m.keys) : m.keys[k] # id =>
           \E j \in 1 .. Len(n.keys) :
               n.keys[j] = m.keys[k] /\ n.vals[j] = m.vals[k]
    /\ \A j \in 1 .. Len(n.keys) : n.keys[j] # id =>
           \E k \in 1 .. Len(m.keys) :
               m.keys[k] = n.keys[j] /\ m.vals[k] = n.vals[j]

\* leaf_insert_sorted keeps a leaf in order, adds at most one key, and
\* changes the entry of id only.
LEMMA LeafInsertedFacts ==
  ASSUME NEW n, NEW d \in Nat, WellMade(n, d), n.is_leaf,
         NEW id \in Ids, NEW row \in Rows
  PROVE  EntryPut(LeafInserted(n, id, row), n, id, row, d)
<1> DEFINE m == LeafInserted(n, id, row)
<1> SUFFICES EntryPut(m, n, id, row, d)
  OBVIOUS
<1> DEFINE i == LeafIdx(n, id)
<1>0. /\ n.keys \in Seq(Ids) /\ n.keys \in Seq(Int) /\ Len(n.keys) \in Nat
      /\ n.vals \in Seq(Nat)
      /\ \A k \in 1 .. Len(n.keys) : n.keys[k] \in Ids /\ n.keys[k] \in Int
      /\ id \in Int /\ row \in Nat
  BY MadeFields, Constants
<1>1. /\ n \in NodeSet /\ Len(n.vals) = Len(n.keys) /\ n.next \in 0 .. d
      /\ \A k \in 1 .. Len(n.keys) : n.vals[k] \in Rows
      /\ \A j, k \in 1 .. Len(n.keys) : j < k => n.keys[j] < n.keys[k]
  BY DEF WellMade
<1>2. i \in 1 .. Len(n.keys) + 1 /\ IsSpot(n.keys, id, i)
  BY <1>0, LeafIdxFacts
<1>3. /\ \A j \in 1 .. i - 1 : n.keys[j] < id
      /\ i <= Len(n.keys) => id <= n.keys[i]
  BY <1>2 DEF IsSpot
<1>4. m = IF i <= Len(n.keys) /\ n.keys[i] = id
          THEN [n EXCEPT !.vals[i] = row]
          ELSE [n EXCEPT !.keys = InsertAt(n.keys, i, id),
                         !.vals = InsertAt(n.vals, i, row)]
  BY Zenon DEF LeafInserted
<1> HIDE DEF i, m
<1>5. CASE i <= Len(n.keys) /\ n.keys[i] = id
  <2> DEFINE vs == [n.vals EXCEPT ![i] = row]
  <2>1. m = [n EXCEPT !.vals = vs]
    BY <1>4, <1>5, Zenon
  <2>2. vs \in Seq(Nat) /\ Len(vs) = Len(n.keys)
        /\ \A k \in 1 .. Len(n.keys) : vs[k] = IF k = i THEN row ELSE n.vals[k]
    <3>1. n.vals \in Seq(Nat) /\ Len(n.vals) = Len(n.keys) /\ row \in Nat
      BY <1>0, <1>1
    <3>2. i \in 1 .. Len(n.vals)
      BY <1>0, <1>1, <1>2, <1>5
    <3> QED
      BY <3>1, <3>2
  <2> HIDE DEF vs
  <2>3. m \in NodeSet /\ m.keys = n.keys /\ m.vals = vs /\ m.is_leaf = n.is_leaf
        /\ m.next = n.next
    <3>1. n \in NodeSet /\ vs \in Seq(Nat)
      BY <1>1, <2>2
    <3> QED
      BY <2>1, <3>1 DEF NodeSet
  <2>4. \A k \in 1 .. Len(n.keys) : vs[k] \in Rows
    BY <1>1, <2>2
  <2>5. WellMade(m, d)
    BY <1>1, <2>2, <2>3, <2>4 DEF WellMade
  <2>6. i \in 1 .. Len(n.keys) /\ Len(n.keys) >= 1 /\ vs[i] = row
    BY SMTT(40), <1>0, <1>2, <1>5, <2>2
  <2>7. \A k \in 1 .. Len(n.keys) : n.keys[k] # id => vs[k] = n.vals[k]
    BY <1>5, <2>2
  <2> QED
    BY <1>5, <2>3, <2>5, <2>6, <2>7 DEF EntryPut
<1>6. CASE ~(i <= Len(n.keys) /\ n.keys[i] = id)
  <2> DEFINE ks == InsertAt(n.keys, i, id)
             vs == InsertAt(n.vals, i, row)
  <2>1. m = [n EXCEPT !.keys = ks, !.vals = vs]
    BY <1>4, <1>6, Zenon
  <2>2. ks \in Seq(Ids) /\ Inserted(ks, n.keys, i, id)
    BY <1>0, <1>2, InsertAtFacts, Zenon
  <2>3. vs \in Seq(Nat) /\ Inserted(vs, n.vals, i, row)
    <3>1. i \in 1 .. Len(n.vals) + 1
      BY <1>1, <1>2
    <3> QED
      BY <1>0, <3>1, InsertAtFacts, Zenon
  <2> HIDE DEF ks, vs
  <2>4. m \in NodeSet /\ m.keys = ks /\ m.vals = vs /\ m.is_leaf = n.is_leaf
        /\ m.next = n.next
    <3>1. n \in NodeSet /\ ks \in Seq(Ids) /\ vs \in Seq(Nat)
      BY <1>1, <2>2, <2>3
    <3> QED
      BY <2>1, <3>1 DEF NodeSet
  <2>5. Len(vs) = Len(ks) /\ PairAdded(ks, vs, n.keys, n.vals, id, row)
    <3>1. Len(n.keys) \in Nat
      BY <1>0
    <3>2. Len(n.vals) = Len(n.keys) /\ i \in 1 .. Len(n.keys) + 1
      BY <1>1, <1>2
    <3>3. Inserted(ks, n.keys, i, id) /\ Inserted(vs, n.vals, i, row)
      BY <2>2, <2>3
    <3> QED
      BY <3>1, <3>2, <3>3, InsertedPairs
  <2>6. \A k \in 1 .. Len(ks) : vs[k] \in Rows
    BY <1>1, <2>5 DEF PairAdded
  <2>7. StrictlyUp(ks)
    <3>1. StrictlyUp(n.keys)
      BY <1>1 DEF StrictlyUp
    <3>2. i <= Len(n.keys) => id < n.keys[i]
      BY <1>0, <1>2, <1>3, <1>6
    <3>3. ks \in Seq(Int)
      BY <2>2, Constants, SeqMonotonic
    <3> QED
      BY <1>0, <1>2, <1>3, <2>2, <3>1, <3>2, <3>3, InsertedUp
  <2>8. WellMade(m, d)
    <3>1. \A j, k \in 1 .. Len(ks) : j < k => ks[j] <= ks[k]
      <4>1. ks \in Seq(Int)
        BY <2>2, Constants, SeqMonotonic
      <4> QED
        BY <2>7, <4>1 DEF StrictlyUp
    <3> QED
      BY <1>1, <2>2, <2>3, <2>4, <2>5, <2>6, <2>7, <3>1 DEF WellMade, StrictlyUp
  <2>9. Len(ks) = Len(n.keys) + 1
    BY <2>2 DEF Inserted
  <2>10. Len(ks) >= 1
    BY <1>0, <2>9
  <2>11. m.is_leaf
    BY <2>4
  <2>12. /\ \E k \in 1 .. Len(ks) : ks[k] = id /\ vs[k] = row
         /\ \A k \in 1 .. Len(ks) : ks[k] # id =>
                \E j \in 1 .. Len(n.keys) : n.keys[j] = ks[k] /\ n.vals[j] = vs[k]
         /\ \A j \in 1 .. Len(n.keys) : n.keys[j] # id =>
                \E k \in 1 .. Len(ks) : ks[k] = n.keys[j] /\ vs[k] = n.vals[j]
    BY <2>5 DEF PairAdded
  <2>13. m.keys = ks /\ m.vals = vs /\ m.next = n.next
    BY <2>4
  <2> QED
    BY <2>8, <2>9, <2>10, <2>11, <2>12, <2>13 DEF EntryPut
<1> QED
  BY <1>5, <1>6

\* internal_insert_nonfull puts the key in its place and the child behind it.
LEMMA InternalInsertedFacts ==
  ASSUME NEW n, NEW d \in Nat, WellMade(n, d), ~n.is_leaf,
         NEW key \in Ids, NEW child \in 1 .. d,
         NEW m, m = InternalInserted(n, key, child)
  PROVE  /\ WellMade(m, d)
         /\ ~m.is_leaf
         /\ ChildIdx(n, key) \in 1 .. Len(n.keys) + 1
         /\ IsChild(n.keys, key, ChildIdx(n, key))
         /\ Inserted(m.keys, n.keys, ChildIdx(n, key), key)
         /\ Inserted(m.vals, n.vals, ChildIdx(n, key) + 1, child)
<1> DEFINE i == ChildIdx(n, key)
           ks == InsertAt(n.keys, i, key)
           vs == InsertAt(n.vals, i + 1, child)
<1>0. /\ n.keys \in Seq(Ids) /\ n.keys \in Seq(Int) /\ Len(n.keys) \in Nat
      /\ n.vals \in Seq(Nat)
      /\ \A k \in 1 .. Len(n.keys) : n.keys[k] \in Ids /\ n.keys[k] \in Int
      /\ key \in Int /\ child \in Nat
  BY MadeFields, Constants
<1>1. /\ n \in NodeSet /\ Len(n.vals) = Len(n.keys) + 1 /\ n.next = NULL
      /\ \A k \in 1 .. Len(n.vals) : n.vals[k] \in 1 .. d
      /\ Up(n.keys)
  BY DEF WellMade, Up
<1>2. i \in 1 .. Len(n.keys) + 1 /\ IsChild(n.keys, key, i)
  BY <1>0, ChildIdxFacts
<1>3. m = [n EXCEPT !.keys = ks, !.vals = vs]
  BY Zenon DEF InternalInserted
<1>4. ks \in Seq(Ids) /\ Inserted(ks, n.keys, i, key)
  BY <1>0, <1>2, InsertAtFacts, Zenon
<1>5. vs \in Seq(Nat) /\ Inserted(vs, n.vals, i + 1, child)
  <2>1. i + 1 \in 1 .. Len(n.vals) + 1
    BY <1>0, <1>1, <1>2
  <2> QED
    BY <1>0, <2>1, InsertAtFacts, Zenon
<1> HIDE DEF i, ks, vs
<1>6. m \in NodeSet /\ m.keys = ks /\ m.vals = vs /\ m.is_leaf = n.is_leaf
      /\ m.next = n.next
  <2>1. n \in NodeSet /\ ks \in Seq(Ids) /\ vs \in Seq(Nat)
    BY <1>1, <1>4, <1>5
  <2> QED
    BY <1>3, <2>1 DEF NodeSet
<1>7. Up(ks)
  <2>1. ks \in Seq(Int)
    BY <1>4, Constants, SeqMonotonic
  <2>2. \A j \in 1 .. i - 1 : n.keys[j] <= key
    BY <1>2 DEF IsChild
  <2>3. i <= Len(n.keys) => key <= n.keys[i]
    BY <1>0, <1>2 DEF IsChild
  <2> QED
    BY <1>0, <1>1, <1>2, <1>4, <2>1, <2>2, <2>3, InsertedUp
<1>8. Len(ks) = Len(n.keys) + 1 /\ Len(vs) = Len(ks) + 1
  BY <1>0, <1>1, <1>4, <1>5 DEF Inserted
<1>9. ASSUME NEW k \in 1 .. Len(vs) PROVE vs[k] \in 1 .. d
  <2>1. /\ k \in 1 .. Len(n.vals) + 1
        /\ vs[k] = IF k < i + 1 THEN n.vals[k] ELSE IF k = i + 1 THEN child ELSE n.vals[k - 1]
    BY <1>5 DEF Inserted
  <2>2. k < i + 1 => k \in 1 .. Len(n.vals)
    BY <1>0, <1>1, <1>2
  <2>3. k > i + 1 => k - 1 \in 1 .. Len(n.vals)
    BY <1>0, <1>1, <1>2, <2>1
  <2> QED
    BY <1>0, <1>1, <1>2, <2>1, <2>2, <2>3
<1>10. WellMade(m, d)
  BY <1>1, <1>6, <1>7, <1>8, <1>9 DEF WellMade, Up
<1> QED
  BY <1>2, <1>4, <1>5, <1>6, <1>10 DEF i

\* The middle of an array that has used its spare slot.
LEMMA MidFacts ==
  ASSUME order \in Orders
  PROVE  /\ order \in Nat /\ order >= 3
         /\ Mid \in Nat /\ Mid >= 1 /\ Mid + 1 < order
         /\ (order - 1) \div 2 \in Nat
         /\ Mid >= (order - 1) \div 2
         /\ order - Mid - 1 = (order - 1) \div 2
         /\ (order - 1) \div 2 >= 1
<1>1. order \in Nat /\ order >= 3
  BY Constants
<1> QED
  BY <1>1 DEF Mid

\* split_leaf: both halves are well made leaves, the left one linked to the
\* right one, and together they hold the entries of the leaf.
LEMMA LeafHalves ==
  ASSUME order \in Orders, NEW n, NEW d \in Nat, WellMade(n, d), n.is_leaf,
         Len(n.keys) = order,
         NEW l, l = LeftLeaf(n, d + 1), NEW r, r = RightLeaf(n)
  PROVE  /\ WellMade(l, d + 1) /\ l.is_leaf /\ l.next = d + 1
         /\ WellMade(r, d + 1) /\ r.is_leaf /\ r.next = n.next
         /\ Taken(l.keys, n.keys, 0, Mid) /\ Taken(l.vals, n.vals, 0, Mid)
         /\ Taken(r.keys, n.keys, Mid, order - Mid)
         /\ Taken(r.vals, n.vals, Mid, order - Mid)
         /\ r.keys[1] = n.keys[Mid + 1] /\ r.keys[1] \in Ids
<1>0. /\ n.keys \in Seq(Ids) /\ n.keys \in Seq(Int) /\ n.vals \in Seq(Nat)
      /\ \A k \in 1 .. Len(n.keys) : n.keys[k] \in Ids
      /\ Len(n.vals) = order /\ n.next \in 0 .. d /\ n.next \in Nat
      /\ \A k \in 1 .. order : n.vals[k] \in Rows
      /\ StrictlyUp(n.keys) /\ Up(n.keys)
  BY MadeFields DEF WellMade, StrictlyUp, Up
<1>1. order \in Nat /\ Mid \in 0 .. order /\ Mid + 1 <= order
      /\ Mid >= 1 /\ order - Mid \in 0 .. order - Mid /\ order - Mid >= 1
  BY MidFacts
<1> DEFINE lk == SubSeq(n.keys, 1, Mid)
           lv == SubSeq(n.vals, 1, Mid)
           rk == SubSeq(n.keys, Mid + 1, order)
           rv == SubSeq(n.vals, Mid + 1, order)
<1>2. /\ 0 \in 0 .. order /\ Mid \in 0 .. order - 0 /\ 1 = 0 + 1 /\ Mid = 0 + Mid
      /\ order = Mid + (order - Mid)
  BY <1>1
<1>3. lk \in Seq(Ids) /\ Taken(lk, n.keys, 0, Mid)
  BY <1>0, <1>1, <1>2, TakenFacts, Zenon
<1>4. lv \in Seq(Nat) /\ Taken(lv, n.vals, 0, Mid)
  BY <1>0, <1>1, <1>2, TakenFacts, Zenon
<1>5. rk \in Seq(Ids) /\ Taken(rk, n.keys, Mid, order - Mid)
  BY <1>0, <1>1, <1>2, TakenFacts, Zenon
<1>6. rv \in Seq(Nat) /\ Taken(rv, n.vals, Mid, order - Mid)
  BY <1>0, <1>1, <1>2, TakenFacts, Zenon
<1>7. l = [is_leaf |-> TRUE, keys |-> lk, vals |-> lv, next |-> d + 1]
  BY Zenon DEF LeftLeaf, Leaf
<1>8. r = [is_leaf |-> TRUE, keys |-> rk, vals |-> rv, next |-> n.next]
  BY Zenon DEF RightLeaf, Leaf
<1> HIDE DEF lk, lv, rk, rv
<1>9. StrictlyUp(lk) /\ Up(lk) /\ StrictlyUp(rk) /\ Up(rk)
  <2>1. Mid \in 0 .. Len(n.keys) - 0 /\ order - Mid \in 0 .. Len(n.keys) - Mid
        /\ 0 \in 0 .. Len(n.keys) /\ Mid \in 0 .. Len(n.keys)
    BY <1>1
  <2> QED
    BY <1>0, <1>3, <1>5, <2>1, TakenUp
<1>10. WellMade(l, d + 1)
  <2>1. /\ l \in NodeSet /\ l.is_leaf /\ l.keys = lk /\ l.vals = lv /\ l.next = d + 1
    <3> DEFINE e == d + 1
    <3>1. e \in Nat /\ lk \in Seq(Ids) /\ lv \in Seq(Nat)
      BY <1>3, <1>4
    <3>2. l = [is_leaf |-> TRUE, keys |-> lk, vals |-> lv, next |-> e]
      BY <1>7, Zenon
    <3> HIDE DEF e
    <3>3. l \in NodeSet
      <4>1. [is_leaf |-> TRUE, keys |-> lk, vals |-> lv, next |-> e] \in NodeSet
        BY <3>1 DEF NodeSet
      <4> QED
        BY <3>2, <4>1, Zenon
    <3>4. l.is_leaf /\ l.keys = lk /\ l.vals = lv /\ l.next = e
      BY <3>2
    <3> QED
      BY <3>3, <3>4 DEF e
  <2>2. Len(lv) = Len(lk) /\ \A k \in 1 .. Len(lv) : lv[k] \in Rows
    <3>1. Len(lk) = Mid /\ Len(lv) = Mid /\ \A k \in 1 .. Mid : lv[k] = n.vals[0 + k]
      BY <1>3, <1>4 DEF Taken
    <3>2. \A k \in 1 .. Mid : 0 + k \in 1 .. order
      BY <1>1
    <3> QED
      BY <1>0, <3>1, <3>2
  <2>3. d + 1 \in 0 .. d + 1
    OBVIOUS
  <2> QED
    BY <1>9, <2>1, <2>2, <2>3 DEF WellMade, StrictlyUp, Up
<1>11. WellMade(r, d + 1)
  <2>1. /\ r \in NodeSet /\ r.is_leaf /\ r.keys = rk /\ r.vals = rv /\ r.next = n.next
    BY <1>0, <1>5, <1>6, <1>8 DEF NodeSet
  <2>2. Len(rv) = Len(rk) /\ \A k \in 1 .. Len(rv) : rv[k] \in Rows
    <3>1. /\ Len(rk) = order - Mid /\ Len(rv) = order - Mid
          /\ \A k \in 1 .. order - Mid : rv[k] = n.vals[Mid + k]
      BY <1>5, <1>6 DEF Taken
    <3>2. \A k \in 1 .. order - Mid : Mid + k \in 1 .. order
      BY <1>1
    <3> QED
      BY <1>0, <3>1, <3>2
  <2>3. n.next \in 0 .. d + 1
    BY <1>0
  <2> QED
    BY <1>9, <2>1, <2>2, <2>3 DEF WellMade, StrictlyUp, Up
<1>12. rk[1] = n.keys[Mid + 1] /\ rk[1] \in Ids
  BY <1>0, <1>1, <1>5 DEF Taken
<1> QED
  BY <1>3, <1>4, <1>5, <1>6, <1>7, <1>8, <1>10, <1>11, <1>12

\* split_internal: the halves are well made, share out the children and leave
\* the middle key to neither.
LEMMA InnerHalves ==
  ASSUME order \in Orders, NEW n, NEW d \in Nat, WellMade(n, d), ~n.is_leaf,
         Len(n.keys) = order,
         NEW l, l = LeftInternal(n), NEW r, r = RightInternal(n)
  PROVE  /\ WellMade(l, d) /\ ~l.is_leaf
         /\ WellMade(r, d) /\ ~r.is_leaf
         /\ Taken(l.keys, n.keys, 0, Mid) /\ Taken(l.vals, n.vals, 0, Mid + 1)
         /\ Taken(r.keys, n.keys, Mid + 1, order - Mid - 1)
         /\ Taken(r.vals, n.vals, Mid + 1, order - Mid)
         /\ n.keys[Mid + 1] \in Ids
<1>0. /\ n.keys \in Seq(Ids) /\ n.keys \in Seq(Int) /\ n.vals \in Seq(Nat)
      /\ \A k \in 1 .. Len(n.keys) : n.keys[k] \in Ids
      /\ Len(n.vals) = order + 1
      /\ \A k \in 1 .. order + 1 : n.vals[k] \in 1 .. d
      /\ Up(n.keys)
  BY MadeFields DEF WellMade, Up
<1>1. /\ order \in Nat /\ Mid \in Nat /\ Mid \in 0 .. order - 0 /\ 0 \in 0 .. order
      /\ 0 \in 0 .. order + 1 /\ Mid + 1 \in 0 .. (order + 1) - 0
      /\ Mid + 1 \in 0 .. order /\ order - Mid - 1 \in 0 .. order - (Mid + 1)
      /\ Mid + 1 \in 0 .. order + 1 /\ order - Mid \in 0 .. (order + 1) - (Mid + 1)
      /\ Mid + 1 \in 1 .. order
  <2>1. order \in Nat /\ Mid \in Nat /\ Mid + 1 < order
    BY MidFacts
  <2> HIDE DEF Mid
  <2> QED
    BY <2>1
<1> DEFINE lk == SubSeq(n.keys, 1, Mid)
           lv == SubSeq(n.vals, 1, Mid + 1)
           rk == SubSeq(n.keys, Mid + 2, order)
           rv == SubSeq(n.vals, Mid + 2, order + 1)
<1>2. /\ 1 = 0 + 1 /\ Mid = 0 + Mid /\ Mid + 1 = 0 + (Mid + 1)
      /\ Mid + 2 = (Mid + 1) + 1 /\ order = (Mid + 1) + (order - Mid - 1)
      /\ order + 1 = (Mid + 1) + (order - Mid)
  BY <1>1
<1>3. lk \in Seq(Ids) /\ Taken(lk, n.keys, 0, Mid)
  BY <1>0, <1>1, <1>2, TakenFacts, Zenon
<1>4. lv \in Seq(Nat) /\ Taken(lv, n.vals, 0, Mid + 1)
  BY <1>0, <1>1, <1>2, TakenFacts, Zenon
<1>5. rk \in Seq(Ids) /\ Taken(rk, n.keys, Mid + 1, order - Mid - 1)
  BY <1>0, <1>1, <1>2, TakenFacts, Zenon
<1>6. rv \in Seq(Nat) /\ Taken(rv, n.vals, Mid + 1, order - Mid)
  BY <1>0, <1>1, <1>2, TakenFacts, Zenon
<1>7. l = [is_leaf |-> FALSE, keys |-> lk, vals |-> lv, next |-> 0]
  BY Zenon DEF LeftInternal, Internal, NULL
<1>8. r = [is_leaf |-> FALSE, keys |-> rk, vals |-> rv, next |-> 0]
  BY Zenon DEF RightInternal, Internal, NULL
<1> HIDE DEF lk, lv, rk, rv
<1>9. Up(lk) /\ Up(rk)
  BY <1>0, <1>1, <1>3, <1>5, TakenUp
<1>10. WellMade(l, d)
  <2>1. l \in NodeSet /\ ~l.is_leaf /\ l.keys = lk /\ l.vals = lv /\ l.next = NULL
    BY <1>3, <1>4, <1>7 DEF NodeSet, NULL
  <2>2. Len(lv) = Len(lk) + 1 /\ \A k \in 1 .. Len(lv) : lv[k] \in 1 .. d
    <3>1. Len(lk) = Mid /\ Len(lv) = Mid + 1 /\ \A k \in 1 .. Mid + 1 : lv[k] = n.vals[0 + k]
      BY <1>3, <1>4 DEF Taken
    <3>2. \A k \in 1 .. Mid + 1 : 0 + k \in 1 .. order + 1
      BY <1>1
    <3> QED
      BY <1>0, <3>1, <3>2
  <2> QED
    BY <1>9, <2>1, <2>2 DEF WellMade, Up
<1>11. WellMade(r, d)
  <2>1. r \in NodeSet /\ ~r.is_leaf /\ r.keys = rk /\ r.vals = rv /\ r.next = NULL
    BY <1>5, <1>6, <1>8 DEF NodeSet, NULL
  <2>2. Len(rv) = Len(rk) + 1 /\ \A k \in 1 .. Len(rv) : rv[k] \in 1 .. d
    <3>1. /\ Len(rk) = order - Mid - 1 /\ Len(rv) = order - Mid
          /\ \A k \in 1 .. order - Mid : rv[k] = n.vals[Mid + 1 + k]
      BY <1>5, <1>6 DEF Taken
    <3>2. /\ \A k \in 1 .. order - Mid : Mid + 1 + k \in 1 .. order + 1
          /\ order - Mid = order - Mid - 1 + 1
      BY <1>1
    <3> QED
      BY <1>0, <3>1, <3>2
  <2> QED
    BY <1>9, <2>1, <2>2 DEF WellMade, Up
<1> QED
  BY <1>0, <1>1, <1>3, <1>4, <1>5, <1>6, <1>7, <1>8, <1>10, <1>11

-----------------------------------------------------------------------------
(* Trees                                                                   *)

Made(nd) ==
    /\ nd \in Seq(NodeSet)
    /\ \A n \in 1 .. Len(nd) : WellMade(nd[n], Len(nd))

\* h gives every node its height: 0 to a leaf, and to an inner node one more
\* than to each of its children.  None is above rt.
Levels(nd, h, rt) ==
    /\ h \in [1 .. Len(nd) -> Nat]
    /\ \A n \in 1 .. Len(nd) :
           /\ h[n] <= h[rt]
           /\ nd[n].is_leaf => h[n] = 0
           /\ ~nd[n].is_leaf =>
                  \A i \in 1 .. Len(nd[n].vals) : h[n] = h[nd[n].vals[i]] + 1

\* n is the i-th child of p.
ChildAt(nd, p, i, n) ==
    /\ p \in 1 .. Len(nd) /\ ~nd[p].is_leaf
    /\ i \in 1 .. Len(nd[p].vals)
    /\ nd[p].vals[i] = n

\* No node is the child at two places, and the nodes of free alone are the
\* child at none.
Owned(nd, free) ==
    /\ \A n, p, q, i, j : ChildAt(nd, p, i, n) /\ ChildAt(nd, q, j, n) => p = q /\ i = j
    /\ \A n \in 1 .. Len(nd) : n \in free <=> \A p, i : ~ChildAt(nd, p, i, n)

\* md is nd with m in the place of node p.
Replaced(md, nd, p, m) ==
    /\ md \in Seq(NodeSet) /\ Len(md) = Len(nd)
    /\ md[p] = m
    /\ \A q \in 1 .. Len(nd) : q # p => md[q] = nd[q]

\* md is nd with node p split into l, in its place, and r, a new node.
Divided(md, nd, p, l, r) ==
    /\ md \in Seq(NodeSet) /\ Len(md) = Len(nd) + 1
    /\ md[p] = l
    /\ md[Len(nd) + 1] = r
    /\ \A q \in 1 .. Len(nd) : q # p => md[q] = nd[q]

\* The heights after a split: the new node is as high as the one split.
Raised(h, d, p) == [n \in 1 .. d + 1 |-> IF n = d + 1 THEN h[p] ELSE h[n]]

\* The heights after a split: the new sibling has the height of the node that
\* was divided, every older node keeps its own.
LEMMA RaisedFacts ==
  ASSUME NEW d \in Nat, NEW h \in [1 .. d -> Nat], NEW p \in 1 .. d
  PROVE  /\ Raised(h, d, p) \in [1 .. d + 1 -> Nat]
         /\ Raised(h, d, p)[d + 1] = h[p]
         /\ \A n \in 1 .. d : Raised(h, d, p)[n] = h[n]
<1>1. \A n \in 1 .. d + 1 : n # d + 1 => n \in 1 .. d
  OBVIOUS
<1>2. d + 1 \in 1 .. d + 1 /\ \A n \in 1 .. d : n \in 1 .. d + 1 /\ n # d + 1
  OBVIOUS
<1> QED
  BY <1>1, <1>2 DEF Raised

\* A node that was well made stays so when another one is allocated.
LEMMA MoreNodes ==
  ASSUME NEW n, NEW d \in Nat, WellMade(n, d)
  PROVE  WellMade(n, d + 1)
<1>1. 0 .. d \subseteq 0 .. d + 1 /\ 1 .. d \subseteq 1 .. d + 1
  OBVIOUS
<1> QED
  BY <1>1 DEF WellMade

\* Writing one well made node keeps all of them so.
LEMMA MadeReplaced ==
  ASSUME NEW nd, Made(nd), NEW p \in 1 .. Len(nd), NEW m, WellMade(m, Len(nd)),
         NEW md, Replaced(md, nd, p, m)
  PROVE  Made(md)
  BY DEF Made, Replaced

\* Writing the left half and allocating the right one keeps all nodes well
\* made.
LEMMA MadeDivided ==
  ASSUME NEW nd, Made(nd), NEW p \in 1 .. Len(nd),
         NEW l, WellMade(l, Len(nd) + 1), NEW r, WellMade(r, Len(nd) + 1),
         NEW md, Divided(md, nd, p, l, r)
  PROVE  Made(md)
<1>1. Len(nd) \in Nat
  BY DEF Made
<1>2. \A n \in 1 .. Len(nd) : WellMade(nd[n], Len(nd) + 1)
  BY <1>1, MoreNodes DEF Made
<1>3. ASSUME NEW n \in 1 .. Len(nd) + 1
      PROVE  WellMade(md[n], Len(nd) + 1)
  <2>1. n = p \/ n = Len(nd) + 1 \/ (n \in 1 .. Len(nd) /\ n # p)
    BY <1>1
  <2> QED
    BY <1>2, <2>1 DEF Divided
<1> QED
  BY <1>3 DEF Made, Divided

\* A leaf that gets an entry.
LEMMA LeafChanged ==
  ASSUME NEW nd, Made(nd), NEW p \in 1 .. Len(nd), nd[p].is_leaf,
         NEW m, m.is_leaf, NEW md, Replaced(md, nd, p, m)
  PROVE  /\ \A h, rt : Levels(nd, h, rt) => Levels(md, h, rt)
         /\ \A free : Owned(nd, free) => Owned(md, free)
<1>1. \A n \in 1 .. Len(nd) : md[n].is_leaf = nd[n].is_leaf \/ (md[n].is_leaf /\ nd[n].is_leaf)
  BY DEF Replaced
<1>2. \A n \in 1 .. Len(nd) : ~md[n].is_leaf => md[n] = nd[n]
  BY DEF Replaced
<1>3. \A n \in 1 .. Len(nd) : ~nd[n].is_leaf => md[n] = nd[n]
  BY DEF Replaced
<1>4. Len(md) = Len(nd)
  BY DEF Replaced
<1>5. \A n \in 1 .. Len(nd) : md[n].is_leaf => nd[n].is_leaf
  BY <1>3
<1>6. ASSUME NEW h, NEW rt, Levels(nd, h, rt) PROVE Levels(md, h, rt)
  BY <1>2, <1>4, <1>5, <1>6 DEF Levels
<1>7. ASSUME NEW free, Owned(nd, free) PROVE Owned(md, free)
  <2>1. \A q, i, n : ChildAt(md, q, i, n) <=> ChildAt(nd, q, i, n)
    BY <1>2, <1>3, <1>4 DEF ChildAt
  <2> QED
    BY <1>4, <1>7, <2>1 DEF Owned
<1> QED
  BY <1>6, <1>7

\* An inner node that gets a child.
LEMMA ChildAdded ==
  ASSUME NEW nd, Made(nd), NEW p \in 1 .. Len(nd), ~nd[p].is_leaf,
         NEW m, ~m.is_leaf, NEW md, Replaced(md, nd, p, m),
         NEW s \in 1 .. Len(nd), NEW i \in 1 .. Len(nd[p].vals) + 1,
         Inserted(m.vals, nd[p].vals, i, s)
  PROVE  /\ \A h, rt : Levels(nd, h, rt) /\ h[p] = h[s] + 1 => Levels(md, h, rt)
         /\ \A free : Owned(nd, free) /\ s \in free => Owned(md, free \ {s})
<1> DEFINE v == nd[p].vals
           w == m.vals
<1>0. /\ Len(md) = Len(nd) /\ Len(v) \in Nat /\ md[p] = m
      /\ \A n \in 1 .. Len(nd) : n # p => md[n] = nd[n]
  BY MadeFields DEF Replaced, Made
<1>1. /\ Len(w) = Len(v) + 1
      /\ \A k \in 1 .. Len(v) + 1 :
             w[k] = IF k < i THEN v[k] ELSE IF k = i THEN s ELSE v[k - 1]
  BY DEF Inserted
<1> HIDE DEF v, w
<1>2. ASSUME NEW k \in 1 .. Len(w)
      PROVE  \/ k < i /\ k \in 1 .. Len(v) /\ w[k] = v[k]
             \/ k = i /\ w[k] = s
             \/ k > i /\ k - 1 \in 1 .. Len(v) /\ w[k] = v[k - 1]
  <2>0. i \in 1 .. Len(v) + 1 /\ k \in 1 .. Len(v) + 1
    BY <1>1 DEF v
  <2>1. CASE k < i
    BY <1>0, <1>1, <2>0, <2>1
  <2>2. CASE k = i
    BY <1>1, <2>0, <2>2
  <2>3. CASE k > i
    BY <1>0, <1>1, <2>0, <2>3
  <2> QED
    BY <1>0, <2>0, <2>1, <2>2, <2>3
<1>3. ASSUME NEW k \in 1 .. Len(v)
      PROVE  \/ k < i /\ k \in 1 .. Len(w) /\ w[k] = v[k]
             \/ k >= i /\ k + 1 \in 1 .. Len(w) /\ w[k + 1] = v[k]
  <2>1. CASE k < i
    BY <1>0, <1>1, <2>1
  <2>2. CASE k >= i
    <3>1. k + 1 \in 1 .. Len(v) + 1 /\ k + 1 > i /\ (k + 1) - 1 = k
      BY <1>0, <2>2
    <3>2. w[k + 1] = v[(k + 1) - 1]
      BY <1>1, <3>1
    <3> QED
      BY <1>1, <2>2, <3>1, <3>2, Zenon
  <2> QED
    BY <1>0, <2>1, <2>2
<1>4. ASSUME NEW h, NEW rt, Levels(nd, h, rt), h[p] = h[s] + 1
      PROVE  Levels(md, h, rt)
  <2>1. \A k \in 1 .. Len(v) : h[p] = h[v[k]] + 1
    BY <1>4 DEF Levels, v
  <2>2. \A k \in 1 .. Len(w) : h[p] = h[w[k]] + 1
    BY <1>2, <1>4, <2>1
  <2>3. \A n \in 1 .. Len(nd) : md[n].is_leaf => nd[n].is_leaf
    BY <1>0
  <2>4. \A n \in 1 .. Len(nd) : ~md[n].is_leaf =>
            \A k \in 1 .. Len(md[n].vals) : h[n] = h[md[n].vals[k]] + 1
    BY <1>0, <1>4, <2>2 DEF Levels, w
  <2> QED
    BY <1>0, <1>4, <2>3, <2>4 DEF Levels
<1>5. ASSUME NEW q, NEW k, NEW n
      PROVE  ChildAt(md, q, k, n) <=>
                 \/ q # p /\ ChildAt(nd, q, k, n)
                 \/ q = p /\ k \in 1 .. Len(w) /\ w[k] = n
  BY <1>0 DEF ChildAt, w
<1>6. ASSUME NEW k, NEW n
      PROVE  ChildAt(nd, p, k, n) <=> k \in 1 .. Len(v) /\ v[k] = n
  BY DEF ChildAt, v
<1>7. ASSUME NEW free, Owned(nd, free), s \in free
      PROVE  Owned(md, free \ {s})
  <2>1. \A q, k : ~ChildAt(nd, q, k, s)
    BY <1>7 DEF Owned
  <2>2. \A n, q, r, k, j : ChildAt(nd, q, k, n) /\ ChildAt(nd, r, j, n) => q = r /\ k = j
    BY <1>7 DEF Owned
  <2>3. ASSUME NEW k \in 1 .. Len(w), NEW j \in 1 .. Len(w), w[k] = w[j]
        PROVE  k = j
    <3>1. \A x, y \in 1 .. Len(v) : v[x] = v[y] => x = y
      BY <1>6, <2>2
    <3>2. \A x \in 1 .. Len(v) : v[x] # s
      BY <1>6, <2>1
    <3>3. \/ k < i /\ k \in 1 .. Len(v) /\ w[k] = v[k]
          \/ k = i /\ w[k] = s
          \/ k > i /\ k - 1 \in 1 .. Len(v) /\ w[k] = v[k - 1]
      BY <1>2
    <3>4. \/ j < i /\ j \in 1 .. Len(v) /\ w[j] = v[j]
          \/ j = i /\ w[j] = s
          \/ j > i /\ j - 1 \in 1 .. Len(v) /\ w[j] = v[j - 1]
      BY <1>2
    <3>5. i \in Nat /\ j \in Nat /\ k \in Nat
      BY <1>0, <1>1 DEF v
    <3>6. CASE k = i
      BY <2>3, <3>2, <3>3, <3>4, <3>5, <3>6
    <3>7. CASE j = i
      BY <2>3, <3>2, <3>3, <3>4, <3>5, <3>7
    <3>8. CASE k < i /\ j < i
      BY <2>3, <3>1, <3>3, <3>4, <3>5, <3>8
    <3>9. CASE k < i /\ j > i
      <4>1. k = j - 1
        BY <2>3, <3>1, <3>3, <3>4, <3>5, <3>9
      <4> QED
        BY <3>5, <3>9, <4>1
    <3>10. CASE k > i /\ j < i
      <4>1. k - 1 = j
        BY <2>3, <3>1, <3>3, <3>4, <3>5, <3>10
      <4> QED
        BY <3>5, <3>10, <4>1
    <3>11. CASE k > i /\ j > i
      <4>1. k - 1 = j - 1
        BY SMTT(40), <2>3, <3>1, <3>3, <3>4, <3>5, <3>11
      <4> QED
        BY <3>5, <4>1
    <3> QED
      BY <3>5, <3>6, <3>7, <3>8, <3>9, <3>10, <3>11
  <2>4. ASSUME NEW k \in 1 .. Len(w), NEW q, NEW j, q # p, ChildAt(nd, q, j, w[k])
        PROVE  FALSE
    <3>1. \A x \in 1 .. Len(v) : ~ChildAt(nd, q, j, v[x])
      BY <1>6, <2>2, <2>4
    <3> QED
      BY <1>2, <2>1, <2>4, <3>1
  <2>5. \A n, q, r, k, j : ChildAt(md, q, k, n) /\ ChildAt(md, r, j, n) => q = r /\ k = j
    <3> SUFFICES ASSUME NEW n, NEW q, NEW r, NEW k, NEW j,
                        ChildAt(md, q, k, n), ChildAt(md, r, j, n)
                 PROVE  q = r /\ k = j
      OBVIOUS
    <3>1. \/ q # p /\ ChildAt(nd, q, k, n)
          \/ q = p /\ k \in 1 .. Len(w) /\ w[k] = n
      BY <1>5
    <3>2. \/ r # p /\ ChildAt(nd, r, j, n)
          \/ r = p /\ j \in 1 .. Len(w) /\ w[j] = n
      BY <1>5
    <3>3. CASE q # p /\ r # p
      BY <2>2, <3>1, <3>2, <3>3
    <3>4. CASE q = p /\ r = p
      BY <2>3, <3>1, <3>2, <3>4
    <3>5. CASE q = p /\ r # p
      BY <2>4, <3>1, <3>2, <3>5
    <3>6. CASE q # p /\ r = p
      BY <2>4, <3>1, <3>2, <3>6
    <3> QED
      BY <3>3, <3>4, <3>5, <3>6
  <2>6. ASSUME NEW n \in 1 .. Len(nd)
        PROVE  n \in free \ {s} <=> \A q, k : ~ChildAt(md, q, k, n)
    <3>1. n \in free <=> \A q, k : ~ChildAt(nd, q, k, n)
      BY <1>7 DEF Owned
    <3>2. i \in 1 .. Len(w) /\ w[i] = s
      BY <1>0, <1>1 DEF v
    <3>3. n = s => \E q, k : ChildAt(md, q, k, n)
      BY <1>5, <3>2
    <3>4. (\E q, k : ChildAt(nd, q, k, n)) => \E q, k : ChildAt(md, q, k, n)
      <4> SUFFICES ASSUME NEW q, NEW k, ChildAt(nd, q, k, n)
                   PROVE  \E x, y : ChildAt(md, x, y, n)
        OBVIOUS
      <4>1. CASE q # p
        BY <1>5, <4>1
      <4>2. CASE q = p
        BY <1>3, <1>5, <1>6, <4>2
      <4> QED
        BY <4>1, <4>2
    <3>5. n # s /\ (\E q, k : ChildAt(md, q, k, n)) => \E q, k : ChildAt(nd, q, k, n)
      <4> SUFFICES ASSUME NEW q, NEW k, ChildAt(md, q, k, n), n # s
                   PROVE  \E x, y : ChildAt(nd, x, y, n)
        OBVIOUS
      <4>1. CASE q # p
        BY <1>5, <4>1
      <4>2. CASE q = p
        BY <1>2, <1>5, <1>6, <4>2
      <4> QED
        BY <4>1, <4>2
    <3> QED
      BY <3>1, <3>3, <3>4, <3>5
  <2> QED
    BY <1>0, <2>5, <2>6 DEF Owned
<1> QED
  BY <1>4, <1>7

\* A leaf that is split: the new leaf has no parent yet.
LEMMA LeafDivided ==
  ASSUME NEW nd, Made(nd), NEW p \in 1 .. Len(nd), nd[p].is_leaf,
         NEW l, l.is_leaf, NEW r, r.is_leaf, NEW md, Divided(md, nd, p, l, r)
  PROVE  /\ \A h, rt : rt \in 1 .. Len(nd) /\ Levels(nd, h, rt) =>
                Levels(md, Raised(h, Len(nd), p), rt)
         /\ \A free : free \subseteq 1 .. Len(nd) /\ Owned(nd, free) =>
                Owned(md, free \cup {Len(nd) + 1})
<1>0. /\ Len(md) = Len(nd) + 1 /\ Len(nd) \in Nat /\ md[p] = l /\ md[Len(nd) + 1] = r
      /\ \A n \in 1 .. Len(nd) : n # p => md[n] = nd[n]
  BY DEF Divided, Made
<1>1. \A n \in 1 .. Len(nd) + 1 : ~md[n].is_leaf => n \in 1 .. Len(nd) /\ md[n] = nd[n]
  BY <1>0
<1>2. \A n \in 1 .. Len(nd) : ~nd[n].is_leaf => n \in 1 .. Len(nd) + 1 /\ md[n] = nd[n]
  BY <1>0
<1>3. \A n \in 1 .. Len(nd) : ~nd[n].is_leaf =>
          \A i \in 1 .. Len(nd[n].vals) : nd[n].vals[i] \in 1 .. Len(nd)
  BY DEF Made, WellMade
<1>4. ASSUME NEW h, NEW rt \in 1 .. Len(nd), Levels(nd, h, rt)
      PROVE  Levels(md, Raised(h, Len(nd), p), rt)
  <2> DEFINE g == Raised(h, Len(nd), p)
  <2>1. /\ h \in [1 .. Len(nd) -> Nat] /\ h[p] = 0
        /\ \A n \in 1 .. Len(nd) : h[n] <= h[rt]
    BY <1>4 DEF Levels
  <2>2. g \in [1 .. Len(nd) + 1 -> Nat] /\ g[Len(nd) + 1] = h[p]
        /\ \A n \in 1 .. Len(nd) : g[n] = h[n]
    <3> DEFINE d == Len(nd)
    <3>1. d \in Nat /\ h \in [1 .. d -> Nat] /\ p \in 1 .. d
      BY <1>0, <2>1
    <3> HIDE DEF d
    <3>2. /\ Raised(h, d, p) \in [1 .. d + 1 -> Nat] /\ Raised(h, d, p)[d + 1] = h[p]
          /\ \A n \in 1 .. d : Raised(h, d, p)[n] = h[n]
      BY <3>1, RaisedFacts
    <3> QED
      BY <3>2 DEF d
  <2>3. g[Len(nd) + 1] = 0 /\ \A n \in 1 .. Len(nd) : g[n] = h[n]
    BY <2>1, <2>2
  <2> HIDE DEF g
  <2>4. ASSUME NEW n \in 1 .. Len(nd) + 1 PROVE g[n] <= g[rt]
    BY SMTT(40), <1>0, <2>1, <2>2, <2>3
  <2>5. ASSUME NEW n \in 1 .. Len(nd) + 1, md[n].is_leaf PROVE g[n] = 0
    BY <1>0, <1>4, <2>1, <2>2, <2>3, <2>5 DEF Levels
  <2>6. ASSUME NEW n \in 1 .. Len(nd) + 1, ~md[n].is_leaf,
               NEW i \in 1 .. Len(md[n].vals)
        PROVE  g[n] = g[md[n].vals[i]] + 1
    <3>1. n \in 1 .. Len(nd) /\ md[n] = nd[n]
      BY <1>1, <2>6
    <3>2. h[n] = h[nd[n].vals[i]] + 1 /\ nd[n].vals[i] \in 1 .. Len(nd)
      BY <1>3, <1>4, <2>6, <3>1 DEF Levels
    <3> QED
      BY <2>3, <3>1, <3>2
  <2> QED
    BY <1>0, <2>2, <2>4, <2>5, <2>6 DEF Levels, g
<1>5. ASSUME NEW free, free \subseteq 1 .. Len(nd), Owned(nd, free)
      PROVE  Owned(md, free \cup {Len(nd) + 1})
  <2>1. \A q, i, n : ChildAt(md, q, i, n) <=> ChildAt(nd, q, i, n)
    BY <1>0, <1>1, <1>2 DEF ChildAt
  <2>2. \A q, i : ~ChildAt(nd, q, i, Len(nd) + 1)
    BY <1>0, <1>3 DEF ChildAt
  <2>3. ASSUME NEW n \in 1 .. Len(nd) + 1
        PROVE  n \in free \cup {Len(nd) + 1} <=> \A q, i : ~ChildAt(md, q, i, n)
    <3>1. CASE n = Len(nd) + 1
      BY <2>1, <2>2, <3>1
    <3>2. CASE n \in 1 .. Len(nd)
      <4>1. n # Len(nd) + 1
        BY <1>0, <3>2
      <4>2. n \in free <=> \A q, i : ~ChildAt(nd, q, i, n)
        BY <1>5, <3>2 DEF Owned
      <4> QED
        BY <2>1, <4>1, <4>2
    <3> QED
      BY <1>0, <3>1, <3>2
  <2>4. \A n, x, q, i, j : ChildAt(md, x, i, n) /\ ChildAt(md, q, j, n) => x = q /\ i = j
    BY <1>5, <2>1 DEF Owned
  <2> QED
    BY <1>0, <2>3, <2>4 DEF Owned
<1> QED
  BY <1>4, <1>5

\* An inner node that is split behind its c-th child.
LEMMA InnerDivided ==
  ASSUME NEW nd, Made(nd), NEW p \in 1 .. Len(nd), ~nd[p].is_leaf,
         NEW l, ~l.is_leaf, NEW r, ~r.is_leaf, NEW md, Divided(md, nd, p, l, r),
         NEW c \in 1 .. Len(nd[p].vals), NEW e, e = Len(nd[p].vals) - c,
         Taken(l.vals, nd[p].vals, 0, c), Taken(r.vals, nd[p].vals, c, e)
  PROVE  /\ \A h, rt : rt \in 1 .. Len(nd) /\ Levels(nd, h, rt) =>
                Levels(md, Raised(h, Len(nd), p), rt)
         /\ \A free : free \subseteq 1 .. Len(nd) /\ Owned(nd, free) =>
                Owned(md, free \cup {Len(nd) + 1})
<1> DEFINE v == nd[p].vals
           x == Len(nd) + 1
<1>0. /\ Len(md) = x /\ Len(nd) \in Nat /\ md[p] = l /\ md[x] = r
      /\ \A n \in 1 .. Len(nd) : n # p => md[n] = nd[n]
      /\ x \notin 1 .. Len(nd) /\ p # x
      /\ 1 .. x = 1 .. Len(nd) \cup {x}
  <2>1. Len(nd) \in Nat
    BY DEF Made
  <2>2. x \notin 1 .. Len(nd) /\ p # x /\ 1 .. x = 1 .. Len(nd) \cup {x}
    BY <2>1
  <2> QED
    BY <2>1, <2>2 DEF Divided
<1>1. Len(v) \in Nat /\ c \in 1 .. Len(v) /\ e = Len(v) - c
  BY MadeFields DEF Made
<1>2. \A n \in 1 .. Len(nd) : ~nd[n].is_leaf =>
          \A i \in 1 .. Len(nd[n].vals) : nd[n].vals[i] \in 1 .. Len(nd)
  BY DEF Made, WellMade
<1>3. /\ Len(l.vals) = c /\ Len(r.vals) = e
      /\ \A k \in 1 .. c : k \in 1 .. Len(v) /\ l.vals[k] = v[k]
      /\ \A k \in 1 .. e : c + k \in 1 .. Len(v) /\ r.vals[k] = v[c + k]
  <2>1. \A k \in 1 .. c : 0 + k = k /\ k \in 1 .. Len(v)
    BY <1>1
  <2>2. \A k \in 1 .. e : c + k \in 1 .. Len(v)
    BY <1>1
  <2> QED
    BY <2>1, <2>2 DEF Taken
<1>4. \A k \in 1 .. Len(v) : \/ k \in 1 .. c
                             \/ k - c \in 1 .. e /\ r.vals[k - c] = v[k]
  <2> SUFFICES ASSUME NEW k \in 1 .. Len(v), ~(k \in 1 .. c)
               PROVE  k - c \in 1 .. e /\ r.vals[k - c] = v[k]
    OBVIOUS
  <2>1. k - c \in 1 .. e /\ c + (k - c) = k
    BY <1>1
  <2>2. r.vals[k - c] = v[c + (k - c)]
    BY <1>3, <2>1, Zenon
  <2> QED
    BY <2>1, <2>2, Zenon
<1> HIDE DEF v, x
<1>5. ASSUME NEW h, NEW rt \in 1 .. Len(nd), Levels(nd, h, rt)
      PROVE  Levels(md, Raised(h, Len(nd), p), rt)
  <2> DEFINE g == Raised(h, Len(nd), p)
  <2>1. /\ h \in [1 .. Len(nd) -> Nat]
        /\ \A n \in 1 .. Len(nd) : h[n] <= h[rt]
        /\ \A k \in 1 .. Len(v) : h[p] = h[v[k]] + 1 /\ v[k] \in 1 .. Len(nd)
    BY <1>2, <1>5 DEF Levels, v
  <2>2. g \in [1 .. x -> Nat] /\ g[x] = h[p] /\ \A n \in 1 .. Len(nd) : g[n] = h[n]
    BY <1>0, <2>1, RaisedFacts, ZenonT(60) DEF x
  <2> HIDE DEF g
  <2>3. \A n \in 1 .. x : g[n] <= g[rt]
    BY <1>0, <2>1, <2>2
  <2>4. \A n \in 1 .. x : md[n].is_leaf => g[n] = 0
    BY <1>0, <1>5, <2>2 DEF Levels
  <2>5. ASSUME NEW n \in 1 .. x, ~md[n].is_leaf,
               NEW i \in 1 .. Len(md[n].vals)
        PROVE  g[n] = g[md[n].vals[i]] + 1
    <3>1. CASE n = p
      <4>1. i \in 1 .. Len(v) /\ md[n].vals[i] = v[i]
        BY <1>0, <1>3, <2>5, <3>1
      <4> QED
        BY <2>1, <2>2, <3>1, <4>1
    <3>2. CASE n = x
      <4>1. c + i \in 1 .. Len(v) /\ md[n].vals[i] = v[c + i]
        BY <1>0, <1>3, <2>5, <3>2
      <4> QED
        BY <2>1, <2>2, <3>2, <4>1
    <3>3. CASE n \in 1 .. Len(nd) /\ n # p
      <4>1. md[n] = nd[n] /\ h[n] = h[nd[n].vals[i]] + 1 /\ nd[n].vals[i] \in 1 .. Len(nd)
        BY <1>0, <1>2, <1>5, <2>5, <3>3 DEF Levels
      <4> QED
        BY <2>2, <3>3, <4>1
    <3> QED
      BY <1>0, <3>1, <3>2, <3>3
  <2> QED
    BY <1>0, <2>2, <2>3, <2>4, <2>5 DEF Levels, g
<1>6. ASSUME NEW q, NEW k, NEW n
      PROVE  ChildAt(md, q, k, n) <=>
                 \/ q \notin {p, x} /\ ChildAt(nd, q, k, n)
                 \/ q = p /\ k \in 1 .. c /\ v[k] = n
                 \/ q = x /\ k \in 1 .. e /\ v[c + k] = n
  <2>1. CASE q = p
    BY <1>0, <1>3, <2>1 DEF ChildAt
  <2>2. CASE q = x
    BY <1>0, <1>3, <2>2 DEF ChildAt
  <2>3. CASE q \notin {p, x}
    BY <1>0, <2>3 DEF ChildAt
  <2> QED
    BY <2>1, <2>2, <2>3
<1>7. ASSUME NEW k, NEW n
      PROVE  ChildAt(nd, p, k, n) <=> k \in 1 .. Len(v) /\ v[k] = n
  BY DEF ChildAt, v
<1>8. \A k, n : ~ChildAt(nd, x, k, n)
  BY <1>0 DEF ChildAt
<1>9. ASSUME NEW free, free \subseteq 1 .. Len(nd), Owned(nd, free)
      PROVE  Owned(md, free \cup {x})
  <2>1. \A n, q, z, k, j : ChildAt(nd, q, k, n) /\ ChildAt(nd, z, j, n) => q = z /\ k = j
    BY <1>9 DEF Owned
  <2>2. \A k, j \in 1 .. Len(v) : v[k] = v[j] => k = j
    BY <1>7, <2>1
  <2>3. \A k \in 1 .. Len(v) : \A q, j : q # p => ~ChildAt(nd, q, j, v[k])
    BY <1>7, <2>1
  <2>4. ASSUME NEW n, NEW q, NEW z, NEW k, NEW j,
               ChildAt(md, q, k, n), ChildAt(md, z, j, n)
        PROVE  q = z /\ k = j
    <3>1. \/ q \notin {p, x} /\ ChildAt(nd, q, k, n)
          \/ q = p /\ k \in 1 .. c /\ v[k] = n
          \/ q = x /\ k \in 1 .. e /\ v[c + k] = n
      BY <1>6, <2>4
    <3>2. \/ z \notin {p, x} /\ ChildAt(nd, z, j, n)
          \/ z = p /\ j \in 1 .. c /\ v[j] = n
          \/ z = x /\ j \in 1 .. e /\ v[c + j] = n
      BY <1>6, <2>4
    <3>3. CASE q \notin {p, x} /\ z \notin {p, x}
      BY <2>1, <3>1, <3>2, <3>3
    <3>4. CASE q \notin {p, x} /\ z \in {p, x}
      BY <1>3, <2>3, <3>1, <3>2, <3>4
    <3>5. CASE q \in {p, x} /\ z \notin {p, x}
      BY <1>3, <2>3, <3>1, <3>2, <3>5
    <3>6. CASE q \in {p, x} /\ z = q
      <4>1. CASE q = p
        BY <1>0, <1>3, <2>2, <3>1, <3>2, <3>6, <4>1
      <4>2. CASE q = x
        <5>1. /\ k \in 1 .. e /\ j \in 1 .. e /\ c + k \in 1 .. Len(v) /\ c + j \in 1 .. Len(v)
              /\ v[c + k] = v[c + j]
          BY <1>0, <1>3, <3>1, <3>2, <3>6, <4>2
        <5>2. c + k = c + j
          BY <2>2, <5>1
        <5> QED
          BY <1>1, <3>6, <5>1, <5>2
      <4> QED
        BY <3>6, <4>1, <4>2
    <3>7. CASE q = p /\ z = x
      <4>1. k \in 1 .. c /\ k \in 1 .. Len(v) /\ j \in 1 .. e /\ c + j \in 1 .. Len(v) /\ v[k] = v[c + j]
        BY <1>0, <1>3, <3>1, <3>2, <3>7
      <4>2. k = c + j
        BY <2>2, <4>1
      <4> QED
        BY <1>1, <4>1, <4>2
    <3>8. CASE q = x /\ z = p
      <4>1. j \in 1 .. c /\ j \in 1 .. Len(v) /\ k \in 1 .. e /\ c + k \in 1 .. Len(v) /\ v[j] = v[c + k]
        BY <1>0, <1>3, <3>1, <3>2, <3>8
      <4>2. j = c + k
        BY <2>2, <4>1
      <4> QED
        BY <1>1, <4>1, <4>2
    <3> QED
      BY <3>3, <3>4, <3>5, <3>6, <3>7, <3>8
  <2>5. ASSUME NEW n \in 1 .. Len(nd)
        PROVE  (\A q, k : ~ChildAt(nd, q, k, n)) <=> (\A q, k : ~ChildAt(md, q, k, n))
    <3>1. ASSUME NEW q, NEW k, ChildAt(nd, q, k, n)
          PROVE  \E y, z : ChildAt(md, y, z, n)
      <4>1. CASE q # p
        BY <1>6, <1>8, <3>1, <4>1
      <4>2. CASE q = p
        <5>1. k \in 1 .. Len(v) /\ v[k] = n
          BY <1>7, <3>1, <4>2
        <5>2. CASE k \in 1 .. c
          BY <1>6, <5>1, <5>2
        <5>3. CASE k - c \in 1 .. e
          <6>1. c + (k - c) = k
            BY <1>1, <5>1
          <6>2. v[c + (k - c)] = n
            BY <5>1, <6>1, Zenon
          <6>3. ChildAt(md, x, k - c, n)
            BY <1>6, <5>3, <6>2, Zenon
          <6> QED
            BY <6>3
        <5> QED
          BY <1>4, <5>1, <5>2, <5>3
      <4> QED
        BY <4>1, <4>2
    <3>2. ASSUME NEW q, NEW k, ChildAt(md, q, k, n)
          PROVE  \E y, z : ChildAt(nd, y, z, n)
      BY <1>3, <1>6, <1>7, <3>2, ZenonT(60)
    <3> QED
      BY <3>1, <3>2
  <2>6. ASSUME NEW q, NEW k PROVE ~ChildAt(md, q, k, x)
    <3>1. \A j \in 1 .. Len(v) : v[j] # x
      BY <1>0, <1>2 DEF v
    <3>2. ~ChildAt(nd, q, k, x)
      BY <1>0, <1>2 DEF ChildAt
    <3> QED
      BY <1>3, <1>6, <3>1, <3>2
  <2>7. ASSUME NEW n \in 1 .. x
        PROVE  n \in free \cup {x} <=> \A q, k : ~ChildAt(md, q, k, n)
    <3>1. CASE n = x
      BY <2>6, <3>1
    <3>2. CASE n \in 1 .. Len(nd) /\ n # x
      BY <1>9, <2>5, <3>2 DEF Owned
    <3> QED
      BY <1>0, <3>1, <3>2
  <2> QED
    BY <1>0, <2>4, <2>7 DEF Owned
<1> QED
  BY <1>5, <1>9 DEF x

\* A new root above the old one and the node split off it.
LEMMA RootAdded ==
  ASSUME NEW nd, Made(nd), NEW rt \in 1 .. Len(nd), NEW s \in 1 .. Len(nd), s # rt,
         NEW r, ~r.is_leaf, r.vals = <<rt, s>>,
         NEW md, Len(md) = Len(nd) + 1, md[Len(nd) + 1] = r,
         \A n \in 1 .. Len(nd) : md[n] = nd[n]
  PROVE  /\ \A h : Levels(nd, h, rt) /\ h[s] = h[rt] =>
                Levels(md, [n \in 1 .. Len(nd) + 1 |->
                               IF n = Len(nd) + 1 THEN h[rt] + 1 ELSE h[n]], Len(nd) + 1)
         /\ Owned(nd, {rt, s}) => Owned(md, {Len(nd) + 1})
<1> DEFINE d == Len(nd)
           x == d + 1
<1>0. d \in Nat /\ x \notin 1 .. d /\ 1 .. x = 1 .. d \cup {x} /\ x \in 1 .. x
  BY DEF Made
<1>1. Len(r.vals) = 2 /\ r.vals[1] = rt /\ r.vals[2] = s /\ 1 .. 2 = {1, 2}
  OBVIOUS
<1>2. \A n \in 1 .. d : ~nd[n].is_leaf =>
          \A i \in 1 .. Len(nd[n].vals) : nd[n].vals[i] \in 1 .. d
  BY DEF Made, WellMade
<1>3. /\ Len(md) = x /\ md[x] = r /\ rt \in 1 .. d /\ s \in 1 .. d
      /\ \A n \in 1 .. d : md[n] = nd[n]
  OBVIOUS
<1>4. ASSUME NEW h, Levels(nd, h, rt), h[s] = h[rt]
      PROVE  Levels(md, [n \in 1 .. x |-> IF n = x THEN h[rt] + 1 ELSE h[n]], x)
  <2> DEFINE g == [n \in 1 .. x |-> IF n = x THEN h[rt] + 1 ELSE h[n]]
  <2>1. /\ h \in [1 .. d -> Nat]
        /\ \A n \in 1 .. d : h[n] <= h[rt]
    BY <1>4 DEF Levels
  <2>2. /\ g \in [1 .. x -> Nat] /\ g[x] = h[rt] + 1
        /\ \A n \in 1 .. d : g[n] = h[n]
    <3> HIDE DEF x, d
    <3> QED
      BY SMTT(40), <1>0, <1>3, <2>1
  <2> HIDE DEF g, x, d
  <2>3. ASSUME NEW n \in 1 .. x PROVE g[n] <= g[x]
    <3>0. h[rt] \in Nat
      BY <1>3, <2>1
    <3>1. CASE n = x
      BY <2>2, <3>0, <3>1
    <3>2. CASE n \in 1 .. d
      <4>1. g[n] = h[n] /\ h[n] \in Nat /\ h[n] <= h[rt]
        BY <2>1, <2>2, <3>2
      <4> QED
        BY <2>2, <3>0, <4>1
    <3> QED
      BY <1>0, <3>1, <3>2
  <2>4. \A n \in 1 .. x : md[n].is_leaf => g[n] = 0
    BY SMTT(40), <1>0, <1>3, <1>4, <2>2 DEF Levels, d
  <2>5. ASSUME NEW n \in 1 .. x, ~md[n].is_leaf, NEW i \in 1 .. Len(md[n].vals)
        PROVE  g[n] = g[md[n].vals[i]] + 1
    <3>1. CASE n = x
      <4>1. md[n].vals[i] \in {rt, s}
        BY <1>1, <1>3, <2>5, <3>1
      <4> QED
        BY <1>3, <1>4, <2>2, <3>1, <4>1
    <3>2. CASE n \in 1 .. d
      <4>1. md[n] = nd[n] /\ h[n] = h[nd[n].vals[i]] + 1 /\ nd[n].vals[i] \in 1 .. d
        BY <1>2, <1>3, <1>4, <2>5, <3>2 DEF Levels, d
      <4> QED
        BY <2>2, <3>2, <4>1
    <3> QED
      BY <1>0, <3>1, <3>2
  <2>6. Levels(md, g, x)
    BY <1>3, <2>2, <2>3, <2>4, <2>5 DEF Levels
  <2> QED
    BY <2>6 DEF g
<1>5. ASSUME Owned(nd, {rt, s}) PROVE Owned(md, {x})
  <2> HIDE DEF x, d
  <2>1. ASSUME NEW q, NEW k, NEW n
        PROVE  ChildAt(md, q, k, n) <=> \/ ChildAt(nd, q, k, n)
                                        \/ q = x /\ k = 1 /\ n = rt
                                        \/ q = x /\ k = 2 /\ n = s
    <3>1. CASE q = x
      BY <1>0, <1>1, <1>3, <3>1, ZenonT(60) DEF ChildAt, d
    <3>2. CASE q # x
      BY <1>0, <1>3, <3>2 DEF ChildAt, d
    <3> QED
      BY <3>1, <3>2
  <2>2. \A q, k : ~ChildAt(nd, q, k, rt) /\ ~ChildAt(nd, q, k, s)
    BY <1>5 DEF Owned
  <2>3. \A n, p, q, i, j : ChildAt(nd, p, i, n) /\ ChildAt(nd, q, j, n) => p = q /\ i = j
    BY <1>5 DEF Owned
  <2>4. \A n, p, q, i, j : ChildAt(md, p, i, n) /\ ChildAt(md, q, j, n) => p = q /\ i = j
    <3> SUFFICES ASSUME NEW n, NEW p, NEW q, NEW i, NEW j,
                        ChildAt(md, p, i, n), ChildAt(md, q, j, n)
                 PROVE  p = q /\ i = j
      OBVIOUS
    <3>1. \/ ChildAt(nd, p, i, n)
          \/ p = x /\ i = 1 /\ n = rt
          \/ p = x /\ i = 2 /\ n = s
      BY <2>1
    <3>2. \/ ChildAt(nd, q, j, n)
          \/ q = x /\ j = 1 /\ n = rt
          \/ q = x /\ j = 2 /\ n = s
      BY <2>1
    <3> QED
      BY <2>2, <2>3, <3>1, <3>2
  <2>5. ASSUME NEW n \in 1 .. x
        PROVE  n \in {x} <=> \A p, i : ~ChildAt(md, p, i, n)
    <3>1. CASE n = x
      <4>1. \A p, i : ~ChildAt(nd, p, i, x)
        BY <1>0, <1>2 DEF ChildAt, d
      <4> QED
        BY <1>0, <1>3, <2>1, <3>1, <4>1
    <3>2. CASE n \in 1 .. d
      <4>1. n # x
        BY <1>0, <3>2
      <4>2. n \in {rt, s} <=> \A p, i : ~ChildAt(nd, p, i, n)
        BY <1>5, <3>2 DEF Owned, d
      <4> QED
        BY <2>1, <4>1, <4>2
    <3> QED
      BY <1>0, <3>1, <3>2
  <2> QED
    BY <1>3, <2>4, <2>5 DEF Owned
<1> QED
  BY <1>4, <1>5

-----------------------------------------------------------------------------
(* The inductive invariant of the shape                                    *)

\* The nodes that no node points to.
Loose == IF pc = "split" THEN {root, split_out} ELSE {root}

MinKeys == (order - 1) \div 2

TreeInv(h) ==
    /\ Made(node) /\ root \in 1 .. Len(node)
    /\ Levels(node, h, root)
    /\ Owned(node, Loose)

SizeInv ==
    \A n \in 1 .. Len(node) :
        /\ Len(node[n].keys) < order
        /\ n # root => Len(node[n].keys) >= MinKeys

\* The calls of insert_rec are one level apart, from the root down, and the
\* node split off belongs one level below the innermost call.
CallInv(h) ==
    /\ order \in Orders
    /\ pc \in {"idle", "down", "split"}
    /\ path \in Seq(1 .. Len(node))
    /\ \A k \in 1 .. Len(path) : h[path[k]] = h[root] - k + 1
    /\ path # <<>> => path[1] = root
    /\ pc = "idle" => path = <<>> /\ arg = NoArg /\ key_out = 0 /\ split_out = NULL
    /\ pc = "down" => path # <<>> /\ arg \in [id : Ids, row : Rows]
                      /\ key_out = 0 /\ split_out = NULL
    /\ pc = "split" => /\ arg \in [id : Ids, row : Rows]
                       /\ key_out \in Ids
                       /\ split_out \in 1 .. Len(node) /\ split_out # root
                       /\ h[split_out] = h[root] - Len(path)
                       /\ path = <<>> => Len(node[root].keys) >= MinKeys

ShapeInv(h) == TreeInv(h) /\ SizeInv /\ CallInv(h)

\* The writes of insert_rec in terms of Replaced and Divided.
LEMMA ReplacedIs ==
  ASSUME NEW nd \in Seq(NodeSet), NEW p \in 1 .. Len(nd), NEW m \in NodeSet,
         NEW md, md = [nd EXCEPT ![p] = m]
  PROVE  Replaced(md, nd, p, m)
  BY DEF Replaced

\* The node array that the split of a node leaves: the left half in its place,
\* the right one behind all others.
LEMMA DividedIs ==
  ASSUME NEW nd, nd \in Seq(NodeSet), NEW p \in 1 .. Len(nd),
         NEW l, NEW r \in NodeSet, NEW m,
         NEW n1, Replaced(n1, nd, p, m), NEW n2, Replaced(n2, nd, p, l)
  PROVE  Divided(Append(n2, r), n1, p, l, r)
<1> DEFINE md == Append(n2, r)
<1>1. /\ n2 \in Seq(NodeSet) /\ Len(n2) = Len(nd) /\ Len(nd) \in Nat /\ n2[p] = l
      /\ \A q \in 1 .. Len(nd) : q # p => n2[q] = nd[q]
  BY DEF Replaced
<1>2. /\ md \in Seq(NodeSet) /\ Len(md) = Len(nd) + 1 /\ md[Len(nd) + 1] = r
      /\ \A q \in 1 .. Len(nd) : md[q] = n2[q]
  BY <1>1, AppendProperties
<1>3. Len(n1) = Len(nd) /\ \A q \in 1 .. Len(nd) : q # p => n1[q] = nd[q]
  BY DEF Replaced
<1> QED
  BY <1>1, <1>2, <1>3 DEF Divided

\* The node in which insert_rec is.
LEMMA HereFacts ==
  ASSUME NEW h, CallInv(h), TreeInv(h), path # <<>>
  PROVE  /\ Len(path) \in Nat /\ Len(path) >= 1
         /\ Here \in 1 .. Len(node) /\ Here = path[Len(path)]
         /\ h[Here] = h[root] - Len(path) + 1
         /\ h[Here] \in Nat /\ h[root] \in Nat
         /\ Front(path) \in Seq(1 .. Len(node))
         /\ Len(Front(path)) = Len(path) - 1
         /\ \A k \in 1 .. Len(path) - 1 : Front(path)[k] = path[k]
         /\ Front(path) # <<>> => Front(path)[1] = root
         /\ Front(path) = <<>> => Here = root
         /\ WellMade(node[Here], Len(node)) /\ Len(node) \in Nat
<1>1. path \in Seq(1 .. Len(node)) /\ path[1] = root
  BY DEF CallInv
<1>2. /\ Last(path) = path[Len(path)] /\ Last(path) \in 1 .. Len(node)
      /\ Front(path) \in Seq(1 .. Len(node)) /\ Len(Front(path)) = Len(path) - 1
      /\ \A k \in 1 .. Len(path) - 1 : Front(path)[k] = path[k]
      /\ Len(path) \in Nat \ {0}
  BY <1>1, LastFrontFacts
<1>3. Len(path) \in 1 .. Len(path)
  BY <1>2
<1>4. h[path[Len(path)]] = h[root] - Len(path) + 1
  BY <1>3 DEF CallInv
<1>5. h \in [1 .. Len(node) -> Nat] /\ root \in 1 .. Len(node)
  BY DEF TreeInv, Levels
<1>6. Front(path) # <<>> => Front(path)[1] = root
  <2> SUFFICES ASSUME Front(path) # <<>> PROVE Front(path)[1] = root
    OBVIOUS
  <2>1. Len(Front(path)) \in Nat \ {0}
    BY <1>2, EmptySeq
  <2>2. 1 \in 1 .. Len(path) - 1
    BY <1>2, <2>1
  <2> QED
    BY <1>1, <1>2, <2>2
<1>7. Front(path) = <<>> => Len(path) = 1
  <2> SUFFICES ASSUME Front(path) = <<>> PROVE Len(path) = 1
    OBVIOUS
  <2>1. Len(Front(path)) = 0
    OBVIOUS
  <2> QED
    BY <1>2, <2>1
<1>8. WellMade(node[Here], Len(node)) /\ Len(node) \in Nat
  BY <1>2 DEF TreeInv, Made, Here
<1> QED
  BY SMTT(40), <1>1, <1>2, <1>4, <1>5, <1>6, <1>7, <1>8 DEF Here

\* After a split the call above it goes on.
LEMMA SplitCall ==
  ASSUME NEW h, NEW g, g = Raised(h, Len(node), Here), ShapeInv(h), path # <<>>, arg \in [id : Ids, row : Rows],
         Len(node') = Len(node) + 1, order' = order, root' = root,
         split_out' = Len(node) + 1, key_out' \in Ids, pc' = "split",
         path' = Front(path), arg' = arg,
         Len(node'[Here].keys) >= MinKeys
  PROVE  CallInv(g)'
<1>0. /\ CallInv(h) /\ TreeInv(h) /\ h \in [1 .. Len(node) -> Nat] /\ root \in 1 .. Len(node)
      /\ order \in Orders
  BY DEF ShapeInv, TreeInv, Levels, CallInv
<1>1. /\ Len(path) \in Nat /\ Len(path) >= 1
      /\ Here \in 1 .. Len(node) /\ h[Here] = h[root] - Len(path) + 1
      /\ h[Here] \in Nat /\ h[root] \in Nat
      /\ Front(path) \in Seq(1 .. Len(node))
      /\ Len(Front(path)) = Len(path) - 1
      /\ \A k \in 1 .. Len(path) - 1 : Front(path)[k] = path[k]
      /\ Front(path) # <<>> => Front(path)[1] = root
      /\ Front(path) = <<>> => Here = root
      /\ Len(node) \in Nat
  BY <1>0, HereFacts
<1>2. /\ g[Len(node) + 1] = h[Here]
      /\ \A n \in 1 .. Len(node) : g[n] = h[n]
  <2> DEFINE d == Len(node)
  <2>1. d \in Nat /\ h \in [1 .. d -> Nat] /\ Here \in 1 .. d
    BY <1>0, <1>1
  <2> HIDE DEF d
  <2>2. /\ Raised(h, d, Here)[d + 1] = h[Here]
        /\ \A n \in 1 .. d : Raised(h, d, Here)[n] = h[n]
    BY <2>1, RaisedFacts
  <2> QED
    BY <2>2 DEF d
<1>3. Front(path) \in Seq(1 .. Len(node) + 1)
  <2>1. 1 .. Len(node) \subseteq 1 .. Len(node) + 1
    BY <1>1
  <2> QED
    BY <1>1, <2>1, SeqMonotonic
<1>4. ASSUME NEW k \in 1 .. Len(Front(path))
      PROVE  g[Front(path)[k]] = g[root] - k + 1
  <2>1. k \in 1 .. Len(path) - 1 /\ k \in 1 .. Len(path)
    BY <1>1
  <2>2. path[k] \in 1 .. Len(node) /\ h[path[k]] = h[root] - k + 1
    <3>1. path \in Seq(1 .. Len(node)) /\ \A j \in 1 .. Len(path) : h[path[j]] = h[root] - j + 1
      BY <1>0 DEF CallInv
    <3>2. path[k] \in 1 .. Len(node)
      BY <2>1, <3>1, ElementOfSeq
    <3> QED
      BY <2>1, <3>1, <3>2
  <2>3. Front(path)[k] = path[k] /\ g[path[k]] = h[path[k]] /\ g[root] = h[root]
    BY <1>0, <1>1, <1>2, <2>1, <2>2
  <2> QED
    BY <2>2, <2>3
<1>5. g[Len(node) + 1] = g[root] - Len(Front(path))
  BY SMTT(40), <1>0, <1>1, <1>2
<1>6. Len(node) + 1 \in 1 .. Len(node) + 1 /\ Len(node) + 1 # root
  BY <1>0, <1>1
<1>7. Front(path) = <<>> => Len(node'[root].keys) >= MinKeys
  BY <1>1
<1>8. MinKeys' = MinKeys
  BY DEF MinKeys
<1> QED
  BY <1>0, <1>1, <1>3, <1>4, <1>5, <1>6, <1>7, <1>8 DEF CallInv

\* A call that returns leaves no call open.
LEMMA ReturnCall ==
  ASSUME NEW h, NEW g, CallInv(h), order' = order, Return
  PROVE  CallInv(g)'
<1>1. path' = <<>> /\ Len(<<>>) = 0 /\ <<>> \in Seq(1 .. Len(node'))
  BY DEF Return
<1> QED
  BY <1>1 DEF CallInv, Return

\* bptree_create: one empty leaf is in shape.
LEMMA ShapeInit ==
  ASSUME Init
  PROVE  \E h : ShapeInv(h)
<1> DEFINE h == [n \in {1} |-> 0]
           n1 == Leaf(<<>>, <<>>, NULL)
<1>0. order \in Orders /\ order \in Nat /\ order >= 3
  BY Constants DEF Init
<1>1. node = <<n1>> /\ root = 1 /\ pc = "idle" /\ path = <<>> /\ split_out = 0
      /\ arg = NoArg /\ key_out = 0
  BY DEF Init, NULL
<1>2. /\ n1 \in NodeSet /\ n1.is_leaf /\ n1.keys = <<>> /\ n1.vals = <<>> /\ n1.next = 0
  BY DEF Leaf, NodeSet, NULL
<1> HIDE DEF n1
<1>3. WellMade(n1, 1)
  <2>1. Len(<<>>) = 0 /\ 1 .. 0 = {}
    OBVIOUS
  <2> QED
    BY <1>2, <2>1 DEF WellMade
<1>4. /\ node \in Seq(NodeSet) /\ Len(node) = 1 /\ node[1] = n1 /\ 1 .. 1 = {1}
      /\ 1 .. Len(node) = {1}
  BY <1>1, <1>2
<1>5. Made(node)
  BY <1>3, <1>4 DEF Made
<1>6. Levels(node, h, root)
  BY <1>1, <1>2, <1>4 DEF Levels
<1>7. Owned(node, Loose)
  <2>1. \A p, i, n : ~ChildAt(node, p, i, n)
    BY <1>2, <1>4 DEF ChildAt
  <2>2. Loose = {1}
    BY <1>1 DEF Loose
  <2> QED
    BY <1>4, <2>1, <2>2 DEF Owned
<1>8. SizeInv
  BY <1>0, <1>1, <1>2, <1>4 DEF SizeInv
<1>9. CallInv(h)
  <2>1. Len(<<>>) = 0 /\ <<>> \in Seq(1 .. Len(node))
    OBVIOUS
  <2> QED
    BY <1>0, <1>1, <2>1 DEF CallInv, NULL
<1>10. ShapeInv(h)
  BY <1>1, <1>4, <1>5, <1>6, <1>7, <1>8, <1>9 DEF ShapeInv, TreeInv
<1> QED
  BY <1>10

\* index_registry_destroy_all and the next bptree_create start from one empty
\* leaf again.
LEMMA ShapeRecreate ==
  ASSUME NEW h, ShapeInv(h), Recreate
  PROVE  \E g : ShapeInv(g)'
<1> DEFINE g == [n \in {1} |-> 0]
           n1 == Leaf(<<>>, <<>>, NULL)
<1>0. order \in Orders /\ order \in Nat /\ order >= 3
  BY Constants DEF ShapeInv, CallInv
<1>1. /\ node' = <<n1>> /\ root' = 1 /\ pc = "idle" /\ pc' = "idle"
      /\ order' = order /\ path' = path /\ arg' = arg
      /\ key_out' = key_out /\ split_out' = split_out
  BY DEF Recreate, callVars
<1>2. /\ n1 \in NodeSet /\ n1.is_leaf /\ n1.keys = <<>> /\ n1.vals = <<>> /\ n1.next = 0
  BY DEF Leaf, NodeSet, NULL
<1> HIDE DEF n1
<1>3. WellMade(n1, 1)
  <2>1. Len(<<>>) = 0 /\ 1 .. 0 = {}
    OBVIOUS
  <2> QED
    BY <1>2, <2>1 DEF WellMade
<1>4. /\ node' \in Seq(NodeSet) /\ Len(node') = 1 /\ node'[1] = n1 /\ 1 .. 1 = {1}
      /\ 1 .. Len(node') = {1}
  BY <1>1, <1>2
<1>5. Made(node')
  BY <1>3, <1>4 DEF Made
<1>6. Levels(node', g, root')
  BY <1>1, <1>2, <1>4 DEF Levels
<1>7. Owned(node', Loose')
  <2>1. \A p, i, n : ~ChildAt(node', p, i, n)
    BY <1>2, <1>4 DEF ChildAt
  <2>2. Loose' = {1}
    BY <1>1 DEF Loose
  <2> QED
    BY <1>4, <2>1, <2>2 DEF Owned
<1>8. SizeInv'
  BY <1>0, <1>1, <1>2, <1>4 DEF SizeInv
<1>9. CallInv(g)'
  <2>1. path = <<>> /\ arg = NoArg /\ key_out = 0 /\ split_out = NULL
    BY <1>1 DEF ShapeInv, CallInv
  <2>2. Len(<<>>) = 0 /\ <<>> \in Seq(1 .. Len(node'))
    OBVIOUS
  <2> QED
    BY <1>0, <1>1, <2>1, <2>2 DEF CallInv
<1>10. ShapeInv(g)'
  BY <1>1, <1>4, <1>5, <1>6, <1>7, <1>8, <1>9 DEF ShapeInv, TreeInv
<1> QED
  BY <1>10

\* bptree_insert calls insert_rec with the root.
LEMMA ShapeInsert ==
  ASSUME NEW h, ShapeInv(h), NEW c \in Calls[order], Insert(c[1], c[2])
  PROVE  ShapeInv(h)'
<1>0. /\ order \in Orders /\ pc = "idle" /\ key_out = 0 /\ split_out = NULL
      /\ root \in 1 .. Len(node) /\ h[root] \in Nat
  BY DEF ShapeInv, CallInv, TreeInv, Levels, Insert
<1>1. c[1] \in Ids /\ c[2] \in Rows
  BY <1>0 DEF Ids, Rows
<1>2. /\ pc' = "down" /\ path' = <<root>> /\ arg' = [id |-> c[1], row |-> c[2]]
      /\ node' = node /\ root' = root /\ order' = order
      /\ key_out' = key_out /\ split_out' = split_out
  BY DEF Insert
<1>3. Loose' = Loose
  BY <1>0, <1>2 DEF Loose
<1>4. TreeInv(h)'
  BY <1>2, <1>3 DEF ShapeInv, TreeInv
<1>5. SizeInv'
  BY <1>2 DEF ShapeInv, SizeInv, MinKeys
<1>6. CallInv(h)'
  <2>1. <<root>> \in Seq(1 .. Len(node)) /\ Len(<<root>>) = 1 /\ <<root>>[1] = root
        /\ <<root>> # <<>> /\ 1 .. 1 = {1} /\ h[root] = h[root] - 1 + 1
    BY <1>0
  <2>2. arg' \in [id : Ids, row : Rows]
    BY <1>1, <1>2
  <2> QED
    BY <1>0, <1>2, <2>1, <2>2 DEF CallInv
<1> QED
  BY <1>4, <1>5, <1>6 DEF ShapeInv

\* insert_rec calls itself for a child, one level further down.
LEMMA ShapeDescend ==
  ASSUME NEW h, ShapeInv(h), Descend
  PROVE  ShapeInv(h)'
<1> DEFINE c == node[Here].vals[ChildIdx(node[Here], arg.id)]
<1>0. /\ pc = "down" /\ ~node[Here].is_leaf /\ path' = Append(path, c)
      /\ node' = node /\ root' = root /\ order' = order /\ pc' = pc /\ arg' = arg
      /\ key_out' = key_out /\ split_out' = split_out
  BY DEF Descend
<1>1. /\ CallInv(h) /\ TreeInv(h) /\ path # <<>> /\ arg \in [id : Ids, row : Rows]
      /\ order \in Orders /\ key_out = 0 /\ split_out = NULL
      /\ path \in Seq(1 .. Len(node)) /\ path[1] = root
  BY <1>0 DEF ShapeInv, CallInv
<1>2. /\ Len(path) \in Nat /\ Len(path) >= 1 /\ Here \in 1 .. Len(node)
      /\ h[Here] = h[root] - Len(path) + 1 /\ h[Here] \in Nat /\ h[root] \in Nat
      /\ WellMade(node[Here], Len(node)) /\ Len(node) \in Nat
  BY <1>1, HereFacts
<1>3. ChildIdx(node[Here], arg.id) \in 1 .. Len(node[Here].vals)
  <2>1. node[Here].keys \in Seq(Int) /\ Len(node[Here].vals) = Len(node[Here].keys) + 1
    BY <1>0, <1>2, MadeFields DEF WellMade
  <2>2. arg.id \in Int
    BY <1>1, Constants
  <2>3. ChildIdx(node[Here], arg.id) \in 1 .. Len(node[Here].keys) + 1
    BY <2>1, <2>2, ChildIdxFacts, Zenon
  <2> QED
    BY <2>1, <2>3, Zenon
<1>4. c \in 1 .. Len(node) /\ h[Here] = h[c] + 1 /\ h[c] \in Nat
  BY <1>0, <1>1, <1>2, <1>3 DEF TreeInv, Levels, WellMade
<1> HIDE DEF c
<1>5. /\ path' \in Seq(1 .. Len(node)) /\ Len(path') = Len(path) + 1
      /\ path'[Len(path) + 1] = c /\ \A k \in 1 .. Len(path) : path'[k] = path[k]
      /\ path' # <<>>
  BY <1>0, <1>1, <1>4, AppendProperties
<1>6. ASSUME NEW k \in 1 .. Len(path')
      PROVE  h[path'[k]] = h[root] - k + 1
  <2>1. CASE k = Len(path) + 1
    <3>1. path'[k] = c
      BY <1>5, <2>1
    <3>2. \A a, b, l \in Int : a + 1 = b - l + 1 => a = b - (l + 1) + 1
      OBVIOUS
    <3>3. h[c] + 1 = h[root] - Len(path) + 1 /\ h[c] \in Int /\ h[root] \in Int /\ Len(path) \in Int
      BY <1>2, <1>4
    <3>4. h[c] = h[root] - (Len(path) + 1) + 1
      BY <3>2, <3>3
    <3> QED
      BY <2>1, <3>1, <3>4
  <2>2. CASE k \in 1 .. Len(path)
    BY <1>1, <1>5, <2>2 DEF CallInv
  <2> QED
    BY <1>2, <1>5, <2>1, <2>2
<1>7. CallInv(h)'
  <2>1. path'[1] = root
    BY <1>1, <1>2, <1>5
  <2> QED
    BY <1>0, <1>1, <1>5, <1>6, <2>1 DEF CallInv
<1>8. TreeInv(h)'
  BY <1>0 DEF ShapeInv, TreeInv, Loose
<1>9. SizeInv'
  BY <1>0 DEF ShapeInv, SizeInv, MinKeys
<1> QED
  BY <1>7, <1>8, <1>9 DEF ShapeInv

\* insert_rec in a leaf that has room: n takes its place.
LeafKept(n) ==
    /\ EntryPut(n, node[Here], arg.id, arg.row, Len(node))
    /\ Len(n.keys) < order
    /\ Replaced(node', node, Here, n)
    /\ Return

\* insert_rec in a leaf that overflows: n, which n1 has in its place, is
\* split into l and r.
LeafCut(n, n1, l, r) ==
    /\ EntryPut(n, node[Here], arg.id, arg.row, Len(node))
    /\ Len(n.keys) = order
    /\ Replaced(n1, node, Here, n)
    /\ Divided(node', n1, Here, l, r)
    /\ WellMade(l, Len(node) + 1) /\ l.is_leaf /\ l.next = Len(node) + 1
    /\ WellMade(r, Len(node) + 1) /\ r.is_leaf /\ r.next = n.next
    /\ Taken(l.keys, n.keys, 0, Mid) /\ Taken(l.vals, n.vals, 0, Mid)
    /\ Taken(r.keys, n.keys, Mid, order - Mid) /\ Taken(r.vals, n.vals, Mid, order - Mid)
    /\ split_out' = Len(node) + 1 /\ key_out' = n.keys[Mid + 1] /\ key_out' \in Ids
    /\ pc' = "split" /\ path' = Front(path) /\ arg' = arg

\* The two outcomes of insert_rec in a leaf.
LEMMA LeafStep ==
  ASSUME NEW h, ShapeInv(h), InsertLeaf
  PROVE  /\ pc = "down" /\ path # <<>> /\ node[Here].is_leaf
         /\ arg \in [id : Ids, row : Rows] /\ arg.id \in Ids /\ arg.row \in Rows
         /\ root' = root /\ order' = order
         /\ (\E n : LeafKept(n)) \/ (\E n, n1, l, r : LeafCut(n, n1, l, r))
<1> DEFINE n == LeafInserted(node[Here], arg.id, arg.row)
           d == Len(node)
<1>0. /\ pc = "down" /\ node[Here].is_leaf /\ root' = root /\ order' = order
  BY DEF InsertLeaf
<1>1. /\ CallInv(h) /\ TreeInv(h) /\ SizeInv /\ path # <<>>
      /\ arg \in [id : Ids, row : Rows] /\ arg.id \in Ids /\ arg.row \in Rows
      /\ order \in Orders /\ node \in Seq(NodeSet)
  BY <1>0 DEF ShapeInv, CallInv, TreeInv, Made
<1>2. Here \in 1 .. d /\ WellMade(node[Here], d) /\ d \in Nat
  BY <1>1, HereFacts
<1>3. EntryPut(n, node[Here], arg.id, arg.row, d)
  BY <1>0, <1>1, <1>2, LeafInsertedFacts
<1>4. /\ WellMade(n, d) /\ n.is_leaf /\ n \in NodeSet /\ Len(n.keys) \in Nat
      /\ Len(n.keys) = Len(node[Here].keys) \/ Len(n.keys) = Len(node[Here].keys) + 1
      /\ Len(node[Here].keys) \in Nat /\ Len(node[Here].keys) < order /\ order \in Nat
  <2> HIDE DEF n, d
  <2>1. /\ WellMade(n, d) /\ n.is_leaf
        /\ Len(n.keys) = Len(node[Here].keys) \/ Len(n.keys) = Len(node[Here].keys) + 1
    BY <1>3 DEF EntryPut
  <2>2. Len(node[Here].keys) < order
    BY <1>1, <1>2 DEF SizeInv, d
  <2> QED
    BY <1>1, <1>2, <2>1, <2>2, MadeFields, Constants DEF WellMade
<1>5. CASE ~Overflows(n)
  <2>1. node' = [node EXCEPT ![Here] = n] /\ Return
    BY <1>5 DEF InsertLeaf
  <2> HIDE DEF n, d
  <2>2. Replaced(node', node, Here, n)
    BY <1>1, <1>2, <1>4, <2>1, ReplacedIs DEF d
  <2>3. Len(n.keys) < order
    BY <1>4, <1>5 DEF Overflows
  <2>4. LeafKept(n)
    BY <1>3, <2>1, <2>2, <2>3 DEF LeafKept, d
  <2> QED
    BY <1>0, <1>1, <2>4
<1>6. CASE Overflows(n)
  <2> DEFINE l == LeftLeaf(n, d + 1)
             r == RightLeaf(n)
  <2>1. /\ node' = Append([node EXCEPT ![Here] = l], r)
        /\ split_out' = d + 1 /\ key_out' = r.keys[1] /\ pc' = "split"
        /\ path' = Front(path) /\ arg' = arg
    BY <1>6 DEF InsertLeaf, Split
  <2> HIDE DEF n, d
  <2>2. Len(n.keys) = order
    BY <1>4, <1>6 DEF Overflows
  <2>3. /\ WellMade(l, d + 1) /\ l.is_leaf /\ l.next = d + 1
        /\ WellMade(r, d + 1) /\ r.is_leaf /\ r.next = n.next
        /\ Taken(l.keys, n.keys, 0, Mid) /\ Taken(l.vals, n.vals, 0, Mid)
        /\ Taken(r.keys, n.keys, Mid, order - Mid)
        /\ Taken(r.vals, n.vals, Mid, order - Mid)
        /\ r.keys[1] = n.keys[Mid + 1] /\ r.keys[1] \in Ids
    BY <1>1, <1>2, <1>4, <2>2, LeafHalves
  <2> HIDE DEF l, r
  <2>4. l \in NodeSet /\ r \in NodeSet
    BY <2>3 DEF WellMade
  <2>5. PICK n1, n2 : n1 = [node EXCEPT ![Here] = n] /\ n2 = [node EXCEPT ![Here] = l]
    OBVIOUS
  <2>6. Replaced(n1, node, Here, n) /\ Replaced(n2, node, Here, l)
    BY <1>1, <1>2, <1>4, <2>4, <2>5, ReplacedIs DEF d
  <2>7. Divided(Append(n2, r), n1, Here, l, r)
    BY <1>1, <1>2, <2>4, <2>6, DividedIs, Zenon DEF d
  <2>8. Divided(node', n1, Here, l, r)
    BY <2>1, <2>5, <2>7, Zenon
  <2>9. LeafCut(n, n1, l, r)
    BY <1>3, <2>1, <2>2, <2>3, <2>6, <2>8 DEF LeafCut, d
  <2> QED
    BY <1>0, <1>1, <2>9
<1> QED
  BY <1>5, <1>6

\* insert_rec in a leaf puts the entry in or splits the leaf.
LEMMA ShapeInsertLeaf ==
  ASSUME NEW h, ShapeInv(h), InsertLeaf
  PROVE  \E g : ShapeInv(g)'
<1> DEFINE d == Len(node)
<1>0. /\ pc = "down" /\ path # <<>> /\ node[Here].is_leaf /\ root' = root /\ order' = order
      /\ arg \in [id : Ids, row : Rows]
      /\ (\E n : LeafKept(n)) \/ (\E n, n1, l, r : LeafCut(n, n1, l, r))
  BY LeafStep
<1>1. /\ CallInv(h) /\ TreeInv(h) /\ SizeInv
      /\ order \in Orders /\ Made(node) /\ node \in Seq(NodeSet) /\ Levels(node, h, root)
      /\ root \in 1 .. d /\ Owned(node, {root})
  BY <1>0 DEF ShapeInv, CallInv, TreeInv, Made, Loose
<1>2. Here \in 1 .. d /\ WellMade(node[Here], d) /\ d \in Nat
  BY <1>0, <1>1, HereFacts
<1>3. /\ order \in Nat /\ order >= 3 /\ Mid \in Nat /\ Mid >= MinKeys /\ MinKeys \in Nat
      /\ order - Mid >= MinKeys /\ Mid < order /\ Mid >= 1 /\ order - Mid < order
      /\ MinKeys' = MinKeys
  BY <1>0, <1>1, MidFacts DEF MinKeys
<1>4. Len(node[Here].keys) \in Nat /\ (Here # root => Len(node[Here].keys) >= MinKeys)
  <2>1. Len(node[Here].keys) \in Nat
    BY <1>2, MadeFields
  <2> QED
    BY <1>1, <1>2, <2>1 DEF SizeInv
<1>5. ASSUME NEW n, LeafKept(n) PROVE \E g : ShapeInv(g)'
  <2>1. /\ WellMade(n, d) /\ n.is_leaf /\ Len(n.keys) < order
        /\ Len(n.keys) = Len(node[Here].keys) \/ Len(n.keys) = Len(node[Here].keys) + 1
        /\ Replaced(node', node, Here, n) /\ Return
    BY <1>5 DEF LeafKept, EntryPut
  <2> HIDE DEF d
  <2>3. Len(node') = d /\ node'[Here] = n /\ \A q \in 1 .. d : q # Here => node'[q] = node[q]
    BY <2>1 DEF Replaced, d
  <2>4. Made(node')
    BY <1>1, <1>2, <2>1, MadeReplaced DEF d
  <2>5. Levels(node', h, root) /\ Owned(node', {root})
    BY <1>0, <1>1, <1>2, <2>1, LeafChanged DEF d
  <2>7. SizeInv'
    <3> SUFFICES ASSUME NEW q \in 1 .. d
                 PROVE  /\ Len(node'[q].keys) < order
                        /\ q # root => Len(node'[q].keys) >= MinKeys
      BY <1>0, <1>3, <2>3 DEF SizeInv
    <3>1. CASE q = Here
      BY <1>3, <1>4, <2>1, <2>3, <3>1
    <3>2. CASE q # Here
      BY <1>1, <2>3, <3>2 DEF SizeInv, d
    <3> QED
      BY <3>1, <3>2
  <2>8. CallInv(h)'
    BY <1>0, <1>1, <2>1, ReturnCall
  <2>9. Loose' = {root}
    BY <1>0, <2>1 DEF Loose, Return
  <2>10. ShapeInv(h)'
    BY <1>0, <1>1, <2>3, <2>4, <2>5, <2>7, <2>8, <2>9 DEF ShapeInv, TreeInv
  <2> QED
    BY <2>10
<1>6. ASSUME NEW n, NEW n1, NEW l, NEW r, LeafCut(n, n1, l, r) PROVE \E g : ShapeInv(g)'
  <2>1. /\ split_out' = d + 1 /\ key_out' \in Ids /\ pc' = "split"
        /\ path' = Front(path) /\ arg' = arg
        /\ Replaced(n1, node, Here, n) /\ Divided(node', n1, Here, l, r)
    BY <1>6 DEF LeafCut
  <2>2. /\ WellMade(n, d) /\ n.is_leaf
        /\ WellMade(l, d + 1) /\ l.is_leaf /\ WellMade(r, d + 1) /\ r.is_leaf
        /\ Len(l.keys) = Mid /\ Len(r.keys) = order - Mid
    BY <1>6 DEF LeafCut, EntryPut, Taken
  <2> HIDE DEF d
  <2>6. Len(n1) = d /\ n1[Here] = n /\ Made(n1)
    BY <1>1, <1>2, <2>1, <2>2, MadeReplaced DEF Replaced, d
  <2>7. Levels(n1, h, root) /\ Owned(n1, {root})
    BY <1>0, <1>1, <1>2, <2>1, <2>2, LeafChanged DEF d
  <2>8. Len(node') = d + 1
    BY <2>1, <2>6 DEF Divided
  <2>9. Made(node')
    BY <1>2, <2>1, <2>2, <2>6, MadeDivided
  <2>10. PICK g : g = Raised(h, d, Here)
    OBVIOUS
  <2>11. Levels(node', g, root) /\ Owned(node', {root} \cup {d + 1})
    <3>1. /\ \A y, rt : rt \in 1 .. Len(n1) /\ Levels(n1, y, rt) =>
                Levels(node', Raised(y, Len(n1), Here), rt)
          /\ \A free : free \subseteq 1 .. Len(n1) /\ Owned(n1, free) =>
                Owned(node', free \cup {Len(n1) + 1})
      BY <1>2, <2>1, <2>2, <2>6, LeafDivided
    <3>2. root \in 1 .. Len(n1) /\ {root} \subseteq 1 .. Len(n1)
      BY <1>1, <2>6 DEF d
    <3> QED
      BY <2>6, <2>7, <2>10, <3>1, <3>2
  <2>12. /\ node'[Here] = l /\ node'[d + 1] = r
         /\ \A q \in 1 .. d : q # Here => node'[q] = node[q]
    BY <2>1, <2>6 DEF Divided, Replaced, d
  <2>13. SizeInv'
    <3> SUFFICES ASSUME NEW q \in 1 .. d + 1
                 PROVE  /\ Len(node'[q].keys) < order
                        /\ q # root => Len(node'[q].keys) >= MinKeys
      BY <1>0, <1>3, <2>8 DEF SizeInv
    <3>1. CASE q = Here \/ q = d + 1
      BY <1>3, <2>2, <2>12, <3>1
    <3>2. CASE q \in 1 .. d /\ q # Here
      BY <1>1, <2>12, <3>2 DEF SizeInv, d
    <3> QED
      BY <1>2, <3>1, <3>2
  <2>14. CallInv(g)'
    <3>1. Len(node'[Here].keys) >= MinKeys
      BY <1>3, <2>2, <2>12
    <3> QED
      BY <1>0, <1>1, <2>1, <2>8, <2>10, <3>1, SplitCall DEF d
  <2>15. Loose' = {root} \cup {d + 1}
    BY <1>0, <2>1 DEF Loose
  <2>16. root' \in 1 .. Len(node')
    BY <1>0, <1>1, <1>2, <2>8 DEF d
  <2>17. ShapeInv(g)'
    BY <1>0, <2>9, <2>11, <2>13, <2>14, <2>15, <2>16 DEF ShapeInv, TreeInv
  <2> QED
    BY <2>17
<1> QED
  BY <1>0, <1>5, <1>6

\* n is the node of the innermost call with the node split off its child.
ChildTaken(n) ==
    LET i == ChildIdx(node[Here], key_out)
    IN  /\ WellMade(n, Len(node)) /\ ~n.is_leaf
        /\ i \in 1 .. Len(node[Here].keys) + 1
        /\ IsChild(node[Here].keys, key_out, i)
        /\ Inserted(n.keys, node[Here].keys, i, key_out)
        /\ Inserted(n.vals, node[Here].vals, i + 1, split_out)

\* insert_rec in an inner node that has room.
InnerKept(n) ==
    /\ ChildTaken(n)
    /\ Len(n.keys) < order
    /\ Replaced(node', node, Here, n)
    /\ Return

\* insert_rec in an inner node that overflows.
InnerCut(n, n1, l, r) ==
    /\ ChildTaken(n)
    /\ Len(n.keys) = order
    /\ Replaced(n1, node, Here, n)
    /\ Divided(node', n1, Here, l, r)
    /\ WellMade(l, Len(node) + 1) /\ ~l.is_leaf
    /\ WellMade(r, Len(node) + 1) /\ ~r.is_leaf
    /\ Taken(l.keys, n.keys, 0, Mid) /\ Taken(l.vals, n.vals, 0, Mid + 1)
    /\ Taken(r.keys, n.keys, Mid + 1, order - Mid - 1)
    /\ Taken(r.vals, n.vals, Mid + 1, order - Mid)
    /\ split_out' = Len(node) + 1 /\ key_out' = n.keys[Mid + 1] /\ key_out' \in Ids
    /\ pc' = "split" /\ path' = Front(path) /\ arg' = arg

\* The two outcomes of insert_rec in an inner node whose child was split.
LEMMA InnerStep ==
  ASSUME NEW h, ShapeInv(h), InsertInternal
  PROVE  /\ pc = "split" /\ path # <<>> /\ ~node[Here].is_leaf
         /\ arg \in [id : Ids, row : Rows] /\ key_out \in Ids
         /\ split_out \in 1 .. Len(node) /\ split_out # root
         /\ h[Here] = h[split_out] + 1
         /\ root' = root /\ order' = order
         /\ (\E n : InnerKept(n)) \/ (\E n, n1, l, r : InnerCut(n, n1, l, r))
<1> DEFINE n == InternalInserted(node[Here], key_out, split_out)
           d == Len(node)
<1>0. /\ pc = "split" /\ path # <<>> /\ root' = root /\ order' = order
  BY DEF InsertInternal
<1>1. /\ CallInv(h) /\ TreeInv(h) /\ SizeInv
      /\ arg \in [id : Ids, row : Rows] /\ key_out \in Ids
      /\ split_out \in 1 .. d /\ split_out # root /\ h[split_out] = h[root] - Len(path)
      /\ order \in Orders /\ node \in Seq(NodeSet) /\ Levels(node, h, root)
      /\ root \in 1 .. d
  BY <1>0 DEF ShapeInv, CallInv, TreeInv, Made, Loose
<1>2. /\ Here \in 1 .. d /\ WellMade(node[Here], d) /\ d \in Nat
      /\ h[Here] = h[root] - Len(path) + 1 /\ Len(path) \in Nat
      /\ h \in [1 .. d -> Nat]
  BY <1>0, <1>1, HereFacts DEF Levels
<1>3. h[Here] = h[split_out] + 1 /\ h[split_out] \in Nat
  <2>1. h[split_out] \in Nat /\ h[root] \in Nat /\ h[Here] \in Nat
    BY <1>1, <1>2
  <2> QED
    BY <1>1, <1>2, <2>1
<1>4. ~node[Here].is_leaf
  <2> HIDE DEF n, d
  <2>1. node[Here].is_leaf => h[Here] = 0
    BY <1>1, <1>2 DEF Levels, d
  <2> QED
    BY <1>3, <2>1
<1>5. ChildTaken(n)
  <2>1. /\ WellMade(n, d) /\ ~n.is_leaf
        /\ ChildIdx(node[Here], key_out) \in 1 .. Len(node[Here].keys) + 1
        /\ IsChild(node[Here].keys, key_out, ChildIdx(node[Here], key_out))
        /\ Inserted(n.keys, node[Here].keys, ChildIdx(node[Here], key_out), key_out)
        /\ Inserted(n.vals, node[Here].vals, ChildIdx(node[Here], key_out) + 1, split_out)
    <3> HIDE DEF d
    <3> QED
      BY <1>1, <1>2, <1>4, InternalInsertedFacts
  <2> HIDE DEF n
  <2> QED
    BY <2>1 DEF ChildTaken
<1>6. /\ WellMade(n, d) /\ ~n.is_leaf /\ n \in NodeSet
      /\ Len(n.keys) = Len(node[Here].keys) + 1
      /\ Len(node[Here].keys) \in Nat /\ Len(node[Here].keys) < order /\ order \in Nat
  <2> HIDE DEF n, d
  <2>1. WellMade(n, d) /\ ~n.is_leaf /\ Len(n.keys) = Len(node[Here].keys) + 1
    BY <1>5 DEF ChildTaken, Inserted, d
  <2>2. Len(node[Here].keys) < order
    BY <1>1, <1>2 DEF SizeInv, d
  <2> QED
    BY <1>1, <1>2, <2>1, <2>2, MadeFields, Constants DEF WellMade
<1>7. CASE ~Overflows(n)
  <2>1. node' = [node EXCEPT ![Here] = n] /\ Return
    BY <1>7 DEF InsertInternal
  <2> HIDE DEF n, d
  <2>2. Replaced(node', node, Here, n)
    BY <1>1, <1>2, <1>6, <2>1, ReplacedIs DEF d
  <2>3. Len(n.keys) < order
    BY <1>6, <1>7 DEF Overflows
  <2>4. InnerKept(n)
    BY <1>5, <2>1, <2>2, <2>3 DEF InnerKept
  <2> QED
    BY <1>0, <1>1, <1>3, <1>4, <2>4 DEF d
<1>8. CASE Overflows(n)
  <2> DEFINE l == LeftInternal(n)
             r == RightInternal(n)
  <2>1. /\ node' = Append([node EXCEPT ![Here] = l], r)
        /\ split_out' = d + 1 /\ key_out' = n.keys[Mid + 1] /\ pc' = "split"
        /\ path' = Front(path) /\ arg' = arg
    BY <1>8 DEF InsertInternal, Split
  <2> HIDE DEF n, d
  <2>2. Len(n.keys) = order
    BY <1>6, <1>8 DEF Overflows
  <2>3. /\ WellMade(l, d) /\ ~l.is_leaf
        /\ WellMade(r, d) /\ ~r.is_leaf
        /\ Taken(l.keys, n.keys, 0, Mid) /\ Taken(l.vals, n.vals, 0, Mid + 1)
        /\ Taken(r.keys, n.keys, Mid + 1, order - Mid - 1)
        /\ Taken(r.vals, n.vals, Mid + 1, order - Mid)
        /\ n.keys[Mid + 1] \in Ids
    BY <1>1, <1>2, <1>6, <2>2, InnerHalves
  <2> HIDE DEF l, r
  <2>4. l \in NodeSet /\ r \in NodeSet /\ WellMade(l, d + 1) /\ WellMade(r, d + 1)
    BY <1>2, <2>3, MoreNodes DEF WellMade
  <2>5. PICK n1, n2 : n1 = [node EXCEPT ![Here] = n] /\ n2 = [node EXCEPT ![Here] = l]
    OBVIOUS
  <2>6. Replaced(n1, node, Here, n) /\ Replaced(n2, node, Here, l)
    BY <1>1, <1>2, <1>6, <2>4, <2>5, ReplacedIs DEF d
  <2>7. Divided(Append(n2, r), n1, Here, l, r)
    BY <1>1, <1>2, <2>4, <2>6, DividedIs, Zenon DEF d
  <2>8. Divided(node', n1, Here, l, r)
    BY <2>1, <2>5, <2>7, Zenon
  <2>9. InnerCut(n, n1, l, r)
    BY <1>5, <2>1, <2>2, <2>3, <2>4, <2>6, <2>8 DEF InnerCut, d
  <2> QED
    BY <1>0, <1>1, <1>3, <1>4, <2>9 DEF d
<1> QED
  BY <1>7, <1>8

\* insert_rec in an inner node takes the new child in or passes a split on.
LEMMA ShapeInsertInternal ==
  ASSUME NEW h, ShapeInv(h), InsertInternal
  PROVE  \E g : ShapeInv(g)'
<1> DEFINE d == Len(node)
<1>0. /\ pc = "split" /\ path # <<>> /\ ~node[Here].is_leaf /\ root' = root /\ order' = order
      /\ arg \in [id : Ids, row : Rows] /\ split_out \in 1 .. d /\ split_out # root
      /\ h[Here] = h[split_out] + 1
      /\ (\E n : InnerKept(n)) \/ (\E n, n1, l, r : InnerCut(n, n1, l, r))
  BY InnerStep
<1>1. /\ CallInv(h) /\ TreeInv(h) /\ SizeInv
      /\ order \in Orders /\ Made(node) /\ node \in Seq(NodeSet) /\ Levels(node, h, root)
      /\ root \in 1 .. d /\ Owned(node, {root, split_out})
  BY <1>0 DEF ShapeInv, CallInv, TreeInv, Made, Loose
<1>2. Here \in 1 .. d /\ WellMade(node[Here], d) /\ d \in Nat
  BY <1>0, <1>1, HereFacts
<1>3. /\ order \in Nat /\ order >= 3 /\ Mid \in Nat /\ Mid >= MinKeys /\ MinKeys \in Nat
      /\ order - Mid - 1 = MinKeys /\ Mid + 1 < order /\ Mid >= 1
      /\ MinKeys' = MinKeys
  BY <1>0, <1>1, MidFacts DEF MinKeys
<1>4. /\ Len(node[Here].keys) \in Nat /\ Len(node[Here].vals) = Len(node[Here].keys) + 1
      /\ (Here # root => Len(node[Here].keys) >= MinKeys)
  <2>1. Len(node[Here].keys) \in Nat /\ Len(node[Here].vals) = Len(node[Here].keys) + 1
    BY <1>0, <1>2, MadeFields DEF WellMade
  <2> QED
    BY <1>1, <1>2, <2>1 DEF SizeInv
<1> HIDE DEF d
<1>5. ASSUME NEW n, ChildTaken(n), NEW n1, Replaced(n1, node, Here, n)
      PROVE  /\ Len(n1) = d /\ n1[Here] = n /\ Made(n1)
             /\ \A q \in 1 .. d : q # Here => n1[q] = node[q]
             /\ Levels(n1, h, root) /\ Owned(n1, {root})
             /\ Len(n.keys) = Len(node[Here].keys) + 1
             /\ Len(n.vals) = Len(node[Here].keys) + 2
  <2>1. PICK i : i = ChildIdx(node[Here], key_out)
    OBVIOUS
  <2>2. /\ WellMade(n, d) /\ ~n.is_leaf /\ i \in 1 .. Len(node[Here].keys) + 1
        /\ Inserted(n.keys, node[Here].keys, i, key_out)
        /\ Inserted(n.vals, node[Here].vals, i + 1, split_out)
    BY <1>5, <2>1 DEF ChildTaken, d
  <2>3. i + 1 \in 1 .. Len(node[Here].vals) + 1
    BY <1>4, <2>2
  <2>4. /\ Len(n1) = d /\ n1[Here] = n /\ Made(n1)
        /\ \A q \in 1 .. d : q # Here => n1[q] = node[q]
    BY <1>1, <1>2, <1>5, <2>2, MadeReplaced DEF Replaced, d
  <2>5. /\ \A y, rt : Levels(node, y, rt) /\ y[Here] = y[split_out] + 1 => Levels(n1, y, rt)
        /\ \A free : Owned(node, free) /\ split_out \in free => Owned(n1, free \ {split_out})
    BY <1>0, <1>1, <1>2, <1>5, <2>2, <2>3, ChildAdded DEF d
  <2>6. {root, split_out} \ {split_out} = {root}
    BY <1>0
  <2>7. Levels(n1, h, root)
    BY <1>0, <1>1, <2>5
  <2>8. Owned(n1, {root, split_out} \ {split_out})
    BY <1>1, <2>5
  <2>9. Len(n.keys) = Len(node[Here].keys) + 1 /\ Len(n.vals) = Len(node[Here].vals) + 1
    BY <2>2 DEF Inserted
  <2>10. Len(n.vals) = Len(node[Here].keys) + 2
    BY <1>4, <2>9
  <2> QED
    BY <2>4, <2>6, <2>7, <2>8, <2>9, <2>10
<1>6. ASSUME NEW n, InnerKept(n) PROVE \E g : ShapeInv(g)'
  <2>1. ChildTaken(n) /\ Len(n.keys) < order /\ Replaced(node', node, Here, n) /\ Return
    BY <1>6 DEF InnerKept
  <2>2. /\ Len(node') = d /\ node'[Here] = n /\ Made(node')
        /\ \A q \in 1 .. d : q # Here => node'[q] = node[q]
        /\ Levels(node', h, root) /\ Owned(node', {root})
        /\ Len(n.keys) = Len(node[Here].keys) + 1
    BY <1>5, <2>1
  <2>3. SizeInv'
    <3> SUFFICES ASSUME NEW q \in 1 .. d
                 PROVE  /\ Len(node'[q].keys) < order
                        /\ q # root => Len(node'[q].keys) >= MinKeys
      BY <1>0, <1>3, <2>2 DEF SizeInv
    <3>1. CASE q = Here
      BY <1>3, <1>4, <2>1, <2>2, <3>1
    <3>2. CASE q # Here
      BY <1>1, <2>2, <3>2 DEF SizeInv, d
    <3> QED
      BY <3>1, <3>2
  <2>4. CallInv(h)'
    BY <1>0, <1>1, <2>1, ReturnCall
  <2>5. Loose' = {root}
    BY <1>0, <2>1 DEF Loose, Return
  <2>6. ShapeInv(h)'
    BY <1>0, <1>1, <2>2, <2>3, <2>4, <2>5 DEF ShapeInv, TreeInv
  <2> QED
    BY <2>6
<1>7. ASSUME NEW n, NEW n1, NEW l, NEW r, InnerCut(n, n1, l, r) PROVE \E g : ShapeInv(g)'
  <2>1. /\ ChildTaken(n) /\ Len(n.keys) = order
        /\ Replaced(n1, node, Here, n) /\ Divided(node', n1, Here, l, r)
        /\ split_out' = d + 1 /\ key_out' \in Ids /\ pc' = "split"
        /\ path' = Front(path) /\ arg' = arg
    BY <1>7 DEF InnerCut, d
  <2>2. /\ Len(n1) = d /\ n1[Here] = n /\ Made(n1)
        /\ \A q \in 1 .. d : q # Here => n1[q] = node[q]
        /\ Levels(n1, h, root) /\ Owned(n1, {root})
        /\ Len(n.keys) = Len(node[Here].keys) + 1
        /\ Len(n.vals) = Len(node[Here].keys) + 2
    BY <1>5, <2>1
  <2>3. /\ WellMade(l, d + 1) /\ ~l.is_leaf /\ WellMade(r, d + 1) /\ ~r.is_leaf
        /\ Taken(l.vals, n.vals, 0, Mid + 1) /\ Taken(r.vals, n.vals, Mid + 1, order - Mid)
        /\ Len(l.keys) = Mid /\ Len(r.keys) = order - Mid - 1 /\ ~n.is_leaf
    BY <1>7 DEF InnerCut, Taken, ChildTaken, d
  <2>4. Len(n.vals) = order + 1
    BY <1>3, <1>4, <2>1, <2>2
  <2>6. Len(node') = d + 1
    BY <2>1, <2>2 DEF Divided
  <2>7. Made(node')
    BY <1>2, <2>1, <2>2, <2>3, MadeDivided
  <2>8. PICK g : g = Raised(h, d, Here)
    OBVIOUS
  <2>9. Levels(node', g, root) /\ Owned(node', {root} \cup {d + 1})
    <3> DEFINE c == Mid + 1
               e == order - Mid
    <3>1. /\ c \in 1 .. Len(n1[Here].vals) /\ e = Len(n1[Here].vals) - c
      BY <1>3, <2>2, <2>4
    <3>2. Taken(l.vals, n1[Here].vals, 0, c) /\ Taken(r.vals, n1[Here].vals, c, e)
      BY <2>2, <2>3
    <3>3. ~n1[Here].is_leaf
      BY <2>2, <2>3
    <3> HIDE DEF c, e
    <3>4. /\ \A y, rt : rt \in 1 .. Len(n1) /\ Levels(n1, y, rt) =>
                Levels(node', Raised(y, Len(n1), Here), rt)
          /\ \A free : free \subseteq 1 .. Len(n1) /\ Owned(n1, free) =>
                Owned(node', free \cup {Len(n1) + 1})
      BY <1>2, <2>1, <2>2, <2>3, <3>1, <3>2, <3>3, InnerDivided
    <3>5. root \in 1 .. Len(n1) /\ {root} \subseteq 1 .. Len(n1)
      BY <1>1, <2>2 DEF d
    <3> QED
      BY <2>2, <2>8, <3>4, <3>5
  <2>10. /\ node'[Here] = l /\ node'[d + 1] = r
         /\ \A q \in 1 .. d : q # Here => node'[q] = node[q]
    BY <2>1, <2>2 DEF Divided
  <2>11. SizeInv'
    <3> SUFFICES ASSUME NEW q \in 1 .. d + 1
                 PROVE  /\ Len(node'[q].keys) < order
                        /\ q # root => Len(node'[q].keys) >= MinKeys
      BY <1>0, <1>3, <2>6 DEF SizeInv
    <3>1. CASE q = Here \/ q = d + 1
      BY <1>3, <2>3, <2>10, <3>1
    <3>2. CASE q \in 1 .. d /\ q # Here
      BY <1>1, <2>10, <3>2 DEF SizeInv, d
    <3> QED
      BY <1>2, <3>1, <3>2
  <2>12. CallInv(g)'
    <3>1. Len(node'[Here].keys) >= MinKeys
      BY <1>3, <2>3, <2>10
    <3> QED
      BY <1>0, <1>1, <2>1, <2>6, <2>8, <3>1, SplitCall DEF d
  <2>13. Loose' = {root} \cup {d + 1}
    BY <1>0, <2>1 DEF Loose
  <2>14. root' \in 1 .. Len(node')
    BY <1>0, <1>1, <1>2, <2>6 DEF d
  <2>15. ShapeInv(g)'
    BY <1>0, <2>7, <2>9, <2>11, <2>12, <2>13, <2>14 DEF ShapeInv, TreeInv
  <2> QED
    BY <2>15
<1> QED
  BY <1>0, <1>6, <1>7

\* The new root has the halves of the old one for children.
LEMMA ShapeGrowRoot ==
  ASSUME NEW h, ShapeInv(h), GrowRoot
  PROVE  \E g : ShapeInv(g)'
<1> DEFINE r == Internal(<<key_out>>, <<root, split_out>>)
           d == Len(node)
<1>0. /\ pc = "split" /\ path = <<>> /\ root' = d + 1 /\ order' = order
      /\ node' = Append(node, r) /\ Return
  BY DEF GrowRoot
<1>1. /\ CallInv(h) /\ SizeInv /\ key_out \in Ids
      /\ split_out \in 1 .. d /\ split_out # root /\ h[split_out] = h[root] - Len(path)
      /\ order \in Orders /\ Made(node) /\ node \in Seq(NodeSet) /\ Levels(node, h, root)
      /\ root \in 1 .. d /\ Owned(node, {root, split_out})
      /\ Len(node[root].keys) >= MinKeys
      /\ d \in Nat
  BY <1>0 DEF ShapeInv, CallInv, TreeInv, Made, Loose
<1>2. h[split_out] = h[root]
  <2>1. h[root] \in Nat /\ Len(path) = 0
    BY <1>0, <1>1 DEF Levels
  <2> QED
    BY <1>1, <2>1
<1>3. /\ order \in Nat /\ order >= 3 /\ MinKeys \in Nat /\ MinKeys' = MinKeys
  BY <1>0, <1>1, MidFacts DEF MinKeys
<1>4. /\ r \in NodeSet /\ ~r.is_leaf /\ r.keys = <<key_out>>
      /\ r.vals = <<root, split_out>> /\ r.next = NULL
  <2>1. <<key_out>> \in Seq(Ids) /\ <<root, split_out>> \in Seq(Nat)
    BY <1>1
  <2> QED
    BY <2>1 DEF Internal, NodeSet, NULL
<1> HIDE DEF r, d
<1>5. WellMade(r, d + 1)
  <2>1. /\ Len(<<key_out>>) = 1 /\ Len(<<root, split_out>>) = 2
        /\ 1 .. 1 = {1} /\ 1 .. 2 = {1, 2}
        /\ <<root, split_out>>[1] = root /\ <<root, split_out>>[2] = split_out
    OBVIOUS
  <2>2. root \in 1 .. d + 1 /\ split_out \in 1 .. d + 1
    BY <1>1
  <2>3. \A k \in 1 .. 2 : r.vals[k] \in 1 .. d + 1
    BY <1>4, <2>1, <2>2
  <2>4. \A j, k \in 1 .. 1 : ~(j < k)
    OBVIOUS
  <2> QED
    BY <1>4, <2>1, <2>3, <2>4 DEF WellMade
<1>6. /\ node' \in Seq(NodeSet) /\ Len(node') = d + 1 /\ node'[d + 1] = r
      /\ \A q \in 1 .. d : node'[q] = node[q]
  BY <1>0, <1>1, <1>4, AppendProperties DEF d
<1>7. Made(node')
  <2>1. ASSUME NEW q \in 1 .. d + 1 PROVE WellMade(node'[q], d + 1)
    <3>1. CASE q = d + 1
      BY <1>5, <1>6, <3>1
    <3>2. CASE q \in 1 .. d
      BY <1>1, <1>6, <3>2, MoreNodes DEF Made, d
    <3> QED
      BY <1>1, <3>1, <3>2
  <2> QED
    BY <1>6, <2>1 DEF Made
<1>8. PICK g : g = [n \in 1 .. d + 1 |-> IF n = d + 1 THEN h[root] + 1 ELSE h[n]]
  OBVIOUS
<1>9. Levels(node', g, d + 1) /\ Owned(node', {d + 1})
  BY <1>1, <1>2, <1>4, <1>6, <1>8, RootAdded DEF d
<1>10. SizeInv'
  <2> SUFFICES ASSUME NEW q \in 1 .. d + 1
               PROVE  /\ Len(node'[q].keys) < order
                      /\ q # d + 1 => Len(node'[q].keys) >= MinKeys
    BY <1>0, <1>3, <1>6 DEF SizeInv
  <2>1. CASE q = d + 1
    <3>1. Len(<<key_out>>) = 1
      OBVIOUS
    <3>2. node'[q].keys = <<key_out>>
      BY <1>4, <1>6, <2>1, Zenon
    <3>3. Len(node'[q].keys) = 1
      BY <3>1, <3>2, Zenon
    <3> QED
      BY <1>3, <2>1, <3>3
  <2>2. CASE q \in 1 .. d
    BY <1>1, <1>6, <2>2 DEF SizeInv, d
  <2> QED
    BY <1>1, <2>1, <2>2
<1>11. CallInv(g)'
  BY <1>0, <1>1, ReturnCall
<1>12. Loose' = {d + 1}
  BY <1>0 DEF Loose, Return
<1>13. root' \in 1 .. Len(node')
  BY <1>0, <1>1, <1>6
<1>14. ShapeInv(g)'
  BY <1>0, <1>7, <1>9, <1>10, <1>11, <1>12, <1>13 DEF ShapeInv, TreeInv
<1> QED
  BY <1>14

\* Every step of an insert keeps the tree in shape.
LEMMA ShapeStep ==
  ASSUME NEW h, ShapeInv(h), [Next]_vars
  PROVE  \E g : ShapeInv(g)'
<1>1. CASE \E c \in Calls[order] : Insert(c[1], c[2])
  BY <1>1, ShapeInsert
<1>2. CASE Descend
  BY <1>2, ShapeDescend
<1>3. CASE InsertLeaf
  BY <1>3, ShapeInsertLeaf
<1>4. CASE InsertInternal
  BY <1>4, ShapeInsertInternal
<1>5. CASE GrowRoot
  BY <1>5, ShapeGrowRoot
<1>6. CASE Recreate
  BY <1>6, ShapeRecreate
<1>7. CASE UNCHANGED vars
  <2>1. /\ order' = order /\ node' = node /\ root' = root /\ pc' = pc /\ path' = path
        /\ arg' = arg /\ key_out' = key_out /\ split_out' = split_out
    BY <1>7 DEF vars, callVars
  <2>2. ShapeInv(h)'
    BY <2>1 DEF ShapeInv, TreeInv, SizeInv, CallInv, Loose, MinKeys
  <2> QED
    BY <2>2
<1> QED
  BY <1>1, <1>2, <1>3, <1>4, <1>5, <1>6, <1>7 DEF Next

InShape == \E h : ShapeInv(h)

\* bptree_insert leaves the tree in shape, and so does every step it takes.
THEOREM ShapeAlways == Spec => []InShape
<1>1. Init => InShape
  BY ShapeInit DEF InShape
<1>2. InShape /\ [Next]_vars => InShape'
  BY ShapeStep DEF InShape
<1> QED
  BY <1>1, <1>2, PTL DEF Spec

-----------------------------------------------------------------------------
(* Balanced                                                                *)

\* The arrays of the nodes, between and during calls.
LEMMA ShapeTypes ==
  ASSUME NEW h, ShapeInv(h)
  PROVE  TypeOK
<1>0. /\ Made(node) /\ node \in Seq(NodeSet) /\ DOMAIN node = 1 .. Len(node)
      /\ root \in DOMAIN node /\ Len(node) \in Nat
  BY DEF ShapeInv, TreeInv, Made
<1>1. /\ order \in Orders /\ pc \in {"idle", "down", "split"} /\ path \in Seq(DOMAIN node)
      /\ split_out \in {NULL} \cup DOMAIN node
      /\ key_out \in Ids \cup {0}
      /\ arg \in [id : Ids, row : Rows] \cup {NoArg}
  BY <1>0 DEF ShapeInv, CallInv
<1>2. ASSUME NEW n \in DOMAIN node
      PROVE  /\ Len(node[n].keys) < order
             /\ \A i \in DOMAIN node[n].keys : node[n].keys[i] \in Ids
             /\ node[n].is_leaf =>
                    /\ node[n].vals \in [DOMAIN node[n].keys -> Rows]
                    /\ node[n].next \in {NULL} \cup DOMAIN node
             /\ ~node[n].is_leaf =>
                    node[n].vals \in [1 .. Len(node[n].keys) + 1 -> DOMAIN node]
  <2>1. WellMade(node[n], Len(node))
    BY <1>0 DEF Made
  <2>2. /\ Len(node[n].keys) \in Nat /\ node[n].vals \in Seq(Nat)
        /\ \A k \in 1 .. Len(node[n].keys) : node[n].keys[k] \in Ids
        /\ DOMAIN node[n].keys = 1 .. Len(node[n].keys)
        /\ DOMAIN node[n].vals = 1 .. Len(node[n].vals)
    BY <1>0, <2>1, MadeFields
  <2>3. Len(node[n].keys) < order
    BY <1>0 DEF ShapeInv, SizeInv
  <2>4. ASSUME node[n].is_leaf
        PROVE  /\ node[n].vals \in [DOMAIN node[n].keys -> Rows]
               /\ node[n].next \in {NULL} \cup DOMAIN node
    <3>1. /\ Len(node[n].vals) = Len(node[n].keys)
          /\ \A k \in 1 .. Len(node[n].vals) : node[n].vals[k] \in Rows
          /\ node[n].next \in 0 .. Len(node)
      BY <2>1, <2>4 DEF WellMade
    <3>2. node[n].next \in {0} \cup 1 .. Len(node)
      BY <1>0, <3>1
    <3> QED
      BY <1>0, <2>2, <3>1, <3>2 DEF NULL
  <2>5. ASSUME ~node[n].is_leaf
        PROVE  node[n].vals \in [1 .. Len(node[n].keys) + 1 -> DOMAIN node]
    BY <1>0, <2>1, <2>2, <2>5 DEF WellMade
  <2> QED
    BY <2>2, <2>3, <2>4, <2>5
<1> QED
  BY <1>0, <1>1, <1>2 DEF TypeOK

\* Going down the first children counts the levels.
LEMMA HeightIs ==
  ASSUME NEW nd, Made(nd), NEW h, NEW rt, Levels(nd, h, rt),
         NEW f, f = CHOOSE g : g = [n \in DOMAIN nd |->
                                       IF nd[n].is_leaf THEN 0 ELSE 1 + g[nd[n].vals[1]]]
  PROVE  \A n \in DOMAIN nd : f[n] = h[n]
<1> DEFINE Is(g) == g = [n \in DOMAIN nd |->
                            IF nd[n].is_leaf THEN 0 ELSE 1 + g[nd[n].vals[1]]]
<1>0. /\ DOMAIN nd = 1 .. Len(nd) /\ h \in [DOMAIN nd -> Nat]
  BY DEF Made, Levels
<1>1. ASSUME NEW n \in DOMAIN nd, ~nd[n].is_leaf
      PROVE  /\ nd[n].vals[1] \in DOMAIN nd /\ h[n] = h[nd[n].vals[1]] + 1
             /\ h[n] = 1 + h[nd[n].vals[1]]
  <2>0. WellMade(nd[n], Len(nd)) /\ Len(nd) \in Nat
    BY <1>0 DEF Made
  <2>1. 1 \in 1 .. Len(nd[n].vals)
    <3>1. Len(nd[n].vals) = Len(nd[n].keys) + 1 /\ Len(nd[n].keys) \in Nat
      BY <1>1, <2>0, MadeFields DEF WellMade
    <3> QED
      BY <3>1
  <2>2. nd[n].vals[1] \in DOMAIN nd
    BY <1>0, <1>1, <2>0, <2>1 DEF WellMade
  <2>3. h[n] = h[nd[n].vals[1]] + 1
    BY <1>0, <1>1, <2>1 DEF Levels
  <2>4. h[nd[n].vals[1]] \in Nat
    BY <1>0, <2>2
  <2> QED
    BY <2>2, <2>3, <2>4
<1>2. \A n \in DOMAIN nd : nd[n].is_leaf => h[n] = 0
  BY <1>0 DEF Levels
<1>3. Is(h)
  BY <1>0, <1>1, <1>2
<1>4. Is(f)
  <2>1. f = CHOOSE g : Is(g)
    BY Zenon
  <2> HIDE DEF Is
  <2> QED
    BY <1>3, <2>1, Zenon
<1>5. \A n \in DOMAIN nd : f[n] = IF nd[n].is_leaf THEN 0 ELSE 1 + f[nd[n].vals[1]]
  BY <1>4
<1> DEFINE bad == {k \in Nat : \E n \in DOMAIN nd : h[n] = k /\ f[n] # h[n]}
<1>6. bad = {}
  <2> SUFFICES ASSUME bad # {} PROVE FALSE
    OBVIOUS
  <2>1. bad \in SUBSET Nat
    OBVIOUS
  <2> HIDE DEF bad
  <2>2. PICK k \in bad : \A j \in bad : k <= j
    BY <2>1, LeastNatural
  <2>3. PICK n \in DOMAIN nd : h[n] = k /\ f[n] # h[n] /\ k \in Nat
    BY DEF bad
  <2>4. ~nd[n].is_leaf
    BY <1>2, <1>5, <2>3
  <2> DEFINE c == nd[n].vals[1]
  <2>5. c \in DOMAIN nd /\ h[n] = h[c] + 1 /\ h[n] = 1 + h[c] /\ h[c] \in Nat
    BY <1>0, <1>1, <2>4
  <2>6. f[n] = 1 + f[c]
    BY <1>5, <2>4
  <2> HIDE DEF c
  <2>7. h[c] \in bad
    BY <2>3, <2>5, <2>6 DEF bad
  <2> QED
    BY <2>2, <2>3, <2>5, <2>7
<1> QED
  BY <1>0, <1>6

\* node_free meets every node but the root once.
LEMMA OneParent ==
  ASSUME NEW h, ShapeInv(h), Loose = {root}, NEW n \in DOMAIN node
  PROVE  Cardinality(Parents(n)) = IF n = root THEN 0 ELSE 1
<1>0. /\ Made(node) /\ node \in Seq(NodeSet) /\ DOMAIN node = 1 .. Len(node)
      /\ Owned(node, {root}) /\ Len(node) \in Nat /\ order \in Nat
  BY Constants DEF ShapeInv, TreeInv, Made, CallInv
<1>1. ASSUME NEW p, NEW i PROVE <<p, i>> \in Parents(n) <=> ChildAt(node, p, i, n)
  <2>1. ASSUME p \in DOMAIN node, ~node[p].is_leaf
        PROVE  /\ DOMAIN node[p].vals = 1 .. Len(node[p].vals)
               /\ 1 .. Len(node[p].vals) \subseteq 1 .. order
    <3>1. WellMade(node[p], Len(node)) /\ Len(node[p].keys) < order
      BY <1>0, <2>1 DEF Made, ShapeInv, SizeInv
    <3>2. DOMAIN node[p].vals = 1 .. Len(node[p].vals) /\ Len(node[p].keys) \in Nat
      BY <1>0, <3>1, MadeFields
    <3>3. Len(node[p].vals) = Len(node[p].keys) + 1
      BY <2>1, <3>1 DEF WellMade
    <3> QED
      BY <1>0, <3>1, <3>2, <3>3
  <2> QED
    BY <1>0, <2>1 DEF Parents, ChildAt
<1>2. \A s \in Parents(n) : s = <<s[1], s[2]>>
  BY DEF Parents
<1>3. CASE n = root
  <2>1. \A p, i : ~ChildAt(node, p, i, n)
    BY <1>0, <1>3 DEF Owned
  <2>2. Parents(n) = {}
    BY <1>1, <1>2, <2>1
  <2> QED
    BY <1>3, <2>2, FS_EmptySet
<1>4. CASE n # root
  <2>1. PICK p, i : ChildAt(node, p, i, n)
    BY <1>0, <1>4 DEF Owned
  <2>2. \A q, j : ChildAt(node, q, j, n) => q = p /\ j = i
    BY <1>0, <2>1 DEF Owned
  <2>3. Parents(n) = {<<p, i>>}
    BY <1>1, <1>2, <2>1, <2>2
  <2> QED
    BY <1>4, <2>3, FS_Singleton
<1> QED
  BY <1>3, <1>4

\* Whatever inserts came, the leaves of the tree have one depth, its nodes
\* fit their arrays and are at least as full as a split leaves them, and
\* node_free reaches every node once.
THEOREM TreeBalanced == Spec => []Balanced
<1>1. ASSUME InShape PROVE Balanced
  <2>1. PICK h : ShapeInv(h)
    BY <1>1 DEF InShape
  <2>2. TypeOK
    BY <2>1, ShapeTypes
  <2>3. PICK f : f = CHOOSE g : g = [n \in DOMAIN node |->
                       IF node[n].is_leaf THEN 0 ELSE 1 + g[node[n].vals[1]]]
    OBVIOUS
  <2>4. \A n \in DOMAIN node : f[n] = h[n]
    BY <2>1, <2>3, HeightIs DEF ShapeInv, TreeInv
  <2>5. ASSUME pc = "idle", NEW n \in DOMAIN node
        PROVE  /\ n # root => Len(node[n].keys) >= (order - 1) \div 2
               /\ ~node[n].is_leaf =>
                      \A i \in DOMAIN node[n].vals : f[node[n].vals[i]] = f[n] - 1
               /\ Cardinality(Parents(n)) = IF n = root THEN 0 ELSE 1
    <3>0. n \in 1 .. Len(node) /\ DOMAIN node = 1 .. Len(node) /\ Len(node) \in Nat
          /\ WellMade(node[n], Len(node)) /\ h \in [1 .. Len(node) -> Nat]
      BY <2>1 DEF ShapeInv, TreeInv, Made, Levels
    <3>1. n # root => Len(node[n].keys) >= (order - 1) \div 2
      BY <2>1, <3>0 DEF ShapeInv, SizeInv, MinKeys
    <3>2. ASSUME ~node[n].is_leaf, NEW i \in DOMAIN node[n].vals
          PROVE  f[node[n].vals[i]] = f[n] - 1
      <4>1. i \in 1 .. Len(node[n].vals)
        BY <3>0, MadeFields
      <4>2. h[n] = h[node[n].vals[i]] + 1 /\ node[n].vals[i] \in 1 .. Len(node)
        BY <2>1, <3>0, <3>2, <4>1 DEF ShapeInv, TreeInv, Levels, WellMade
      <4>3. h[node[n].vals[i]] \in Nat
        BY <3>0, <4>2
      <4>4. h[node[n].vals[i]] = h[n] - 1
        BY <4>2, <4>3
      <4> QED
        BY <2>4, <3>0, <4>2, <4>4
    <3>3. Loose = {root}
      BY <2>5 DEF Loose
    <3> QED
      BY <2>1, <3>1, <3>2, <3>3, OneParent
  <2> QED
    BY <2>2, <2>3, <2>5 DEF Balanced
<1> QED
  BY <1>1, ShapeAlways, PTL

-----------------------------------------------------------------------------
(* Which child an id is sent to                                            *)

\* After internal_insert_nonfull the ids of the i-th child are shared out at
\* the new key, and all others go where they went.
LEMMA SentInserted ==
  ASSUME NEW ks \in Seq(Int), NEW key \in Int, NEW i \in 1 .. Len(ks) + 1,
         IsChild(ks, key, i), NEW ms, Inserted(ms, ks, i, key), NEW z \in Int
  PROVE  /\ \A k \in 1 .. i - 1 : IsChild(ms, z, k) <=> IsChild(ks, z, k)
         /\ IsChild(ms, z, i) <=> IsChild(ks, z, i) /\ z < key
         /\ IsChild(ms, z, i + 1) <=> IsChild(ks, z, i) /\ key <= z
         /\ \A k \in i + 1 .. Len(ks) + 1 : IsChild(ms, z, k + 1) <=> IsChild(ks, z, k)
<1>0. /\ Len(ks) \in Nat /\ Len(ms) = Len(ks) + 1 /\ i \in Nat /\ i >= 1 /\ i <= Len(ks) + 1
      /\ \A j \in 1 .. Len(ks) : ks[j] \in Int
  BY DEF Inserted
<1>1. /\ \A j \in 1 .. i - 1 : ms[j] = ks[j]
      /\ ms[i] = key
      /\ \A j \in i .. Len(ks) : ms[j + 1] = ks[j]
  <2>1. \A k \in 1 .. Len(ks) + 1 :
            ms[k] = IF k < i THEN ks[k] ELSE IF k = i THEN key ELSE ks[k - 1]
    BY DEF Inserted
  <2>2. \A j \in 1 .. i - 1 : j \in 1 .. Len(ks) + 1 /\ j < i
    BY <1>0
  <2>3. \A j \in i .. Len(ks) : j + 1 \in 1 .. Len(ks) + 1 /\ j + 1 > i /\ (j + 1) - 1 = j
    BY <1>0
  <2>4. ASSUME NEW j \in i .. Len(ks) PROVE ms[j + 1] = ks[j]
    <3>1. ms[j + 1] = ks[(j + 1) - 1]
      BY <1>0, <2>1, <2>3
    <3> QED
      BY <2>3, <3>1, Zenon
  <2> QED
    BY <1>0, <2>1, <2>2, <2>4
<1>2. /\ \A j \in 1 .. i - 1 : ks[j] <= key
      /\ i <= Len(ks) => key < ks[i] /\ ks[i] \in Int
  BY <1>0 DEF IsChild
<1>3. ASSUME NEW k \in 1 .. i - 1
      PROVE  IsChild(ms, z, k) <=> IsChild(ks, z, k)
  <2>1. \A j \in 1 .. k - 1 : j \in 1 .. i - 1
    BY <1>0
  <2>2. k <= Len(ks) /\ k <= Len(ms)
    BY <1>0
  <2> QED
    BY <1>1, <2>1, <2>2 DEF IsChild
<1>4. IsChild(ms, z, i) <=> IsChild(ks, z, i) /\ z < key
  <2>1. i <= Len(ms)
    BY <1>0
  <2>2. i <= Len(ks) /\ z < key => z < ks[i]
    BY <1>2
  <2> QED
    BY <1>1, <2>1, <2>2 DEF IsChild
<1>5. IsChild(ms, z, i + 1) <=> IsChild(ks, z, i) /\ key <= z
  <2>1. i + 1 - 1 = i /\ 1 .. i = (1 .. i - 1) \cup {i}
    BY <1>0
  <2>2. (\A j \in 1 .. i + 1 - 1 : ms[j] <= z) <=> (\A j \in 1 .. i - 1 : ks[j] <= z) /\ key <= z
    BY <1>1, <2>1
  <2>3. i + 1 <= Len(ms) <=> i <= Len(ks)
    BY <1>0
  <2>4. i <= Len(ks) => ms[i + 1] = ks[i]
    BY <1>0, <1>1
  <2> QED
    BY <2>2, <2>3, <2>4 DEF IsChild
<1>6. ASSUME NEW k \in i + 1 .. Len(ks) + 1
      PROVE  IsChild(ms, z, k + 1) <=> IsChild(ks, z, k)
  <2>0. k \in Nat /\ k + 1 - 1 = k /\ i <= k - 1 /\ i <= Len(ks) /\ i \in 1 .. k - 1 /\ i \in i .. Len(ks)
    BY <1>0
  <2>1. k + 1 <= Len(ms) <=> k <= Len(ks)
    BY <1>0, <2>0
  <2>2. k <= Len(ks) => ms[k + 1] = ks[k]
    BY <1>0, <1>1, <2>0
  <2>3. ASSUME \A j \in 1 .. k : ms[j] <= z, NEW j \in 1 .. k - 1
        PROVE  ks[j] <= z
    <3>1. CASE j < i
      <4>1. j \in 1 .. i - 1 /\ j \in 1 .. k
        BY <1>0, <2>0, <3>1
      <4> QED
        BY <1>1, <2>3, <4>1
    <3>2. CASE j >= i
      <4>1. j \in i .. Len(ks) /\ j + 1 \in 1 .. k
        BY <1>0, <2>0, <3>2
      <4> QED
        BY <1>1, <2>3, <4>1
    <3> QED
      BY <1>0, <2>0, <3>1, <3>2
  <2>4. ASSUME \A j \in 1 .. k - 1 : ks[j] <= z, NEW j \in 1 .. k
        PROVE  ms[j] <= z
    <3>1. CASE j < i
      <4>1. j \in 1 .. i - 1 /\ j \in 1 .. k - 1
        BY <1>0, <2>0, <3>1
      <4> QED
        BY <1>1, <2>4, <4>1
    <3>2. CASE j = i
      <4>1. ks[i] <= z /\ key < ks[i] /\ ks[i] \in Int
        BY <1>2, <2>0, <2>4
      <4> QED
        BY <1>1, <3>2, <4>1
    <3>3. CASE j > i
      <4>1. j - 1 \in i .. Len(ks) /\ j - 1 \in 1 .. k - 1 /\ (j - 1) + 1 = j
        BY <1>0, <2>0, <3>3
      <4>2. ms[(j - 1) + 1] = ks[j - 1] /\ ks[j - 1] <= z
        BY <1>1, <2>4, <4>1
      <4> QED
        BY <4>1, <4>2, Zenon
    <3> QED
      BY <1>0, <2>0, <3>1, <3>2, <3>3
  <2>5. (\A j \in 1 .. k + 1 - 1 : ms[j] <= z) <=> (\A j \in 1 .. k - 1 : ks[j] <= z)
    BY <2>0, <2>3, <2>4
  <2> QED
    BY <2>1, <2>2, <2>5 DEF IsChild
<1> QED
  BY <1>3, <1>4, <1>5, <1>6

\* split_internal: the left half gets the ids below the promoted key and the
\* right half the others; either sends them on as the whole node did.
LEMMA SentTaken ==
  ASSUME NEW ks \in Seq(Int), Up(ks), NEW c \in Nat, c + 1 <= Len(ks),
         NEW e, e = Len(ks) - c - 1,
         NEW lk, Taken(lk, ks, 0, c), NEW rk, Taken(rk, ks, c + 1, e), NEW z \in Int
  PROVE  /\ \A k \in 1 .. c + 1 :
                IsChild(ks, z, k) <=> IsChild(lk, z, k) /\ z < ks[c + 1]
         /\ \A k \in 1 .. e + 1 :
                IsChild(ks, z, c + 1 + k) <=> IsChild(rk, z, k) /\ ks[c + 1] <= z
<1>0. /\ Len(ks) \in Nat /\ Len(lk) = c /\ Len(rk) = e /\ e \in Nat
      /\ c + 1 \in 1 .. Len(ks) /\ ks[c + 1] \in Int
      /\ \A j \in 1 .. Len(ks) : ks[j] \in Int
  BY DEF Taken
<1>1. /\ \A j \in 1 .. c : lk[j] = ks[j]
      /\ \A j \in 1 .. e : rk[j] = ks[c + 1 + j]
  <2>1. \A j \in 1 .. c : 0 + j = j
    OBVIOUS
  <2> QED
    BY <2>1 DEF Taken
<1>2. \A j, k \in 1 .. Len(ks) : j <= k => ks[j] <= ks[k]
  <2>1. ASSUME NEW j \in 1 .. Len(ks), NEW k \in 1 .. Len(ks), j <= k
        PROVE  ks[j] <= ks[k]
    <3>1. CASE j = k
      BY <1>0, <3>1
    <3>2. CASE j < k
      BY <3>2 DEF Up
    <3> QED
      BY <1>0, <2>1, <3>1, <3>2
  <2> QED
    BY <2>1
<1>3. ASSUME NEW k \in 1 .. c + 1
      PROVE  IsChild(ks, z, k) <=> IsChild(lk, z, k) /\ z < ks[c + 1]
  <2>0. k \in 1 .. Len(ks) /\ ks[k] \in Int /\ \A j \in 1 .. k - 1 : j \in 1 .. c
    BY <1>0
  <2>1. (\A j \in 1 .. k - 1 : lk[j] <= z) <=> (\A j \in 1 .. k - 1 : ks[j] <= z)
    BY <1>1, <2>0
  <2>2. CASE k <= c
    <3>1. lk[k] = ks[k] /\ ks[k] <= ks[c + 1]
      BY <1>0, <1>1, <1>2, <2>0, <2>2
    <3>2. z < ks[k] => z < ks[c + 1]
      BY <1>0, <2>0, <3>1
    <3>3. k <= Len(lk) /\ k <= Len(ks)
      BY <1>0, <2>0, <2>2
    <3>4. IsChild(ks, z, k) <=> (\A j \in 1 .. k - 1 : ks[j] <= z) /\ z < ks[k]
      BY <3>3 DEF IsChild
    <3>5. IsChild(lk, z, k) <=> (\A j \in 1 .. k - 1 : ks[j] <= z) /\ z < ks[k]
      BY <2>1, <3>1, <3>3 DEF IsChild
    <3> QED
      BY <3>2, <3>4, <3>5
  <2>3. CASE k = c + 1
    <3>1. ~(k <= Len(lk)) /\ k <= Len(ks)
      BY <1>0, <2>3
    <3> QED
      BY <2>1, <2>3, <3>1 DEF IsChild
  <2> QED
    BY <2>2, <2>3
<1>4. ASSUME NEW k \in 1 .. e + 1
      PROVE  IsChild(ks, z, c + 1 + k) <=> IsChild(rk, z, k) /\ ks[c + 1] <= z
  <2> DEFINE b == c + 1
  <2>0. k \in Nat /\ k >= 1 /\ b + k - 1 \in Nat /\ b \in 1 .. Len(ks) /\ b >= 1
    BY <1>0
  <2>1. b + k <= Len(ks) <=> k <= Len(rk)
    BY <1>0
  <2>2. k <= Len(rk) => rk[k] = ks[b + k]
    BY <1>0, <1>1
  <2>3. ASSUME \A j \in 1 .. b + k - 1 : ks[j] <= z
        PROVE  (\A j \in 1 .. k - 1 : rk[j] <= z) /\ ks[b] <= z
    <3>1. b \in 1 .. b + k - 1
      BY <2>0
    <3>2. \A j \in 1 .. k - 1 : j \in 1 .. e /\ b + j \in 1 .. b + k - 1
      BY <1>0, <2>0
    <3> QED
      BY <1>1, <2>3, <3>1, <3>2
  <2>4. ASSUME \A j \in 1 .. k - 1 : rk[j] <= z, ks[b] <= z, NEW j \in 1 .. b + k - 1
        PROVE  ks[j] <= z
    <3>0. j \in 1 .. Len(ks) /\ ks[j] \in Int /\ ks[b] \in Int
      BY <1>0, <2>0
    <3>1. CASE j <= b
      <4>1. ks[j] <= ks[b]
        BY <1>2, <2>0, <3>0, <3>1
      <4> QED
        BY <2>4, <3>0, <4>1
    <3>2. CASE j > b
      <4>1. j - b \in 1 .. k - 1 /\ j - b \in 1 .. e /\ b + (j - b) = j
        BY <1>0, <2>0, <3>2
      <4>2. rk[j - b] <= z /\ rk[j - b] = ks[b + (j - b)]
        BY <1>1, <2>4, <4>1
      <4> QED
        BY <4>1, <4>2, Zenon
    <3> QED
      BY <2>0, <3>0, <3>1, <3>2
  <2>5. (\A j \in 1 .. b + k - 1 : ks[j] <= z) <=>
            (\A j \in 1 .. k - 1 : rk[j] <= z) /\ ks[b] <= z
    BY <2>3, <2>4
  <2>6. IsChild(ks, z, b + k) <=> /\ \A j \in 1 .. b + k - 1 : ks[j] <= z
                                  /\ b + k <= Len(ks) => z < ks[b + k]
    BY DEF IsChild
  <2>7. IsChild(rk, z, k) <=> /\ \A j \in 1 .. k - 1 : rk[j] <= z
                              /\ k <= Len(rk) => z < rk[k]
    BY DEF IsChild
  <2> HIDE DEF b
  <2>8. IsChild(ks, z, b + k) <=> IsChild(rk, z, k) /\ ks[b] <= z
    BY <2>1, <2>2, <2>5, <2>6, <2>7
  <2> QED
    BY <2>8 DEF b
<1> QED
  BY <1>3, <1>4

-----------------------------------------------------------------------------
(* Ranges                                                                  *)

\* R gives every node the ids whose place is below it: it holds its keys, and
\* no two leaves share an id.  F gives it the ids its parent sends to it,
\* which are more while the parent does not know of a split.
Ranged(nd, R, F) ==
    /\ R \in [1 .. Len(nd) -> SUBSET Int]
    /\ \A n \in 1 .. Len(nd) :
           /\ StrictlyUp(nd[n].keys)
           /\ \A k \in 1 .. Len(nd[n].keys) : nd[n].keys[k] \in R[n]
    /\ \A p, i, c, z : ChildAt(nd, p, i, c) =>
           (z \in F[c] <=> z \in R[p] /\ IsChild(nd[p].keys, z, i))
    /\ \A m, n \in 1 .. Len(nd) : nd[m].is_leaf /\ nd[n].is_leaf =>
           \A z : z \in R[m] /\ z \in R[n] => m = n

\* A leaf that gets an entry of its range.
LEMMA RangedEntry ==
  ASSUME NEW nd, NEW R, NEW F, Ranged(nd, R, F), NEW p \in 1 .. Len(nd), nd[p].is_leaf,
         NEW m, m.is_leaf, NEW md, Replaced(md, nd, p, m),
         StrictlyUp(m.keys), \A k \in 1 .. Len(m.keys) : m.keys[k] \in R[p]
  PROVE  Ranged(md, R, F)
<1>1. /\ Len(md) = Len(nd) /\ md[p] = m
      /\ \A n \in 1 .. Len(nd) : n # p => md[n] = nd[n]
  BY DEF Replaced
<1>2. ASSUME NEW n \in 1 .. Len(nd)
      PROVE  /\ StrictlyUp(md[n].keys)
             /\ \A k \in 1 .. Len(md[n].keys) : md[n].keys[k] \in R[n]
  BY <1>1 DEF Ranged
<1>3. ASSUME NEW q, NEW i, NEW c, NEW z, ChildAt(md, q, i, c)
      PROVE  z \in F[c] <=> z \in R[q] /\ IsChild(md[q].keys, z, i)
  <2>1. q # p /\ q \in 1 .. Len(nd)
    BY <1>1, <1>3 DEF ChildAt
  <2>2. ChildAt(nd, q, i, c) /\ md[q] = nd[q]
    BY <1>1, <1>3, <2>1 DEF ChildAt
  <2> QED
    BY <2>2 DEF Ranged
<1>4. \A n \in 1 .. Len(nd) : md[n].is_leaf => nd[n].is_leaf
  BY <1>1
<1> QED
  BY <1>1, <1>2, <1>3, <1>4 DEF Ranged

\* The split of node p of d nodes at key: R shares the range Q of p out, and
\* F is what the parents still know.
IsCut(R, F, Q, d, p, key) ==
    /\ R \in [1 .. d + 1 -> SUBSET Int]
    /\ \A z : z \in R[p] <=> z \in Q[p] /\ z < key
    /\ \A z : z \in R[d + 1] <=> z \in Q[p] /\ key <= z
    /\ \A n \in 1 .. d : n # p => R[n] = Q[n]
    /\ \A n \in 1 .. d : F[n] = Q[n]
    /\ F[d + 1] = R[d + 1]

\* A range can be cut at every key.
LEMMA CutExists ==
  ASSUME NEW d \in Nat, NEW Q \in [1 .. d -> SUBSET Int], NEW p \in 1 .. d, NEW key
  PROVE  \E R, F : IsCut(R, F, Q, d, p, key)
<1> DEFINE R == [n \in 1 .. d + 1 |-> IF n = p THEN {z \in Q[p] : z < key}
                                      ELSE IF n = d + 1 THEN {z \in Q[p] : key <= z}
                                      ELSE Q[n]]
           F == [n \in 1 .. d + 1 |-> IF n = d + 1 THEN {z \in Q[p] : key <= z} ELSE Q[n]]
<1>1. /\ d + 1 \in 1 .. d + 1 /\ d + 1 # p /\ p \in 1 .. d + 1
      /\ \A n \in 1 .. d : n \in 1 .. d + 1 /\ n # d + 1
  OBVIOUS
<1>2. \A n \in 1 .. d + 1 : n = d + 1 \/ n \in 1 .. d
  OBVIOUS
<1>3. Q[p] \subseteq Int /\ \A n \in 1 .. d : Q[n] \subseteq Int
  OBVIOUS
<1>4. R \in [1 .. d + 1 -> SUBSET Int]
  BY <1>1, <1>2, <1>3
<1>5. R[p] = {z \in Q[p] : z < key}
  BY <1>1
<1>6. R[d + 1] = {z \in Q[p] : key <= z}
  BY <1>1
<1>7. \A n \in 1 .. d : n # p => R[n] = Q[n]
  BY <1>1
<1>8. F[d + 1] = {z \in Q[p] : key <= z}
  BY <1>1
<1>9. \A n \in 1 .. d : F[n] = Q[n]
  BY <1>1
<1> HIDE DEF R, F
<1>10. IsCut(R, F, Q, d, p, key)
  BY <1>4, <1>5, <1>6, <1>7, <1>8, <1>9 DEF IsCut
<1> QED
  BY <1>10

\* A leaf that is split.
LEMMA RangedLeaf ==
  ASSUME NEW nd, Made(nd), NEW Q, Ranged(nd, Q, Q), NEW p \in 1 .. Len(nd), nd[p].is_leaf,
         NEW l, l.is_leaf, NEW r, r.is_leaf, NEW md, Divided(md, nd, p, l, r),
         NEW key \in Int, NEW R, NEW F, IsCut(R, F, Q, Len(nd), p, key),
         StrictlyUp(l.keys), \A k \in 1 .. Len(l.keys) : l.keys[k] \in R[p],
         StrictlyUp(r.keys), \A k \in 1 .. Len(r.keys) : r.keys[k] \in R[Len(nd) + 1]
  PROVE  Ranged(md, R, F)
<1> DEFINE d == Len(nd)
           x == Len(nd) + 1
<1>0. /\ Len(md) = x /\ d \in Nat /\ md[p] = l /\ md[x] = r
      /\ \A n \in 1 .. d : n # p => md[n] = nd[n]
      /\ x \notin 1 .. d /\ p # x /\ 1 .. x = 1 .. d \cup {x} /\ p \in 1 .. d
  <2>1. Len(nd) \in Nat
    BY DEF Made
  <2>2. x \notin 1 .. d /\ p # x /\ 1 .. x = 1 .. d \cup {x}
    BY <2>1
  <2> QED
    BY <2>1, <2>2 DEF Divided
<1>1. /\ R \in [1 .. x -> SUBSET Int]
      /\ \A z : z \in R[p] <=> z \in Q[p] /\ z < key
      /\ \A z : z \in R[x] <=> z \in Q[p] /\ key <= z
      /\ \A n \in 1 .. d : n # p => R[n] = Q[n]
      /\ \A n \in 1 .. d : F[n] = Q[n]
  BY DEF IsCut
<1>2. \A k \in 1 .. Len(r.keys) : r.keys[k] \in R[x]
  OBVIOUS
<1>3. \A n \in 1 .. d : ~nd[n].is_leaf =>
          \A i \in 1 .. Len(nd[n].vals) : nd[n].vals[i] \in 1 .. d
  BY DEF Made, WellMade
<1> HIDE DEF x, d
<1>4. ASSUME NEW n \in 1 .. x
      PROVE  /\ StrictlyUp(md[n].keys)
             /\ \A k \in 1 .. Len(md[n].keys) : md[n].keys[k] \in R[n]
  <2>1. CASE n = p
    BY <1>0, <2>1
  <2>2. CASE n = x
    BY <1>0, <1>2, <2>2
  <2>3. CASE n \in 1 .. d /\ n # p
    BY <1>0, <1>1, <2>3 DEF Ranged, d
  <2> QED
    BY <1>0, <2>1, <2>2, <2>3
<1>5. ASSUME NEW q, NEW i, NEW c, NEW z, ChildAt(md, q, i, c)
      PROVE  z \in F[c] <=> z \in R[q] /\ IsChild(md[q].keys, z, i)
  <2>1. q \in 1 .. d /\ q # p /\ md[q] = nd[q]
    BY <1>0, <1>5 DEF ChildAt
  <2>2. ChildAt(nd, q, i, c) /\ c \in 1 .. d
    BY <1>3, <1>5, <2>1 DEF ChildAt, d
  <2>3. z \in Q[c] <=> z \in Q[q] /\ IsChild(nd[q].keys, z, i)
    BY <2>2 DEF Ranged
  <2> QED
    BY <1>1, <2>1, <2>2, <2>3
<1>6. ASSUME NEW m \in 1 .. x, NEW n \in 1 .. x, md[m].is_leaf, md[n].is_leaf,
             NEW z, z \in R[m], z \in R[n]
      PROVE  m = n
  <2>0. \A a, b \in 1 .. d : nd[a].is_leaf /\ nd[b].is_leaf /\ z \in Q[a] /\ z \in Q[b] => a = b
    BY DEF Ranged, d
  <2>1. z \in R[p] /\ z \in R[x] => FALSE
    <3>1. z \in R[x] => z \in Int
      BY <1>0, <1>1
    <3> QED
      BY <1>1, <3>1
  <2>2. \A a \in 1 .. d : z \in R[a] => z \in Q[a]
    BY <1>1
  <2>3. \A a \in 1 .. d : md[a].is_leaf => nd[a].is_leaf
    BY <1>0
  <2>4. z \in R[x] => z \in Q[p]
    BY <1>1
  <2>5. CASE m \in 1 .. d /\ n \in 1 .. d
    BY <1>6, <2>0, <2>2, <2>3, <2>5
  <2>6. CASE m = x /\ n \in 1 .. d
    BY <1>0, <1>6, <2>0, <2>1, <2>2, <2>3, <2>4, <2>6
  <2>7. CASE m \in 1 .. d /\ n = x
    BY <1>0, <1>6, <2>0, <2>1, <2>2, <2>3, <2>4, <2>7
  <2>8. CASE m = x /\ n = x
    BY <2>8
  <2> QED
    BY <1>0, <2>5, <2>6, <2>7, <2>8
<1> QED
  BY <1>0, <1>1, <1>4, <1>5, <1>6 DEF Ranged

\* An inner node that is split: the keys that stay on the left are below the
\* promoted one.
LEMMA RangedInner ==
  ASSUME NEW nd, Made(nd), NEW Q, Ranged(nd, Q, Q), NEW p \in 1 .. Len(nd), ~nd[p].is_leaf,
         NEW l, ~l.is_leaf, NEW r, ~r.is_leaf, NEW md, Divided(md, nd, p, l, r),
         NEW c \in Nat, c + 1 <= Len(nd[p].keys), NEW e, e = Len(nd[p].keys) - c - 1,
         Taken(l.keys, nd[p].keys, 0, c), Taken(r.keys, nd[p].keys, c + 1, e),
         Taken(l.vals, nd[p].vals, 0, c + 1), Taken(r.vals, nd[p].vals, c + 1, e + 1),
         NEW R, NEW F, IsCut(R, F, Q, Len(nd), p, nd[p].keys[c + 1])
  PROVE  Ranged(md, R, F)
<1> DEFINE d == Len(nd)
           x == Len(nd) + 1
           ks == nd[p].keys
           key == nd[p].keys[c + 1]
<1>0. /\ Len(md) = x /\ d \in Nat /\ md[p] = l /\ md[x] = r
      /\ \A n \in 1 .. d : n # p => md[n] = nd[n]
      /\ x \notin 1 .. d /\ p # x /\ 1 .. x = 1 .. d \cup {x} /\ p \in 1 .. d
  <2>1. Len(nd) \in Nat
    BY DEF Made
  <2>2. x \notin 1 .. d /\ p # x /\ 1 .. x = 1 .. d \cup {x}
    BY <2>1
  <2> QED
    BY <2>1, <2>2 DEF Divided
<1>1. /\ R \in [1 .. x -> SUBSET Int]
      /\ \A z : z \in R[p] <=> z \in Q[p] /\ z < key
      /\ \A z : z \in R[x] <=> z \in Q[p] /\ key <= z
      /\ \A n \in 1 .. d : n # p => R[n] = Q[n]
      /\ \A n \in 1 .. d : F[n] = Q[n]
  BY DEF IsCut
<1>2. \A n \in 1 .. d : ~nd[n].is_leaf =>
          \A i \in 1 .. Len(nd[n].vals) : nd[n].vals[i] \in 1 .. d
  BY DEF Made, WellMade
<1>3. /\ ks \in Seq(Int) /\ StrictlyUp(ks) /\ Up(ks) /\ Len(ks) \in Nat
      /\ Len(nd[p].vals) = Len(ks) + 1
      /\ Q[p] \subseteq Int
      /\ \A k \in 1 .. Len(ks) : ks[k] \in Q[p] /\ ks[k] \in Int
  <2>1. WellMade(nd[p], d)
    BY DEF Made
  <2>2. ks \in Seq(Int) /\ Len(ks) \in Nat /\ \A k \in 1 .. Len(ks) : ks[k] \in Int
    BY <1>0, <2>1, MadeFields
  <2>3. Up(ks) /\ Len(nd[p].vals) = Len(ks) + 1
    BY <2>1 DEF WellMade, Up
  <2>4. StrictlyUp(ks) /\ Q[p] \subseteq Int /\ \A k \in 1 .. Len(ks) : ks[k] \in Q[p]
    BY DEF Ranged
  <2> QED
    BY <2>2, <2>3, <2>4
<1>4. /\ c + 1 \in 1 .. Len(ks) /\ e \in Nat /\ e = Len(ks) - c - 1 /\ key \in Int
  BY <1>3
<1>5. /\ Len(l.keys) = c /\ Len(r.keys) = e /\ Len(l.vals) = c + 1 /\ Len(r.vals) = e + 1
      /\ \A k \in 1 .. c : l.keys[k] = ks[k] /\ k \in 1 .. Len(ks) /\ k < c + 1
      /\ \A k \in 1 .. e : r.keys[k] = ks[c + 1 + k] /\ c + 1 + k \in 1 .. Len(ks) /\ c + 1 < c + 1 + k
      /\ \A k \in 1 .. c + 1 : l.vals[k] = nd[p].vals[k] /\ k \in 1 .. Len(nd[p].vals)
      /\ \A k \in 1 .. e + 1 : /\ r.vals[k] = nd[p].vals[c + 1 + k]
                               /\ c + 1 + k \in 1 .. Len(nd[p].vals)
  <2>1. /\ \A k \in 1 .. c : 0 + k = k /\ k \in 1 .. Len(ks) /\ k < c + 1
        /\ \A k \in 1 .. e : c + 1 + k \in 1 .. Len(ks) /\ c + 1 < c + 1 + k
        /\ \A k \in 1 .. c + 1 : 0 + k = k /\ k \in 1 .. Len(ks) + 1
        /\ \A k \in 1 .. e + 1 : c + 1 + k \in 1 .. Len(ks) + 1
    <3> HIDE DEF ks
    <3>0. /\ c \in Nat /\ e \in Nat /\ Len(ks) \in Nat
          /\ c + 1 <= Len(ks) /\ e = Len(ks) - c - 1
      BY <1>3, <1>4
    <3>1. ASSUME NEW k \in 1 .. c
          PROVE  0 + k = k /\ k \in 1 .. Len(ks) /\ k < c + 1
      BY <3>0
    <3>2. ASSUME NEW k \in 1 .. e
          PROVE  c + 1 + k \in 1 .. Len(ks) /\ c + 1 < c + 1 + k
      BY <3>0
    <3>3. ASSUME NEW k \in 1 .. c + 1 PROVE 0 + k = k /\ k \in 1 .. Len(ks) + 1
      BY <3>0
    <3>4. ASSUME NEW k \in 1 .. e + 1 PROVE c + 1 + k \in 1 .. Len(ks) + 1
      BY <3>0
    <3> QED
      BY <3>1, <3>2, <3>3, <3>4
  <2> QED
    BY <1>3, <2>1 DEF Taken
<1>6. /\ key = ks[c + 1]
      /\ \A q, i, y, z : ChildAt(nd, q, i, y) =>
             (z \in Q[y] <=> z \in Q[q] /\ IsChild(nd[q].keys, z, i))
      /\ nd[p].keys = ks
  BY DEF Ranged
<1> HIDE DEF x, d, ks, key
<1>7. ASSUME NEW n \in 1 .. x
      PROVE  /\ StrictlyUp(md[n].keys)
             /\ \A k \in 1 .. Len(md[n].keys) : md[n].keys[k] \in R[n]
  <2>1. CASE n = p
    <3>1. StrictlyUp(l.keys)
      BY <1>3, <1>5 DEF StrictlyUp
    <3>2. ASSUME NEW k \in 1 .. c PROVE l.keys[k] \in R[p]
      <4>1. ks[k] < key
        BY <1>3, <1>4, <1>5, <1>6 DEF StrictlyUp
      <4> QED
        BY <1>1, <1>3, <1>5, <4>1
    <3> QED
      BY <1>0, <1>5, <2>1, <3>1, <3>2
  <2>2. CASE n = x
    <3>1. StrictlyUp(r.keys)
      <4>1. ASSUME NEW j \in 1 .. e, NEW k \in 1 .. e, j < k
            PROVE  r.keys[j] < r.keys[k]
        <5>1. c + 1 + j < c + 1 + k
          BY <4>1
        <5> QED
          BY <1>3, <1>5, <5>1 DEF StrictlyUp
      <4> QED
        BY <1>5, <4>1 DEF StrictlyUp
    <3>2. ASSUME NEW k \in 1 .. e PROVE r.keys[k] \in R[x]
      <4>1. key < ks[c + 1 + k] /\ ks[c + 1 + k] \in Int
        BY <1>3, <1>4, <1>5, <1>6 DEF StrictlyUp
      <4>2. key <= ks[c + 1 + k]
        BY <1>4, <4>1
      <4> QED
        BY <1>1, <1>3, <1>5, <4>2
    <3> QED
      BY <1>0, <1>5, <2>2, <3>1, <3>2
  <2>3. CASE n \in 1 .. d /\ n # p
    BY <1>0, <1>1, <2>3 DEF Ranged, d
  <2> QED
    BY <1>0, <2>1, <2>2, <2>3
<1>8. ASSUME NEW z \in Q[p]
      PROVE  /\ \A k \in 1 .. c + 1 : IsChild(ks, z, k) <=> IsChild(l.keys, z, k) /\ z < key
             /\ \A k \in 1 .. e + 1 :
                    IsChild(ks, z, c + 1 + k) <=> IsChild(r.keys, z, k) /\ key <= z
  <2>1. z \in Int /\ Taken(l.keys, ks, 0, c) /\ Taken(r.keys, ks, c + 1, e) /\ c + 1 <= Len(ks)
    BY <1>3 DEF ks
  <2> QED
    BY <1>3, <1>4, <1>6, <2>1, SentTaken
<1>9. ASSUME NEW q, NEW i, NEW y, NEW z, ChildAt(md, q, i, y)
      PROVE  z \in F[y] <=> z \in R[q] /\ IsChild(md[q].keys, z, i)
  <2>1. CASE q = p
    <3>1. i \in 1 .. c + 1 /\ ChildAt(nd, p, i, y) /\ y \in 1 .. d
      BY <1>0, <1>2, <1>5, <1>9, <2>1 DEF ChildAt, d
    <3>2. z \in Q[y] <=> z \in Q[p] /\ IsChild(ks, z, i)
      BY <1>6, <3>1, Zenon
    <3>3. z \in Q[p] => (IsChild(ks, z, i) <=> IsChild(l.keys, z, i) /\ z < key)
      BY <1>8, <3>1
    <3>4. F[y] = Q[y] /\ md[q].keys = l.keys /\ (z \in R[q] <=> z \in Q[p] /\ z < key)
      BY <1>0, <1>1, <2>1, <3>1
    <3> QED
      BY <3>2, <3>3, <3>4
  <2>2. CASE q = x
    <3>1. i \in 1 .. e + 1 /\ y = nd[p].vals[c + 1 + i] /\ c + 1 + i \in 1 .. Len(nd[p].vals)
      BY <1>0, <1>5, <1>9, <2>2 DEF ChildAt
    <3>2. ChildAt(nd, p, c + 1 + i, y) /\ y \in 1 .. d
      BY <1>0, <1>2, <3>1 DEF ChildAt, d
    <3>3. z \in Q[y] <=> z \in Q[p] /\ IsChild(ks, z, c + 1 + i)
      BY <1>6, <3>2, Zenon
    <3>4. z \in Q[p] => (IsChild(ks, z, c + 1 + i) <=> IsChild(r.keys, z, i) /\ key <= z)
      BY <1>8, <3>1
    <3>5. F[y] = Q[y] /\ md[q].keys = r.keys /\ (z \in R[q] <=> z \in Q[p] /\ key <= z)
      BY <1>0, <1>1, <2>2, <3>2
    <3> QED
      BY <3>3, <3>4, <3>5
  <2>3. CASE q \notin {p, x}
    <3>1. q \in 1 .. d /\ md[q] = nd[q]
      BY <1>0, <1>9, <2>3 DEF ChildAt
    <3>2. ChildAt(nd, q, i, y) /\ y \in 1 .. d
      BY <1>2, <1>9, <3>1 DEF ChildAt, d
    <3>3. z \in Q[y] <=> z \in Q[q] /\ IsChild(nd[q].keys, z, i)
      BY <1>6, <3>2, Zenon
    <3> QED
      BY <1>1, <2>3, <3>1, <3>2, <3>3
  <2> QED
    BY <2>1, <2>2, <2>3
<1>10. \A m \in 1 .. x : md[m].is_leaf => m \in 1 .. d /\ m # p /\ nd[m].is_leaf
  BY <1>0
<1>11. \A m, n \in 1 .. d : nd[m].is_leaf /\ nd[n].is_leaf =>
           \A z : z \in Q[m] /\ z \in Q[n] => m = n
  BY DEF Ranged, d
<1>12. \A m, n \in 1 .. x : md[m].is_leaf /\ md[n].is_leaf =>
           \A z : z \in R[m] /\ z \in R[n] => m = n
  BY <1>1, <1>10, <1>11
<1> QED
  BY <1>0, <1>1, <1>7, <1>9, <1>12 DEF Ranged

\* The parent of the node that was split takes the new one in: what it sends
\* to either half is the range of that half.
LEMMA RangedGrown ==
  ASSUME NEW nd, Made(nd), NEW R, NEW F, Ranged(nd, R, F),
         NEW p \in 1 .. Len(nd), ~nd[p].is_leaf,
         NEW x \in 1 .. Len(nd), NEW s \in 1 .. Len(nd), NEW key \in Int,
         NEW free, Owned(nd, free), s \in free,
         \A c \in 1 .. Len(nd) : c # x => F[c] = R[c],
         \A z : z \in F[x] <=> z \in R[x] \/ z \in R[s],
         \A z \in R[x] : z < key, \A z \in R[s] : key <= z,
         key \in R[s], R[x] # {},
         NEW j, ChildAt(nd, p, j, x),
         NEW m, ~m.is_leaf, m.keys \in Seq(Int), NEW i \in 1 .. Len(nd[p].keys) + 1,
         IsChild(nd[p].keys, key, i),
         Inserted(m.keys, nd[p].keys, i, key), Inserted(m.vals, nd[p].vals, i + 1, s),
         NEW md, Replaced(md, nd, p, m)
  PROVE  Ranged(md, R, R)
<1> DEFINE ks == nd[p].keys
           vs == nd[p].vals
<1>0. /\ Len(md) = Len(nd) /\ md[p] = m /\ Len(nd) \in Nat
      /\ \A n \in 1 .. Len(nd) : n # p => md[n] = nd[n]
  BY DEF Replaced, Made
<1>1. /\ \A q, k, c, z : ChildAt(nd, q, k, c) =>
             (z \in F[c] <=> z \in R[q] /\ IsChild(nd[q].keys, z, k))
      /\ R \in [1 .. Len(nd) -> SUBSET Int]
      /\ StrictlyUp(ks) /\ \A k \in 1 .. Len(ks) : ks[k] \in R[p]
  BY DEF Ranged
<1>2. /\ ks \in Seq(Int) /\ Len(ks) \in Nat /\ Len(vs) = Len(ks) + 1
      /\ R[p] \subseteq Int /\ R[x] \subseteq Int
      /\ \A k \in 1 .. Len(ks) : ks[k] \in Int
  <2>1. WellMade(nd[p], Len(nd))
    BY DEF Made
  <2> QED
    BY <1>0, <1>1, <2>1, MadeFields DEF WellMade
<1>3. \A n \in 1 .. Len(nd) : ~nd[n].is_leaf =>
          \A k \in 1 .. Len(nd[n].vals) : nd[n].vals[k] \in 1 .. Len(nd)
  BY DEF Made, WellMade
<1>4. nd[p].keys = ks /\ nd[p].vals = vs
  OBVIOUS
<1> HIDE DEF ks, vs
<1>5. j \in 1 .. Len(vs) /\ vs[j] = x
  BY <1>4 DEF ChildAt
<1>6. \A z : z \in F[x] <=> z \in R[p] /\ IsChild(ks, z, j)
  BY <1>1, <1>4
<1>7. key \in R[p] /\ IsChild(ks, key, j)
  BY <1>6
<1>8. j = i
  <2>1. \A k \in 1 .. Len(ks) + 1 : IsChild(ks, key, k) => k = ChildIdx(nd[p], key)
    BY <1>2, <1>4, ChildIdxFacts
  <2>2. IsChild(ks, key, i) /\ i \in 1 .. Len(ks) + 1 /\ j \in 1 .. Len(ks) + 1
    BY <1>2, <1>4, <1>5
  <2> QED
    BY <1>7, <2>1, <2>2
<1>9. PICK z0 \in R[x] : z0 < key /\ z0 \in Int /\ IsChild(ks, z0, i)
  BY <1>2, <1>6, <1>8
<1>10. \A k \in 1 .. i - 1 : ks[k] < key
  <2> SUFFICES ASSUME NEW k \in 1 .. i - 1 PROVE ks[k] < key
    OBVIOUS
  <2>1. ks[k] <= z0 /\ k \in 1 .. Len(ks)
    BY <1>2, <1>4, <1>9 DEF IsChild
  <2> QED
    BY <1>2, <1>9, <2>1
<1>11. i <= Len(ks) => key < ks[i]
  BY <1>4 DEF IsChild
<1>12. /\ Inserted(m.keys, ks, i, key) /\ Inserted(m.vals, vs, i + 1, s)
       /\ i \in 1 .. Len(ks) + 1 /\ IsChild(ks, key, i)
  BY <1>4
<1>13. /\ Len(m.keys) = Len(ks) + 1 /\ Len(m.vals) = Len(vs) + 1
       /\ \A k \in 1 .. Len(ks) + 1 :
              m.keys[k] = IF k < i THEN ks[k] ELSE IF k = i THEN key ELSE ks[k - 1]
       /\ \A k \in 1 .. Len(vs) + 1 :
              m.vals[k] = IF k < i + 1 THEN vs[k] ELSE IF k = i + 1 THEN s ELSE vs[k - 1]
  BY <1>12 DEF Inserted
<1>14. \A k \in 1 .. Len(ks) + 1 : m.keys[k] \in R[p]
  <2> SUFFICES ASSUME NEW k \in 1 .. Len(ks) + 1 PROVE m.keys[k] \in R[p]
    OBVIOUS
  <2>1. CASE k < i
    <3>1. k \in 1 .. Len(ks)
      BY <1>2, <1>12, <2>1
    <3> QED
      BY <1>1, <1>13, <2>1, <3>1
  <2>2. CASE k = i
    BY <1>7, <1>13, <2>2
  <2>3. CASE k > i
    <3>1. k - 1 \in 1 .. Len(ks) /\ ~(k < i) /\ k # i
      BY SMTT(40), <1>2, <1>12, <2>3
    <3>2. m.keys[k] = ks[k - 1]
      BY <1>13, <3>1
    <3> QED
      BY <1>1, <3>1, <3>2
  <2> QED
    BY <1>2, <1>12, <2>1, <2>2, <2>3
<1>15. StrictlyUp(m.keys)
  BY <1>1, <1>2, <1>10, <1>11, <1>12, InsertedUp
<1>16. ASSUME NEW q, NEW k, NEW c, NEW z, ChildAt(md, q, k, c)
       PROVE  z \in R[c] <=> z \in R[q] /\ IsChild(md[q].keys, z, k)
  <2>0. \A y, w, a, e, g : ChildAt(nd, w, a, y) /\ ChildAt(nd, g, e, y) => w = g /\ a = e
    BY DEF Owned
  <2>1. ASSUME NEW a, ChildAt(nd, q, a, c), ~(q = p /\ a = i)
        PROVE  z \in R[c] <=> z \in R[q] /\ IsChild(nd[q].keys, z, a)
    <3>1. c # x
      BY <1>8, <2>0, <2>1
    <3>2. c \in 1 .. Len(nd)
      BY <1>3, <2>1 DEF ChildAt
    <3> QED
      BY <1>1, <2>1, <3>1, <3>2
  <2>2. CASE q # p
    <3>1. ChildAt(nd, q, k, c) /\ md[q] = nd[q]
      BY <1>0, <1>16, <2>2 DEF ChildAt
    <3> QED
      BY <2>1, <2>2, <3>1
  <2>3. CASE q = p
    <3>0. k \in 1 .. Len(vs) + 1 /\ c = m.vals[k] /\ md[q].keys = m.keys
      BY <1>0, <1>13, <1>16, <2>3 DEF ChildAt
    <3>1. ASSUME NEW y \in R[p]
          PROVE  /\ \A a \in 1 .. i - 1 : IsChild(m.keys, y, a) <=> IsChild(ks, y, a)
                 /\ IsChild(m.keys, y, i) <=> IsChild(ks, y, i) /\ y < key
                 /\ IsChild(m.keys, y, i + 1) <=> IsChild(ks, y, i) /\ key <= y
                 /\ \A a \in i + 1 .. Len(ks) + 1 :
                        IsChild(m.keys, y, a + 1) <=> IsChild(ks, y, a)
      <4>1. y \in Int
        BY <1>2
      <4> QED
        BY SMTT(40), <1>2, <1>12, <4>1, SentInserted
    <3>2. CASE k < i
      <4>1. k \in 1 .. i - 1 /\ k \in 1 .. Len(vs) /\ k # i /\ c = vs[k]
        BY <1>2, <1>12, <1>13, <3>0, <3>2
      <4>2. ChildAt(nd, p, k, c)
        BY <1>4, <4>1 DEF ChildAt
      <4>3. z \in R[c] <=> z \in R[p] /\ IsChild(ks, z, k)
        BY <1>4, <2>1, <2>3, <4>1, <4>2
      <4> QED
        BY <2>3, <3>0, <3>1, <4>1, <4>3
    <3>3. CASE k = i
      <4>1. c = x
        BY <1>2, <1>5, <1>8, <1>12, <1>13, <3>0, <3>3
      <4>2. z \in R[x] <=> z \in R[p] /\ IsChild(ks, z, i) /\ z < key
        <5>1. z \in R[s] => z \in Int /\ key <= z
          BY <1>1
        <5> QED
          BY <1>6, <1>8, <5>1
      <4> QED
        BY <2>3, <3>0, <3>1, <3>3, <4>1, <4>2
    <3>4. CASE k = i + 1
      <4>1. c = s
        <5>1. k \in 1 .. Len(vs) + 1 /\ ~(k < i + 1)
          BY <1>2, <1>12, <3>0, <3>4
        <5>2. m.vals[k] = s
          BY <1>13, <3>4, <5>1
        <5> QED
          BY <3>0, <5>2
      <4>2. z \in R[s] <=> z \in R[p] /\ IsChild(ks, z, i) /\ key <= z
        <5>1. z \in R[x] => z \in Int /\ z < key
          BY <1>2
        <5> QED
          BY <1>6, <1>8, <5>1
      <4> QED
        BY <2>3, <3>0, <3>1, <3>4, <4>1, <4>2
    <3>5. CASE k > i + 1
      <4>1. PICK a : a = k - 1
        OBVIOUS
      <4>2. /\ a \in i + 1 .. Len(ks) + 1 /\ a \in 1 .. Len(vs) /\ a # i /\ a + 1 = k
            /\ ~(k < i + 1) /\ k # i + 1
        BY <1>2, <1>12, <3>0, <3>5, <4>1
      <4>3. c = vs[a]
        BY <1>13, <3>0, <4>1, <4>2
      <4>4. ChildAt(nd, p, a, c)
        BY <1>4, <4>2, <4>3 DEF ChildAt
      <4>5. z \in R[c] <=> z \in R[p] /\ IsChild(ks, z, a)
        BY <1>4, <2>1, <2>3, <4>2, <4>4
      <4>6. z \in R[p] => (IsChild(m.keys, z, a + 1) <=> IsChild(ks, z, a))
        BY <3>1, <4>2
      <4> QED
        BY <2>3, <3>0, <4>2, <4>5, <4>6
    <3> QED
      BY <1>2, <1>12, <3>0, <3>2, <3>3, <3>4, <3>5
  <2> QED
    BY <2>2, <2>3
<1>17. \A n \in 1 .. Len(nd) : md[n].is_leaf => nd[n].is_leaf
  BY <1>0
<1>18. ASSUME NEW n \in 1 .. Len(nd)
       PROVE  /\ StrictlyUp(md[n].keys)
              /\ \A k \in 1 .. Len(md[n].keys) : md[n].keys[k] \in R[n]
  BY <1>0, <1>13, <1>14, <1>15 DEF Ranged
<1>19. \A a, b \in 1 .. Len(nd) : md[a].is_leaf /\ md[b].is_leaf =>
           \A z : z \in R[a] /\ z \in R[b] => a = b
  BY <1>17 DEF Ranged
<1> QED
  BY <1>0, <1>1, <1>16, <1>18, <1>19 DEF Ranged

\* md is nd with one node more, an inner one whose children rt and s are
\* separated by key.
Rooted(md, nd, rt, s, key) ==
    LET x == Len(nd) + 1
    IN  /\ Len(md) = x /\ \A n \in 1 .. Len(nd) : md[n] = nd[n]
        /\ ~md[x].is_leaf
        /\ Len(md[x].vals) = 2 /\ md[x].vals[1] = rt /\ md[x].vals[2] = s
        /\ Len(md[x].keys) = 1 /\ md[x].keys[1] = key

\* key separates the ranges of rt and s, which are all ids, and no other
\* split is under way.
HalvesOfAll(nd, R, F, rt, s, key) ==
    /\ rt \in 1 .. Len(nd) /\ s \in 1 .. Len(nd) /\ s # rt /\ key \in Int
    /\ \A c \in 1 .. Len(nd) : c # rt => F[c] = R[c]
    /\ \A z \in Int : z \in R[rt] \/ z \in R[s]
    /\ \A z \in R[rt] : z < key
    /\ \A z \in R[s] : key <= z

\* Q is R and gives all ids to the node after the first d.
WithAll(Q, R, d) ==
    /\ Q \in [1 .. d + 1 -> SUBSET Int]
    /\ Q[d + 1] = Int
    /\ \A n \in 1 .. d : Q[n] = R[n]

\* A new root above the halves of the old one: every id is below it.
LEMMA RangedRoot ==
  ASSUME NEW nd, Made(nd), NEW R, NEW F, Ranged(nd, R, F),
         NEW rt, NEW s, NEW key, HalvesOfAll(nd, R, F, rt, s, key),
         NEW free, Owned(nd, free), rt \in free,
         NEW md, Rooted(md, nd, rt, s, key), NEW Q, WithAll(Q, R, Len(nd))
  PROVE  Ranged(md, Q, Q)
<1> DEFINE d == Len(nd)
           x == d + 1
<1>0. d \in Nat /\ x \notin 1 .. d /\ 1 .. x = 1 .. d \cup {x} /\ x \in 1 .. x
  BY DEF Made
<1>1. PICK r : r = md[x]
  OBVIOUS
<1>2. \A n \in 1 .. d : ~nd[n].is_leaf =>
          \A i \in 1 .. Len(nd[n].vals) : nd[n].vals[i] \in 1 .. d
  BY DEF Made, WellMade
<1>3. /\ Len(md) = x /\ md[x] = r /\ rt \in 1 .. d /\ s \in 1 .. d /\ key \in Int
      /\ \A n \in 1 .. d : md[n] = nd[n]
      /\ Q \in [1 .. x -> SUBSET Int] /\ Q[x] = Int /\ \A n \in 1 .. d : Q[n] = R[n]
      /\ \A c \in 1 .. d : c # rt => F[c] = R[c]
      /\ \A z \in Int : z \in R[rt] \/ z \in R[s]
      /\ \A z \in R[rt] : z < key
      /\ \A z \in R[s] : key <= z
      /\ ~r.is_leaf
  BY <1>1 DEF Rooted, HalvesOfAll, WithAll
<1>9. /\ Len(r.vals) = 2 /\ r.vals[1] = rt /\ r.vals[2] = s /\ 1 .. 2 = {1, 2}
      /\ Len(r.keys) = 1 /\ r.keys[1] = key /\ 1 .. 1 = {1}
  BY <1>1 DEF Rooted
<1>4. /\ \A q, k, c, z : ChildAt(nd, q, k, c) =>
             (z \in F[c] <=> z \in R[q] /\ IsChild(nd[q].keys, z, k))
      /\ R \in [1 .. d -> SUBSET Int]
      /\ \A n \in 1 .. d : /\ StrictlyUp(nd[n].keys)
                           /\ \A k \in 1 .. Len(nd[n].keys) : nd[n].keys[k] \in R[n]
      /\ \A m, n \in 1 .. d : nd[m].is_leaf /\ nd[n].is_leaf =>
             \A z : z \in R[m] /\ z \in R[n] => m = n
  BY DEF Ranged
<1>5. \A q, k : ~ChildAt(nd, q, k, rt)
  BY <1>3 DEF Owned
<1> HIDE DEF x, d
<1>6. ASSUME NEW n \in 1 .. x
      PROVE  /\ StrictlyUp(md[n].keys)
             /\ \A k \in 1 .. Len(md[n].keys) : md[n].keys[k] \in Q[n]
  <2>1. CASE n = x
    <3>1. StrictlyUp(r.keys)
      <4>1. \A j, k \in {1} : ~(j < k)
        OBVIOUS
      <4> QED
        BY <1>9, <4>1 DEF StrictlyUp
    <3>2. md[n].keys = r.keys /\ Q[n] = Int
      BY <1>3, <2>1, Zenon
    <3>3. \A k \in 1 .. Len(r.keys) : r.keys[k] \in Int
      BY <1>3, <1>9
    <3> QED
      BY <3>1, <3>2, <3>3
  <2>2. CASE n \in 1 .. d
    BY <1>3, <1>4, <2>2
  <2> QED
    BY <1>0, <2>1, <2>2
<1>7. ASSUME NEW q, NEW i, NEW c, NEW z, ChildAt(md, q, i, c)
      PROVE  z \in Q[c] <=> z \in Q[q] /\ IsChild(md[q].keys, z, i)
  <2>1. CASE q = x
    <3>0. Q[q] = Int /\ md[q].keys = r.keys
      BY <1>3, <2>1
    <3>1. \/ i = 1 /\ c = rt
          \/ i = 2 /\ c = s
      BY <1>3, <1>9, <1>7, <2>1 DEF ChildAt
    <3>2. \A y \in Int : IsChild(r.keys, y, 1) <=> y < key
      <4>1. \A j \in 1 .. 1 - 1 : FALSE
        OBVIOUS
      <4> QED
        BY <1>9, <4>1 DEF IsChild
    <3>3. \A y \in Int : IsChild(r.keys, y, 2) <=> key <= y
      <4>1. 1 .. 2 - 1 = {1} /\ ~(2 <= 1)
        OBVIOUS
      <4> QED
        BY <1>9, <4>1 DEF IsChild
    <3>4. \A y : y \in R[rt] <=> y \in Int /\ y < key
      BY <1>3, <1>4
    <3>5. \A y : y \in R[s] <=> y \in Int /\ key <= y
      BY <1>3, <1>4
    <3>6. Q[rt] = R[rt] /\ Q[s] = R[s]
      BY <1>3
    <3>7. CASE i = 1 /\ c = rt
      BY <3>0, <3>2, <3>4, <3>6, <3>7
    <3>8. CASE i = 2 /\ c = s
      BY <3>0, <3>3, <3>5, <3>6, <3>8
    <3> QED
      BY <3>1, <3>7, <3>8
  <2>2. CASE q # x
    <3>1. q \in 1 .. d /\ md[q] = nd[q]
      BY <1>0, <1>3, <1>7, <2>2 DEF ChildAt
    <3>2. ChildAt(nd, q, i, c) /\ c \in 1 .. d
      BY <1>2, <1>7, <3>1 DEF ChildAt, d
    <3>3. Q[c] = F[c] /\ Q[q] = R[q]
      BY <1>3, <1>5, <3>1, <3>2
    <3> QED
      BY <1>4, <3>1, <3>2, <3>3
  <2> QED
    BY <2>1, <2>2
<1>8. \A m, n \in 1 .. x : md[m].is_leaf /\ md[n].is_leaf =>
          \A z : z \in Q[m] /\ z \in Q[n] => m = n
  <2>1. \A m \in 1 .. x : md[m].is_leaf => m \in 1 .. d /\ nd[m].is_leaf
    BY <1>0, <1>3
  <2> QED
    BY <1>3, <1>4, <2>1
<1> QED
  BY <1>3, <1>6, <1>7, <1>8 DEF Ranged

\* Along the links of the leaves the ranges go up, and none is empty.
Steps(nd, R) ==
    \A n \in 1 .. Len(nd) : nd[n].is_leaf =>
        /\ R[n] # {}
        /\ nd[n].next # NULL =>
               /\ nd[n].next \in 1 .. Len(nd) /\ nd[nd[n].next].is_leaf
               /\ \A y \in R[n], z \in R[nd[n].next] : y < z

\* insert_rec without a new leaf: the links and the ranges of the leaves stay.
LEMMA StepsKept ==
  ASSUME NEW nd, Len(nd) \in Nat, NEW R, Steps(nd, R), NEW md, NEW Q,
         Len(md) = Len(nd) \/ (Len(md) = Len(nd) + 1 /\ ~md[Len(nd) + 1].is_leaf),
         \A n \in 1 .. Len(nd) :
             /\ md[n].is_leaf <=> nd[n].is_leaf
             /\ nd[n].is_leaf => md[n].next = nd[n].next /\ Q[n] = R[n]
  PROVE  Steps(md, Q)
<1> SUFFICES ASSUME NEW n \in 1 .. Len(md), md[n].is_leaf
             PROVE  /\ Q[n] # {}
                    /\ md[n].next # NULL =>
                           /\ md[n].next \in 1 .. Len(md) /\ md[md[n].next].is_leaf
                           /\ \A y \in Q[n], z \in Q[md[n].next] : y < z
  BY DEF Steps
<1>1. n \in 1 .. Len(nd) /\ \A k \in 1 .. Len(nd) : k \in 1 .. Len(md)
  OBVIOUS
<1>2. nd[n].is_leaf /\ md[n].next = nd[n].next /\ Q[n] = R[n]
  BY <1>1
<1>3. /\ R[n] # {}
      /\ nd[n].next # NULL =>
             /\ nd[n].next \in 1 .. Len(nd) /\ nd[nd[n].next].is_leaf
             /\ \A y \in R[n], z \in R[nd[n].next] : y < z
  BY <1>1, <1>2 DEF Steps
<1>4. CASE nd[n].next = NULL
  BY <1>2, <1>3, <1>4
<1>5. CASE nd[n].next # NULL
  <2>1. PICK c : c = nd[n].next
    OBVIOUS
  <2>2. c \in 1 .. Len(nd) /\ nd[c].is_leaf /\ \A y \in R[n], z \in R[c] : y < z
    BY <1>3, <1>5, <2>1
  <2>3. c \in 1 .. Len(md) /\ md[c].is_leaf /\ Q[c] = R[c]
    BY <1>1, <2>2
  <2> QED
    BY <1>2, <1>3, <2>1, <2>2, <2>3
<1> QED
  BY <1>4, <1>5

\* split_leaf: the halves of a range go up, and so does the range behind them.
LEMMA StepsCut ==
  ASSUME NEW nd, Len(nd) \in Nat, NEW Q, Q \in [1 .. Len(nd) -> SUBSET Int], Steps(nd, Q),
         NEW p \in 1 .. Len(nd), nd[p].is_leaf,
         NEW md, Len(md) = Len(nd) + 1, md[Len(nd) + 1].is_leaf,
         md[p].is_leaf, md[p].next = Len(nd) + 1, md[Len(nd) + 1].next = nd[p].next,
         \A n \in 1 .. Len(nd) : n # p => md[n] = nd[n],
         NEW key \in Int, key \in Q[p], NEW low \in Q[p], low < key,
         NEW R, NEW F, IsCut(R, F, Q, Len(nd), p, key)
  PROVE  Steps(md, R)
<1> DEFINE d == Len(nd)
           x == d + 1
<1>0. /\ \A n \in 1 .. d : n \in 1 .. x /\ n # x
      /\ \A n \in 1 .. x : n = x \/ n \in 1 .. d
      /\ x \in 1 .. x /\ x # NULL /\ p \in 1 .. d
  BY DEF NULL
<1>1. /\ \A z : z \in R[p] <=> z \in Q[p] /\ z < key
      /\ \A z : z \in R[x] <=> z \in Q[p] /\ key <= z
      /\ \A n \in 1 .. d : n # p => R[n] = Q[n]
      /\ \A n \in 1 .. d : \A z \in Q[n] : z \in Int
  BY DEF IsCut
<1>2. /\ Len(md) = x /\ md[x].is_leaf /\ md[p].is_leaf
      /\ md[p].next = x /\ md[x].next = nd[p].next
      /\ \A n \in 1 .. d : n # p => md[n] = nd[n]
  OBVIOUS
<1>3. \A n \in 1 .. d : nd[n].is_leaf =>
          /\ Q[n] # {}
          /\ nd[n].next # NULL =>
                 /\ nd[n].next \in 1 .. d /\ nd[nd[n].next].is_leaf
                 /\ \A y \in Q[n], z \in Q[nd[n].next] : y < z
  BY DEF Steps
<1>4. key \in R[x] /\ low \in R[p]
  BY <1>1
<1> HIDE DEF d, x
<1>5. ASSUME NEW n \in 1 .. d, NEW c \in 1 .. d, nd[c].is_leaf, nd[n].is_leaf,
             \A y \in Q[n], z \in Q[c] : y < z
      PROVE  c \in 1 .. x /\ md[c].is_leaf /\ \A y \in Q[n], z \in R[c] : y < z
  BY <1>0, <1>1, <1>2, <1>5
<1>6. ASSUME NEW n \in 1 .. x, md[n].is_leaf
      PROVE  /\ R[n] # {}
             /\ md[n].next # NULL =>
                    /\ md[n].next \in 1 .. x /\ md[md[n].next].is_leaf
                    /\ \A y \in R[n], z \in R[md[n].next] : y < z
  <2>1. CASE n = p
    <3>1. \A y \in R[p], z \in R[x] : y < z
      <4> SUFFICES ASSUME NEW y \in R[p], NEW z \in R[x] PROVE y < z
        OBVIOUS
      <4>1. y \in Int /\ z \in Int /\ y < key /\ key <= z
        BY <1>0, <1>1
      <4> QED
        BY <4>1
    <3> QED
      BY <1>0, <1>2, <1>4, <2>1, <3>1
  <2>2. ASSUME NEW q \in 1 .. d, nd[q].is_leaf, R[n] # {}, \A y \in R[n] : y \in Q[q],
               md[n].next = nd[q].next
        PROVE  /\ R[n] # {}
               /\ md[n].next # NULL =>
                      /\ md[n].next \in 1 .. x /\ md[md[n].next].is_leaf
                      /\ \A y \in R[n], z \in R[md[n].next] : y < z
    <3>1. CASE nd[q].next = NULL
      BY <2>2, <3>1
    <3>2. CASE nd[q].next # NULL
      <4>1. PICK c : c = nd[q].next
        OBVIOUS
      <4>2. c \in 1 .. d /\ nd[c].is_leaf /\ \A y \in Q[q], z \in Q[c] : y < z
        BY <1>3, <2>2, <3>2, <4>1
      <4>3. c \in 1 .. x /\ md[c].is_leaf /\ \A y \in Q[q], z \in R[c] : y < z
        BY <1>5, <2>2, <4>2
      <4> QED
        BY <2>2, <4>1, <4>3
    <3> QED
      BY <3>1, <3>2
  <2>3. CASE n = x
    <3>1. R[n] # {} /\ (\A y \in R[n] : y \in Q[p]) /\ md[n].next = nd[p].next
      BY <1>1, <1>2, <1>4, <2>3
    <3> QED
      BY <1>0, <2>2, <3>1
  <2>4. CASE n \in 1 .. d /\ n # p
    <3>1. md[n] = nd[n] /\ R[n] = Q[n] /\ nd[n].is_leaf
      BY <1>1, <1>2, <1>6, <2>4
    <3>2. R[n] # {} /\ (\A y \in R[n] : y \in Q[n]) /\ md[n].next = nd[n].next
      BY <1>3, <2>4, <3>1
    <3> QED
      BY <2>2, <2>4, <3>1, <3>2
  <2> QED
    BY <1>0, <2>1, <2>3, <2>4
<1> QED
  BY <1>2, <1>6 DEF Steps

\* The ranges of the nodes during an insert.  The path leads from parent to
\* child to the place of the id; after a split x is the left half, and the
\* new node is the right one.
RangeInv(R, F, x) ==
    /\ Ranged(node, R, F)
    /\ Steps(node, R)
    /\ F[root] = Int
    /\ \A c \in 1 .. Len(node) : (pc = "split" /\ c = x) \/ F[c] = R[c]
    /\ \A k \in 1 .. Len(path) - 1 : \E i : ChildAt(node, path[k], i, path[k + 1])
    /\ pc = "down" => arg.id \in R[Here]
    /\ pc = "split" =>
           /\ x \in 1 .. Len(node)
           /\ \A z : z \in F[x] <=> z \in R[x] \/ z \in R[split_out]
           /\ \A z \in R[x] : z < key_out
           /\ \A z \in R[split_out] : key_out <= z
           /\ key_out \in R[split_out]
           /\ R[x] # {}
           /\ path = <<>> => x = root
           /\ path # <<>> => \E i : ChildAt(node, Here, i, x)

\* Between splits a parent sends to each child the range of the child.
LEMMA RangedAgain ==
  ASSUME NEW nd, Made(nd), NEW R, NEW F, Ranged(nd, R, F),
         \A c \in 1 .. Len(nd) : F[c] = R[c]
  PROVE  Ranged(nd, R, R)
<1>1. \A p, i, c : ChildAt(nd, p, i, c) => c \in 1 .. Len(nd)
  BY DEF ChildAt, Made, WellMade
<1> QED
  BY <1>1 DEF Ranged

\* The nodes of the path are different ones.
LEMMA PathFacts ==
  ASSUME NEW h, ShapeInv(h), path # <<>>, NEW k \in 1 .. Len(path) - 1
  PROVE  path[k] \in 1 .. Len(node) /\ path[k] # Here
<1>0. CallInv(h) /\ TreeInv(h) /\ path \in Seq(1 .. Len(node))
      /\ \A j \in 1 .. Len(path) : h[path[j]] = h[root] - j + 1
  BY DEF ShapeInv, CallInv
<1>1. /\ Len(path) \in Nat /\ h[Here] = h[root] - Len(path) + 1 /\ h[root] \in Nat
      /\ h[Here] \in Nat
  BY <1>0, HereFacts
<1>2. k \in 1 .. Len(path) /\ k # Len(path) /\ k \in Nat
  BY <1>1
<1>3. path[k] \in 1 .. Len(node) /\ h[path[k]] = h[root] - k + 1
  BY <1>0, <1>2, ElementOfSeq
<1>4. h[path[k]] # h[Here]
  <2>1. \A a, b, c \in Int : a - b + 1 = a - c + 1 => b = c
    OBVIOUS
  <2> QED
    BY <1>1, <1>2, <1>3, <2>1
<1> QED
  BY <1>3, <1>4

\* A split of the node of the innermost call.
LEMMA RangeSplit ==
  ASSUME NEW h, ShapeInv(h), path # <<>>,
         \A k \in 1 .. Len(path) - 1 : \E i : ChildAt(node, path[k], i, path[k + 1]),
         NEW Q, Q[root] = Int,
         NEW x, x = Here, NEW key, NEW R, NEW F, IsCut(R, F, Q, Len(node), x, key),
         Len(node') = Len(node) + 1, \A q \in 1 .. Len(node) : q # x => node'[q] = node[q],
         Ranged(node', R, F), Steps(node', R),
         NEW low \in Q[x], low < key, key \in Q[x], key \in Int,
         \A z \in Q[x] : z \in Int,
         root' = root, split_out' = Len(node) + 1, key_out' = key, pc' = "split",
         path' = Front(path)
  PROVE  RangeInv(R, F, x)'
<1> DEFINE d == Len(node)
<1>0. CallInv(h) /\ TreeInv(h) /\ root \in 1 .. d
  BY DEF ShapeInv, TreeInv
<1>1. /\ Len(path) \in Nat /\ Len(path) >= 1 /\ x \in 1 .. d /\ x = path[Len(path)]
      /\ Front(path) \in Seq(1 .. d) /\ Len(Front(path)) = Len(path) - 1
      /\ \A k \in 1 .. Len(path) - 1 : Front(path)[k] = path[k]
      /\ Front(path) = <<>> => x = root
      /\ d \in Nat
  BY <1>0, HereFacts
<1>2. /\ \A z : z \in R[x] <=> z \in Q[x] /\ z < key
      /\ \A z : z \in R[d + 1] <=> z \in Q[x] /\ key <= z
      /\ \A n \in 1 .. d : n # x => R[n] = Q[n]
      /\ \A n \in 1 .. d : F[n] = Q[n]
      /\ F[d + 1] = R[d + 1]
  BY DEF IsCut
<1>3. ASSUME NEW k \in 1 .. Len(path) - 1
      PROVE  \E i : ChildAt(node', path[k], i, path[k + 1])
  <2>1. PICK i : ChildAt(node, path[k], i, path[k + 1])
    OBVIOUS
  <2>2. path[k] \in 1 .. d /\ path[k] # x
    BY PathFacts
  <2>3. path[k] \in 1 .. d + 1
    BY <1>1, <2>2
  <2>4. ChildAt(node', path[k], i, path[k + 1])
    BY <2>1, <2>2, <2>3 DEF ChildAt
  <2> QED
    BY <2>4
<1>4. ASSUME NEW k \in 1 .. Len(Front(path)) - 1
      PROVE  \E i : ChildAt(node', Front(path)[k], i, Front(path)[k + 1])
  <2>1. k \in 1 .. Len(path) - 1 /\ k + 1 \in 1 .. Len(path) - 1
    BY <1>1
  <2>2. Front(path)[k] = path[k] /\ Front(path)[k + 1] = path[k + 1]
    BY <1>1, <2>1
  <2> QED
    BY <1>3, <2>1, <2>2
<1>5. ASSUME Front(path) # <<>> PROVE \E i : ChildAt(node', Last(Front(path)), i, x)
  <2>1. /\ Last(Front(path)) = Front(path)[Len(Front(path))]
        /\ Len(Front(path)) \in Nat \ {0}
    BY <1>1, <1>5, LastFrontFacts
  <2>2. Len(path) - 1 \in 1 .. Len(path) - 1 /\ (Len(path) - 1) + 1 = Len(path)
    BY <1>1, <2>1
  <2>3. \E i : ChildAt(node', path[Len(path) - 1], i, path[(Len(path) - 1) + 1])
    BY <1>3, <2>2
  <2>4. Last(Front(path)) = path[Len(path) - 1]
    BY <1>1, <2>1, <2>2
  <2>5. path[(Len(path) - 1) + 1] = x
    BY <1>1, <2>2, Zenon
  <2> QED
    BY <2>3, <2>4, <2>5, Zenon
<1>6. ASSUME NEW c \in 1 .. d + 1 PROVE c = x \/ F[c] = R[c]
  BY <1>1, <1>2
<1>7. \A z : z \in F[x] <=> z \in R[x] \/ z \in R[d + 1]
  <2>1. F[x] = Q[x]
    BY <1>1, <1>2
  <2>2. \A z \in Q[x] : z < key \/ key <= z
    OBVIOUS
  <2> QED
    BY <1>2, <2>1, <2>2
<1>8. key \in R[d + 1] /\ low \in R[x] /\ (\A z \in R[x] : z < key) /\ (\A z \in R[d + 1] : key <= z)
  BY <1>2
<1>9. F[root] = Int /\ x \in 1 .. d + 1
  BY <1>0, <1>1, <1>2
<1> QED
  BY <1>1, <1>4, <1>5, <1>6, <1>7, <1>8, <1>9 DEF RangeInv, Here

\* One leaf, for every id.
LEMMA RangedAlone ==
  ASSUME NEW nd, Len(nd) = 1, nd[1].is_leaf, nd[1].keys = <<>>, nd[1].next = NULL,
         NEW R, R = [n \in {1} |-> Int]
  PROVE  Ranged(nd, R, R) /\ R[1] = Int /\ Steps(nd, R)
<1>1. 1 .. 1 = {1} /\ R[1] = Int /\ R \in [{1} -> SUBSET Int] /\ Len(<<>>) = 0 /\ 1 .. 0 = {}
  OBVIOUS
<1>2. \A p, i, c : ~ChildAt(nd, p, i, c)
  BY <1>1 DEF ChildAt
<1> QED
  BY <1>1, <1>2 DEF Ranged, StrictlyUp, Steps

\* A call that is over has no path, and an idle tree no split.
LEMMA RangeIdle ==
  ASSUME NEW R, Ranged(node, R, R), Steps(node, R), R[root] = Int, pc = "idle", path = <<>>
  PROVE  RangeInv(R, R, root)
<1>1. Len(path) = 0
  OBVIOUS
<1>2. \A k \in 1 .. Len(path) - 1 : FALSE
  BY <1>1
<1> QED
  BY <1>2 DEF RangeInv

\* A step that ends in no active call of insert_rec needs the ranges of the
\* nodes only.
LEMMA RangeIdleNext ==
  ASSUME NEW R, Ranged(node', R, R), Steps(node', R), R[root'] = Int,
         pc' = "idle", path' = <<>>
  PROVE  \E Q, F, x : RangeInv(Q, F, x)'
<1>1. Len(path') = 0
  OBVIOUS
<1>2. \A k \in 1 .. Len(path') - 1 : FALSE
  BY <1>1
<1>3. RangeInv(R, R, 1)'
  BY <1>2 DEF RangeInv
<1> QED
  BY <1>3

\* bptree_create: the one leaf may hold any id.
LEMMA RangeInit ==
  ASSUME Init
  PROVE  \E R, F, x : RangeInv(R, F, x)
<1>1. PICK R : R = [n \in {1} |-> Int]
  OBVIOUS
<1>2. node = <<Leaf(<<>>, <<>>, NULL)>> /\ root = 1 /\ pc = "idle" /\ path = <<>>
  BY DEF Init
<1>3. Len(node) = 1 /\ node[1].is_leaf /\ node[1].keys = <<>> /\ node[1].next = NULL
  BY <1>2 DEF Leaf
<1>4. Ranged(node, R, R) /\ R[1] = Int /\ Steps(node, R)
  BY <1>1, <1>3, RangedAlone
<1> QED
  BY <1>2, <1>4, RangeIdle

\* The tree that is created after index_registry_destroy_all may hold any id
\* in its one leaf.
LEMMA RangeRecreate ==
  ASSUME NEW h, ShapeInv(h), Recreate
  PROVE  \E R, F, x : RangeInv(R, F, x)'
<1>1. PICK R : R = [n \in {1} |-> Int]
  OBVIOUS
<1>2. node' = <<Leaf(<<>>, <<>>, NULL)>> /\ root' = 1 /\ pc' = "idle" /\ path' = <<>>
  BY DEF Recreate, callVars, ShapeInv, CallInv
<1>3. Len(node') = 1 /\ node'[1].is_leaf /\ node'[1].keys = <<>> /\ node'[1].next = NULL
  BY <1>2 DEF Leaf
<1>4. Ranged(node', R, R) /\ R[1] = Int /\ Steps(node', R)
  BY <1>1, <1>3, RangedAlone
<1> QED
  BY <1>2, <1>4, RangeIdleNext

\* bptree_insert: the root may hold whatever id is inserted.
LEMMA RangeInsert ==
  ASSUME NEW h, ShapeInv(h), NEW R, NEW F, NEW x, RangeInv(R, F, x),
         NEW c \in Calls[order], Insert(c[1], c[2])
  PROVE  RangeInv(R, F, x)'
<1>0. pc = "idle" /\ root \in 1 .. Len(node) /\ order \in Orders
  BY DEF ShapeInv, TreeInv, CallInv, Insert
<1>1. c[1] \in Int
  BY <1>0, Constants DEF Ids
<1>2. /\ pc' = "down" /\ path' = <<root>> /\ arg' = [id |-> c[1], row |-> c[2]]
      /\ node' = node /\ root' = root
  BY DEF Insert
<1>3. Len(<<root>>) = 1 /\ Last(<<root>>) = root
  BY DEF Last
<1>4. \A k \in 1 .. 1 - 1 : FALSE
  OBVIOUS
<1>5. R[root] = Int
  BY <1>0 DEF RangeInv
<1>6. arg'.id \in R[Here']
  BY <1>1, <1>2, <1>3, <1>5 DEF Here
<1> QED
  BY <1>0, <1>2, <1>3, <1>4, <1>6 DEF RangeInv

\* insert_rec goes to the child whose range has the id.
LEMMA RangeDescend ==
  ASSUME NEW h, ShapeInv(h), NEW R, NEW F, NEW x, RangeInv(R, F, x), Descend
  PROVE  RangeInv(R, F, x)'
<1> DEFINE i == ChildIdx(node[Here], arg.id)
           c == node[Here].vals[i]
<1>0. /\ pc = "down" /\ ~node[Here].is_leaf /\ path' = Append(path, c)
      /\ node' = node /\ root' = root /\ pc' = pc /\ arg' = arg
  BY DEF Descend
<1>1. /\ CallInv(h) /\ TreeInv(h) /\ path # <<>> /\ arg \in [id : Ids, row : Rows]
      /\ path \in Seq(1 .. Len(node)) /\ arg.id \in Ids /\ arg.id \in Int
  BY <1>0, Constants DEF ShapeInv, CallInv
<1>2. /\ Len(path) \in Nat /\ Len(path) >= 1 /\ Here \in 1 .. Len(node)
      /\ Here = path[Len(path)]
      /\ WellMade(node[Here], Len(node)) /\ Len(node) \in Nat
  BY <1>1, HereFacts
<1>3. i \in 1 .. Len(node[Here].vals) /\ IsChild(node[Here].keys, arg.id, i)
  <2>1. node[Here].keys \in Seq(Int) /\ Len(node[Here].vals) = Len(node[Here].keys) + 1
    BY <1>0, <1>2, MadeFields DEF WellMade
  <2>2. /\ i \in 1 .. Len(node[Here].keys) + 1
        /\ IsChild(node[Here].keys, arg.id, i)
    BY <1>1, <2>1, ChildIdxFacts, Zenon
  <2> QED
    BY <2>1, <2>2, Zenon
<1>4. ChildAt(node, Here, i, c) /\ c \in 1 .. Len(node)
  BY <1>0, <1>2, <1>3 DEF ChildAt, WellMade
<1> HIDE DEF c, i
<1>5. /\ arg.id \in R[Here] /\ F[c] = R[c]
      /\ \A p, k, y, z : ChildAt(node, p, k, y) =>
             (z \in F[y] <=> z \in R[p] /\ IsChild(node[p].keys, z, k))
      /\ \A k \in 1 .. Len(path) - 1 : \E j : ChildAt(node, path[k], j, path[k + 1])
  BY <1>0, <1>4 DEF RangeInv, Ranged
<1>6. arg.id \in R[c]
  BY <1>3, <1>4, <1>5
<1>7. /\ path' \in Seq(1 .. Len(node)) /\ Len(path') = Len(path) + 1
      /\ path'[Len(path) + 1] = c /\ \A k \in 1 .. Len(path) : path'[k] = path[k]
      /\ path' # <<>>
  BY <1>0, <1>1, <1>4, AppendProperties
<1>8. Here' = c
  BY <1>7 DEF Here, Last
<1>9. ASSUME NEW k \in 1 .. Len(path') - 1
      PROVE  \E j : ChildAt(node, path'[k], j, path'[k + 1])
  <2>1. k \in 1 .. Len(path)
    BY <1>2, <1>7
  <2>2. CASE k = Len(path)
    <3>1. path'[k] = Here /\ path'[k + 1] = c
      BY <1>2, <1>7, <2>1, <2>2
    <3> QED
      BY <1>4, <3>1
  <2>3. CASE k \in 1 .. Len(path) - 1
    <3>1. k + 1 \in 1 .. Len(path)
      BY <1>2, <2>3
    <3>2. path'[k] = path[k] /\ path'[k + 1] = path[k + 1]
      BY <1>7, <2>1, <3>1
    <3> QED
      BY <1>5, <2>3, <3>2
  <2> QED
    BY <1>2, <2>1, <2>2, <2>3
<1> QED
  BY <1>0, <1>6, <1>8, <1>9 DEF RangeInv

\* insert_rec in a leaf: the id goes where its range allows, and a split cuts
\* the range at the promoted key.
LEMMA RangeInsertLeaf ==
  ASSUME NEW h, ShapeInv(h), NEW R, NEW F, NEW x, RangeInv(R, F, x), InsertLeaf
  PROVE  \E Q, G, y : RangeInv(Q, G, y)'
<1> DEFINE d == Len(node)
<1>0. /\ pc = "down" /\ path # <<>> /\ node[Here].is_leaf /\ root' = root /\ order' = order
      /\ arg.id \in Ids
      /\ (\E n : LeafKept(n)) \/ (\E n, n1, l, r : LeafCut(n, n1, l, r))
  BY LeafStep
<1>1. /\ CallInv(h) /\ TreeInv(h) /\ Made(node) /\ order \in Orders
      /\ root \in 1 .. d
  BY DEF ShapeInv, TreeInv, CallInv
<1>2. Here \in 1 .. d /\ WellMade(node[Here], d) /\ d \in Nat
  BY <1>0, <1>1, HereFacts
<1>3. /\ Ranged(node, R, F) /\ arg.id \in R[Here]
      /\ \A c \in 1 .. d : F[c] = R[c]
      /\ \A k \in 1 .. Len(path) - 1 : \E i : ChildAt(node, path[k], i, path[k + 1])
      /\ F[root] = Int /\ Steps(node, R)
  BY <1>0 DEF RangeInv
<1>4. Ranged(node, R, R) /\ R[root] = Int
  BY <1>1, <1>3, RangedAgain
<1>5. /\ R \in [1 .. d -> SUBSET Int] /\ R[Here] \subseteq Int
      /\ \A k \in 1 .. Len(node[Here].keys) : node[Here].keys[k] \in R[Here]
  BY <1>2, <1>4 DEF Ranged
<1> HIDE DEF d
<1>6. ASSUME NEW n, EntryPut(n, node[Here], arg.id, arg.row, Len(node)),
             NEW n1, Replaced(n1, node, Here, n)
      PROVE  /\ Ranged(n1, R, R) /\ n.is_leaf /\ StrictlyUp(n.keys)
             /\ \A k \in 1 .. Len(n.keys) : n.keys[k] \in R[Here]
             /\ Made(n1) /\ Len(n1) = d /\ n1[Here] = n
             /\ \A q \in 1 .. d : q # Here => n1[q] = node[q]
  <2>1. /\ n.is_leaf /\ WellMade(n, d)
        /\ \A k \in 1 .. Len(n.keys) : n.keys[k] # arg.id =>
               \E j \in 1 .. Len(node[Here].keys) : node[Here].keys[j] = n.keys[k]
    BY <1>6 DEF EntryPut, d
  <2>2. StrictlyUp(n.keys)
    BY <2>1 DEF WellMade, StrictlyUp
  <2>3. \A k \in 1 .. Len(n.keys) : n.keys[k] \in R[Here]
    BY <1>3, <1>5, <2>1
  <2>4. Ranged(n1, R, R)
    BY <1>0, <1>2, <1>4, <1>6, <2>1, <2>2, <2>3, RangedEntry DEF d
  <2>5. /\ Made(n1) /\ Len(n1) = d /\ n1[Here] = n
        /\ \A q \in 1 .. d : q # Here => n1[q] = node[q]
    BY <1>1, <1>2, <1>6, <2>1, MadeReplaced DEF Replaced, d
  <2> QED
    BY <2>1, <2>2, <2>3, <2>4, <2>5
<1>7. ASSUME NEW n, LeafKept(n) PROVE \E Q, G, y : RangeInv(Q, G, y)'
  <2>1. Replaced(node', node, Here, n) /\ Return /\ EntryPut(n, node[Here], arg.id, arg.row, Len(node))
    BY <1>7 DEF LeafKept
  <2>2. Ranged(node', R, R)
    BY <1>6, <2>1
  <2>3. pc' = "idle" /\ path' = <<>>
    BY <2>1 DEF Return
  <2>4. Steps(node', R)
    <3>1. /\ Len(node') = d /\ node'[Here] = n /\ n.is_leaf /\ n.next = node[Here].next
          /\ \A q \in 1 .. d : q # Here => node'[q] = node[q]
      BY <2>1 DEF Replaced, EntryPut, d
    <3>2. \A q \in 1 .. d : /\ node'[q].is_leaf <=> node[q].is_leaf
                            /\ node[q].is_leaf => node'[q].next = node[q].next /\ R[q] = R[q]
      BY <1>0, <1>2, <3>1
    <3> QED
      BY <1>2, <1>3, <3>1, <3>2, StepsKept DEF d
  <2> QED
    BY <1>0, <1>4, <2>2, <2>3, <2>4, RangeIdleNext
<1>8. ASSUME NEW n, NEW n1, NEW l, NEW r, LeafCut(n, n1, l, r)
      PROVE  \E Q, G, y : RangeInv(Q, G, y)'
  <2>1. /\ EntryPut(n, node[Here], arg.id, arg.row, Len(node)) /\ Len(n.keys) = order
        /\ Replaced(n1, node, Here, n) /\ Divided(node', n1, Here, l, r)
        /\ WellMade(l, d + 1) /\ l.is_leaf /\ WellMade(r, d + 1) /\ r.is_leaf
        /\ Taken(l.keys, n.keys, 0, Mid) /\ Taken(r.keys, n.keys, Mid, order - Mid)
        /\ split_out' = d + 1 /\ key_out' = n.keys[Mid + 1] /\ key_out' \in Ids
        /\ pc' = "split" /\ path' = Front(path)
    BY <1>8 DEF LeafCut, d
  <2>2. /\ Ranged(n1, R, R) /\ n.is_leaf /\ StrictlyUp(n.keys)
        /\ \A k \in 1 .. Len(n.keys) : n.keys[k] \in R[Here]
        /\ Made(n1) /\ Len(n1) = d /\ n1[Here] = n
        /\ \A q \in 1 .. d : q # Here => n1[q] = node[q]
    BY <1>6, <2>1
  <2>3. PICK key, y : key = n.keys[Mid + 1] /\ y = Here
    OBVIOUS
  <2>4. /\ order \in Nat /\ Mid \in Nat /\ Mid >= 1 /\ Mid + 1 \in 1 .. order /\ 1 \in 1 .. order
        /\ 1 < Mid + 1
    BY <1>1, MidFacts
  <2>5. /\ key \in Int /\ key \in R[Here] /\ n.keys[1] \in R[Here] /\ n.keys[1] < key
    BY <1>5, <2>1, <2>2, <2>3, <2>4 DEF StrictlyUp
  <2>6. PICK Q, G : IsCut(Q, G, R, d, y, key)
    BY <1>2, <1>5, <2>3, CutExists
  <2>7. /\ \A z : z \in Q[y] <=> z \in R[y] /\ z < key
        /\ \A z : z \in Q[d + 1] <=> z \in R[y] /\ key <= z
    BY <2>6 DEF IsCut
  <2>8. StrictlyUp(l.keys) /\ StrictlyUp(r.keys)
    BY <2>1 DEF WellMade, StrictlyUp
  <2>9. \A k \in 1 .. Len(l.keys) : l.keys[k] \in Q[y]
    <3> SUFFICES ASSUME NEW k \in 1 .. Mid PROVE l.keys[k] \in Q[y]
      BY <2>1 DEF Taken
    <3>1. k \in 1 .. order /\ 0 + k = k /\ k < Mid + 1
      BY <2>4
    <3>2. l.keys[k] = n.keys[k]
      BY <2>1, <3>1 DEF Taken
    <3>3. n.keys[k] \in R[y] /\ n.keys[k] < key
      BY <2>1, <2>2, <2>3, <2>4, <3>1 DEF StrictlyUp
    <3> QED
      BY <2>7, <3>2, <3>3
  <2>10. \A k \in 1 .. Len(r.keys) : r.keys[k] \in Q[d + 1]
    <3> SUFFICES ASSUME NEW k \in 1 .. order - Mid PROVE r.keys[k] \in Q[d + 1]
      BY <2>1 DEF Taken
    <3>1. Mid + k \in 1 .. order /\ (k = 1 \/ Mid + 1 < Mid + k)
      BY <2>4
    <3>2. r.keys[k] = n.keys[Mid + k]
      BY <2>1 DEF Taken
    <3>3. n.keys[Mid + k] \in R[y]
      BY <2>1, <2>2, <2>3, <3>1
    <3>4. key <= n.keys[Mid + k]
      <4>1. CASE k = 1
        BY <2>3, <2>5, <4>1
      <4>2. CASE Mid + 1 < Mid + k
        <5>1. key < n.keys[Mid + k]
          BY <2>1, <2>2, <2>3, <2>4, <3>1, <4>2 DEF StrictlyUp
        <5>2. n.keys[Mid + k] \in Int
          BY <1>5, <2>3, <3>3
        <5> QED
          BY <2>5, <5>1, <5>2
      <4> QED
        BY <3>1, <4>1, <4>2
    <3> QED
      BY <2>7, <3>2, <3>3, <3>4
  <2>11. Ranged(node', Q, G)
    <3>1. /\ Made(n1) /\ Ranged(n1, R, R) /\ y \in 1 .. Len(n1) /\ n1[y].is_leaf
          /\ Divided(node', n1, y, l, r) /\ IsCut(Q, G, R, Len(n1), y, key)
      BY <1>2, <2>1, <2>2, <2>3, <2>6
    <3>2. \A k \in 1 .. Len(r.keys) : r.keys[k] \in Q[Len(n1) + 1]
      BY <2>2, <2>10
    <3> QED
      BY <2>1, <2>5, <2>8, <2>9, <3>1, <3>2, RangedLeaf
  <2>12. /\ Len(node') = Len(node) + 1 /\ \A q \in 1 .. Len(node) : q # y => node'[q] = node[q]
    BY <2>1, <2>2, <2>3 DEF Divided, d
  <2>13. RangeInv(Q, G, y)'
    <3>1. IsCut(Q, G, R, Len(node), y, key)
      BY <2>6 DEF d
    <3>5. Steps(node', Q)
      <4>1. /\ l.next = Len(node) + 1 /\ r.next = n.next /\ n.next = node[y].next
        BY <1>8, <2>1, <2>3 DEF LeafCut, EntryPut
      <4>2. node'[y] = l /\ node'[Len(node) + 1] = r
        BY <2>1, <2>2, <2>3 DEF Divided, d
      <4>3. /\ node'[Len(node) + 1].is_leaf /\ node'[y].is_leaf
            /\ node'[y].next = Len(node) + 1 /\ node'[Len(node) + 1].next = node[y].next
        BY <2>1, <4>1, <4>2
      <4>4. /\ y \in 1 .. Len(node) /\ node[y].is_leaf /\ Len(node) \in Nat
            /\ R \in [1 .. Len(node) -> SUBSET Int]
        BY <1>0, <1>2, <1>5, <2>3 DEF d
      <4>5. PICK low : low \in R[y] /\ low < key
        BY <2>3, <2>5
      <4>6. key \in Int /\ key \in R[y]
        BY <2>3, <2>5
      <4> QED
        BY <1>3, <2>12, <3>1, <4>3, <4>4, <4>5, <4>6, StepsCut
    <3>2. PICK low : low \in R[y] /\ low < key
      BY <2>3, <2>5
    <3>3. key \in R[y] /\ key \in Int /\ \A z \in R[y] : z \in Int
      BY <1>5, <2>3, <2>5
    <3>4. split_out' = Len(node) + 1 /\ key_out' = key
      BY <2>1, <2>3 DEF d
    <3> QED
      BY <1>0, <1>3, <1>4, <2>1, <2>3, <2>11, <2>12, <3>1, <3>2, <3>3, <3>4, <3>5, RangeSplit
  <2> QED
    BY <2>13
<1> QED
  BY <1>0, <1>7, <1>8

\* The parent of a split node, and its own split.
LEMMA RangeInsertInternal ==
  ASSUME NEW h, ShapeInv(h), NEW R, NEW F, NEW x, RangeInv(R, F, x), InsertInternal
  PROVE  \E Q, G, y : RangeInv(Q, G, y)'
<1> DEFINE d == Len(node)
<1>0. /\ pc = "split" /\ path # <<>> /\ ~node[Here].is_leaf /\ root' = root /\ order' = order
      /\ key_out \in Ids /\ split_out \in 1 .. d /\ split_out # root
      /\ (\E n : InnerKept(n)) \/ (\E n, n1, l, r : InnerCut(n, n1, l, r))
  BY InnerStep
<1>1. /\ CallInv(h) /\ TreeInv(h) /\ Made(node) /\ order \in Orders
      /\ root \in 1 .. d /\ Owned(node, {root, split_out})
  BY <1>0 DEF ShapeInv, TreeInv, CallInv, Loose
<1>2. Here \in 1 .. d /\ WellMade(node[Here], d) /\ d \in Nat
  BY <1>0, <1>1, HereFacts
<1>3. /\ Ranged(node, R, F) /\ x \in 1 .. d
      /\ \A c \in 1 .. d : c # x => F[c] = R[c]
      /\ \A k \in 1 .. Len(path) - 1 : \E i : ChildAt(node, path[k], i, path[k + 1])
      /\ F[root] = Int
      /\ \A z : z \in F[x] <=> z \in R[x] \/ z \in R[split_out]
      /\ \A z \in R[x] : z < key_out
      /\ \A z \in R[split_out] : key_out <= z
      /\ key_out \in R[split_out] /\ R[x] # {}
      /\ \E i : ChildAt(node, Here, i, x)
      /\ Steps(node, R)
  BY <1>0 DEF RangeInv
<1>4. PICK j : ChildAt(node, Here, j, x)
  BY <1>3
<1>5. x # root
  <2>1. \A p, i : ~ChildAt(node, p, i, root)
    BY <1>1 DEF Owned
  <2> QED
    BY <1>4, <2>1
<1>6. R \in [1 .. d -> SUBSET Int] /\ R[Here] \subseteq Int /\ R[root] = Int
  <2>1. R \in [1 .. d -> SUBSET Int]
    BY <1>3 DEF Ranged
  <2>2. R[root] = Int
    BY <1>1, <1>3, <1>5
  <2> QED
    BY <1>2, <2>1, <2>2
<1>7. key_out \in Int
  BY <1>0, Constants
<1> HIDE DEF d
<1>8. ASSUME NEW n, ChildTaken(n), NEW n1, Replaced(n1, node, Here, n)
      PROVE  /\ Ranged(n1, R, R) /\ ~n.is_leaf /\ WellMade(n, d)
             /\ Made(n1) /\ Len(n1) = d /\ n1[Here] = n
             /\ \A q \in 1 .. d : q # Here => n1[q] = node[q]
  <2>1. PICK i : i = ChildIdx(node[Here], key_out)
    OBVIOUS
  <2>2. /\ WellMade(n, d) /\ ~n.is_leaf /\ i \in 1 .. Len(node[Here].keys) + 1
        /\ IsChild(node[Here].keys, key_out, i)
        /\ Inserted(n.keys, node[Here].keys, i, key_out)
        /\ Inserted(n.vals, node[Here].vals, i + 1, split_out)
    BY <1>8, <2>1 DEF ChildTaken, d
  <2>3. n.keys \in Seq(Int)
    BY <1>2, <2>2, MadeFields
  <2>4. PICK free : free = {root, split_out}
    OBVIOUS
  <2>5. Owned(node, free) /\ split_out \in free
    BY <1>1, <2>4
  <2>6. Ranged(n1, R, R)
    BY <1>0, <1>1, <1>2, <1>3, <1>4, <1>7, <1>8, <2>2, <2>3, <2>5, RangedGrown DEF d
  <2>7. /\ Made(n1) /\ Len(n1) = d /\ n1[Here] = n
        /\ \A q \in 1 .. d : q # Here => n1[q] = node[q]
    BY <1>1, <1>2, <1>8, <2>2, MadeReplaced DEF Replaced, d
  <2> QED
    BY <2>2, <2>6, <2>7
<1>9. ASSUME NEW n, InnerKept(n) PROVE \E Q, G, y : RangeInv(Q, G, y)'
  <2>1. Replaced(node', node, Here, n) /\ Return /\ ChildTaken(n)
    BY <1>9 DEF InnerKept
  <2>2. Ranged(node', R, R)
    BY <1>8, <2>1
  <2>3. pc' = "idle" /\ path' = <<>>
    BY <2>1 DEF Return
  <2>4. Steps(node', R)
    <3>1. /\ Len(node') = d /\ node'[Here] = n /\ ~n.is_leaf
          /\ \A q \in 1 .. d : q # Here => node'[q] = node[q]
      BY <1>8, <2>1
    <3>2. \A q \in 1 .. d : /\ node'[q].is_leaf <=> node[q].is_leaf
                            /\ node[q].is_leaf => node'[q].next = node[q].next /\ R[q] = R[q]
      BY <1>0, <1>2, <3>1
    <3> QED
      BY <1>2, <1>3, <3>1, <3>2, StepsKept DEF d
  <2> QED
    BY <1>0, <1>6, <2>2, <2>3, <2>4, RangeIdleNext
<1>10. ASSUME NEW n, NEW n1, NEW l, NEW r, InnerCut(n, n1, l, r)
       PROVE  \E Q, G, y : RangeInv(Q, G, y)'
  <2>1. /\ ChildTaken(n) /\ Len(n.keys) = order
        /\ Replaced(n1, node, Here, n) /\ Divided(node', n1, Here, l, r)
        /\ ~l.is_leaf /\ ~r.is_leaf
        /\ Taken(l.keys, n.keys, 0, Mid) /\ Taken(l.vals, n.vals, 0, Mid + 1)
        /\ Taken(r.keys, n.keys, Mid + 1, order - Mid - 1)
        /\ Taken(r.vals, n.vals, Mid + 1, order - Mid)
        /\ split_out' = d + 1 /\ key_out' = n.keys[Mid + 1] /\ key_out' \in Ids
        /\ pc' = "split" /\ path' = Front(path)
    BY <1>10 DEF InnerCut, d
  <2>2. /\ Ranged(n1, R, R) /\ ~n.is_leaf /\ Made(n1) /\ Len(n1) = d /\ n1[Here] = n
        /\ \A q \in 1 .. d : q # Here => n1[q] = node[q]
    BY <1>8, <2>1
  <2>3. StrictlyUp(n.keys) /\ \A k \in 1 .. Len(n.keys) : n.keys[k] \in R[Here]
    <3>1. StrictlyUp(n1[Here].keys) /\ \A k \in 1 .. Len(n1[Here].keys) : n1[Here].keys[k] \in R[Here]
      BY <1>2, <2>2 DEF Ranged
    <3> QED
      BY <2>2, <3>1
  <2>4. PICK key, y, c, e : /\ key = n.keys[Mid + 1] /\ y = Here
                            /\ c = Mid /\ e = order - Mid - 1
    OBVIOUS
  <2>5. /\ order \in Nat /\ c \in Nat /\ c >= 1 /\ c + 1 \in 1 .. order /\ 1 \in 1 .. order
        /\ 1 < c + 1 /\ e = order - c - 1 /\ e + 1 = order - c /\ c + 1 <= order
    BY <1>1, <2>4, MidFacts
  <2>6. /\ key = n.keys[c + 1] /\ key \in R[y] /\ n.keys[1] \in R[y] /\ n.keys[1] < key
        /\ key \in Int
    BY <1>6, <2>1, <2>3, <2>4, <2>5 DEF StrictlyUp
  <2>7. PICK Q, G : IsCut(Q, G, R, d, y, key)
    BY <1>2, <1>6, <2>4, CutExists
  <2>8. Ranged(node', Q, G)
    <3>1. /\ Made(n1) /\ Ranged(n1, R, R) /\ y \in 1 .. Len(n1) /\ ~n1[y].is_leaf
          /\ Divided(node', n1, y, l, r) /\ n1[y] = n
      BY <1>2, <2>1, <2>2, <2>4
    <3>2. /\ c + 1 <= Len(n1[y].keys) /\ e = Len(n1[y].keys) - c - 1
          /\ Taken(l.keys, n1[y].keys, 0, c) /\ Taken(r.keys, n1[y].keys, c + 1, e)
      BY <2>1, <2>4, <2>5, <3>1
    <3>3. Taken(l.vals, n1[y].vals, 0, c + 1) /\ Taken(r.vals, n1[y].vals, c + 1, e + 1)
      BY <2>1, <2>4, <2>5, <3>1
    <3>4. IsCut(Q, G, R, Len(n1), y, n1[y].keys[c + 1])
      BY <2>2, <2>6, <2>7, <3>1
    <3> QED
      BY <2>1, <2>5, <3>1, <3>2, <3>3, <3>4, RangedInner
  <2>9. /\ Len(node') = Len(node) + 1 /\ \A q \in 1 .. Len(node) : q # y => node'[q] = node[q]
    BY <2>1, <2>2, <2>4 DEF Divided, d
  <2>10. RangeInv(Q, G, y)'
    <3>1. IsCut(Q, G, R, Len(node), y, key)
      BY <2>7 DEF d
    <3>5. Steps(node', Q)
      <4>1. node'[y] = l /\ node'[Len(node) + 1] = r /\ y \in 1 .. Len(node) /\ Len(node) \in Nat
        BY <1>2, <2>1, <2>2, <2>4 DEF Divided, d
      <4>2. ~node[y].is_leaf /\ ~node'[y].is_leaf /\ ~node'[Len(node) + 1].is_leaf
        BY <1>0, <2>1, <2>4, <4>1
      <4>3. \A q \in 1 .. Len(node) : q # y => Q[q] = R[q]
        BY <3>1 DEF IsCut
      <4>4. \A q \in 1 .. Len(node) :
                /\ node'[q].is_leaf <=> node[q].is_leaf
                /\ node[q].is_leaf => node'[q].next = node[q].next /\ Q[q] = R[q]
        BY <2>9, <4>2, <4>3
      <4> QED
        BY <1>3, <2>9, <4>1, <4>2, <4>4, StepsKept
    <3>2. PICK low : low \in R[y] /\ low < key
      BY <2>6
    <3>3. key \in R[y] /\ key \in Int /\ \A z \in R[y] : z \in Int
      BY <1>6, <2>4, <2>6
    <3>4. split_out' = Len(node) + 1 /\ key_out' = key
      BY <2>1, <2>4 DEF d
    <3> QED
      BY <1>0, <1>3, <1>6, <2>1, <2>4, <2>8, <2>9, <3>1, <3>2, <3>3, <3>4, <3>5, RangeSplit
  <2> QED
    BY <2>10
<1> QED
  BY <1>0, <1>9, <1>10

\* The root was split: its halves share all ids.
LEMMA RangeGrowRoot ==
  ASSUME NEW h, ShapeInv(h), NEW R, NEW F, NEW x, RangeInv(R, F, x), GrowRoot
  PROVE  \E Q, G, y : RangeInv(Q, G, y)'
<1> DEFINE d == Len(node)
<1>0. /\ pc = "split" /\ path = <<>> /\ root' = d + 1
      /\ node' = Append(node, Internal(<<key_out>>, <<root, split_out>>)) /\ Return
  BY DEF GrowRoot
<1>1. PICK r : r = Internal(<<key_out>>, <<root, split_out>>)
  OBVIOUS
<1>2. /\ Made(node) /\ root \in 1 .. d /\ Owned(node, {root, split_out})
      /\ split_out \in 1 .. d /\ split_out # root /\ key_out \in Ids /\ key_out \in Int
      /\ node \in Seq(NodeSet) /\ d \in Nat
  <2>1. /\ Made(node) /\ root \in 1 .. d /\ Owned(node, {root, split_out})
        /\ split_out \in 1 .. d /\ split_out # root /\ key_out \in Ids
        /\ node \in Seq(NodeSet) /\ d \in Nat
    BY <1>0 DEF ShapeInv, TreeInv, CallInv, Loose, Made
  <2> QED
    BY <2>1, Constants
<1>3. r \in NodeSet /\ ~r.is_leaf /\ r.keys = <<key_out>> /\ r.vals = <<root, split_out>>
  <2>1. <<key_out>> \in Seq(Ids) /\ <<root, split_out>> \in Seq(Nat)
    BY <1>2
  <2> QED
    BY <1>1, <2>1 DEF Internal, NodeSet, NULL
<1>4. /\ Len(node') = d + 1 /\ node'[d + 1] = r
      /\ \A q \in 1 .. d : node'[q] = node[q]
  BY <1>0, <1>1, <1>2, <1>3, AppendProperties DEF d
<1>5. /\ Ranged(node, R, F) /\ x = root
      /\ \A c \in 1 .. d : c # x => F[c] = R[c]
      /\ F[root] = Int
      /\ \A z : z \in F[x] <=> z \in R[x] \/ z \in R[split_out]
      /\ \A z \in R[x] : z < key_out
      /\ \A z \in R[split_out] : key_out <= z
      /\ Steps(node, R)
  BY <1>0 DEF RangeInv
<1>6. R \in [1 .. d -> SUBSET Int]
  BY <1>5 DEF Ranged
<1>7. PICK Q : Q = [n \in 1 .. d + 1 |-> IF n = d + 1 THEN Int ELSE R[n]]
  OBVIOUS
<1>8. /\ Q \in [1 .. d + 1 -> SUBSET Int] /\ Q[d + 1] = Int
      /\ \A n \in 1 .. d : Q[n] = R[n]
  <2>1. \A n \in 1 .. d + 1 : n # d + 1 => n \in 1 .. d
    BY <1>2
  <2>2. d + 1 \in 1 .. d + 1 /\ \A n \in 1 .. d : n \in 1 .. d + 1 /\ n # d + 1
    BY <1>2
  <2> QED
    BY <1>6, <1>7, <2>1, <2>2
<1>9. Ranged(node', Q, Q)
  <2>1. HalvesOfAll(node, R, F, root, split_out, key_out)
    BY <1>2, <1>5 DEF HalvesOfAll
  <2>2. Len(r.vals) = 2 /\ r.vals[1] = root /\ r.vals[2] = split_out
        /\ Len(r.keys) = 1 /\ r.keys[1] = key_out
    BY <1>3
  <2>3. Rooted(node', node, root, split_out, key_out)
    BY <1>3, <1>4, <2>2, Zenon DEF Rooted
  <2>4. PICK free : free = {root, split_out}
    OBVIOUS
  <2>5. Owned(node, free) /\ root \in free
    BY <1>2, <2>4
  <2>6. WithAll(Q, R, Len(node))
    BY <1>8 DEF WithAll
  <2> QED
    BY <1>2, <1>5, <2>1, <2>3, <2>5, <2>6, RangedRoot
<1>10. pc' = "idle" /\ path' = <<>> /\ Q[root'] = Int
  BY <1>0, <1>8 DEF Return
<1>11. Steps(node', Q)
  <2>1. ~node'[d + 1].is_leaf
    BY <1>3, <1>4
  <2>2. \A n \in 1 .. d : /\ node'[n].is_leaf <=> node[n].is_leaf
                          /\ node[n].is_leaf => node'[n].next = node[n].next /\ Q[n] = R[n]
    BY <1>4, <1>8
  <2> QED
    BY <1>2, <1>4, <1>5, <2>1, <2>2, StepsKept
<1> QED
  BY <1>9, <1>10, <1>11, RangeIdleNext

\* Every step keeps the ranges.
LEMMA RangeStep ==
  ASSUME NEW h, ShapeInv(h), NEW R, NEW F, NEW x, RangeInv(R, F, x), [Next]_vars
  PROVE  \E Q, G, y : RangeInv(Q, G, y)'
<1>1. CASE \E c \in Calls[order] : Insert(c[1], c[2])
  BY <1>1, RangeInsert
<1>2. CASE Descend
  BY <1>2, RangeDescend
<1>3. CASE InsertLeaf
  BY <1>3, RangeInsertLeaf
<1>4. CASE InsertInternal
  BY <1>4, RangeInsertInternal
<1>5. CASE GrowRoot
  BY <1>5, RangeGrowRoot
<1>6. CASE Recreate
  BY <1>6, RangeRecreate
<1>7. CASE UNCHANGED vars
  <2>1. /\ node' = node /\ root' = root /\ pc' = pc /\ path' = path
        /\ arg' = arg /\ key_out' = key_out /\ split_out' = split_out
    BY <1>7 DEF vars, callVars
  <2>2. RangeInv(R, F, x)'
    BY <2>1 DEF RangeInv, Here
  <2> QED
    BY <2>2
<1> QED
  BY <1>1, <1>2, <1>3, <1>4, <1>5, <1>6, <1>7 DEF Next

-----------------------------------------------------------------------------
(* The links of the leaves                                                 *)

\* G gives every node its leftmost leaf, as bptree_range would look for it.
Firsts(nd, G) ==
    /\ G \in [1 .. Len(nd) -> 1 .. Len(nd)]
    /\ \A n \in 1 .. Len(nd) :
           /\ nd[n].is_leaf => G[n] = n
           /\ ~nd[n].is_leaf => G[n] = G[nd[n].vals[1]]

\* D gives every leaf its distance from the end of the chain of next links,
\* another one to each leaf; none is farther away than t.
Linked(nd, D, t) ==
    /\ D \in [1 .. Len(nd) -> Nat]
    /\ t \in 1 .. Len(nd) /\ nd[t].is_leaf
    /\ \A n \in 1 .. Len(nd) : nd[n].is_leaf =>
           /\ D[n] <= D[t]
           /\ nd[n].next = NULL => D[n] = 0
           /\ nd[n].next # NULL => /\ nd[n].next \in 1 .. Len(nd)
                                   /\ nd[nd[n].next].is_leaf
                                   /\ D[n] = D[nd[n].next] + 1
    /\ \A m, n \in 1 .. Len(nd) :
           nd[m].is_leaf /\ nd[n].is_leaf /\ D[m] = D[n] => m = n

\* All leaves are in the chain, and the chain begins with the leftmost one.
LinkInv(D, G) == Firsts(node, G) /\ Linked(node, D, G[root])

\* A write that leaves the links as they are, leaf_insert_sorted for one.
LEMMA LinkedSame ==
  ASSUME NEW nd, NEW D, NEW t, Linked(nd, D, t), NEW md, Len(md) = Len(nd),
         \A n \in 1 .. Len(nd) : /\ md[n].is_leaf <=> nd[n].is_leaf
                                 /\ nd[n].is_leaf => md[n].next = nd[n].next
  PROVE  Linked(md, D, t)
<1>1. /\ D \in [1 .. Len(nd) -> Nat]
      /\ t \in 1 .. Len(nd) /\ nd[t].is_leaf
  BY DEF Linked
<1>2. ASSUME NEW n \in 1 .. Len(nd), md[n].is_leaf
      PROVE  /\ D[n] <= D[t]
             /\ md[n].next = NULL => D[n] = 0
             /\ md[n].next # NULL => /\ md[n].next \in 1 .. Len(nd)
                                     /\ md[md[n].next].is_leaf
                                     /\ D[n] = D[md[n].next] + 1
  <2>1. nd[n].is_leaf /\ md[n].next = nd[n].next
    BY <1>2
  <2>2. /\ D[n] <= D[t]
        /\ nd[n].next = NULL => D[n] = 0
        /\ nd[n].next # NULL => /\ nd[n].next \in 1 .. Len(nd)
                                /\ nd[nd[n].next].is_leaf
                                /\ D[n] = D[nd[n].next] + 1
    BY <2>1 DEF Linked
  <2> QED
    BY <2>1, <2>2
<1>3. \A m, n \in 1 .. Len(nd) :
          nd[m].is_leaf /\ nd[n].is_leaf /\ D[m] = D[n] => m = n
  BY DEF Linked
<1> QED
  BY <1>1, <1>2, <1>3 DEF Linked

\* A new inner node has no place in the chain.
LEMMA LinkedMore ==
  ASSUME NEW nd, Len(nd) \in Nat, NEW D, NEW t, Linked(nd, D, t),
         NEW md, Len(md) = Len(nd) + 1, ~md[Len(nd) + 1].is_leaf,
         \A n \in 1 .. Len(nd) : /\ md[n].is_leaf <=> nd[n].is_leaf
                                 /\ nd[n].is_leaf => md[n].next = nd[n].next
  PROVE  \E E : Linked(md, E, t)
<1> DEFINE d == Len(nd)
           E == [n \in 1 .. d + 1 |-> IF n = d + 1 THEN 0 ELSE D[n]]
<1>0. /\ D \in [1 .. d -> Nat]
      /\ t \in 1 .. d /\ nd[t].is_leaf
      /\ \A m, n \in 1 .. d : nd[m].is_leaf /\ nd[n].is_leaf /\ D[m] = D[n] => m = n
  BY DEF Linked
<1>1. /\ \A n \in 1 .. d : n \in 1 .. d + 1 /\ n # d + 1
      /\ \A n \in 1 .. d + 1 : n = d + 1 \/ n \in 1 .. d
  OBVIOUS
<1>2. E \in [1 .. d + 1 -> Nat] /\ \A n \in 1 .. d : E[n] = D[n]
  BY <1>0, <1>1
<1>3. \A n \in 1 .. d : nd[n].is_leaf =>
          /\ D[n] <= D[t]
          /\ nd[n].next = NULL => D[n] = 0
          /\ nd[n].next # NULL => /\ nd[n].next \in 1 .. d
                                  /\ nd[nd[n].next].is_leaf
                                  /\ D[n] = D[nd[n].next] + 1
  BY DEF Linked
<1>4. /\ Len(md) = d + 1 /\ ~md[d + 1].is_leaf
      /\ \A n \in 1 .. d : /\ md[n].is_leaf <=> nd[n].is_leaf
                           /\ nd[n].is_leaf => md[n].next = nd[n].next
  OBVIOUS
<1> HIDE DEF d, E
<1>5. ASSUME NEW n \in 1 .. d + 1, md[n].is_leaf
      PROVE  /\ E[n] <= E[t]
             /\ md[n].next = NULL => E[n] = 0
             /\ md[n].next # NULL => /\ md[n].next \in 1 .. d + 1
                                     /\ md[md[n].next].is_leaf
                                     /\ E[n] = E[md[n].next] + 1
  <2>1. n \in 1 .. d /\ nd[n].is_leaf /\ md[n].next = nd[n].next
    BY <1>1, <1>4, <1>5
  <2>2. /\ D[n] <= D[t]
        /\ nd[n].next = NULL => D[n] = 0
        /\ nd[n].next # NULL => /\ nd[n].next \in 1 .. d
                                /\ nd[nd[n].next].is_leaf
                                /\ D[n] = D[nd[n].next] + 1
    BY <1>3, <2>1
  <2> QED
    BY <1>0, <1>1, <1>2, <1>4, <2>1, <2>2
<1>6. \A m, n \in 1 .. d + 1 : md[m].is_leaf /\ md[n].is_leaf /\ E[m] = E[n] => m = n
  <2>1. \A n \in 1 .. d + 1 : md[n].is_leaf => n \in 1 .. d /\ nd[n].is_leaf /\ E[n] = D[n]
    BY <1>1, <1>2, <1>4
  <2> QED
    BY <1>0, <2>1
<1>7. t \in 1 .. d + 1 /\ md[t].is_leaf
  BY <1>0, <1>1, <1>4
<1>8. Linked(md, E, t)
  BY <1>2, <1>4, <1>5, <1>6, <1>7 DEF Linked
<1> QED
  BY <1>8

\* split_leaf: the new leaf comes right behind the one it was split off.
LEMMA LinkedSplit ==
  ASSUME NEW nd, Len(nd) \in Nat, NEW D, NEW t, Linked(nd, D, t),
         NEW p \in 1 .. Len(nd), nd[p].is_leaf,
         NEW md, Len(md) = Len(nd) + 1, md[Len(nd) + 1].is_leaf,
         md[p].is_leaf, md[p].next = Len(nd) + 1, md[Len(nd) + 1].next = nd[p].next,
         \A n \in 1 .. Len(nd) : n # p => md[n] = nd[n]
  PROVE  \E E : Linked(md, E, t)
<1> DEFINE d == Len(nd)
           x == d + 1
           E == [n \in 1 .. x |-> IF n = x THEN D[p]
                                  ELSE IF D[p] <= D[n] THEN D[n] + 1 ELSE D[n]]
<1>0. /\ D \in [1 .. d -> Nat]
      /\ t \in 1 .. d /\ nd[t].is_leaf
      /\ \A m, n \in 1 .. d : nd[m].is_leaf /\ nd[n].is_leaf /\ D[m] = D[n] => m = n
  BY DEF Linked
<1>1. /\ \A n \in 1 .. d : n \in 1 .. x /\ n # x
      /\ \A n \in 1 .. x : n = x \/ n \in 1 .. d
      /\ x \in 1 .. x /\ x # NULL /\ p \in 1 .. d
  BY DEF NULL
<1>2. /\ \A n \in 1 .. d : D[n] \in Nat
      /\ E \in [1 .. x -> Nat] /\ E[x] = D[p]
      /\ \A n \in 1 .. d : E[n] = IF D[p] <= D[n] THEN D[n] + 1 ELSE D[n]
  BY SMTT(40), <1>0, <1>1
<1>3. \A n \in 1 .. d : nd[n].is_leaf =>
          /\ D[n] <= D[t]
          /\ nd[n].next = NULL => D[n] = 0
          /\ nd[n].next # NULL => /\ nd[n].next \in 1 .. d
                                  /\ nd[nd[n].next].is_leaf
                                  /\ D[n] = D[nd[n].next] + 1
  BY DEF Linked
<1>4. /\ Len(md) = x /\ md[x].is_leaf /\ md[p].is_leaf /\ nd[p].is_leaf
      /\ md[p].next = x /\ md[x].next = nd[p].next
      /\ \A n \in 1 .. d : n # p => md[n] = nd[n]
  OBVIOUS
<1> HIDE DEF d, x, E
<1>5. /\ \A n \in 1 .. d : md[n].is_leaf <=> nd[n].is_leaf
      /\ \A n \in 1 .. x : md[n].is_leaf => n = x \/ (n \in 1 .. d /\ nd[n].is_leaf)
  BY <1>1, <1>4
<1>6. \A m, n \in 1 .. x : md[m].is_leaf /\ md[n].is_leaf /\ E[m] = E[n] => m = n
  <2>1. \A a, b, c \in Nat :
            /\ (IF c <= a THEN a + 1 ELSE a) = (IF c <= b THEN b + 1 ELSE b) => a = b
            /\ (IF c <= a THEN a + 1 ELSE a) # c
    OBVIOUS
  <2>2. \A n \in 1 .. d : E[n] # E[x]
    BY <1>2, <1>1, <2>1
  <2>3. ASSUME NEW m \in 1 .. d, NEW n \in 1 .. d, E[m] = E[n] PROVE D[m] = D[n]
    <3>1. PICK a, b, c : a = D[m] /\ b = D[n] /\ c = D[p]
      OBVIOUS
    <3>2. /\ E[m] = IF c <= a THEN a + 1 ELSE a
          /\ E[n] = IF c <= b THEN b + 1 ELSE b
          /\ a \in Nat /\ b \in Nat /\ c \in Nat
      <4>1. D[m] \in Nat /\ D[n] \in Nat /\ D[p] \in Nat
        BY <1>1, <1>2
      <4>2. E[m] = IF D[p] <= D[m] THEN D[m] + 1 ELSE D[m]
        BY <1>2, Zenon
      <4>3. E[n] = IF D[p] <= D[n] THEN D[n] + 1 ELSE D[n]
        BY <1>2, Zenon
      <4> QED
        BY <3>1, <4>1, <4>2, <4>3, Zenon
    <3>3. (IF c <= a THEN a + 1 ELSE a) = (IF c <= b THEN b + 1 ELSE b)
      BY <2>3, <3>2, Zenon
    <3>4. a = b
      BY <2>1, <3>2, <3>3, Zenon
    <3> QED
      BY <3>1, <3>4
  <2> QED
    BY <1>0, <1>5, <2>2, <2>3
<1>7. t \in 1 .. x /\ md[t].is_leaf /\ D[p] <= D[t] /\ D[t] \in Nat /\ D[p] \in Nat /\ E[t] = D[t] + 1
  BY <1>0, <1>1, <1>2, <1>3, <1>4, <1>5
<1>8. ASSUME NEW n \in 1 .. x, md[n].is_leaf
      PROVE  /\ E[n] <= E[t]
             /\ md[n].next = NULL => E[n] = 0
             /\ md[n].next # NULL => /\ md[n].next \in 1 .. x
                                     /\ md[md[n].next].is_leaf
                                     /\ E[n] = E[md[n].next] + 1
  <2>1. CASE n = x
    <3>1. E[n] <= E[t]
      BY <1>2, <1>7, <2>1
    <3>2. /\ nd[p].next = NULL => D[p] = 0
          /\ nd[p].next # NULL => /\ nd[p].next \in 1 .. d
                                  /\ nd[nd[p].next].is_leaf
                                  /\ D[p] = D[nd[p].next] + 1
      BY <1>1, <1>3, <1>4
    <3>3. ASSUME NEW c \in 1 .. d, nd[c].is_leaf, D[p] = D[c] + 1
          PROVE  c \in 1 .. x /\ md[c].is_leaf /\ D[p] = E[c] + 1
      BY <1>1, <1>2, <1>5, <1>7, <3>3
    <3>4. md[n].next = nd[p].next /\ E[n] = D[p]
      BY <1>2, <1>4, <2>1
    <3> QED
      BY <3>1, <3>2, <3>3, <3>4
  <2>2. CASE n = p
    <3>1. E[n] = D[p] + 1 /\ E[n] <= E[t]
      BY <1>1, <1>2, <1>7, <2>2
    <3> QED
      BY <1>1, <1>2, <1>4, <2>2, <3>1
  <2>3. CASE n \in 1 .. d /\ n # p
    <3>0. nd[n].is_leaf /\ md[n] = nd[n] /\ D[n] # D[p] /\ D[n] \in Nat
      BY <1>0, <1>1, <1>2, <1>4, <1>5, <1>8, <2>3
    <3>1. /\ D[n] <= D[t]
          /\ nd[n].next = NULL => D[n] = 0
          /\ nd[n].next # NULL => /\ nd[n].next \in 1 .. d
                                  /\ nd[nd[n].next].is_leaf
                                  /\ D[n] = D[nd[n].next] + 1
      BY <1>3, <2>3, <3>0
    <3>2. E[n] <= E[t] /\ (D[n] = 0 => E[n] = 0)
      BY <1>2, <1>7, <2>3, <3>0, <3>1
    <3>3. ASSUME NEW c \in 1 .. d, nd[c].is_leaf, D[n] = D[c] + 1
          PROVE  c \in 1 .. x /\ md[c].is_leaf /\ E[n] = E[c] + 1
      <4>1. c \in 1 .. x /\ md[c].is_leaf /\ D[c] \in Nat
        BY <1>1, <1>2, <1>5, <3>3
      <4>2. E[n] = IF D[p] <= D[n] THEN D[n] + 1 ELSE D[n]
        BY <1>2, <2>3
      <4>3. E[c] = IF D[p] <= D[c] THEN D[c] + 1 ELSE D[c]
        BY <1>2
      <4> QED
        BY <1>7, <3>0, <3>3, <4>1, <4>2, <4>3
    <3> QED
      BY <3>0, <3>1, <3>2, <3>3
  <2> QED
    BY <1>1, <2>1, <2>2, <2>3
<1>9. Linked(md, E, t)
  BY <1>2, <1>4, <1>6, <1>7, <1>8 DEF Linked
<1> QED
  BY <1>9

\* Nodes whose first children stay in place keep their leftmost leaves.
LEMMA FirstsSame ==
  ASSUME NEW nd, NEW G, Firsts(nd, G), NEW md, Len(md) = Len(nd),
         \A n \in 1 .. Len(nd) :
             /\ md[n].is_leaf <=> nd[n].is_leaf
             /\ ~nd[n].is_leaf => md[n].vals[1] = nd[n].vals[1]
  PROVE  Firsts(md, G)
<1>1. /\ G \in [1 .. Len(nd) -> 1 .. Len(nd)]
      /\ \A n \in 1 .. Len(nd) : /\ nd[n].is_leaf => G[n] = n
                                 /\ ~nd[n].is_leaf => G[n] = G[nd[n].vals[1]]
  BY DEF Firsts
<1>2. ASSUME NEW n \in 1 .. Len(nd)
      PROVE  /\ md[n].is_leaf => G[n] = n
             /\ ~md[n].is_leaf => G[n] = G[md[n].vals[1]]
  BY <1>1
<1> QED
  BY <1>1, <1>2 DEF Firsts

\* A node more: a leaf is its own leftmost leaf, an inner node has that of its
\* first child.
LEMMA FirstsMore ==
  ASSUME NEW nd, Made(nd), NEW G, Firsts(nd, G), NEW md, Len(md) = Len(nd) + 1,
         \A n \in 1 .. Len(nd) :
             /\ md[n].is_leaf <=> nd[n].is_leaf
             /\ ~nd[n].is_leaf => md[n].vals[1] = nd[n].vals[1],
         ~md[Len(nd) + 1].is_leaf => md[Len(nd) + 1].vals[1] \in 1 .. Len(nd)
  PROVE  \E H : /\ Firsts(md, H)
                /\ \A n \in 1 .. Len(nd) : H[n] = G[n]
                /\ ~md[Len(nd) + 1].is_leaf => H[Len(nd) + 1] = G[md[Len(nd) + 1].vals[1]]
<1> DEFINE d == Len(nd)
           x == d + 1
           c == md[x].vals[1]
           H == [n \in 1 .. x |-> IF n # x THEN G[n] ELSE IF md[x].is_leaf THEN x ELSE G[c]]
<1>0. d \in Nat
  BY DEF Made
<1>1. /\ G \in [1 .. d -> 1 .. d]
      /\ \A n \in 1 .. d : /\ nd[n].is_leaf => G[n] = n
                           /\ ~nd[n].is_leaf => G[n] = G[nd[n].vals[1]]
  BY DEF Firsts
<1>2. /\ \A n \in 1 .. d : n \in 1 .. x /\ n # x
      /\ \A n \in 1 .. x : n = x \/ n \in 1 .. d
      /\ x \in 1 .. x
  BY <1>0
<1>3. /\ Len(md) = x
      /\ \A n \in 1 .. d : /\ md[n].is_leaf <=> nd[n].is_leaf
                           /\ ~nd[n].is_leaf => md[n].vals[1] = nd[n].vals[1]
      /\ ~md[x].is_leaf => c \in 1 .. d
  OBVIOUS
<1>4. \A n \in 1 .. d : ~nd[n].is_leaf => nd[n].vals[1] \in 1 .. d
  <2> SUFFICES ASSUME NEW n \in 1 .. d, ~nd[n].is_leaf PROVE nd[n].vals[1] \in 1 .. d
    OBVIOUS
  <2>1. WellMade(nd[n], Len(nd))
    BY DEF Made
  <2>2. Len(nd[n].vals) = Len(nd[n].keys) + 1 /\ Len(nd[n].keys) \in Nat
    BY <1>0, <2>1, MadeFields DEF WellMade
  <2>3. 1 \in 1 .. Len(nd[n].vals)
    BY <2>2
  <2> QED
    BY <2>1, <2>3 DEF WellMade
<1>5. /\ H[x] = IF md[x].is_leaf THEN x ELSE G[c]
      /\ \A n \in 1 .. d : H[n] = G[n]
  BY <1>2
<1>6. H \in [1 .. x -> 1 .. x]
  <2>1. ASSUME NEW n \in 1 .. x
        PROVE  (IF n # x THEN G[n] ELSE IF md[x].is_leaf THEN x ELSE G[c]) \in 1 .. x
    BY <1>1, <1>2, <1>3
  <2> QED
    BY <2>1
<1> HIDE DEF H, d, x, c
<1>7. ASSUME NEW n \in 1 .. x
      PROVE  /\ md[n].is_leaf => H[n] = n
             /\ ~md[n].is_leaf => H[n] = H[md[n].vals[1]]
  <2>1. CASE n = x
    BY <1>3, <1>5, <2>1 DEF c
  <2>2. CASE n \in 1 .. d
    BY <1>1, <1>3, <1>4, <1>5, <2>2
  <2> QED
    BY <1>2, <2>1, <2>2
<1>8. Firsts(md, H)
  BY <1>3, <1>6, <1>7 DEF Firsts
<1> QED
  BY <1>5, <1>8 DEF d, x, c

\* bptree_create: the one leaf is the chain.
LEMMA LinkAlone ==
  ASSUME NEW nd, Len(nd) = 1, nd[1].is_leaf, nd[1].next = NULL
  PROVE  \E D, G : Firsts(nd, G) /\ Linked(nd, D, G[1])
<1>1. PICK D, G : D = [n \in {1} |-> 0] /\ G = [n \in {1} |-> 1]
  OBVIOUS
<1>2. 1 .. 1 = {1} /\ G[1] = 1 /\ D[1] = 0 /\ D \in [{1} -> Nat] /\ G \in [{1} -> {1}] /\ 0 <= 0
  BY <1>1
<1>3. Firsts(nd, G)
  BY <1>2 DEF Firsts
<1>4. Linked(nd, D, G[1])
  BY <1>2 DEF Linked
<1> QED
  BY <1>3, <1>4

\* insert_rec in a leaf: a new leaf is linked in behind it or none is.
LEMMA LinkInsertLeaf ==
  ASSUME NEW h, ShapeInv(h), NEW D, NEW G, LinkInv(D, G), InsertLeaf
  PROVE  \E E, H : LinkInv(E, H)'
<1> DEFINE d == Len(node)
<1>0. /\ pc = "down" /\ path # <<>> /\ node[Here].is_leaf /\ root' = root /\ order' = order
      /\ (\E n : LeafKept(n)) \/ (\E n, n1, l, r : LeafCut(n, n1, l, r))
  BY LeafStep
<1>1. CallInv(h) /\ TreeInv(h) /\ Made(node) /\ root \in 1 .. d
  BY DEF ShapeInv, TreeInv
<1>2. PICK p : p = Here
  OBVIOUS
<1>3. p \in 1 .. d /\ d \in Nat /\ node[p].is_leaf
  BY <1>0, <1>1, <1>2, HereFacts
<1>4. Firsts(node, G) /\ Linked(node, D, G[root])
  BY DEF LinkInv
<1> HIDE DEF d
<1>5. ASSUME NEW n, LeafKept(n) PROVE \E E, H : LinkInv(E, H)'
  <2>1. /\ Len(node') = d /\ node'[p] = n /\ n.is_leaf /\ n.next = node[p].next
        /\ \A q \in 1 .. d : q # p => node'[q] = node[q]
    BY <1>2, <1>5 DEF LeafKept, Replaced, EntryPut, d
  <2>2. \A q \in 1 .. d : /\ node'[q].is_leaf <=> node[q].is_leaf
                          /\ node[q].is_leaf => node'[q].next = node[q].next
                          /\ ~node[q].is_leaf => node'[q].vals[1] = node[q].vals[1]
    BY <1>3, <2>1
  <2>3. Firsts(node', G) /\ Linked(node', D, G[root])
    BY <1>4, <2>1, <2>2, FirstsSame, LinkedSame DEF d
  <2>4. LinkInv(D, G)'
    BY <1>0, <2>3 DEF LinkInv
  <2> QED
    BY <2>4
<1>6. ASSUME NEW n, NEW n1, NEW l, NEW r, LeafCut(n, n1, l, r) PROVE \E E, H : LinkInv(E, H)'
  <2>1. /\ EntryPut(n, node[Here], arg.id, arg.row, Len(node))
        /\ Replaced(n1, node, Here, n) /\ Divided(node', n1, Here, l, r)
        /\ l.is_leaf /\ l.next = d + 1 /\ r.is_leaf /\ r.next = n.next
    BY <1>6 DEF LeafCut, d
  <2>2. /\ Len(n1) = d /\ n.next = node[p].next
        /\ \A q \in 1 .. d : q # p => n1[q] = node[q]
    BY <1>2, <2>1 DEF Replaced, EntryPut, d
  <2>3. /\ Len(node') = d + 1 /\ node'[p] = l /\ node'[d + 1] = r
        /\ \A q \in 1 .. d : q # p => node'[q] = node[q]
    BY <1>2, <2>1, <2>2 DEF Divided
  <2>4. \A q \in 1 .. d : /\ node'[q].is_leaf <=> node[q].is_leaf
                          /\ ~node[q].is_leaf => node'[q].vals[1] = node[q].vals[1]
    BY <1>3, <2>1, <2>3
  <2>5. PICK H : Firsts(node', H) /\ \A q \in 1 .. d : H[q] = G[q]
    <3>1. ~node'[d + 1].is_leaf => node'[d + 1].vals[1] \in 1 .. d
      BY <2>1, <2>3
    <3> QED
      BY SMTT(40), <1>1, <1>4, <2>3, <2>4, <3>1, FirstsMore DEF d
  <2>6. PICK E : Linked(node', E, G[root])
    <3>1. PICK t : t = G[root]
      OBVIOUS
    <3>2. Linked(node, D, t)
      BY <1>4, <3>1
    <3>3. /\ node'[d + 1].is_leaf /\ node'[p].is_leaf /\ node'[p].next = d + 1
          /\ node'[d + 1].next = node[p].next
      BY <2>1, <2>2, <2>3
    <3> QED
      BY <1>3, <2>3, <3>1, <3>2, <3>3, LinkedSplit DEF d
  <2>7. LinkInv(E, H)'
    BY <1>0, <1>1, <2>5, <2>6 DEF LinkInv, d
  <2> QED
    BY <2>7
<1> QED
  BY <1>0, <1>5, <1>6

\* insert_rec in an inner node leaves the chain and every first child alone.
LEMMA LinkInsertInternal ==
  ASSUME NEW h, ShapeInv(h), NEW D, NEW G, LinkInv(D, G), InsertInternal
  PROVE  \E E, H : LinkInv(E, H)'
<1> DEFINE d == Len(node)
<1>0. /\ pc = "split" /\ path # <<>> /\ ~node[Here].is_leaf /\ root' = root /\ order' = order
      /\ (\E n : InnerKept(n)) \/ (\E n, n1, l, r : InnerCut(n, n1, l, r))
  BY InnerStep
<1>1. CallInv(h) /\ TreeInv(h) /\ Made(node) /\ root \in 1 .. d /\ order \in Orders
  BY DEF ShapeInv, TreeInv, CallInv
<1>2. PICK p : p = Here
  OBVIOUS
<1>3. p \in 1 .. d /\ d \in Nat /\ ~node[p].is_leaf
  BY <1>0, <1>1, <1>2, HereFacts
<1>4. Firsts(node, G) /\ Linked(node, D, G[root])
  BY DEF LinkInv
<1>5. order \in Nat /\ Mid \in Nat /\ order - Mid \in Nat /\ 1 \in 1 .. Mid + 1 /\ 1 \in 1 .. order - Mid
      /\ Mid + 2 \in 1 .. order + 1
  <2>1. order \in Nat /\ Mid \in Nat /\ Mid + 1 < order
    BY <1>1, MidFacts
  <2>2. PICK m : m = Mid
    OBVIOUS
  <2>3. /\ order - m \in Nat /\ 1 \in 1 .. m + 1 /\ 1 \in 1 .. order - m
        /\ m + 2 \in 1 .. order + 1
    BY <2>1, <2>2
  <2> QED
    BY <2>1, <2>2, <2>3
<1> HIDE DEF d
<1>6. ASSUME NEW n, ChildTaken(n)
      PROVE  /\ ~n.is_leaf /\ n.vals[1] = node[p].vals[1] /\ WellMade(n, d)
             /\ Len(n.vals) = Len(n.keys) + 1
  <2>1. PICK i : i = ChildIdx(node[Here], key_out)
    OBVIOUS
  <2>2. /\ WellMade(n, d) /\ ~n.is_leaf /\ i \in 1 .. Len(node[p].keys) + 1
        /\ Inserted(n.vals, node[p].vals, i + 1, split_out)
    BY <1>2, <1>6, <2>1 DEF ChildTaken, d
  <2>3. Len(node[p].vals) = Len(node[p].keys) + 1 /\ Len(node[p].keys) \in Nat
    <3>1. WellMade(node[p], d)
      BY <1>1, <1>3 DEF Made, d
    <3> QED
      BY <1>3, <3>1, MadeFields DEF WellMade
  <2>4. 1 \in 1 .. Len(node[p].vals) + 1 /\ 1 < i + 1
    BY <2>2, <2>3
  <2>5. n.vals[1] = node[p].vals[1]
    BY <2>2, <2>4 DEF Inserted
  <2> QED
    BY <2>2, <2>5 DEF WellMade
<1>7. ASSUME NEW n, InnerKept(n) PROVE \E E, H : LinkInv(E, H)'
  <2>0. ChildTaken(n)
    BY <1>7 DEF InnerKept
  <2>1. /\ Len(node') = d /\ node'[p] = n /\ ~n.is_leaf /\ n.vals[1] = node[p].vals[1]
        /\ \A q \in 1 .. d : q # p => node'[q] = node[q]
    BY <1>2, <1>6, <1>7, <2>0 DEF InnerKept, Replaced, d
  <2>2. \A q \in 1 .. d : /\ node'[q].is_leaf <=> node[q].is_leaf
                          /\ node[q].is_leaf => node'[q].next = node[q].next
                          /\ ~node[q].is_leaf => node'[q].vals[1] = node[q].vals[1]
    BY <1>3, <2>1
  <2>3. Firsts(node', G) /\ Linked(node', D, G[root])
    BY <1>4, <2>1, <2>2, FirstsSame, LinkedSame DEF d
  <2>4. LinkInv(D, G)'
    BY <1>0, <2>3 DEF LinkInv
  <2> QED
    BY <2>4
<1>8. ASSUME NEW n, NEW n1, NEW l, NEW r, InnerCut(n, n1, l, r) PROVE \E E, H : LinkInv(E, H)'
  <2>1. /\ ChildTaken(n) /\ Len(n.keys) = order
        /\ Replaced(n1, node, Here, n) /\ Divided(node', n1, Here, l, r)
        /\ ~l.is_leaf /\ ~r.is_leaf
        /\ Taken(l.vals, n.vals, 0, Mid + 1) /\ Taken(r.vals, n.vals, Mid + 1, order - Mid)
    BY <1>8 DEF InnerCut
  <2>2. /\ ~n.is_leaf /\ n.vals[1] = node[p].vals[1] /\ WellMade(n, d)
        /\ Len(n.vals) = order + 1
    BY <1>6, <2>1
  <2>3. l.vals[1] = node[p].vals[1]
    <3>1. l.vals[1] = n.vals[0 + 1]
      BY <1>5, <2>1 DEF Taken
    <3>2. 0 + 1 = 1
      OBVIOUS
    <3> QED
      BY <2>2, <3>1, <3>2, Zenon
  <2>4. r.vals[1] \in 1 .. d
    <3>1. r.vals[1] = n.vals[Mid + 1 + 1]
      BY <1>5, <2>1 DEF Taken
    <3>2. Mid + 1 + 1 \in 1 .. Len(n.vals)
      BY <1>5, <2>2
    <3>3. n.vals[Mid + 1 + 1] \in 1 .. d
      BY <2>2, <3>2 DEF WellMade
    <3> QED
      BY <3>1, <3>3
  <2>5. Len(n1) = d /\ \A q \in 1 .. d : q # p => n1[q] = node[q]
    BY <1>2, <2>1 DEF Replaced, d
  <2>6. /\ Len(node') = d + 1 /\ node'[p] = l /\ node'[d + 1] = r
        /\ \A q \in 1 .. d : q # p => node'[q] = node[q]
    BY <1>2, <2>1, <2>5 DEF Divided
  <2>7. \A q \in 1 .. d : /\ node'[q].is_leaf <=> node[q].is_leaf
                          /\ node[q].is_leaf => node'[q].next = node[q].next
                          /\ ~node[q].is_leaf => node'[q].vals[1] = node[q].vals[1]
    BY <1>3, <2>1, <2>3, <2>6
  <2>8. PICK H : Firsts(node', H) /\ \A q \in 1 .. d : H[q] = G[q]
    <3>1. node'[d + 1].vals[1] \in 1 .. d
      BY <2>4, <2>6
    <3> QED
      BY <1>1, <1>4, <2>6, <2>7, <3>1, FirstsMore DEF d
  <2>9. PICK E : Linked(node', E, G[root])
    <3>1. PICK t : t = G[root]
      OBVIOUS
    <3>2. Linked(node, D, t)
      BY <1>4, <3>1
    <3>3. ~node'[d + 1].is_leaf
      BY <2>1, <2>6
    <3> QED
      BY <1>3, <2>6, <2>7, <3>1, <3>2, <3>3, LinkedMore DEF d
  <2>10. LinkInv(E, H)'
    BY <1>0, <1>1, <2>8, <2>9 DEF LinkInv, d
  <2> QED
    BY <2>10
<1> QED
  BY <1>0, <1>7, <1>8

\* The new root has the leftmost leaf of the old one.
LEMMA LinkGrowRoot ==
  ASSUME NEW h, ShapeInv(h), NEW D, NEW G, LinkInv(D, G), GrowRoot
  PROVE  \E E, H : LinkInv(E, H)'
<1> DEFINE d == Len(node)
<1>0. /\ pc = "split" /\ path = <<>> /\ root' = d + 1
      /\ node' = Append(node, Internal(<<key_out>>, <<root, split_out>>)) /\ Return
  BY DEF GrowRoot
<1>1. PICK r : r = Internal(<<key_out>>, <<root, split_out>>)
  OBVIOUS
<1>2. /\ Made(node) /\ root \in 1 .. d /\ split_out \in 1 .. d /\ key_out \in Ids
      /\ node \in Seq(NodeSet) /\ d \in Nat
  BY <1>0 DEF ShapeInv, TreeInv, CallInv, Made
<1>3. r \in NodeSet /\ ~r.is_leaf /\ r.vals[1] = root
  <2>1. <<key_out>> \in Seq(Ids) /\ <<root, split_out>> \in Seq(Nat)
    BY <1>2
  <2> QED
    BY <1>1, <2>1 DEF Internal, NodeSet, NULL
<1>4. /\ Len(node') = d + 1 /\ node'[d + 1] = r
      /\ \A q \in 1 .. d : node'[q] = node[q]
  BY <1>0, <1>1, <1>2, <1>3, AppendProperties DEF d
<1>5. Firsts(node, G) /\ Linked(node, D, G[root])
  BY DEF LinkInv
<1> HIDE DEF d
<1>6. PICK H : Firsts(node', H) /\ H[d + 1] = G[root]
  <2>1. ~node'[d + 1].is_leaf /\ node'[d + 1].vals[1] = root /\ root \in 1 .. d
    BY <1>2, <1>3, <1>4
  <2> QED
    BY <1>2, <1>4, <1>5, <2>1, FirstsMore DEF d
<1>7. PICK E : Linked(node', E, G[root])
  <2>1. PICK t : t = G[root]
    OBVIOUS
  <2>2. Linked(node, D, t)
    BY <1>5, <2>1
  <2>3. ~node'[d + 1].is_leaf
    BY <1>3, <1>4
  <2> QED
    BY <1>2, <1>4, <2>1, <2>2, <2>3, LinkedMore DEF d
<1>8. LinkInv(E, H)'
  BY <1>0, <1>6, <1>7 DEF LinkInv
<1> QED
  BY <1>8

\* Every step keeps the leaves linked from the leftmost one on.
LEMMA LinkStep ==
  ASSUME NEW h, ShapeInv(h), NEW D, NEW G, LinkInv(D, G), [Next]_vars
  PROVE  \E E, H : LinkInv(E, H)'
<1>1. ASSUME node' = node, root' = root PROVE \E E, H : LinkInv(E, H)'
  <2>1. LinkInv(D, G)'
    BY <1>1 DEF LinkInv
  <2> QED
    BY <2>1
<1>2. CASE \E c \in Calls[order] : Insert(c[1], c[2])
  BY <1>1, <1>2 DEF Insert
<1>3. CASE Descend
  BY <1>1, <1>3 DEF Descend
<1>4. CASE InsertLeaf
  BY <1>4, LinkInsertLeaf
<1>5. CASE InsertInternal
  BY <1>5, LinkInsertInternal
<1>6. CASE GrowRoot
  BY <1>6, LinkGrowRoot
<1>7. CASE Recreate
  <2>1. node' = <<Leaf(<<>>, <<>>, NULL)>> /\ root' = 1
    BY <1>7 DEF Recreate
  <2>2. Len(node') = 1 /\ node'[1].is_leaf /\ node'[1].next = NULL
    BY <2>1 DEF Leaf
  <2>3. PICK E, H : Firsts(node', H) /\ Linked(node', E, H[1])
    BY <2>2, LinkAlone
  <2>4. LinkInv(E, H)'
    BY <2>1, <2>3 DEF LinkInv
  <2> QED
    BY <2>4
<1>8. CASE UNCHANGED vars
  BY <1>1, <1>8 DEF vars
<1> QED
  BY <1>2, <1>3, <1>4, <1>5, <1>6, <1>7, <1>8 DEF Next

\* The tree in shape, with its ranges and its links.
InOrder ==
    \E h : /\ ShapeInv(h)
           /\ \E R, F, x : RangeInv(R, F, x)
           /\ \E D, G : LinkInv(D, G)

\* No step of bptree_insert loses the order of the ids or a link.
THEOREM OrderAlways == Spec => []InOrder
<1>1. Init => InOrder
  <2> SUFFICES ASSUME Init PROVE InOrder
    OBVIOUS
  <2>1. node = <<Leaf(<<>>, <<>>, NULL)>> /\ root = 1
    BY DEF Init
  <2>2. Len(node) = 1 /\ node[1].is_leaf /\ node[1].next = NULL
    BY <2>1 DEF Leaf
  <2>3. \E D, G : LinkInv(D, G)
    BY <2>1, <2>2, LinkAlone DEF LinkInv
  <2> QED
    BY <2>3, ShapeInit, RangeInit DEF InOrder
<1>2. InOrder /\ [Next]_vars => InOrder'
  <2> SUFFICES ASSUME InOrder, [Next]_vars PROVE InOrder'
    OBVIOUS
  <2>1. PICK h, R, F, x, D, G : ShapeInv(h) /\ RangeInv(R, F, x) /\ LinkInv(D, G)
    BY DEF InOrder
  <2>2. \E g : ShapeInv(g)'
    BY <2>1, ShapeStep
  <2>3. \E Q, H, y : RangeInv(Q, H, y)'
    BY <2>1, RangeStep
  <2>4. \E E, H : LinkInv(E, H)'
    BY <2>1, LinkStep
  <2> QED
    BY <2>2, <2>3, <2>4 DEF InOrder
<1> QED
  BY <1>1, <1>2, PTL DEF Spec

-----------------------------------------------------------------------------
(* Ways down and along                                                     *)

\* C gives every inner node one of its children.
IsWay(nd, C) ==
    \A n \in 1 .. Len(nd) : ~nd[n].is_leaf => \E i : ChildAt(nd, n, i, C[n])

\* f gives every node of S the leaf at which the way C ends.
Follows(nd, C, S, f) ==
    /\ f \in [S -> 1 .. Len(nd)]
    /\ \A n \in S : f[n] = IF nd[n].is_leaf THEN n ELSE f[C[n]]

\* The children are one level lower.
LEMMA WayDown ==
  ASSUME NEW nd, Made(nd), NEW h, NEW rt, Levels(nd, h, rt), NEW C, IsWay(nd, C),
         NEW n \in 1 .. Len(nd), ~nd[n].is_leaf
  PROVE  C[n] \in 1 .. Len(nd) /\ h[n] = h[C[n]] + 1 /\ h[C[n]] \in Nat
<1>1. PICK i : ChildAt(nd, n, i, C[n])
  BY DEF IsWay
<1>2. i \in 1 .. Len(nd[n].vals) /\ nd[n].vals[i] = C[n]
  BY <1>1 DEF ChildAt
<1>3. C[n] \in 1 .. Len(nd)
  BY <1>2 DEF Made, WellMade
<1>4. h[n] = h[C[n]] + 1
  BY <1>2 DEF Levels
<1> QED
  BY <1>3, <1>4 DEF Levels

\* Going down comes to an end whichever children are chosen: bptree_search
\* and bptree_range reach a leaf from every node.
LEMMA WayEnds ==
  ASSUME NEW nd, Made(nd), NEW h, NEW rt, rt \in 1 .. Len(nd), Levels(nd, h, rt),
         NEW C, IsWay(nd, C)
  PROVE  \E f : Follows(nd, C, 1 .. Len(nd), f)
<1> DEFINE d == Len(nd)
           Upto(k) == {n \in 1 .. d : h[n] <= k}
           bad == {k \in Nat : ~ \E f : Follows(nd, C, Upto(k), f)}
<1>0. /\ \A n \in 1 .. d : h[n] \in Nat /\ h[n] <= h[rt]
      /\ \A n \in 1 .. d : nd[n].is_leaf => h[n] = 0
      /\ h[rt] \in Nat
  BY DEF Levels
<1>1. \A n \in 1 .. d : ~nd[n].is_leaf =>
          C[n] \in 1 .. d /\ h[n] = h[C[n]] + 1 /\ h[C[n]] \in Nat
  BY WayDown
<1>2. bad = {}
  <2> SUFFICES ASSUME bad # {} PROVE FALSE
    OBVIOUS
  <2>1. bad \in SUBSET Nat
    OBVIOUS
  <2> HIDE DEF bad
  <2>2. PICK k \in bad : \A j \in bad : k <= j
    BY <2>1, LeastNatural
  <2>3. k \in Nat /\ ~ \E f : Follows(nd, C, Upto(k), f)
    BY DEF bad
  <2>4. CASE k = 0
    <3> DEFINE f == [n \in Upto(0) |-> n]
    <3>1. \A n \in Upto(0) : n \in 1 .. d /\ nd[n].is_leaf
      BY <1>0, <1>1
    <3>2. Follows(nd, C, Upto(0), f)
      BY <3>1 DEF Follows
    <3> QED
      BY <2>3, <2>4, <3>2
  <2>5. CASE k # 0
    <3>1. k - 1 \in Nat /\ ~(k <= k - 1)
      BY <2>3, <2>5
    <3>2. k - 1 \notin bad
      BY <2>2, <3>1
    <3>3. PICK g : Follows(nd, C, Upto(k - 1), g)
      BY <3>1, <3>2 DEF bad
    <3>4. /\ g \in [Upto(k - 1) -> 1 .. d]
          /\ \A n \in Upto(k - 1) : g[n] = IF nd[n].is_leaf THEN n ELSE g[C[n]]
      BY <3>3 DEF Follows
    <3> DEFINE f == [n \in Upto(k) |-> IF nd[n].is_leaf THEN n ELSE g[C[n]]]
    <3>5. \A n \in Upto(k) : ~nd[n].is_leaf => C[n] \in Upto(k - 1) /\ C[n] \in Upto(k)
      <4> SUFFICES ASSUME NEW n \in Upto(k), ~nd[n].is_leaf
                   PROVE  C[n] \in Upto(k - 1) /\ C[n] \in Upto(k)
        OBVIOUS
      <4>1. n \in 1 .. d /\ h[n] <= k
        OBVIOUS
      <4>2. C[n] \in 1 .. d /\ h[n] = h[C[n]] + 1 /\ h[C[n]] \in Nat
        BY <1>1, <4>1
      <4>3. h[C[n]] <= k - 1 /\ h[C[n]] <= k
        BY <2>3, <4>1, <4>2
      <4> QED
        BY <4>2, <4>3
    <3>6. f \in [Upto(k) -> 1 .. d]
      BY <3>4, <3>5
    <3>7. \A n \in Upto(k - 1) : n \in Upto(k) /\ f[n] = g[n]
      <4>1. \A n \in Upto(k - 1) : n \in Upto(k)
        <5>1. \A a \in Nat : a <= k - 1 => a <= k
          BY <2>3
        <5> QED
          BY <1>0, <5>1
      <4> QED
        BY <3>4, <4>1
    <3>8. ASSUME NEW n \in Upto(k) PROVE f[n] = IF nd[n].is_leaf THEN n ELSE f[C[n]]
      <4>1. f[n] = IF nd[n].is_leaf THEN n ELSE g[C[n]]
        OBVIOUS
      <4>2. ~nd[n].is_leaf => f[C[n]] = g[C[n]]
        BY <3>5, <3>7
      <4> HIDE DEF f
      <4> QED
        BY <4>1, <4>2
    <3> HIDE DEF f, Upto
    <3>9. Follows(nd, C, Upto(k), f)
      BY <3>6, <3>8 DEF Follows
    <3> QED
      BY <2>3, <3>9
  <2> QED
    BY <2>4, <2>5
<1>3. h[rt] \notin bad /\ h[rt] \in Nat
  BY <1>0, <1>2
<1>4. Upto(h[rt]) = 1 .. d
  BY <1>0
<1> QED
  BY <1>3, <1>4

\* A leaf that a rule for the nodes leads to obeys the rule: what holds of
\* a node and passes on to the child taken holds of the leaf.
LEMMA WayKeeps ==
  ASSUME NEW nd, Made(nd), NEW h, NEW rt, Levels(nd, h, rt), NEW C, IsWay(nd, C),
         NEW f, \A n \in 1 .. Len(nd) : f[n] = IF nd[n].is_leaf THEN n ELSE f[C[n]],
         NEW S, S \subseteq 1 .. Len(nd), \A n \in S : ~nd[n].is_leaf => C[n] \in S
  PROVE  \A n \in S : f[n] \in S /\ nd[f[n]].is_leaf
<1> DEFINE bad == {k \in Nat : \E n \in S : h[n] = k /\ ~(f[n] \in S /\ nd[f[n]].is_leaf)}
<1>0. \A n \in 1 .. Len(nd) : h[n] \in Nat
  BY DEF Levels
<1>1. bad = {}
  <2> SUFFICES ASSUME bad # {} PROVE FALSE
    OBVIOUS
  <2>1. bad \in SUBSET Nat
    OBVIOUS
  <2> HIDE DEF bad
  <2>2. PICK k \in bad : \A j \in bad : k <= j
    BY <2>1, LeastNatural
  <2>3. PICK n \in S : h[n] = k /\ ~(f[n] \in S /\ nd[f[n]].is_leaf) /\ k \in Nat
    BY DEF bad
  <2>4. n \in 1 .. Len(nd) /\ ~nd[n].is_leaf
    BY <2>3
  <2>5. C[n] \in 1 .. Len(nd) /\ h[n] = h[C[n]] + 1 /\ h[C[n]] \in Nat
    BY <2>4, WayDown
  <2>6. f[n] = f[C[n]] /\ C[n] \in S
    BY <2>4
  <2>7. h[C[n]] \in bad
    BY <2>3, <2>5, <2>6 DEF bad
  <2> QED
    BY <2>2, <2>3, <2>5, <2>7
<1> QED
  BY <1>0, <1>1

\* There is one way down.
LEMMA WayIs ==
  ASSUME NEW nd, Made(nd), NEW h, NEW rt, Levels(nd, h, rt), NEW C, IsWay(nd, C),
         NEW f, \A n \in 1 .. Len(nd) : f[n] = IF nd[n].is_leaf THEN n ELSE f[C[n]],
         NEW g, \A n \in 1 .. Len(nd) : g[n] = IF nd[n].is_leaf THEN n ELSE g[C[n]]
  PROVE  \A n \in 1 .. Len(nd) : f[n] = g[n]
<1> DEFINE bad == {k \in Nat : \E n \in 1 .. Len(nd) : h[n] = k /\ f[n] # g[n]}
<1>0. \A n \in 1 .. Len(nd) : h[n] \in Nat
  BY DEF Levels
<1>1. bad = {}
  <2> SUFFICES ASSUME bad # {} PROVE FALSE
    OBVIOUS
  <2>1. bad \in SUBSET Nat
    OBVIOUS
  <2> HIDE DEF bad
  <2>2. PICK k \in bad : \A j \in bad : k <= j
    BY <2>1, LeastNatural
  <2>3. PICK n \in 1 .. Len(nd) : h[n] = k /\ f[n] # g[n] /\ k \in Nat
    BY DEF bad
  <2>4. ~nd[n].is_leaf
    BY <2>3
  <2>5. C[n] \in 1 .. Len(nd) /\ h[n] = h[C[n]] + 1 /\ h[C[n]] \in Nat
    BY <2>4, WayDown
  <2>6. f[n] = f[C[n]] /\ g[n] = g[C[n]]
    BY <2>4
  <2>7. h[C[n]] \in bad
    BY <2>3, <2>5, <2>6 DEF bad
  <2> QED
    BY <2>2, <2>3, <2>5, <2>7
<1> QED
  BY <1>0, <1>1

\* The walk along the next links from t meets every leaf.
LEMMA AlongIs ==
  ASSUME NEW nd, Made(nd), NEW D, NEW t, Linked(nd, D, t),
         NEW f, f = CHOOSE g : g = [n \in {NULL} \cup DOMAIN nd |->
                                       IF n = NULL THEN {} ELSE {n} \cup g[nd[n].next]]
  PROVE  f[t] = {n \in 1 .. Len(nd) : nd[n].is_leaf}
<1> DEFINE Is(g) == g = [n \in {NULL} \cup DOMAIN nd |->
                            IF n = NULL THEN {} ELSE {n} \cup g[nd[n].next]]
           Upto(n) == {m \in 1 .. Len(nd) : nd[m].is_leaf /\ D[m] <= D[n]}
           K == [n \in {NULL} \cup DOMAIN nd |->
                    IF n = NULL THEN {} ELSE IF nd[n].is_leaf THEN Upto(n) ELSE {n}]
<1>0. /\ DOMAIN nd = 1 .. Len(nd) /\ Len(nd) \in Nat /\ NULL \notin DOMAIN nd
      /\ \A n \in 1 .. Len(nd) : D[n] \in Nat
      /\ t \in 1 .. Len(nd) /\ nd[t].is_leaf
      /\ \A m, n \in 1 .. Len(nd) : nd[m].is_leaf /\ nd[n].is_leaf /\ D[m] = D[n] => m = n
  BY DEF Made, Linked, NULL
<1>1. \A n \in 1 .. Len(nd) : nd[n].is_leaf =>
          /\ D[n] <= D[t]
          /\ nd[n].next = NULL => D[n] = 0
          /\ nd[n].next # NULL => /\ nd[n].next \in 1 .. Len(nd)
                                  /\ nd[nd[n].next].is_leaf
                                  /\ D[n] = D[nd[n].next] + 1
  BY DEF Linked
<1>2. \A n \in 1 .. Len(nd) : ~nd[n].is_leaf => nd[n].next = NULL
  BY DEF Made, WellMade
<1>3. ASSUME NEW n \in 1 .. Len(nd), nd[n].is_leaf, nd[n].next = NULL PROVE Upto(n) = {n}
  <2>1. D[n] = 0
    BY <1>1, <1>3
  <2>2. \A m \in 1 .. Len(nd) : nd[m].is_leaf /\ D[m] <= D[n] => m = n
    <3>1. \A a \in Nat : a <= 0 => a = 0
      OBVIOUS
    <3> QED
      BY <1>0, <1>3, <2>1, <3>1
  <2>3. D[n] <= D[n]
    BY <1>0
  <2> QED
    BY <1>3, <2>2, <2>3
<1>4. ASSUME NEW n \in 1 .. Len(nd), nd[n].is_leaf, NEW c \in 1 .. Len(nd), nd[c].is_leaf,
             D[n] = D[c] + 1
      PROVE  Upto(n) = {n} \cup Upto(c)
  <2>1. \A m \in 1 .. Len(nd) : nd[m].is_leaf =>
            (D[m] <= D[n] <=> m = n \/ D[m] <= D[c])
    <3> SUFFICES ASSUME NEW m \in 1 .. Len(nd), nd[m].is_leaf
                 PROVE  D[m] <= D[n] <=> m = n \/ D[m] <= D[c]
      OBVIOUS
    <3>1. D[m] \in Nat /\ D[n] \in Nat /\ D[c] \in Nat
      BY <1>0
    <3>2. D[m] <= D[n] <=> D[m] = D[n] \/ D[m] <= D[c]
      BY <1>4, <3>1
    <3>3. D[m] = D[n] <=> m = n
      BY <1>0, <1>4
    <3> QED
      BY <3>2, <3>3
  <2> QED
    BY <1>4, <2>1
<1>5. Is(K)
  <2>1. ASSUME NEW n \in {NULL} \cup DOMAIN nd
        PROVE  K[n] = IF n = NULL THEN {} ELSE {n} \cup K[nd[n].next]
    <3>1. CASE n = NULL
      BY <3>1
    <3>2. CASE n \in DOMAIN nd /\ ~nd[n].is_leaf
      <4>1. K[n] = {n} /\ K[NULL] = {} /\ n # NULL /\ nd[n].next = NULL
        BY <1>0, <1>2, <3>2
      <4> HIDE DEF K
      <4> QED
        BY <4>1
    <3>3. CASE n \in DOMAIN nd /\ nd[n].is_leaf
      <4>1. K[n] = Upto(n) /\ n # NULL /\ K[NULL] = {}
        BY <1>0, <3>3
      <4>2. CASE nd[n].next = NULL
        <5>1. Upto(n) = {n}
          BY <1>0, <1>3, <3>3, <4>2
        <5> HIDE DEF K, Upto
        <5> QED
          BY <4>1, <4>2, <5>1
      <4>3. CASE nd[n].next # NULL
        <5>1. PICK c : c = nd[n].next
          OBVIOUS
        <5>2. c \in 1 .. Len(nd) /\ nd[c].is_leaf /\ D[n] = D[c] + 1 /\ c # NULL
          BY <1>0, <1>1, <3>3, <4>3, <5>1
        <5>3. Upto(n) = {n} \cup Upto(c)
          BY SMTT(40), <1>0, <1>4, <3>3, <5>2
        <5>4. K[c] = Upto(c)
          BY <1>0, <5>2
        <5> HIDE DEF K, Upto
        <5> QED
          BY <4>1, <5>1, <5>3, <5>4
      <4> QED
        BY <4>2, <4>3
    <3> QED
      BY <3>1, <3>2, <3>3
  <2>2. K = [n \in {NULL} \cup DOMAIN nd |-> K[n]]
    OBVIOUS
  <2> HIDE DEF K
  <2> QED
    BY <2>1, <2>2
<1>6. Is(f)
  <2>1. f = CHOOSE g : Is(g)
    BY Zenon
  <2> HIDE DEF Is, K
  <2> QED
    BY <1>5, <2>1, Zenon
<1>7. /\ f[NULL] = {}
      /\ \A n \in 1 .. Len(nd) : f[n] = {n} \cup f[nd[n].next]
  BY <1>0, <1>6
<1> DEFINE bad == {k \in Nat : \E n \in 1 .. Len(nd) :
                                   nd[n].is_leaf /\ D[n] = k /\ f[n] # Upto(n)}
<1>8. bad = {}
  <2> SUFFICES ASSUME bad # {} PROVE FALSE
    OBVIOUS
  <2>1. bad \in SUBSET Nat
    OBVIOUS
  <2> HIDE DEF bad
  <2>2. PICK k \in bad : \A j \in bad : k <= j
    BY <2>1, LeastNatural
  <2>3. PICK n \in 1 .. Len(nd) : nd[n].is_leaf /\ D[n] = k /\ f[n] # Upto(n) /\ k \in Nat
    BY DEF bad
  <2> HIDE DEF Upto, Is, K
  <2>4. nd[n].next # NULL
    <3> SUFFICES ASSUME nd[n].next = NULL PROVE FALSE
      OBVIOUS
    <3>1. Upto(n) = {n}
      BY <1>3, <2>3
    <3>2. f[n] = {n} \cup f[NULL]
      BY <1>7, Zenon
    <3>3. f[n] = {n}
      BY <1>7, <3>2
    <3> QED
      BY <2>3, <3>1, <3>3
  <2>5. PICK c : c = nd[n].next
    OBVIOUS
  <2>6. c \in 1 .. Len(nd) /\ nd[c].is_leaf /\ D[n] = D[c] + 1 /\ D[c] \in Nat
    BY <1>0, <1>1, <2>3, <2>4, <2>5
  <2>7. f[n] = {n} \cup f[c] /\ Upto(n) = {n} \cup Upto(c)
    BY <1>4, <1>7, <2>3, <2>5, <2>6
  <2>8. f[c] # Upto(c)
    BY <2>3, <2>7
  <2>9. D[c] \in bad
    BY <2>6, <2>8 DEF bad
  <2> QED
    BY <2>2, <2>3, <2>6, <2>9
<1>9. f[t] = Upto(t)
  <2>1. D[t] \in Nat
    BY <1>0
  <2> HIDE DEF Upto, Is, K
  <2> QED
    BY <1>0, <1>8, <2>1
<1>10. Upto(t) = {n \in 1 .. Len(nd) : nd[n].is_leaf}
  BY <1>1
<1> QED
  BY <1>9, <1>10

\* The chain of leaves is all leaves.
LEMMA ChainIs ==
  ASSUME NEW h, ShapeInv(h), NEW D, NEW G, LinkInv(D, G)
  PROVE  Chain = {n \in 1 .. Len(node) : node[n].is_leaf}
<1>0. /\ Made(node) /\ DOMAIN node = 1 .. Len(node) /\ Levels(node, h, root)
      /\ root \in 1 .. Len(node) /\ Len(node) \in Nat
  BY DEF ShapeInv, TreeInv, Made
<1>1. /\ G \in [1 .. Len(node) -> 1 .. Len(node)]
      /\ \A n \in 1 .. Len(node) : /\ node[n].is_leaf => G[n] = n
                                   /\ ~node[n].is_leaf => G[n] = G[node[n].vals[1]]
      /\ Linked(node, D, G[root])
  BY DEF LinkInv, Firsts
<1> DEFINE Is(g) == g = [n \in DOMAIN node |->
                            IF node[n].is_leaf THEN n ELSE g[node[n].vals[1]]]
<1>2. PICK f : f = CHOOSE g : Is(g)
  OBVIOUS
<1>3. Is(G)
  BY <1>0, <1>1
<1>4. Is(f)
  <2> HIDE DEF Is
  <2> QED
    BY <1>2, <1>3, Zenon
<1>5. PICK C : C = [n \in 1 .. Len(node) |-> node[n].vals[1]]
  OBVIOUS
<1>6. IsWay(node, C)
  <2> SUFFICES ASSUME NEW n \in 1 .. Len(node), ~node[n].is_leaf
               PROVE  ChildAt(node, n, 1, C[n])
    BY DEF IsWay
  <2>1. WellMade(node[n], Len(node))
    BY <1>0 DEF Made
  <2>2. Len(node[n].vals) = Len(node[n].keys) + 1 /\ Len(node[n].keys) \in Nat
    BY <1>0, <2>1, MadeFields DEF WellMade
  <2>3. 1 \in 1 .. Len(node[n].vals)
    BY <2>2
  <2> QED
    BY <1>5, <2>3 DEF ChildAt
<1>7. \A n \in 1 .. Len(node) : f[n] = IF node[n].is_leaf THEN n ELSE f[C[n]]
  BY <1>0, <1>4, <1>5
<1>8. \A n \in 1 .. Len(node) : G[n] = IF node[n].is_leaf THEN n ELSE G[C[n]]
  BY <1>1, <1>5
<1>9. f[root] = G[root]
  BY <1>0, <1>6, <1>7, <1>8, WayIs
<1>10. PICK g : g = CHOOSE e : e = [n \in {NULL} \cup DOMAIN node |->
                                       IF n = NULL THEN {} ELSE {n} \cup e[node[n].next]]
  OBVIOUS
<1>11. g[G[root]] = {n \in 1 .. Len(node) : node[n].is_leaf}
  <2>1. PICK t : t = G[root]
    OBVIOUS
  <2>2. Linked(node, D, t)
    BY <1>1, <2>1
  <2> QED
    BY <1>0, <1>10, <2>1, <2>2, AlongIs
<1>12. Chain = g[f[root]]
  BY <1>2, <1>10, Zenon DEF Chain
<1> QED
  BY <1>9, <1>11, <1>12

-----------------------------------------------------------------------------
(* The map of the leaves                                                   *)

\* A leaf of nd has row for id.
Holds(nd, id, row) ==
    \E n \in 1 .. Len(nd) :
        /\ nd[n].is_leaf
        /\ \E i \in 1 .. Len(nd[n].keys) : nd[n].keys[i] = id /\ nd[n].vals[i] = row

\* c is the map of what the leaves hold.
IsMap(c, nd) ==
    /\ c = [id \in DOMAIN c |-> c[id]]
    /\ \A id, row : Holds(nd, id, row) => id \in DOMAIN c /\ c[id] = row
    /\ \A id \in DOMAIN c : Holds(nd, id, c[id])

\* No id is in two places.
LEMMA OnePlace ==
  ASSUME NEW nd, NEW R, NEW F, Ranged(nd, R, F), Made(nd),
         NEW m \in 1 .. Len(nd), NEW n \in 1 .. Len(nd), nd[m].is_leaf, nd[n].is_leaf,
         NEW i \in 1 .. Len(nd[m].keys), NEW j \in 1 .. Len(nd[n].keys),
         nd[m].keys[i] = nd[n].keys[j]
  PROVE  m = n /\ i = j
<1>0. Len(nd) \in Nat
  BY DEF Made
<1>1. nd[m].keys[i] \in R[m] /\ nd[n].keys[j] \in R[n]
  BY DEF Ranged
<1>2. m = n
  BY <1>1 DEF Ranged
<1>3. WellMade(nd[m], Len(nd)) /\ StrictlyUp(nd[m].keys)
  BY DEF Made, Ranged
<1>4. Len(nd[m].keys) \in Nat /\ \A k \in 1 .. Len(nd[m].keys) : nd[m].keys[k] \in Int
  BY <1>0, <1>3, MadeFields
<1>5. ~(i < j) /\ ~(j < i)
  <2>1. i \in 1 .. Len(nd[m].keys) /\ j \in 1 .. Len(nd[m].keys) /\ nd[m].keys[i] = nd[m].keys[j]
    BY <1>2
  <2>2. \A a \in Int : ~(a < a)
    OBVIOUS
  <2> QED
    BY <1>3, <1>4, <2>1, <2>2 DEF StrictlyUp
<1>6. i \in Int /\ j \in Int
  OBVIOUS
<1> QED
  BY <1>2, <1>5, <1>6

\* An id has one row in the leaves: they are disjoint, and their keys distinct.
LEMMA HoldsOnce ==
  ASSUME NEW nd, NEW R, NEW F, Ranged(nd, R, F), Made(nd),
         NEW id, NEW r, NEW s, Holds(nd, id, r), Holds(nd, id, s)
  PROVE  r = s
<1>1. PICK m \in 1 .. Len(nd) : nd[m].is_leaf /\
              \E i \in 1 .. Len(nd[m].keys) : nd[m].keys[i] = id /\ nd[m].vals[i] = r
  BY DEF Holds
<1>2. PICK i \in 1 .. Len(nd[m].keys) : nd[m].keys[i] = id /\ nd[m].vals[i] = r
  BY <1>1
<1>3. PICK n \in 1 .. Len(nd) : nd[n].is_leaf /\
              \E j \in 1 .. Len(nd[n].keys) : nd[n].keys[j] = id /\ nd[n].vals[j] = s
  BY DEF Holds
<1>4. PICK j \in 1 .. Len(nd[n].keys) : nd[n].keys[j] = id /\ nd[n].vals[j] = s
  BY <1>3
<1>5. nd[m].keys[i] = nd[n].keys[j]
  BY <1>2, <1>4
<1>6. m = n /\ i = j
  BY <1>1, <1>3, <1>5, OnePlace
<1> QED
  BY <1>2, <1>4, <1>6

\* Contents, which the chain is read for, is the map of all leaves.
LEMMA ContentsIs ==
  ASSUME NEW h, ShapeInv(h), NEW R, NEW F, NEW x, RangeInv(R, F, x),
         NEW D, NEW G, LinkInv(D, G)
  PROVE  IsMap(Contents, node)
<1>0. /\ Made(node) /\ Ranged(node, R, F) /\ Len(node) \in Nat
  BY DEF ShapeInv, TreeInv, RangeInv, Made
<1>1. Chain = {n \in 1 .. Len(node) : node[n].is_leaf}
  BY ChainIs
<1>2. \A n \in 1 .. Len(node) : DOMAIN node[n].keys = 1 .. Len(node[n].keys)
  BY <1>0, MadeFields DEF Made
<1>3. ASSUME NEW id, NEW row PROVE <<id, row>> \in Entries <=> Holds(node, id, row)
  BY SMTT(40), <1>1, <1>2 DEF Entries, Holds
<1>4. \A e \in Entries : e = <<e[1], e[2]>>
  BY DEF Entries
<1> DEFINE S == {e[1] : e \in Entries}
<1>5. Contents = [id \in S |-> (CHOOSE e \in Entries : e[1] = id)[2]]
  BY DEF Contents
<1>6. DOMAIN Contents = S /\ Contents = [id \in DOMAIN Contents |-> Contents[id]]
  BY <1>5
<1>7. \A id \in S : Holds(node, id, Contents[id])
  <2> SUFFICES ASSUME NEW id \in S PROVE Holds(node, id, Contents[id])
    OBVIOUS
  <2>1. Contents[id] = (CHOOSE e \in Entries : e[1] = id)[2]
    BY <1>5
  <2>2. PICK e : e = CHOOSE g \in Entries : g[1] = id
    OBVIOUS
  <2>3. e \in Entries /\ e[1] = id
    BY <2>2
  <2>4. <<id, e[2]>> \in Entries
    BY <1>4, <2>3
  <2> QED
    BY <1>3, <2>1, <2>2, <2>4
<1>8. ASSUME NEW id, NEW row, Holds(node, id, row)
      PROVE  id \in S /\ Contents[id] = row
  <2>1. <<id, row>> \in Entries
    BY <1>3, <1>8
  <2>2. id \in S
    BY <2>1
  <2> QED
    BY <1>0, <1>7, <1>8, <2>2, HoldsOnce
<1> QED
  BY <1>6, <1>7, <1>8 DEF IsMap

\* bptree_search comes to the leaf whose range has the id.
LEMMA LeafOfIs ==
  ASSUME NEW h, ShapeInv(h), NEW R, NEW F, NEW x, RangeInv(R, F, x), pc = "idle",
         NEW id \in Int
  PROVE  /\ LeafOf(id) \in 1 .. Len(node) /\ node[LeafOf(id)].is_leaf
         /\ id \in R[LeafOf(id)]
<1>0. /\ Made(node) /\ DOMAIN node = 1 .. Len(node) /\ Levels(node, h, root)
      /\ root \in 1 .. Len(node) /\ Len(node) \in Nat
  BY DEF ShapeInv, TreeInv, Made
<1>1. Ranged(node, R, F) /\ F[root] = Int /\ \A c \in 1 .. Len(node) : F[c] = R[c]
  BY DEF RangeInv
<1>2. /\ Ranged(node, R, R) /\ R[root] = Int
  BY <1>0, <1>1, RangedAgain
<1>3. PICK C : C = [n \in 1 .. Len(node) |-> node[n].vals[ChildIdx(node[n], id)]]
  OBVIOUS
<1>4. ASSUME NEW n \in 1 .. Len(node), ~node[n].is_leaf
      PROVE  \E i : ChildAt(node, n, i, C[n]) /\ IsChild(node[n].keys, id, i)
  <2>0. WellMade(node[n], Len(node))
    BY <1>0 DEF Made
  <2>1. node[n].keys \in Seq(Int) /\ Len(node[n].vals) = Len(node[n].keys) + 1
    BY <1>0, <1>4, <2>0, MadeFields DEF WellMade
  <2>2. PICK i : i = ChildIdx(node[n], id)
    OBVIOUS
  <2>3. i \in 1 .. Len(node[n].keys) + 1 /\ IsChild(node[n].keys, id, i)
    BY <2>1, <2>2, ChildIdxFacts, Zenon
  <2>4. i \in 1 .. Len(node[n].vals) /\ C[n] = node[n].vals[i]
    BY <1>3, <2>1, <2>2, <2>3, Zenon
  <2> QED
    BY <1>4, <2>3, <2>4 DEF ChildAt
<1>5. IsWay(node, C)
  BY <1>4 DEF IsWay
<1> DEFINE Is(g) == g = [n \in DOMAIN node |->
               IF node[n].is_leaf THEN n ELSE g[node[n].vals[ChildIdx(node[n], id)]]]
<1>6. PICK g : Follows(node, C, 1 .. Len(node), g)
  BY <1>0, <1>5, WayEnds
<1>7. Is(g)
  <2>1. /\ g = [n \in DOMAIN node |-> g[n]]
        /\ \A n \in DOMAIN node : g[n] = IF node[n].is_leaf THEN n ELSE g[C[n]]
    BY <1>0, <1>6 DEF Follows
  <2>2. \A n \in DOMAIN node : C[n] = node[n].vals[ChildIdx(node[n], id)]
    BY <1>0, <1>3
  <2> QED
    BY <2>1, <2>2
<1>8. PICK f : f = CHOOSE e : Is(e)
  OBVIOUS
<1>9. Is(f)
  <2> HIDE DEF Is
  <2> QED
    BY <1>7, <1>8, Zenon
<1>10. \A n \in 1 .. Len(node) : f[n] = IF node[n].is_leaf THEN n ELSE f[C[n]]
  BY <1>0, <1>3, <1>9
<1>11. LeafOf(id) = f[root]
  BY <1>8, Zenon DEF LeafOf
<1> HIDE DEF Is
<1>12. PICK S : S = {n \in 1 .. Len(node) : id \in R[n]}
  OBVIOUS
<1>13. ASSUME NEW n \in S, ~node[n].is_leaf PROVE C[n] \in S
  <2>1. n \in 1 .. Len(node) /\ id \in R[n]
    BY <1>12
  <2>2. PICK i : ChildAt(node, n, i, C[n]) /\ IsChild(node[n].keys, id, i)
    BY <1>4, <1>13, <2>1
  <2>3. \A p, k, c, z : ChildAt(node, p, k, c) =>
            (z \in R[c] <=> z \in R[p] /\ IsChild(node[p].keys, z, k))
    BY <1>2 DEF Ranged
  <2>4. id \in R[C[n]]
    BY <2>1, <2>2, <2>3
  <2>5. C[n] \in 1 .. Len(node)
    BY <1>0, <1>5, <1>13, <2>1, WayDown
  <2> QED
    BY <1>12, <2>4, <2>5
<1>14. root \in S /\ S \subseteq 1 .. Len(node)
  BY <1>0, <1>2, <1>12
<1>15. f[root] \in S /\ node[f[root]].is_leaf
  BY <1>0, <1>5, <1>10, <1>13, <1>14, WayKeeps
<1> QED
  BY <1>11, <1>12, <1>15

\* bptree_search finds the row of every id that is in the tree and of no
\* other, whatever inserts and splits there were.
THEOREM SearchesAreExact == Spec => []SearchExact
<1>1. ASSUME InOrder PROVE SearchExact
  <2>1. PICK h, R, F, x, D, G : ShapeInv(h) /\ RangeInv(R, F, x) /\ LinkInv(D, G)
    BY <1>1 DEF InOrder
  <2> SUFFICES ASSUME pc = "idle", NEW id \in Ids
               PROVE  Search(id) = IF id \in DOMAIN Contents THEN Contents[id] ELSE -1
    BY DEF SearchExact
  <2>2. id \in Int
    BY Constants
  <2>3. PICK m : m = LeafOf(id)
    OBVIOUS
  <2>4. m \in 1 .. Len(node) /\ node[m].is_leaf /\ id \in R[m]
    BY <2>1, <2>2, <2>3, LeafOfIs
  <2>5. IsMap(Contents, node)
    BY <2>1, ContentsIs
  <2>6. Made(node) /\ Ranged(node, R, F) /\ Len(node) \in Nat
    BY <2>1 DEF ShapeInv, TreeInv, RangeInv, Made
  <2>7. DOMAIN node[m].keys = 1 .. Len(node[m].keys)
    BY <2>4, <2>6, MadeFields DEF Made
  <2>8. PICK hits : hits = {i \in DOMAIN node[m].keys : node[m].keys[i] = id}
    OBVIOUS
  <2>9. Search(id) = IF hits = {} THEN -1
                     ELSE node[m].vals[CHOOSE i \in hits : \A j \in hits : i <= j]
    BY <2>3, <2>8 DEF Search
  <2>10. CASE hits = {}
    <3>1. ASSUME NEW row, Holds(node, id, row) PROVE FALSE
      <4>1. PICK n \in 1 .. Len(node) : node[n].is_leaf /\
                \E i \in 1 .. Len(node[n].keys) : node[n].keys[i] = id
        BY <3>1 DEF Holds
      <4>2. id \in R[n]
        BY <2>6, <4>1 DEF Ranged
      <4>3. n = m
        BY <2>4, <2>6, <4>1, <4>2 DEF Ranged
      <4> QED
        BY <2>7, <2>8, <2>10, <4>1, <4>3
    <3>2. id \notin DOMAIN Contents
      BY <2>5, <3>1 DEF IsMap
    <3> QED
      BY <2>9, <2>10, <3>2
  <2>11. CASE hits # {}
    <3>1. PICK i : i \in hits
      BY <2>11
    <3>2. i \in 1 .. Len(node[m].keys) /\ node[m].keys[i] = id
      BY <2>7, <2>8, <3>1
    <3>3. \A j \in hits : j = i
      BY <2>4, <2>6, <2>7, <2>8, <3>2, OnePlace
    <3>4. i <= i
      BY <3>2
    <3>5. (CHOOSE k \in hits : \A j \in hits : k <= j) = i
      BY <3>1, <3>3, <3>4
    <3>6. Holds(node, id, node[m].vals[i])
      BY <2>4, <3>2 DEF Holds
    <3>7. id \in DOMAIN Contents /\ Contents[id] = node[m].vals[i]
      BY <2>5, <3>6 DEF IsMap
    <3> QED
      BY <2>9, <2>11, <3>5, <3>7
  <2> QED
    BY <2>10, <2>11
<1> QED
  BY <1>1, OrderAlways, PTL

-----------------------------------------------------------------------------
(* The tree serves the map of IdIndex                                      *)

\* Trees that hold the same have the same map.
LEMMA MapSame ==
  ASSUME NEW nd, NEW md, NEW c, IsMap(c, nd), NEW e, IsMap(e, md),
         \A id, row : Holds(md, id, row) <=> Holds(nd, id, row)
  PROVE  e = c
<1>1. DOMAIN e = DOMAIN c /\ \A id \in DOMAIN c : e[id] = c[id]
  BY DEF IsMap
<1>2. c = [id \in DOMAIN c |-> c[id]] /\ e = [id \in DOMAIN e |-> e[id]]
  BY DEF IsMap
<1> QED
  BY <1>1, <1>2

\* Among the entries of nd that of x becomes y.
Puts(md, nd, x, y) ==
    \A id, row : Holds(md, id, row) <=>
                     (id = x /\ row = y) \/ (id # x /\ Holds(nd, id, row))

\* Map e is map c with y for x.
IsPut(e, c, x, y) == e = [i \in DOMAIN c \cup {x} |-> IF i = x THEN y ELSE c[i]]

\* The map of a tree in which one entry is put.
LEMMA MapPut ==
  ASSUME NEW nd, NEW md, NEW c, IsMap(c, nd), NEW e, IsMap(e, md),
         NEW x, NEW y, Puts(md, nd, x, y)
  PROVE  IsPut(e, c, x, y)
<1>1. DOMAIN e = DOMAIN c \cup {x}
  <2>1. \A id : id \in DOMAIN e <=> \E row : Holds(md, id, row)
    BY DEF IsMap
  <2>2. \A id : id \in DOMAIN c <=> \E row : Holds(nd, id, row)
    BY DEF IsMap
  <2>3. \A id : (\E row : Holds(md, id, row)) <=> id = x \/ \E row : Holds(nd, id, row)
    BY DEF Puts
  <2> QED
    BY <2>1, <2>2, <2>3
<1>2. \A i \in DOMAIN e : e[i] = IF i = x THEN y ELSE c[i]
  <2> SUFFICES ASSUME NEW i \in DOMAIN e PROVE e[i] = IF i = x THEN y ELSE c[i]
    OBVIOUS
  <2>1. Holds(md, i, e[i])
    BY DEF IsMap
  <2>2. CASE i = x
    BY <2>1, <2>2 DEF Puts
  <2>3. CASE i # x
    <3>1. Holds(nd, i, e[i])
      BY <2>1, <2>3 DEF Puts
    <3> QED
      BY <2>3, <3>1 DEF IsMap
  <2> QED
    BY <2>2, <2>3
<1>3. e = [id \in DOMAIN e |-> e[id]]
  BY DEF IsMap
<1> QED
  BY <1>1, <1>2, <1>3 DEF IsPut

\* bptree_create: the map of one empty leaf is empty.
LEMMA MapEmpty ==
  ASSUME NEW nd, NEW c, IsMap(c, nd), Len(nd) = 1, nd[1].keys = <<>>
  PROVE  c = [i \in {} |-> 0]
<1>1. 1 .. 1 = {1} /\ Len(<<>>) = 0 /\ 1 .. 0 = {}
  OBVIOUS
<1>2. \A id, row : ~Holds(nd, id, row)
  BY <1>1 DEF Holds
<1>3. DOMAIN c = {} /\ c = [i \in DOMAIN c |-> c[i]]
  BY <1>2 DEF IsMap
<1> QED
  BY <1>3

\* md has the leaves of nd, and an inner node more or none.
SameLeaves(md, nd) ==
    /\ Len(nd) \in Nat
    /\ Len(md) = Len(nd) \/ (Len(md) = Len(nd) + 1 /\ ~md[Len(nd) + 1].is_leaf)
    /\ \A n \in 1 .. Len(nd) : /\ md[n].is_leaf <=> nd[n].is_leaf
                               /\ nd[n].is_leaf => md[n] = nd[n]

\* What happens above the leaves changes no entry.
LEMMA HoldsSame ==
  ASSUME NEW nd, NEW md, SameLeaves(md, nd)
  PROVE  \A id, row : Holds(md, id, row) <=> Holds(nd, id, row)
<1>0. /\ Len(nd) \in Nat
      /\ \A n \in 1 .. Len(nd) : /\ md[n].is_leaf <=> nd[n].is_leaf
                                 /\ nd[n].is_leaf => md[n] = nd[n]
      /\ Len(md) = Len(nd) \/ (Len(md) = Len(nd) + 1 /\ ~md[Len(nd) + 1].is_leaf)
  BY DEF SameLeaves
<1>1. \A n \in 1 .. Len(md) : md[n].is_leaf => n \in 1 .. Len(nd)
  <2>1. CASE Len(md) = Len(nd)
    BY <2>1
  <2>2. CASE Len(md) = Len(nd) + 1 /\ ~md[Len(nd) + 1].is_leaf
    <3>1. \A n \in 1 .. Len(nd) + 1 : n \in 1 .. Len(nd) \/ n = Len(nd) + 1
      BY <1>0
    <3> QED
      BY <2>2, <3>1
  <2> QED
    BY <1>0, <2>1, <2>2
<1>2. \A n \in 1 .. Len(nd) : n \in 1 .. Len(md)
  BY <1>0
<1>3. ASSUME NEW id, NEW row, Holds(md, id, row) PROVE Holds(nd, id, row)
  <2>1. PICK n \in 1 .. Len(md) : md[n].is_leaf /\
            \E i \in 1 .. Len(md[n].keys) : md[n].keys[i] = id /\ md[n].vals[i] = row
    BY <1>3 DEF Holds
  <2>2. n \in 1 .. Len(nd) /\ nd[n].is_leaf /\ md[n] = nd[n]
    BY <1>0, <1>1, <2>1, Zenon
  <2> QED
    BY <2>1, <2>2 DEF Holds
<1>4. ASSUME NEW id, NEW row, Holds(nd, id, row) PROVE Holds(md, id, row)
  <2>1. PICK n \in 1 .. Len(nd) : nd[n].is_leaf /\
            \E i \in 1 .. Len(nd[n].keys) : nd[n].keys[i] = id /\ nd[n].vals[i] = row
    BY <1>4 DEF Holds
  <2>2. n \in 1 .. Len(md) /\ md[n].is_leaf /\ md[n] = nd[n]
    BY <1>0, <1>2, <2>1, Zenon
  <2> QED
    BY <2>1, <2>2 DEF Holds
<1> QED
  BY <1>3, <1>4

\* A leaf that takes an entry: leaf_insert_sorted in terms of the map.
LEMMA HoldsEntry ==
  ASSUME NEW nd, Made(nd), NEW R, NEW F, Ranged(nd, R, F),
         NEW p \in 1 .. Len(nd), nd[p].is_leaf, NEW x, x \in R[p], NEW y,
         NEW n, EntryPut(n, nd[p], x, y, Len(nd)), NEW md, Replaced(md, nd, p, n)
  PROVE  Puts(md, nd, x, y)
<1>0. /\ Len(md) = Len(nd) /\ md[p] = n /\ Len(nd) \in Nat
      /\ \A q \in 1 .. Len(nd) : q # p => md[q] = nd[q]
  BY DEF Replaced, Made
<1>1. /\ n.is_leaf /\ WellMade(n, Len(nd))
      /\ \E k \in 1 .. Len(n.keys) : n.keys[k] = x /\ n.vals[k] = y
      /\ \A k \in 1 .. Len(n.keys) : n.keys[k] # x =>
             \E j \in 1 .. Len(nd[p].keys) :
                 nd[p].keys[j] = n.keys[k] /\ nd[p].vals[j] = n.vals[k]
      /\ \A j \in 1 .. Len(nd[p].keys) : nd[p].keys[j] # x =>
             \E k \in 1 .. Len(n.keys) :
                 n.keys[k] = nd[p].keys[j] /\ n.vals[k] = nd[p].vals[j]
  BY DEF EntryPut
<1>2. PICK k \in 1 .. Len(n.keys) : n.keys[k] = x /\ n.vals[k] = y
  BY <1>1
<1>3. \A j \in 1 .. Len(n.keys) : n.keys[j] = x => j = k
  <2> SUFFICES ASSUME NEW j \in 1 .. Len(n.keys), n.keys[j] = x PROVE j = k
    OBVIOUS
  <2>1. Len(n.keys) \in Nat /\ \A i \in 1 .. Len(n.keys) : n.keys[i] \in Int
    BY <1>0, <1>1, MadeFields
  <2>2. \A a, b \in 1 .. Len(n.keys) : a < b => n.keys[a] < n.keys[b]
    BY <1>1 DEF WellMade
  <2>3. x \in Int /\ ~(x < x)
    BY <1>2, <2>1
  <2>4. ~(j < k) /\ ~(k < j)
    BY <1>2, <2>2, <2>3
  <2>5. j \in Int /\ k \in Int
    OBVIOUS
  <2> QED
    BY <2>4, <2>5
<1>4. \A q \in 1 .. Len(nd) : nd[q].is_leaf /\ q # p =>
          \A j \in 1 .. Len(nd[q].keys) : nd[q].keys[j] # x
  BY DEF Ranged
<1>5. ASSUME NEW id, NEW row, Holds(md, id, row)
      PROVE  (id = x /\ row = y) \/ (id # x /\ Holds(nd, id, row))
  <2>1. PICK q \in 1 .. Len(nd) : md[q].is_leaf /\
            \E i \in 1 .. Len(md[q].keys) : md[q].keys[i] = id /\ md[q].vals[i] = row
    BY <1>0, <1>5 DEF Holds
  <2>2. PICK i \in 1 .. Len(md[q].keys) : md[q].keys[i] = id /\ md[q].vals[i] = row
    BY <2>1
  <2>3. CASE q = p
    <3>1. i \in 1 .. Len(n.keys) /\ n.keys[i] = id /\ n.vals[i] = row
      BY <1>0, <2>2, <2>3
    <3>2. CASE id = x
      BY <1>2, <1>3, <3>1, <3>2
    <3>3. CASE id # x
      <4>1. \E j \in 1 .. Len(nd[p].keys) : nd[p].keys[j] = id /\ nd[p].vals[j] = row
        BY <1>1, <3>1, <3>3
      <4> QED
        BY <3>3, <4>1 DEF Holds
    <3> QED
      BY <3>2, <3>3
  <2>4. CASE q # p
    <3>1. md[q] = nd[q] /\ nd[q].is_leaf
      BY <1>0, <2>1, <2>4
    <3>2. i \in 1 .. Len(nd[q].keys) /\ nd[q].keys[i] = id /\ nd[q].vals[i] = row
      BY <2>2, <3>1
    <3> QED
      BY <1>4, <2>4, <3>1, <3>2 DEF Holds
  <2> QED
    BY <2>3, <2>4
<1>6. Holds(md, x, y)
  BY <1>0, <1>1, <1>2 DEF Holds
<1>7. ASSUME NEW id, NEW row, id # x, Holds(nd, id, row)
      PROVE  Holds(md, id, row)
  <2>1. PICK q \in 1 .. Len(nd) : nd[q].is_leaf /\
            \E i \in 1 .. Len(nd[q].keys) : nd[q].keys[i] = id /\ nd[q].vals[i] = row
    BY <1>7 DEF Holds
  <2>2. PICK i \in 1 .. Len(nd[q].keys) : nd[q].keys[i] = id /\ nd[q].vals[i] = row
    BY <2>1
  <2>3. CASE q = p
    <3>1. \E j \in 1 .. Len(n.keys) : n.keys[j] = id /\ n.vals[j] = row
      BY <1>1, <1>7, <2>2, <2>3
    <3> QED
      BY <1>0, <1>1, <3>1 DEF Holds
  <2>4. CASE q # p
    <3>1. md[q] = nd[q]
      BY <1>0, <2>4
    <3> QED
      BY <1>0, <2>1, <3>1 DEF Holds
  <2> QED
    BY <2>3, <2>4
<1> QED
  BY <1>5, <1>6, <1>7 DEF Puts

\* split_leaf: what the leaf held its halves hold together.
LEMMA HoldsDivided ==
  ASSUME NEW nd, Len(nd) \in Nat, NEW p \in 1 .. Len(nd), nd[p].is_leaf,
         NEW l, l.is_leaf, NEW r, r.is_leaf, NEW md, Divided(md, nd, p, l, r),
         NEW c \in Nat, NEW e \in Nat, Len(nd[p].keys) = c + e,
         Taken(l.keys, nd[p].keys, 0, c), Taken(l.vals, nd[p].vals, 0, c),
         Taken(r.keys, nd[p].keys, c, e), Taken(r.vals, nd[p].vals, c, e)
  PROVE  \A id, row : Holds(md, id, row) <=> Holds(nd, id, row)
<1> DEFINE d == Len(nd)
           x == d + 1
<1>0. /\ Len(md) = x /\ md[p] = l /\ md[x] = r /\ p \in 1 .. d
      /\ \A q \in 1 .. d : q # p => md[q] = nd[q]
  BY DEF Divided
<1>1. /\ \A q \in 1 .. d : q \in 1 .. x
      /\ \A q \in 1 .. x : q = x \/ q \in 1 .. d
      /\ x \in 1 .. x /\ x # p
  OBVIOUS
<1>2. /\ Len(l.keys) = c /\ \A k \in 1 .. c : l.keys[k] = nd[p].keys[k] /\ l.vals[k] = nd[p].vals[k]
  <2>1. \A k \in 1 .. c : 0 + k = k
    OBVIOUS
  <2>2. /\ \A k \in 1 .. c : l.keys[k] = nd[p].keys[0 + k] /\ l.vals[k] = nd[p].vals[0 + k]
        /\ Len(l.keys) = c
    BY DEF Taken
  <2> QED
    BY <2>1, <2>2
<1>3. /\ Len(r.keys) = e
      /\ \A k \in 1 .. e : r.keys[k] = nd[p].keys[c + k] /\ r.vals[k] = nd[p].vals[c + k]
  BY DEF Taken
<1>4. /\ \A k \in 1 .. c : k \in 1 .. c + e
      /\ \A k \in 1 .. e : c + k \in 1 .. c + e
  OBVIOUS
<1>5. \A k \in 1 .. c + e : k \in 1 .. c \/ \E j \in 1 .. e : k = c + j
  <2> SUFFICES ASSUME NEW k \in 1 .. c + e, k \notin 1 .. c PROVE \E j \in 1 .. e : k = c + j
    OBVIOUS
  <2>1. k - c \in 1 .. e /\ k = c + (k - c)
    OBVIOUS
  <2> QED
    BY <2>1
<1> HIDE DEF x, d
<1>6. ASSUME NEW id, NEW row, Holds(md, id, row) PROVE Holds(nd, id, row)
  <2>1. PICK q \in 1 .. x : md[q].is_leaf /\
            \E i \in 1 .. Len(md[q].keys) : md[q].keys[i] = id /\ md[q].vals[i] = row
    BY <1>0, <1>6 DEF Holds
  <2>2. PICK i \in 1 .. Len(md[q].keys) : md[q].keys[i] = id /\ md[q].vals[i] = row
    BY <2>1
  <2>3. CASE q = p
    <3>1. i \in 1 .. c /\ nd[p].keys[i] = id /\ nd[p].vals[i] = row
      BY <1>0, <1>2, <2>2, <2>3
    <3> QED
      BY <1>4, <3>1 DEF Holds
  <2>4. CASE q = x
    <3>1. i \in 1 .. e /\ nd[p].keys[c + i] = id /\ nd[p].vals[c + i] = row
      BY <1>0, <1>3, <2>2, <2>4
    <3>2. c + i \in 1 .. Len(nd[p].keys)
      BY <1>4, <3>1
    <3> QED
      BY <3>1, <3>2 DEF Holds
  <2>5. CASE q \in 1 .. d /\ q # p
    <3>1. md[q] = nd[q]
      BY <1>0, <2>5
    <3> QED
      BY <2>1, <2>5, <3>1 DEF Holds, d
  <2> QED
    BY <1>1, <2>3, <2>4, <2>5
<1>7. ASSUME NEW id, NEW row, Holds(nd, id, row) PROVE Holds(md, id, row)
  <2>1. PICK q \in 1 .. d : nd[q].is_leaf /\
            \E i \in 1 .. Len(nd[q].keys) : nd[q].keys[i] = id /\ nd[q].vals[i] = row
    BY <1>7 DEF Holds, d
  <2>2. PICK i \in 1 .. Len(nd[q].keys) : nd[q].keys[i] = id /\ nd[q].vals[i] = row
    BY <2>1
  <2>3. CASE q = p
    <3>1. i \in 1 .. c + e
      BY <2>2, <2>3
    <3>2. CASE i \in 1 .. c
      <4>1. i \in 1 .. Len(md[p].keys) /\ md[p].keys[i] = id /\ md[p].vals[i] = row
        BY <1>0, <1>2, <2>2, <2>3, <3>2
      <4> QED
        BY <1>0, <1>1, <4>1 DEF Holds
    <3>3. CASE \E j \in 1 .. e : i = c + j
      <4>1. PICK j \in 1 .. e : i = c + j
        BY <3>3
      <4>2. j \in 1 .. Len(md[x].keys) /\ md[x].keys[j] = id /\ md[x].vals[j] = row
        BY <1>0, <1>3, <2>2, <2>3, <4>1
      <4> QED
        BY <1>0, <1>1, <4>2 DEF Holds
    <3> QED
      BY <1>5, <3>1, <3>2, <3>3
  <2>4. CASE q # p
    <3>1. md[q] = nd[q] /\ q \in 1 .. x
      BY <1>0, <1>1, <2>4
    <3> QED
      BY <1>0, <2>1, <3>1 DEF Holds
  <2> QED
    BY <2>3, <2>4
<1> QED
  BY <1>6, <1>7

\* insert_rec in a leaf enters the pair it was called with, whether the leaf
\* is split or not.
LEMMA PutsInsertLeaf ==
  ASSUME NEW h, ShapeInv(h), NEW R, NEW F, NEW x, RangeInv(R, F, x), InsertLeaf
  PROVE  arg.id \in Ids /\ arg.row \in Rows /\ Puts(node', node, arg.id, arg.row)
<1>0. /\ pc = "down" /\ path # <<>> /\ node[Here].is_leaf
      /\ arg.id \in Ids /\ arg.row \in Rows
      /\ (\E n : LeafKept(n)) \/ (\E n, n1, l, r : LeafCut(n, n1, l, r))
  BY LeafStep
<1>1. /\ CallInv(h) /\ TreeInv(h) /\ Made(node) /\ order \in Orders
      /\ Ranged(node, R, F) /\ arg.id \in R[Here]
  BY <1>0 DEF ShapeInv, TreeInv, CallInv, RangeInv
<1>2. Here \in 1 .. Len(node) /\ Len(node) \in Nat
  BY <1>0, <1>1, HereFacts
<1>3. PICK p, i, y : p = Here /\ i = arg.id /\ y = arg.row
  OBVIOUS
<1>4. ASSUME NEW n, EntryPut(n, node[p], i, y, Len(node)),
             NEW n1, Replaced(n1, node, p, n)
      PROVE  Puts(n1, node, i, y)
  BY <1>0, <1>1, <1>2, <1>3, <1>4, HoldsEntry
<1>5. ASSUME NEW n, LeafKept(n) PROVE Puts(node', node, i, y)
  <2>1. Replaced(node', node, p, n) /\ EntryPut(n, node[p], i, y, Len(node))
    BY <1>3, <1>5 DEF LeafKept
  <2> QED
    BY <1>4, <2>1
<1>6. ASSUME NEW n, NEW n1, NEW l, NEW r, LeafCut(n, n1, l, r)
      PROVE  Puts(node', node, i, y)
  <2>1. /\ EntryPut(n, node[p], i, y, Len(node)) /\ Len(n.keys) = order
        /\ Replaced(n1, node, p, n) /\ Divided(node', n1, p, l, r)
        /\ l.is_leaf /\ r.is_leaf
        /\ Taken(l.keys, n.keys, 0, Mid) /\ Taken(l.vals, n.vals, 0, Mid)
        /\ Taken(r.keys, n.keys, Mid, order - Mid) /\ Taken(r.vals, n.vals, Mid, order - Mid)
    BY <1>3, <1>6 DEF LeafCut
  <2>2. Puts(n1, node, i, y)
    BY <1>4, <2>1
  <2>3. PICK c, e : c = Mid /\ e = order - Mid
    OBVIOUS
  <2>4. c \in Nat /\ e \in Nat /\ order = c + e
    <3>1. order \in Nat /\ Mid \in Nat /\ Mid + 1 < order
      BY <1>1, MidFacts
    <3> QED
      BY <2>3, <3>1
  <2>5. /\ Len(n1) = Len(node) /\ n1[p] = n /\ n.is_leaf
    BY <2>1 DEF Replaced, EntryPut
  <2>6. /\ Len(n1) \in Nat /\ p \in 1 .. Len(n1) /\ n1[p].is_leaf
        /\ Len(n1[p].keys) = c + e
        /\ Taken(l.keys, n1[p].keys, 0, c) /\ Taken(l.vals, n1[p].vals, 0, c)
        /\ Taken(r.keys, n1[p].keys, c, e) /\ Taken(r.vals, n1[p].vals, c, e)
    BY <1>2, <1>3, <2>1, <2>3, <2>4, <2>5
  <2>7. \A id, row : Holds(node', id, row) <=> Holds(n1, id, row)
    BY <2>1, <2>4, <2>6, HoldsDivided
  <2> QED
    BY <2>2, <2>7 DEF Puts
<1> QED
  BY <1>0, <1>3, <1>5, <1>6

\* The way back up changes no entry.
LEMMA SameInsertInternal ==
  ASSUME NEW h, ShapeInv(h), InsertInternal
  PROVE  \A id, row : Holds(node', id, row) <=> Holds(node, id, row)
<1>0. /\ path # <<>> /\ ~node[Here].is_leaf
      /\ (\E n : InnerKept(n)) \/ (\E n, n1, l, r : InnerCut(n, n1, l, r))
  BY InnerStep
<1>1. CallInv(h) /\ TreeInv(h)
  BY DEF ShapeInv
<1>2. PICK p, d : p = Here /\ d = Len(node)
  OBVIOUS
<1>3. p \in 1 .. d /\ d \in Nat /\ ~node[p].is_leaf
  BY <1>0, <1>1, <1>2, HereFacts
<1>4. CASE \E n : InnerKept(n)
  <2>1. PICK n : InnerKept(n)
    BY <1>4
  <2>2. ~n.is_leaf /\ Replaced(node', node, p, n)
    BY <1>2, <2>1 DEF InnerKept, ChildTaken
  <2>3. /\ Len(node') = d /\ node'[p] = n
        /\ \A q \in 1 .. d : q # p => node'[q] = node[q]
    BY <1>2, <2>2 DEF Replaced
  <2>4. \A q \in 1 .. d : /\ node'[q].is_leaf <=> node[q].is_leaf
                          /\ node[q].is_leaf => node'[q] = node[q]
    BY <1>3, <2>2, <2>3
  <2>5. SameLeaves(node', node)
    BY <1>2, <1>3, <2>3, <2>4 DEF SameLeaves
  <2> QED
    BY <2>5, HoldsSame
<1>5. CASE \E n, n1, l, r : InnerCut(n, n1, l, r)
  <2>1. PICK n, n1, l, r : InnerCut(n, n1, l, r)
    BY <1>5
  <2>2. /\ ~l.is_leaf /\ ~r.is_leaf /\ Replaced(n1, node, p, n) /\ Divided(node', n1, p, l, r)
    BY <1>2, <2>1 DEF InnerCut
  <2>3. /\ Len(n1) = d /\ \A q \in 1 .. d : q # p => n1[q] = node[q]
    BY <1>2, <2>2 DEF Replaced
  <2>4. /\ Len(node') = d + 1 /\ node'[p] = l /\ node'[d + 1] = r
        /\ \A q \in 1 .. d : q # p => node'[q] = node[q]
    BY <2>2, <2>3 DEF Divided
  <2>5. \A q \in 1 .. d : /\ node'[q].is_leaf <=> node[q].is_leaf
                          /\ node[q].is_leaf => node'[q] = node[q]
    BY <1>3, <2>2, <2>4
  <2>6. ~node'[d + 1].is_leaf
    BY <2>2, <2>4
  <2>7. SameLeaves(node', node)
    BY <1>2, <1>3, <2>4, <2>5, <2>6 DEF SameLeaves
  <2> QED
    BY <2>7, HoldsSame
<1> QED
  BY <1>0, <1>4, <1>5

\* bptree_insert puts a new root above the halves and leaves the leaves alone.
LEMMA SameGrowRoot ==
  ASSUME NEW h, ShapeInv(h), GrowRoot
  PROVE  \A id, row : Holds(node', id, row) <=> Holds(node, id, row)
<1>1. PICK r, d : r = Internal(<<key_out>>, <<root, split_out>>) /\ d = Len(node)
  OBVIOUS
<1>2. /\ root \in 1 .. d /\ split_out \in 1 .. d /\ key_out \in Ids
      /\ node \in Seq(NodeSet) /\ d \in Nat /\ node' = Append(node, r)
  BY <1>1 DEF ShapeInv, TreeInv, CallInv, Made, GrowRoot
<1>3. r \in NodeSet /\ ~r.is_leaf
  <2>1. <<key_out>> \in Seq(Ids) /\ <<root, split_out>> \in Seq(Nat)
    BY <1>2
  <2> QED
    BY <1>1, <2>1 DEF Internal, NodeSet, NULL
<1>4. /\ Len(node') = d + 1 /\ node'[d + 1] = r
      /\ \A q \in 1 .. d : node'[q] = node[q]
  BY <1>1, <1>2, <1>3, AppendProperties
<1>5. \A q \in 1 .. d : /\ node'[q].is_leaf <=> node[q].is_leaf
                        /\ node[q].is_leaf => node'[q] = node[q]
  BY <1>4
<1>6. ~node'[d + 1].is_leaf
  BY <1>3, <1>4
<1>7. SameLeaves(node', node)
  BY <1>1, <1>2, <1>4, <1>5, <1>6 DEF SameLeaves
<1> QED
  BY <1>7, HoldsSame

\* What the leaves hold is a map, at every step of an insert.
HoldsMap == IsMap(Contents, node)

\* The tree is the map its callers take it for.  Entering the pair in the
\* leaf is the one step of bptree_insert that changes the map: the splits
\* above it, which follow one by one, neither lose nor move an entry.
THEOREM TreeServesIndex == Spec => ServesIndex
<1>1. InOrder => HoldsMap
  BY ContentsIs DEF InOrder, HoldsMap
<1>2. Init /\ HoldsMap => Index!Init
  <2> SUFFICES ASSUME Init, HoldsMap PROVE Contents = [i \in {} |-> 0]
    BY DEF Index!Init
  <2>1. node = <<Leaf(<<>>, <<>>, NULL)>>
    BY DEF Init
  <2>2. Len(node) = 1 /\ node[1].keys = <<>>
    BY <2>1 DEF Leaf
  <2> QED
    BY <2>2, MapEmpty DEF HoldsMap
<1>3. InOrder /\ HoldsMap /\ HoldsMap' /\ [Next]_vars => [Index!Next]_Contents
  <2> SUFFICES ASSUME InOrder, HoldsMap, HoldsMap', [Next]_vars
               PROVE  Index!Next \/ Contents' = Contents
    OBVIOUS
  <2>1. PICK c, e, md : c = Contents /\ e = Contents' /\ md = node'
    OBVIOUS
  <2>2. IsMap(c, node) /\ IsMap(e, md)
    BY <2>1 DEF HoldsMap
  <2>3. PICK h, R, F, x : ShapeInv(h) /\ RangeInv(R, F, x)
    BY DEF InOrder
  <2>4. ASSUME \A id, row : Holds(node', id, row) <=> Holds(node, id, row)
        PROVE  Contents' = Contents
    BY <2>1, <2>2, <2>4, MapSame
  <2>5. CASE node' = node
    BY <2>4, <2>5
  <2>6. CASE InsertLeaf
    <3>1. arg.id \in Ids /\ arg.row \in Rows /\ Puts(node', node, arg.id, arg.row)
      BY <2>3, <2>6, PutsInsertLeaf
    <3>2. PICK i, y : i = arg.id /\ y = arg.row
      OBVIOUS
    <3>3. IsPut(e, c, i, y)
      <4>1. Puts(md, node, i, y)
        BY <2>1, <3>1, <3>2
      <4> QED
        BY <2>2, <4>1, MapPut
    <3>4. Index!Put(i, y)
      BY <2>1, <3>3 DEF Index!Put, IsPut
    <3> QED
      BY <3>1, <3>2, <3>4 DEF Index!Next
  <2>7. CASE InsertInternal
    BY <2>3, <2>4, <2>7, SameInsertInternal
  <2>8. CASE GrowRoot
    BY <2>3, <2>4, <2>8, SameGrowRoot
  <2>9. CASE Recreate
    <3>1. node' = <<Leaf(<<>>, <<>>, NULL)>>
      BY <2>9 DEF Recreate
    <3>2. Len(md) = 1 /\ md[1].keys = <<>>
      BY <2>1, <3>1 DEF Leaf
    <3>3. e = [i \in {} |-> 0]
      BY <2>2, <3>2, MapEmpty
    <3> QED
      BY <2>1, <3>3 DEF Index!Next, Index!Clear
  <2> QED
    BY <2>5, <2>6, <2>7, <2>8, <2>9 DEF Next, Insert, Descend, vars
<1> QED
  BY <1>1, <1>2, <1>3, OrderAlways, PTL DEF Spec, ServesIndex, Index!Spec

-----------------------------------------------------------------------------
(* bptree_range                                                            *)

\* Leaf m of nd has row for id.
HeldBy(nd, m, id, row) ==
    /\ nd[m].is_leaf
    /\ \E i \in 1 .. Len(nd[m].keys) : nd[m].keys[i] = id /\ nd[m].vals[i] = row

\* A leaf nearer to the end of the chain has larger ids only: bptree_range
\* may stop at the first one above its bound.
LEMMA FarIsBelow ==
  ASSUME NEW nd, NEW R, NEW F, Ranged(nd, R, F), Steps(nd, R),
         NEW D, NEW t, Linked(nd, D, t)
  PROVE  \A m, n \in 1 .. Len(nd) : nd[m].is_leaf /\ nd[n].is_leaf /\ D[n] < D[m] =>
             \A y \in R[m], z \in R[n] : y < z
<1> DEFINE Bad(m) == \E n \in 1 .. Len(nd) :
                         /\ nd[m].is_leaf /\ nd[n].is_leaf /\ D[n] < D[m]
                         /\ \E y \in R[m], z \in R[n] : ~(y < z)
           bad == {k \in Nat : \E m \in 1 .. Len(nd) : D[m] = k /\ Bad(m)}
<1>0. /\ \A n \in 1 .. Len(nd) : D[n] \in Nat
      /\ \A n \in 1 .. Len(nd) : nd[n].is_leaf =>
             /\ nd[n].next = NULL => D[n] = 0
             /\ nd[n].next # NULL => D[n] = D[nd[n].next] + 1
      /\ \A m, n \in 1 .. Len(nd) : nd[m].is_leaf /\ nd[n].is_leaf /\ D[m] = D[n] => m = n
  BY DEF Linked
<1>1. \A n \in 1 .. Len(nd) : nd[n].is_leaf =>
          /\ R[n] # {}
          /\ nd[n].next # NULL =>
                 /\ nd[n].next \in 1 .. Len(nd) /\ nd[nd[n].next].is_leaf
                 /\ \A y \in R[n], z \in R[nd[n].next] : y < z
  BY DEF Steps
<1>2. \A n \in 1 .. Len(nd) : \A z \in R[n] : z \in Int
  BY DEF Ranged
<1>3. bad = {}
  <2> SUFFICES ASSUME bad # {} PROVE FALSE
    OBVIOUS
  <2>1. bad \in SUBSET Nat
    OBVIOUS
  <2> HIDE DEF bad, Bad
  <2>2. PICK k \in bad : \A j \in bad : k <= j
    BY <2>1, LeastNatural
  <2>3. PICK m \in 1 .. Len(nd) : k \in Nat /\ D[m] = k /\ Bad(m)
    BY DEF bad
  <2>4. PICK n \in 1 .. Len(nd) : /\ nd[m].is_leaf /\ nd[n].is_leaf /\ D[n] < D[m]
                                  /\ \E y \in R[m], z \in R[n] : ~(y < z)
    BY <2>3 DEF Bad
  <2>5. PICK y \in R[m], z \in R[n] : ~(y < z)
    BY <2>4
  <2>6. nd[m].next # NULL
    BY <1>0, <2>4
  <2>7. PICK c : c = nd[m].next
    OBVIOUS
  <2>8. /\ c \in 1 .. Len(nd) /\ nd[c].is_leaf /\ D[m] = D[c] + 1 /\ D[c] \in Nat
        /\ \A u \in R[m], v \in R[c] : u < v
    BY <1>0, <1>1, <2>4, <2>6, <2>7
  <2>9. n # c
    BY <2>5, <2>8
  <2>10. D[n] < D[c]
    <3>1. D[n] # D[c] /\ D[n] \in Nat /\ D[m] \in Nat
      BY <1>0, <2>4, <2>8, <2>9
    <3> QED
      BY <2>4, <2>8, <3>1
  <2>11. D[c] \notin bad
    BY <2>2, <2>3, <2>8
  <2>12. PICK w : w \in R[c]
    BY <1>1, <2>8
  <2>13. y < w
    BY <2>8, <2>12
  <2>14. w < z
    BY <2>4, <2>8, <2>10, <2>11, <2>12 DEF bad, Bad
  <2>15. y \in Int /\ z \in Int /\ w \in Int
    BY <1>2, <2>8, <2>12
  <2> QED
    BY <2>5, <2>13, <2>14, <2>15
<1> SUFFICES ASSUME NEW m \in 1 .. Len(nd), NEW n \in 1 .. Len(nd),
                    nd[m].is_leaf, nd[n].is_leaf, D[n] < D[m], NEW y \in R[m], NEW z \in R[n]
             PROVE  y < z
  OBVIOUS
<1>4. D[m] \in Nat /\ D[m] \notin bad
  BY <1>0, <1>3
<1> QED
  BY <1>4

\* g joins the rows V of a node and those of its successors up to one of B.
Walks(g, S, V, B, next) ==
    g = [n \in S |-> IF n = NULL THEN <<>>
                     ELSE V[n] \o (IF n \in B THEN <<>> ELSE g[next[n]])]

\* The loop of bptree_range over the leaves comes to an end.
LEMMA WalkEnds ==
  ASSUME NEW d \in Nat, NEW D, \A n \in 1 .. d : D[n] \in Nat, NEW V, NEW B, NEW next,
         \A n \in 1 .. d : next[n] = NULL \/ (next[n] \in 1 .. d /\ D[next[n]] < D[n]),
         NEW top \in Nat, \A n \in 1 .. d : D[n] <= top
  PROVE  \E g : Walks(g, {NULL} \cup 1 .. d, V, B, next)
<1> DEFINE Upto(k) == {NULL} \cup {n \in 1 .. d : D[n] <= k}
           bad == {k \in Nat : ~ \E g : Walks(g, Upto(k), V, B, next)}
<1>0. NULL \notin 1 .. d
  BY DEF NULL
<1>1. ASSUME NEW k \in Nat, NEW g, NEW S,
             \A n \in Upto(k) : n # NULL => next[n] \in S,
             \A n \in S : n \in Upto(k),
             Walks(g, S, V, B, next)
      PROVE  \E f : Walks(f, Upto(k), V, B, next)
  <2> DEFINE f == [n \in Upto(k) |-> IF n = NULL THEN <<>>
                      ELSE V[n] \o (IF n \in B THEN <<>> ELSE g[next[n]])]
  <2> HIDE DEF Upto
  <2>1. \A n \in S : f[n] = g[n]
    BY <1>1 DEF Walks
  <2>2. \A n \in Upto(k) : n # NULL => g[next[n]] = f[next[n]]
    BY <1>1, <2>1
  <2>3. \A n \in Upto(k) : f[n] = IF n = NULL THEN <<>>
                                  ELSE V[n] \o (IF n \in B THEN <<>> ELSE f[next[n]])
    <3> SUFFICES ASSUME NEW n \in Upto(k)
                 PROVE  f[n] = IF n = NULL THEN <<>>
                               ELSE V[n] \o (IF n \in B THEN <<>> ELSE f[next[n]])
      OBVIOUS
    <3>1. f[n] = IF n = NULL THEN <<>>
                 ELSE V[n] \o (IF n \in B THEN <<>> ELSE g[next[n]])
      OBVIOUS
    <3>2. n # NULL => g[next[n]] = f[next[n]]
      BY <2>2
    <3> HIDE DEF f
    <3> QED
      BY <3>1, <3>2, Zenon
  <2>4. f = [n \in Upto(k) |-> f[n]]
    OBVIOUS
  <2> HIDE DEF f
  <2>5. Walks(f, Upto(k), V, B, next)
    BY <2>3, <2>4 DEF Walks
  <2> QED
    BY <2>5
<1>2. bad = {}
  <2> SUFFICES ASSUME bad # {} PROVE FALSE
    OBVIOUS
  <2>1. bad \in SUBSET Nat
    OBVIOUS
  <2> HIDE DEF bad
  <2>2. PICK k \in bad : \A j \in bad : k <= j
    BY <2>1, LeastNatural
  <2>3. k \in Nat /\ ~ \E g : Walks(g, Upto(k), V, B, next)
    BY DEF bad
  <2>4. CASE k = 0
    <3>1. PICK g : g = [n \in {NULL} |-> <<>>]
      OBVIOUS
    <3>2. Walks(g, {NULL}, V, B, next)
      BY <3>1 DEF Walks
    <3>3. \A n \in Upto(k) : n # NULL => next[n] \in {NULL}
      <4> SUFFICES ASSUME NEW n \in 1 .. d, D[n] <= 0 PROVE next[n] = NULL
        BY <2>4
      <4>1. next[n] = NULL \/ (D[next[n]] \in Nat /\ D[next[n]] < D[n])
        OBVIOUS
      <4> QED
        BY <4>1
    <3>4. \A n \in {NULL} : n \in Upto(k)
      OBVIOUS
    <3> HIDE DEF Upto
    <3> QED
      BY <1>1, <2>3, <3>2, <3>3, <3>4
  <2>5. CASE k # 0
    <3>1. k - 1 \in Nat /\ ~(k <= k - 1)
      BY <2>3, <2>5
    <3>2. k - 1 \notin bad
      BY <2>2, <3>1
    <3>3. PICK g : Walks(g, Upto(k - 1), V, B, next)
      BY <3>1, <3>2 DEF bad
    <3>4. \A n \in Upto(k) : n # NULL => next[n] \in Upto(k - 1)
      <4> SUFFICES ASSUME NEW n \in 1 .. d, D[n] <= k, next[n] # NULL
                   PROVE  next[n] \in 1 .. d /\ D[next[n]] <= k - 1
        OBVIOUS
      <4>1. next[n] \in 1 .. d /\ D[next[n]] < D[n]
        OBVIOUS
      <4>2. D[next[n]] \in Nat /\ D[n] \in Nat
        BY <4>1
      <4> QED
        BY <2>3, <4>1, <4>2
    <3>5. \A n \in Upto(k - 1) : n \in Upto(k)
      <4>1. \A a \in Nat : a <= k - 1 => a <= k
        BY <2>3
      <4> QED
        BY <4>1
    <3> HIDE DEF Upto
    <3> QED
      BY <1>1, <2>3, <3>3, <3>4, <3>5
  <2> QED
    BY <2>4, <2>5
<1>3. Upto(top) = {NULL} \cup 1 .. d
  OBVIOUS
<1> QED
  BY <1>2, <1>3

\* q are the rows, and K the ids in order, that the leaves L of nd hold
\* between a and b.
Lists(q, K, nd, L, a, b) ==
    /\ q \in Seq(Nat) /\ K \in Seq(Int) /\ Len(K) = Len(q) /\ StrictlyUp(K)
    /\ \A k \in 1 .. Len(K) : K[k] \in a .. b /\ \E m \in L : HeldBy(nd, m, K[k], q[k])
    /\ \A m \in L, id \in a .. b : \A row : HeldBy(nd, m, id, row) =>
           \E k \in 1 .. Len(K) : K[k] = id

\* One leaf: the ids asked for are neighbours.
LEMMA ListsLeaf ==
  ASSUME NEW nd, Made(nd), NEW m \in 1 .. Len(nd), nd[m].is_leaf, StrictlyUp(nd[m].keys),
         NEW a \in Int, NEW b \in Int, a <= b,
         NEW i \in 1 .. Len(nd[m].keys) + 1, IsSpot(nd[m].keys, a, i),
         NEW j \in 0 .. Len(nd[m].keys), IsSpot(nd[m].keys, b + 1, j + 1)
  PROVE  Lists(SubSeq(nd[m].vals, i, j), SubSeq(nd[m].keys, i, j), nd, {m}, a, b)
<1>1. PICK ks, vs : ks = nd[m].keys /\ vs = nd[m].vals
  OBVIOUS
<1>2. /\ ks \in Seq(Int) /\ vs \in Seq(Nat) /\ Len(ks) \in Nat /\ Len(vs) = Len(ks)
      /\ \A k \in 1 .. Len(ks) : ks[k] \in Int
      /\ b + 1 \in Int
  <2>1. WellMade(nd[m], Len(nd)) /\ Len(nd) \in Nat
    BY DEF Made
  <2>2. nd[m].keys \in Seq(Int) /\ nd[m].vals \in Seq(Nat) /\ Len(nd[m].vals) = Len(nd[m].keys)
    BY <2>1, MadeFields DEF WellMade
  <2>3. ks \in Seq(Int) /\ vs \in Seq(Nat) /\ Len(vs) = Len(ks)
    BY <1>1, <2>2, Zenon
  <2>4. Len(ks) \in Nat /\ \A k \in 1 .. Len(ks) : ks[k] \in Int
    BY <2>3
  <2>5. b + 1 \in Int
    BY SMT
  <2> QED
    BY <2>3, <2>4, <2>5, Zenon
<1>3. /\ i \in 1 .. Len(ks) + 1 /\ IsSpot(ks, a, i)
      /\ j \in 0 .. Len(ks) /\ IsSpot(ks, b + 1, j + 1)
  BY <1>1
<1>4. /\ \A k \in 1 .. i - 1 : ks[k] < a
      /\ i <= Len(ks) => a <= ks[i]
      /\ \A k \in 1 .. j : ks[k] < b + 1
      /\ j + 1 <= Len(ks) => b + 1 <= ks[j + 1]
  <2>1. j + 1 - 1 = j
    BY <1>3
  <2> QED
    BY <1>3, <2>1 DEF IsSpot
<1>0. /\ Len(ks) \in Nat /\ i \in Nat /\ j \in Nat
      /\ 1 <= i /\ i <= Len(ks) + 1 /\ j <= Len(ks)
  BY <1>2, <1>3
<1>5. \A k, l \in 1 .. Len(ks) : k < l => ks[k] < ks[l]
  BY <1>1 DEF StrictlyUp
<1>6. i <= j + 1
  <2> SUFFICES ASSUME j + 1 < i PROVE FALSE
    BY <1>0
  <2>1. j + 1 \in 1 .. i - 1 /\ j + 1 <= Len(ks) /\ j + 1 \in 1 .. Len(ks)
    BY <1>0
  <2>2. ks[j + 1] < a /\ b + 1 <= ks[j + 1] /\ ks[j + 1] \in Int
    BY <1>2, <1>4, <2>1
  <2> QED
    BY <2>2
<1>7. \A k \in i .. j : /\ k \in 1 .. Len(ks) /\ a <= ks[k] /\ ks[k] <= b
  <2> SUFFICES ASSUME NEW k \in i .. j
               PROVE  k \in 1 .. Len(ks) /\ a <= ks[k] /\ ks[k] <= b
    OBVIOUS
  <2>1. k \in 1 .. Len(ks) /\ i \in 1 .. Len(ks) /\ i <= Len(ks) /\ k \in 1 .. j
    BY <1>0
  <2>2. ks[k] \in Int /\ ks[i] \in Int /\ a <= ks[i] /\ ks[k] < b + 1
    BY <1>2, <1>4, <2>1
  <2>3. i = k \/ ks[i] < ks[k]
    BY <1>5, <2>1
  <2> QED
    BY <2>1, <2>2, <2>3
<1>8. \A k \in 1 .. Len(ks) : a <= ks[k] /\ ks[k] <= b => k \in i .. j
  <2> SUFFICES ASSUME NEW k \in 1 .. Len(ks), a <= ks[k], ks[k] <= b PROVE k \in i .. j
    OBVIOUS
  <2>1. ks[k] \in Int
    BY <1>2
  <2>2. ~(k \in 1 .. i - 1)
    BY <1>4, <2>1
  <2>3. ~(j < k)
    <3> SUFFICES ASSUME j < k PROVE FALSE
      OBVIOUS
    <3>1. j + 1 \in 1 .. Len(ks) /\ j + 1 <= Len(ks) /\ (j + 1 = k \/ j + 1 < k)
      BY <1>0
    <3>2. ks[j + 1] \in Int /\ b + 1 <= ks[j + 1]
      BY <1>2, <1>4, <3>1
    <3>3. j + 1 = k \/ ks[j + 1] < ks[k]
      BY <1>5, <3>1
    <3> QED
      BY <2>1, <3>2, <3>3
  <2> QED
    BY <1>0, <2>2, <2>3
<1>9. PICK q, K : q = SubSeq(vs, i, j) /\ K = SubSeq(ks, i, j)
  OBVIOUS
<1>10. /\ q \in Seq(Nat) /\ K \in Seq(Int) /\ Len(q) = j - i + 1 /\ Len(K) = j - i + 1
       /\ \A k \in 1 .. j - i + 1 : q[k] = vs[i + k - 1] /\ K[k] = ks[i + k - 1]
  <2>1. i \in 1 .. Len(ks) + 1 /\ j \in i - 1 .. Len(ks)
    BY <1>0, <1>6
  <2>2. i \in 1 .. Len(vs) + 1 /\ j \in i - 1 .. Len(vs)
    BY <1>2, <2>1
  <2>3. /\ SubSeq(ks, i, j) \in Seq(Int) /\ Len(SubSeq(ks, i, j)) = j - i + 1
        /\ \A k \in 1 .. j - i + 1 : SubSeq(ks, i, j)[k] = ks[i + k - 1]
    BY <1>2, <2>1, SubSeqFacts, Zenon
  <2>4. /\ SubSeq(vs, i, j) \in Seq(Nat) /\ Len(SubSeq(vs, i, j)) = j - i + 1
        /\ \A k \in 1 .. j - i + 1 : SubSeq(vs, i, j)[k] = vs[i + k - 1]
    BY <1>2, <2>2, SubSeqFacts, Zenon
  <2> QED
    BY <1>9, <2>3, <2>4
<1>11. \A k \in 1 .. j - i + 1 : i + k - 1 \in i .. j
  BY <1>0
<1>12. StrictlyUp(K)
  <2> SUFFICES ASSUME NEW k \in 1 .. j - i + 1, NEW l \in 1 .. j - i + 1, k < l
               PROVE  K[k] < K[l]
    BY <1>10 DEF StrictlyUp
  <2>1. i + k - 1 < i + l - 1
    BY <1>0
  <2>2. i + k - 1 \in 1 .. Len(ks) /\ i + l - 1 \in 1 .. Len(ks)
    BY <1>7, <1>11
  <2>3. ks[i + k - 1] < ks[i + l - 1]
    BY <1>5, <2>1, <2>2
  <2> QED
    BY <1>10, <2>3
<1>13. ASSUME NEW k \in 1 .. Len(K)
       PROVE  K[k] \in a .. b /\ HeldBy(nd, m, K[k], q[k])
  <2>1. PICK l : l = i + k - 1
    OBVIOUS
  <2>2. l \in 1 .. Len(ks) /\ a <= ks[l] /\ ks[l] <= b /\ ks[l] \in Int
    BY <1>2, <1>7, <1>10, <1>11, <2>1
  <2>3. K[k] = ks[l] /\ q[k] = vs[l]
    BY <1>10, <2>1
  <2> QED
    BY <1>1, <2>2, <2>3 DEF HeldBy
<1>14. ASSUME NEW id \in a .. b, NEW row, HeldBy(nd, m, id, row)
       PROVE  \E k \in 1 .. Len(K) : K[k] = id
  <2>1. PICK l \in 1 .. Len(ks) : ks[l] = id
    BY <1>1, <1>14 DEF HeldBy
  <2>2. l \in i .. j
    BY <1>8, <2>1
  <2>3. l - i + 1 \in 1 .. j - i + 1 /\ i + (l - i + 1) - 1 = l
    BY <1>0, <2>2
  <2>4. K[l - i + 1] = id
    BY <1>10, <2>1, <2>3
  <2> QED
    BY <1>10, <2>3, <2>4
<1>15. Lists(q, K, nd, {m}, a, b)
  BY <1>10, <1>12, <1>13, <1>14 DEF Lists
<1> QED
  BY <1>1, <1>9, <1>15

\* What the leaves M add behind the leaves L, when their ids are larger.
LEMMA ListsBoth ==
  ASSUME NEW nd, NEW a, NEW b, NEW L, NEW M,
         NEW q, NEW K, Lists(q, K, nd, L, a, b), NEW r, NEW J, Lists(r, J, nd, M, a, b),
         \A m \in L, n \in M : \A y, z, u, v : HeldBy(nd, m, y, u) /\ HeldBy(nd, n, z, v) => y < z
  PROVE  Lists(q \o r, K \o J, nd, L \cup M, a, b)
<1>1. /\ q \in Seq(Nat) /\ K \in Seq(Int) /\ Len(K) = Len(q) /\ StrictlyUp(K)
      /\ \A k \in 1 .. Len(K) : K[k] \in a .. b /\ \E m \in L : HeldBy(nd, m, K[k], q[k])
      /\ \A m \in L, id \in a .. b : \A row : HeldBy(nd, m, id, row) =>
             \E k \in 1 .. Len(K) : K[k] = id
  BY DEF Lists
<1>2. /\ r \in Seq(Nat) /\ J \in Seq(Int) /\ Len(J) = Len(r) /\ StrictlyUp(J)
      /\ \A k \in 1 .. Len(J) : J[k] \in a .. b /\ \E m \in M : HeldBy(nd, m, J[k], r[k])
      /\ \A m \in M, id \in a .. b : \A row : HeldBy(nd, m, id, row) =>
             \E k \in 1 .. Len(J) : J[k] = id
  BY DEF Lists
<1>3. PICK x, y : x = Len(K) /\ y = Len(J)
  OBVIOUS
<1>4. x \in Nat /\ y \in Nat /\ x = Len(q) /\ y = Len(r)
  BY <1>1, <1>2, <1>3
<1>5. PICK p, P : p = q \o r /\ P = K \o J
  OBVIOUS
<1>6. /\ p \in Seq(Nat) /\ P \in Seq(Int) /\ Len(p) = x + y /\ Len(P) = x + y
      /\ \A k \in 1 .. x + y : /\ k <= x => P[k] = K[k] /\ p[k] = q[k]
                               /\ ~(k <= x) => P[k] = J[k - x] /\ p[k] = r[k - x]
  <2>1. q \in Seq(Nat) /\ r \in Seq(Nat) /\ K \in Seq(Int) /\ J \in Seq(Int)
    BY <1>1, <1>2, Zenon
  <2>2. /\ q \o r \in Seq(Nat) /\ Len(q \o r) = Len(q) + Len(r)
        /\ \A k \in 1 .. Len(q) + Len(r) :
               (q \o r)[k] = IF k <= Len(q) THEN q[k] ELSE r[k - Len(q)]
    BY <2>1, ConcatProperties
  <2>3. /\ K \o J \in Seq(Int) /\ Len(K \o J) = Len(K) + Len(J)
        /\ \A k \in 1 .. Len(K) + Len(J) :
               (K \o J)[k] = IF k <= Len(K) THEN K[k] ELSE J[k - Len(K)]
    BY <2>1, ConcatProperties
  <2> QED
    BY <1>3, <1>4, <1>5, <2>2, <2>3
<1>7. \A k \in 1 .. x + y : /\ k <= x => k \in 1 .. x
                            /\ ~(k <= x) => k - x \in 1 .. y
  BY <1>4
<1>8. ASSUME NEW k \in 1 .. x + y
      PROVE  P[k] \in a .. b /\ \E m \in L \cup M : HeldBy(nd, m, P[k], p[k])
  <2>1. CASE k <= x
    BY <1>1, <1>3, <1>6, <1>7, <2>1
  <2>2. CASE ~(k <= x)
    BY <1>2, <1>3, <1>6, <1>7, <2>2
  <2> QED
    BY <2>1, <2>2
<1>9. ASSUME NEW m \in L \cup M, NEW id \in a .. b, NEW row, HeldBy(nd, m, id, row)
      PROVE  \E k \in 1 .. x + y : P[k] = id
  <2>1. CASE m \in L
    <3>1. PICK k \in 1 .. x : K[k] = id
      BY <1>1, <1>3, <1>9, <2>1
    <3>2. k \in 1 .. x + y /\ k <= x
      BY <1>4
    <3> QED
      BY <1>6, <3>1, <3>2
  <2>2. CASE m \in M
    <3>1. PICK k \in 1 .. y : J[k] = id
      BY <1>2, <1>3, <1>9, <2>2
    <3>2. x + k \in 1 .. x + y /\ ~(x + k <= x) /\ (x + k) - x = k
      BY <1>4
    <3> QED
      BY <1>6, <3>1, <3>2
  <2> QED
    BY <2>1, <2>2
<1>10. ASSUME NEW k \in 1 .. x + y, NEW l \in 1 .. x + y, k < l PROVE P[k] < P[l]
  <2>1. CASE l <= x
    <3>1. k <= x
      BY <1>4, <1>10, <2>1
    <3>2. k \in 1 .. x /\ l \in 1 .. x /\ P[k] = K[k] /\ P[l] = K[l]
      BY <1>6, <1>7, <2>1, <3>1
    <3> QED
      BY <1>1, <1>3, <1>10, <3>2 DEF StrictlyUp
  <2>2. CASE ~(k <= x)
    <3>1. ~(l <= x) /\ k - x < l - x
      BY <1>4, <1>10, <2>2
    <3>2. k - x \in 1 .. y /\ l - x \in 1 .. y /\ P[k] = J[k - x] /\ P[l] = J[l - x]
      BY <1>6, <1>7, <2>2, <3>1
    <3> QED
      BY <1>2, <1>3, <3>1, <3>2 DEF StrictlyUp
  <2>3. CASE k <= x /\ ~(l <= x)
    <3>1. k \in 1 .. x /\ P[k] = K[k] /\ l - x \in 1 .. y /\ P[l] = J[l - x]
      BY <1>6, <1>7, <2>3
    <3>2. PICK m \in L : HeldBy(nd, m, K[k], q[k])
      BY <1>1, <1>3, <3>1
    <3>3. PICK n \in M : HeldBy(nd, n, J[l - x], r[l - x])
      BY <1>2, <1>3, <3>1
    <3> QED
      BY <3>1, <3>2, <3>3
  <2> QED
    BY <2>1, <2>2, <2>3
<1>11. Lists(p, P, nd, L \cup M, a, b)
  BY <1>6, <1>8, <1>9, <1>10 DEF Lists, StrictlyUp
<1> QED
  BY <1>5, <1>11

\* Leaves that have none of the ids add nothing.
LEMMA ListsMore ==
  ASSUME NEW nd, NEW a, NEW b, NEW L, NEW q, NEW K, Lists(q, K, nd, L, a, b),
         NEW M, L \subseteq M,
         \A m \in M, id \in a .. b : \A row : HeldBy(nd, m, id, row) => m \in L
  PROVE  Lists(q, K, nd, M, a, b)
<1>1. \A k \in 1 .. Len(K) : K[k] \in a .. b /\ \E m \in M : HeldBy(nd, m, K[k], q[k])
  BY DEF Lists
<1>2. \A m \in M, id \in a .. b : \A row : HeldBy(nd, m, id, row) =>
          \E k \in 1 .. Len(K) : K[k] = id
  BY DEF Lists
<1> QED
  BY <1>1, <1>2 DEF Lists

\* A leaf has ids of its range only.
LEMMA HeldInRange ==
  ASSUME NEW nd, NEW R, NEW F, Ranged(nd, R, F), NEW m \in 1 .. Len(nd),
         NEW id, NEW row, HeldBy(nd, m, id, row)
  PROVE  id \in R[m] /\ id \in Int
<1>1. PICK i \in 1 .. Len(nd[m].keys) : nd[m].keys[i] = id
  BY DEF HeldBy
<1> QED
  BY <1>1 DEF Ranged

\* g joins the rows of the leaves between a and b: V are those of one leaf, B
\* the nodes with a key above b, at which bptree_range returns.
IsScan(g, nd, V, B, a, b) ==
    /\ g[NULL] = <<>>
    /\ \A n \in 1 .. Len(nd) : nd[n].is_leaf =>
           /\ n \in B => g[n] = V[n] \o <<>>
           /\ n \notin B => g[n] = V[n] \o g[nd[n].next]
           /\ \E K : Lists(V[n], K, nd, {n}, a, b)
           /\ n \in B => \E i \in 1 .. Len(nd[n].keys) : nd[n].keys[i] > b
           /\ n \notin B => \A i \in 1 .. Len(nd[n].keys) : ~(nd[n].keys[i] > b)

\* From a leaf on, bptree_range collects the rows of this leaf and of all
\* behind it.
LEMMA ScanLists ==
  ASSUME NEW nd, NEW R, NEW F, Ranged(nd, R, F), Steps(nd, R),
         NEW D, NEW t, Linked(nd, D, t), NEW a \in Int, NEW b \in Int,
         NEW g, NEW V, NEW B, IsScan(g, nd, V, B, a, b)
  PROVE  \A n \in 1 .. Len(nd) : nd[n].is_leaf =>
             \E K : Lists(g[n], K, nd, {m \in 1 .. Len(nd) : nd[m].is_leaf /\ D[m] <= D[n]}, a, b)
<1> DEFINE Upto(n) == {m \in 1 .. Len(nd) : nd[m].is_leaf /\ D[m] <= D[n]}
           Good(n) == \E K : Lists(g[n], K, nd, Upto(n), a, b)
           bad == {k \in Nat : \E n \in 1 .. Len(nd) : D[n] = k /\ nd[n].is_leaf /\ ~Good(n)}
<1>0. /\ \A n \in 1 .. Len(nd) : D[n] \in Nat
      /\ \A n \in 1 .. Len(nd) : nd[n].is_leaf =>
             /\ nd[n].next = NULL => D[n] = 0
             /\ nd[n].next # NULL => /\ nd[n].next \in 1 .. Len(nd)
                                     /\ nd[nd[n].next].is_leaf
                                     /\ D[n] = D[nd[n].next] + 1
      /\ \A m, n \in 1 .. Len(nd) : nd[m].is_leaf /\ nd[n].is_leaf /\ D[m] = D[n] => m = n
  BY DEF Linked
<1>1. \A m, n \in 1 .. Len(nd) : nd[m].is_leaf /\ nd[n].is_leaf /\ D[n] < D[m] =>
          \A y \in R[m], z \in R[n] : y < z
  BY FarIsBelow
<1>2. ASSUME NEW n \in 1 .. Len(nd), nd[n].is_leaf,
             nd[n].next # NULL => Good(nd[n].next)
      PROVE  Good(n)
  <2>1. PICK K : Lists(V[n], K, nd, {n}, a, b)
    BY <1>2 DEF IsScan
  <2>2. V[n] \in Seq(Nat)
    BY <2>1 DEF Lists
  <2>3. n \in Upto(n) /\ {n} \subseteq Upto(n)
    BY <1>0, <1>2
  <2>4. \A m \in Upto(n) : m # n => D[m] < D[n] /\ m \in 1 .. Len(nd) /\ nd[m].is_leaf
    <3> SUFFICES ASSUME NEW m \in Upto(n), m # n
                 PROVE  D[m] < D[n] /\ m \in 1 .. Len(nd) /\ nd[m].is_leaf
      OBVIOUS
    <3>1. m \in 1 .. Len(nd) /\ nd[m].is_leaf /\ D[m] <= D[n]
      OBVIOUS
    <3>2. D[m] # D[n] /\ D[m] \in Nat /\ D[n] \in Nat
      BY <1>0, <1>2, <3>1
    <3> QED
      BY <3>1, <3>2
  <2>5. CASE n \in B
    <3>1. g[n] = V[n]
      <4>1. g[n] = V[n] \o <<>>
        BY <1>2, <2>5 DEF IsScan
      <4> QED
        BY <2>2, <4>1, ConcatEmptySeq
    <3>2. PICK i \in 1 .. Len(nd[n].keys) : nd[n].keys[i] > b
      BY <1>2, <2>5 DEF IsScan
    <3>3. nd[n].keys[i] \in R[n] /\ nd[n].keys[i] \in Int
      BY DEF Ranged
    <3>4. ASSUME NEW m \in Upto(n), NEW id \in a .. b, NEW row, HeldBy(nd, m, id, row)
          PROVE  m = n
      <4> SUFFICES ASSUME m # n PROVE FALSE
        OBVIOUS
      <4>1. m \in 1 .. Len(nd) /\ nd[m].is_leaf /\ D[m] < D[n]
        BY <2>4
      <4>2. id \in R[m] /\ id \in Int
        BY <3>4, <4>1, HeldInRange
      <4>3. nd[n].keys[i] < id
        BY <1>1, <1>2, <3>3, <4>1, <4>2
      <4> QED
        BY <3>2, <3>3, <3>4, <4>2, <4>3
    <3> HIDE DEF Upto
    <3>5. \A m \in Upto(n), id \in a .. b : \A row : HeldBy(nd, m, id, row) => m \in {n}
      BY <3>4
    <3>6. Lists(V[n], K, nd, Upto(n), a, b)
      BY <2>1, <2>3, <3>5, ListsMore
    <3> QED
      BY <3>1, <3>6
  <2>6. CASE n \notin B /\ nd[n].next = NULL
    <3>1. g[n] = V[n]
      <4>1. g[n] = V[n] \o g[nd[n].next] /\ g[NULL] = <<>>
        BY <1>2, <2>6 DEF IsScan
      <4>2. g[n] = V[n] \o <<>>
        BY <2>6, <4>1, Zenon
      <4> QED
        BY <2>2, <4>2, ConcatEmptySeq
    <3>2. Upto(n) = {n}
      <4>1. D[n] = 0
        BY <1>0, <1>2, <2>6
      <4>2. \A m \in Upto(n) : m = n
        <5> SUFFICES ASSUME NEW m \in Upto(n), m # n PROVE FALSE
          OBVIOUS
        <5>1. D[m] < D[n] /\ D[m] \in Nat
          BY <1>0, <2>4
        <5> QED
          BY <4>1, <5>1
      <4> QED
        BY <2>3, <4>2
    <3> HIDE DEF Upto
    <3>3. Lists(g[n], K, nd, Upto(n), a, b)
      BY <2>1, <3>1, <3>2
    <3> QED
      BY <3>3
  <2>7. CASE n \notin B /\ nd[n].next # NULL
    <3>1. PICK c : c = nd[n].next
      OBVIOUS
    <3>2. c \in 1 .. Len(nd) /\ nd[c].is_leaf /\ D[n] = D[c] + 1 /\ Good(c)
      BY <1>0, <1>2, <2>7, <3>1
    <3>3. g[n] = V[n] \o g[c]
      BY <1>2, <2>7, <3>1 DEF IsScan
    <3>4. PICK J : Lists(g[c], J, nd, Upto(c), a, b)
      BY <3>2
    <3>5. \A m \in Upto(c) : m \in 1 .. Len(nd) /\ nd[m].is_leaf /\ D[m] < D[n]
      <4> SUFFICES ASSUME NEW m \in Upto(c) PROVE D[m] < D[n]
        OBVIOUS
      <4>1. m \in 1 .. Len(nd) /\ D[m] <= D[c]
        OBVIOUS
      <4>2. D[m] \in Nat /\ D[c] \in Nat
        BY <1>0, <3>2, <4>1
      <4> QED
        BY <3>2, <4>1, <4>2
    <3>6. {n} \cup Upto(c) = Upto(n)
      <4>1. \A m \in Upto(n) : m # n => m \in Upto(c)
        <5> SUFFICES ASSUME NEW m \in Upto(n), m # n PROVE D[m] <= D[c]
          BY <2>4
        <5>1. D[m] < D[n] /\ D[m] \in Nat /\ D[c] \in Nat
          BY <1>0, <2>4, <3>2
        <5> QED
          BY <3>2, <5>1
      <4>2. \A m \in Upto(c) : m \in Upto(n)
        <5> SUFFICES ASSUME NEW m \in Upto(c) PROVE D[m] <= D[n]
          BY <3>5
        <5>1. D[m] < D[n] /\ D[m] \in Nat /\ D[n] \in Nat
          BY <1>0, <1>2, <3>5
        <5> QED
          BY <5>1
      <4> HIDE DEF Upto
      <4> QED
        BY <2>3, <4>1, <4>2
    <3>7. \A l \in {n}, m \in Upto(c) : \A y, z, u, v :
              HeldBy(nd, l, y, u) /\ HeldBy(nd, m, z, v) => y < z
      <4> SUFFICES ASSUME NEW m \in Upto(c), NEW y, NEW z, NEW u, NEW v,
                          HeldBy(nd, n, y, u), HeldBy(nd, m, z, v)
                   PROVE  y < z
        OBVIOUS
      <4>1. m \in 1 .. Len(nd) /\ nd[m].is_leaf /\ D[m] < D[n]
        BY <3>5
      <4>2. y \in R[n] /\ z \in R[m]
        BY <4>1, HeldInRange
      <4> QED
        BY <1>1, <1>2, <4>1, <4>2
    <3> HIDE DEF Upto
    <3>8. Lists(V[n] \o g[c], K \o J, nd, {n} \cup Upto(c), a, b)
      BY <2>1, <3>4, <3>7, ListsBoth
    <3> QED
      BY <3>3, <3>6, <3>8
  <2> QED
    BY <2>5, <2>6, <2>7
<1>3. bad = {}
  <2> SUFFICES ASSUME bad # {} PROVE FALSE
    OBVIOUS
  <2>1. bad \in SUBSET Nat
    OBVIOUS
  <2> HIDE DEF bad, Good
  <2>2. PICK k \in bad : \A j \in bad : k <= j
    BY <2>1, LeastNatural
  <2>3. PICK n \in 1 .. Len(nd) : k \in Nat /\ D[n] = k /\ nd[n].is_leaf /\ ~Good(n)
    BY DEF bad
  <2>4. nd[n].next # NULL /\ ~Good(nd[n].next)
    BY <1>2, <2>3
  <2>5. PICK c : c = nd[n].next
    OBVIOUS
  <2>6. c \in 1 .. Len(nd) /\ nd[c].is_leaf /\ D[n] = D[c] + 1 /\ D[c] \in Nat /\ ~Good(c)
    BY <1>0, <2>3, <2>4, <2>5
  <2>7. D[c] \in bad
    BY <2>6 DEF bad
  <2> QED
    BY <2>2, <2>3, <2>6, <2>7
<1>4. \A n \in 1 .. Len(nd) : nd[n].is_leaf => Good(n)
  <2> HIDE DEF Good
  <2> QED
    BY <1>0, <1>3
<1> QED
  BY <1>4

\* A set that is numbered from 1 to n has n elements.
LEMMA Numbered ==
  ASSUME NEW S, NEW n \in Nat, NEW K, \A k \in 1 .. n : K[k] \in S,
         \A j, k \in 1 .. n : K[j] = K[k] => j = k,
         \A s \in S : \E k \in 1 .. n : K[k] = s
  PROVE  Cardinality(S) = n
<1>1. PICK f : f = [k \in 1 .. n |-> K[k]]
  OBVIOUS
<1>2. f \in [1 .. n -> S] /\ DOMAIN f = 1 .. n
  BY <1>1
<1>3. \A j, k \in 1 .. n : f[j] = f[k] => j = k
  BY <1>1
<1>4. \A s \in S : \E k \in 1 .. n : f[k] = s
  BY <1>1
<1>5. f \in Bijection(1 .. n, S)
  BY <1>2, <1>3, <1>4 DEF Bijection, Injection, Surjection, IsInjective
<1>6. ExistsBijection(1 .. n, S)
  BY <1>5 DEF ExistsBijection
<1> QED
  BY <1>6, FS_CountingElements

\* The rows that map c has for the ids S, in the order of the ids.
RowsOf(c, S) ==
    [k \in 1 .. Cardinality(S) |->
        c[CHOOSE id \in S : Cardinality({i \in S : i <= id}) = k]]

\* L has the leaves of the tree, and S the ids of the map between two bounds.
AllLeaves(nd, L) ==
    L \subseteq 1 .. Len(nd) /\ \A m \in 1 .. Len(nd) : nd[m].is_leaf => m \in L
Asked(S, c, a, b) == S = DOMAIN c \cap a .. b

\* The rows that are listed are those of the map, in the order of the ids.
LEMMA ListedInOrder ==
  ASSUME NEW nd, NEW c, IsMap(c, nd), NEW a \in Int, NEW b \in Int, NEW q, NEW K,
         NEW L, Lists(q, K, nd, L, a, b), AllLeaves(nd, L), NEW S, Asked(S, c, a, b)
  PROVE  q = RowsOf(c, S)
<1>0. /\ L \subseteq 1 .. Len(nd) /\ \A m \in 1 .. Len(nd) : nd[m].is_leaf => m \in L
      /\ S = DOMAIN c \cap a .. b
  BY DEF AllLeaves, Asked
<1>1. /\ q \in Seq(Nat) /\ K \in Seq(Int) /\ Len(K) = Len(q) /\ StrictlyUp(K)
      /\ \A k \in 1 .. Len(K) : K[k] \in a .. b /\ \E m \in L : HeldBy(nd, m, K[k], q[k])
      /\ \A m \in L, id \in a .. b : \A row : HeldBy(nd, m, id, row) =>
             \E k \in 1 .. Len(K) : K[k] = id
  BY DEF Lists
<1>2. PICK n : n = Len(K)
  OBVIOUS
<1>3. n \in Nat /\ Len(q) = n /\ \A k \in 1 .. n : K[k] \in Int
  BY <1>1, <1>2
<1>4. ASSUME NEW k \in 1 .. n PROVE K[k] \in S /\ c[K[k]] = q[k]
  <2>1. PICK m \in L : HeldBy(nd, m, K[k], q[k])
    BY <1>1, <1>2
  <2>2. Holds(nd, K[k], q[k])
    BY <1>0, <2>1 DEF HeldBy, Holds
  <2>3. K[k] \in DOMAIN c /\ c[K[k]] = q[k]
    BY <2>2 DEF IsMap
  <2> QED
    BY <1>0, <1>1, <1>2, <2>3
<1>5. ASSUME NEW id \in S PROVE \E k \in 1 .. n : K[k] = id
  <2>1. Holds(nd, id, c[id]) /\ id \in a .. b
    BY <1>0 DEF IsMap
  <2>2. PICK m \in 1 .. Len(nd) : HeldBy(nd, m, id, c[id])
    BY <2>1 DEF HeldBy, Holds
  <2>3. m \in L
    BY <1>0, <2>2 DEF HeldBy
  <2> QED
    BY <1>1, <1>2, <2>1, <2>2, <2>3
<1>6. \A j, k \in 1 .. n : j < k => K[j] < K[k]
  BY <1>1, <1>2 DEF StrictlyUp
<1>7. \A j, k \in 1 .. n : K[j] = K[k] => j = k
  <2> SUFFICES ASSUME NEW j \in 1 .. n, NEW k \in 1 .. n, K[j] = K[k] PROVE j = k
    OBVIOUS
  <2>1. ~(K[j] < K[k]) /\ ~(K[k] < K[j])
    BY <1>3
  <2>2. ~(j < k) /\ ~(k < j)
    BY <1>6, <2>1
  <2> QED
    BY <1>3, <2>2
<1>8. Cardinality(S) = n
  <2>1. n \in Nat /\ \A k \in 1 .. n : K[k] \in S
    BY <1>3, <1>4
  <2>2. \A s \in S : \E k \in 1 .. n : K[k] = s
    BY <1>5
  <2> QED
    BY <1>7, <2>1, <2>2, Numbered
<1>9. ASSUME NEW k \in 1 .. n PROVE Cardinality({i \in S : i <= K[k]}) = k
  <2>1. PICK T : T = {i \in S : i <= K[k]}
    OBVIOUS
  <2>2. k \in Nat /\ \A j \in 1 .. k : j \in 1 .. n /\ (j = k \/ j < k)
    BY <1>3
  <2>3. \A j \in 1 .. k : K[j] \in T
    <3> SUFFICES ASSUME NEW j \in 1 .. k PROVE K[j] \in T
      OBVIOUS
    <3>1. K[j] \in S /\ K[j] \in Int /\ K[k] \in Int
      BY <1>3, <1>4, <2>2
    <3>2. K[j] = K[k] \/ K[j] < K[k]
      BY <1>6, <2>2
    <3>3. K[j] <= K[k]
      BY <3>1, <3>2
    <3> QED
      BY <2>1, <3>1, <3>3
  <2>4. \A s \in T : \E j \in 1 .. k : K[j] = s
    <3> SUFFICES ASSUME NEW s \in T PROVE \E j \in 1 .. k : K[j] = s
      OBVIOUS
    <3>1. s \in S /\ s <= K[k]
      BY <2>1
    <3>2. PICK j \in 1 .. n : K[j] = s
      BY <1>5, <3>1
    <3>3. ~(K[k] < K[j])
      BY <1>3, <3>1, <3>2
    <3>4. ~(k < j)
      BY <1>6, <3>3
    <3>5. j \in 1 .. k
      BY <1>3, <3>4
    <3> QED
      BY <3>2, <3>5
  <2>5. \A i, j \in 1 .. k : K[i] = K[j] => i = j
    BY <1>7, <2>2
  <2> QED
    BY <2>1, <2>2, <2>3, <2>4, <2>5, Numbered
<1>10. ASSUME NEW k \in 1 .. n
       PROVE  (CHOOSE id \in S : Cardinality({i \in S : i <= id}) = k) = K[k]
  <2>1. K[k] \in S /\ Cardinality({i \in S : i <= K[k]}) = k
    BY <1>4, <1>9
  <2>2. ASSUME NEW id \in S, Cardinality({i \in S : i <= id}) = k PROVE id = K[k]
    <3>1. PICK j \in 1 .. n : K[j] = id
      BY <1>5
    <3>2. Cardinality({i \in S : i <= K[j]}) = j
      BY <1>9
    <3>3. j = k
      BY <2>2, <3>1, <3>2, Zenon
    <3> QED
      BY <3>1, <3>3
  <2> DEFINE P(id) == Cardinality({i \in S : i <= id}) = k
  <2>3. K[k] \in S /\ P(K[k]) /\ \A id \in S : P(id) => id = K[k]
    BY <2>1, <2>2
  <2> HIDE DEF P
  <2>4. (CHOOSE id \in S : P(id)) = K[k]
    BY <2>3
  <2> QED
    BY <2>4 DEF P
<1>11. \A k \in 1 .. n : c[CHOOSE id \in S : Cardinality({i \in S : i <= id}) = k] = q[k]
  BY <1>4, <1>10
<1>12. q = [k \in 1 .. n |-> q[k]]
  BY <1>1, <1>3
<1> DEFINE w == [k \in 1 .. n |->
                    c[CHOOSE id \in S : Cardinality({i \in S : i <= id}) = k]]
<1>13. q = w
  BY <1>11, <1>12
<1> QED
  BY <1>8, <1>13 DEF RowsOf

\* bptree_range, before it looks at max_out, collects the rows of all ids
\* between its bounds: it starts in the right leaf and stops in the right one.
LEMMA CollectLists ==
  ASSUME NEW h, ShapeInv(h), NEW R, NEW F, NEW x, RangeInv(R, F, x), pc = "idle",
         NEW D, NEW G, LinkInv(D, G), NEW from \in Int, NEW to \in Int, from <= to
  PROVE  \E K : Lists(Collect(from, to), K, node,
                      {m \in 1 .. Len(node) : node[m].is_leaf}, from, to)
<1> DEFINE d == Len(node)
           part(n) == SubSeq(node[n].vals, LeafIdx(node[n], from),
                             LeafIdx(node[n], to + 1) - 1)
           above(n) == \E i \in DOMAIN node[n].keys : node[n].keys[i] > to
           Is(g) == g = [n \in {NULL} \cup DOMAIN node |->
                            IF n = NULL THEN <<>>
                            ELSE SubSeq(node[n].vals, LeafIdx(node[n], from),
                                        LeafIdx(node[n], to + 1) - 1)
                                 \o (IF \E i \in DOMAIN node[n].keys : node[n].keys[i] > to
                                     THEN <<>> ELSE g[node[n].next])]
<1>0. /\ Made(node) /\ Ranged(node, R, F) /\ Steps(node, R) /\ d \in Nat
      /\ DOMAIN node = 1 .. d
  BY DEF ShapeInv, TreeInv, RangeInv, Made
<1>1. PICK t : t = G[root] /\ Linked(node, D, t)
  BY DEF LinkInv
<1>2. /\ \A n \in 1 .. d : D[n] \in Nat
      /\ t \in 1 .. d
      /\ \A n \in 1 .. d : node[n].is_leaf =>
             /\ D[n] <= D[t]
             /\ node[n].next # NULL => /\ node[n].next \in 1 .. d
                                       /\ node[node[n].next].is_leaf
                                       /\ D[n] = D[node[n].next] + 1
  BY <1>1 DEF Linked
<1>3. \A n \in 1 .. d : ~node[n].is_leaf => node[n].next = NULL
  BY <1>0 DEF Made, WellMade
<1>4. PICK V, B, next, E : /\ V = [n \in 1 .. d |-> part(n)]
                           /\ B = {n \in 1 .. d : above(n)}
                           /\ next = [n \in 1 .. d |-> node[n].next]
                           /\ E = [n \in 1 .. d |-> IF node[n].is_leaf THEN D[n] ELSE 0]
  OBVIOUS
<1>5. \A n \in 1 .. d : V[n] = part(n) /\ (n \in B <=> above(n)) /\ next[n] = node[n].next
  BY <1>4
<1>6. \A n \in 1 .. d : E[n] = IF node[n].is_leaf THEN D[n] ELSE 0
  BY <1>4
<1> HIDE DEF part, above, d
<1>7. PICK g : Walks(g, {NULL} \cup 1 .. d, V, B, next)
  <2>1. \A n \in 1 .. d : E[n] \in Nat /\ E[n] <= D[t]
    <3>1. \A n \in 1 .. d : E[n] = D[n] \/ E[n] = 0
      BY <1>6
    <3>2. D[t] \in Nat
      BY <1>2
    <3> QED
      BY <1>2, <1>6, <3>2
  <2>2. \A n \in 1 .. d : next[n] = NULL \/ (next[n] \in 1 .. d /\ E[next[n]] < E[n])
    <3> SUFFICES ASSUME NEW n \in 1 .. d, node[n].next # NULL
                 PROVE  node[n].next \in 1 .. d /\ E[node[n].next] < E[n]
      BY <1>5
    <3>1. PICK c : c = node[n].next
      OBVIOUS
    <3>2. node[n].is_leaf /\ c \in 1 .. d /\ node[c].is_leaf /\ D[n] = D[c] + 1 /\ D[c] \in Nat
      BY <1>2, <1>3, <3>1
    <3>3. E[n] = D[n] /\ E[c] = D[c]
      BY <1>6, <3>2
    <3> QED
      BY <3>1, <3>2, <3>3
  <2>3. D[t] \in Nat
    BY <1>2
  <2> QED
    BY <1>0, <2>1, <2>2, <2>3, WalkEnds
<1>8. Is(g)
  <2>1. \A n \in {NULL} \cup 1 .. d :
            g[n] = IF n = NULL THEN <<>>
                   ELSE part(n) \o (IF above(n) THEN <<>> ELSE g[node[n].next])
    <3> SUFFICES ASSUME NEW n \in {NULL} \cup 1 .. d
                 PROVE  g[n] = IF n = NULL THEN <<>>
                               ELSE part(n) \o (IF above(n) THEN <<>> ELSE g[node[n].next])
      OBVIOUS
    <3>1. g[n] = IF n = NULL THEN <<>> ELSE V[n] \o (IF n \in B THEN <<>> ELSE g[next[n]])
      BY <1>7 DEF Walks
    <3>2. n # NULL => V[n] = part(n) /\ (n \in B <=> above(n)) /\ next[n] = node[n].next
      BY <1>5
    <3> QED
      BY <3>1, <3>2, Zenon
  <2>2. g = [n \in {NULL} \cup 1 .. d |-> g[n]]
    BY <1>7 DEF Walks
  <2>3. g = [n \in {NULL} \cup 1 .. d |->
                IF n = NULL THEN <<>>
                ELSE part(n) \o (IF above(n) THEN <<>> ELSE g[node[n].next])]
    BY <2>1, <2>2
  <2> QED
    BY <1>0, <2>3, Zenon DEF part, above
<1>9. PICK f : f = CHOOSE e : Is(e)
  OBVIOUS
<1>10. Is(f)
  <2> HIDE DEF Is
  <2> QED
    BY <1>8, <1>9, Zenon
<1>11. Collect(from, to) = f[LeafOf(from)]
  BY <1>9, Zenon DEF Collect
<1>12. /\ f[NULL] = <<>>
       /\ \A n \in 1 .. d : f[n] = part(n) \o (IF above(n) THEN <<>> ELSE f[node[n].next])
  <2>1. f = [n \in {NULL} \cup 1 .. d |->
                IF n = NULL THEN <<>>
                ELSE part(n) \o (IF above(n) THEN <<>> ELSE f[node[n].next])]
    BY <1>0, <1>10, Zenon DEF part, above
  <2> HIDE DEF Is
  <2>2. \A n \in {NULL} \cup 1 .. d :
            f[n] = IF n = NULL THEN <<>>
                   ELSE part(n) \o (IF above(n) THEN <<>> ELSE f[node[n].next])
    BY <2>1, Zenon
  <2>3. \A n \in 1 .. d : n # NULL
    BY DEF NULL
  <2> QED
    BY <2>2, <2>3, Zenon
<1> HIDE DEF Is
<1>13. IsScan(f, node, V, B, from, to)
  <2>1. ASSUME NEW n \in 1 .. d, node[n].is_leaf
        PROVE  \E K : Lists(V[n], K, node, {n}, from, to)
    <3>1. StrictlyUp(node[n].keys) /\ node[n].keys \in Seq(Int) /\ Len(node[n].keys) \in Nat
      BY <1>0, MadeFields DEF Ranged, Made, d
    <3>2. PICK i, e, u : i = LeafIdx(node[n], from) /\ u = to + 1 /\ e = LeafIdx(node[n], u)
      OBVIOUS
    <3>3. u \in Int
      BY <3>2
    <3>4. /\ i \in 1 .. Len(node[n].keys) + 1 /\ IsSpot(node[n].keys, from, i)
          /\ e \in 1 .. Len(node[n].keys) + 1 /\ IsSpot(node[n].keys, u, e)
      BY <3>1, <3>2, <3>3, LeafIdxFacts
    <3>5. PICK j : j = e - 1
      OBVIOUS
    <3>6. j \in 0 .. Len(node[n].keys) /\ j + 1 = e
      BY <3>1, <3>4, <3>5
    <3>7. IsSpot(node[n].keys, to + 1, j + 1)
      BY <3>2, <3>4, <3>6
    <3>8. Lists(SubSeq(node[n].vals, i, j), SubSeq(node[n].keys, i, j), node, {n}, from, to)
      BY <1>0, <2>1, <3>1, <3>4, <3>6, <3>7, ListsLeaf DEF d
    <3>9. V[n] = SubSeq(node[n].vals, i, j)
      BY <1>5, <3>2, <3>5 DEF part
    <3> QED
      BY <3>8, <3>9
  <2>2. \A n \in 1 .. d : /\ above(n) => f[n] = part(n) \o <<>>
                          /\ ~above(n) => f[n] = part(n) \o f[node[n].next]
    BY <1>12, Zenon
  <2>3. \A n \in 1 .. d : /\ n \in B => f[n] = V[n] \o <<>>
                          /\ n \notin B => f[n] = V[n] \o f[node[n].next]
    BY <1>5, <2>2, Zenon
  <2>4. \A n \in 1 .. d : DOMAIN node[n].keys = 1 .. Len(node[n].keys)
    BY <1>0, MadeFields DEF Made, d
  <2>5. \A n \in 1 .. d :
            /\ n \in B => \E i \in 1 .. Len(node[n].keys) : node[n].keys[i] > to
            /\ n \notin B => \A i \in 1 .. Len(node[n].keys) : ~(node[n].keys[i] > to)
    BY <1>5, <2>4 DEF above
  <2> QED
    BY <1>12, <2>1, <2>3, <2>5 DEF IsScan, d
<1>14. PICK l : l = LeafOf(from)
  OBVIOUS
<1>15. l \in 1 .. d /\ node[l].is_leaf /\ from \in R[l]
  BY <1>14, LeafOfIs DEF d
<1> DEFINE Upto == {m \in 1 .. Len(node) : node[m].is_leaf /\ D[m] <= D[l]}
           All == {m \in 1 .. Len(node) : node[m].is_leaf}
<1>16. PICK K : Lists(f[l], K, node, Upto, from, to)
  BY <1>0, <1>1, <1>13, <1>15, ScanLists DEF d
<1>17. \A m \in All, id \in from .. to : \A row : HeldBy(node, m, id, row) => m \in Upto
  <2> SUFFICES ASSUME NEW m \in All, NEW id \in from .. to, NEW row, HeldBy(node, m, id, row)
               PROVE  D[m] <= D[l]
    OBVIOUS
  <2>1. m \in 1 .. d /\ node[m].is_leaf
    BY DEF d
  <2>2. id \in R[m] /\ id \in Int
    BY <1>0, <2>1, HeldInRange DEF d
  <2>3. ~(id < from)
    BY <2>2
  <2>4. ~(D[l] < D[m])
    BY <1>0, <1>1, <1>15, <2>1, <2>2, <2>3, FarIsBelow DEF d
  <2> QED
    BY <1>2, <1>15, <2>1, <2>4
<1>18. Upto \subseteq All
  OBVIOUS
<1> HIDE DEF Upto
<1>19. Lists(f[l], K, node, All, from, to)
  BY <1>16, <1>17, <1>18, ListsMore
<1> QED
  BY <1>11, <1>14, <1>19

\* bptree_range returns the rows of the ids between its bounds, in the order
\* of the ids and each once, up to max_out of them, whatever splits there were.
THEOREM RangesAreExact == Spec => []RangeExact
<1> DEFINE Wanted(from, to) == DOMAIN Contents \cap from .. to
<1>1. ASSUME InOrder PROVE RangeExact
  <2>1. PICK h, R, F, x, D, G : ShapeInv(h) /\ RangeInv(R, F, x) /\ LinkInv(D, G)
    BY <1>1 DEF InOrder
  <2> SUFFICES ASSUME pc = "idle", NEW from \in Ids, NEW to \in Ids,
                      NEW max_out \in 0 .. Cardinality(Ids)
               PROVE  RowsInRange(from, to, max_out) =
                          SubSeq(RowsOf(Contents, Wanted(from, to)), 1,
                                 Min({Len(RowsOf(Contents, Wanted(from, to))), max_out}))
    BY Zenon DEF RangeExact, RowsOf
  <2>2. from \in Int /\ to \in Int /\ max_out \in Nat
    BY Constants
  <2>3. PICK q, S : S = Wanted(from, to) /\ q = RowsOf(Contents, S)
    OBVIOUS
  <2>4. ASSUME from <= to PROVE Collect(from, to) = q /\ q \in Seq(Nat)
    <3>1. PICK L : L = {m \in 1 .. Len(node) : node[m].is_leaf}
      OBVIOUS
    <3>2. PICK K : Lists(Collect(from, to), K, node, L, from, to)
      BY <2>1, <2>2, <2>4, <3>1, CollectLists
    <3>3. IsMap(Contents, node)
      BY <2>1, ContentsIs
    <3>4. Asked(S, Contents, from, to)
      BY <2>3 DEF Asked
    <3>5. AllLeaves(node, L)
      BY <3>1 DEF AllLeaves
    <3>6. Collect(from, to) = RowsOf(Contents, S)
      <4>1. PICK r, c : r = Collect(from, to) /\ c = Contents
        OBVIOUS
      <4>2. Lists(r, K, node, L, from, to) /\ IsMap(c, node) /\ Asked(S, c, from, to)
        BY <3>2, <3>3, <3>4, <4>1, Zenon
      <4>3. r = RowsOf(c, S)
        BY <2>2, <3>5, <4>2, ListedInOrder
      <4> QED
        BY <4>1, <4>3, Zenon
    <3>7. Collect(from, to) \in Seq(Nat)
      BY <3>2 DEF Lists
    <3> QED
      BY <2>3, <3>6, <3>7
  <2>5. ASSUME from > to PROVE q \in Seq(Nat) /\ Len(q) = 0
    <3>1. S = {}
      BY <2>2, <2>3, <2>5
    <3>2. Cardinality({}) = 0 /\ 1 .. 0 = {}
      BY FS_EmptySet
    <3>3. 1 .. Cardinality(S) = {} /\ q = RowsOf(Contents, S)
      BY <2>3, <3>1, <3>2
    <3>4. DOMAIN q = {} /\ q = [k \in DOMAIN q |-> q[k]]
      BY <3>3 DEF RowsOf
    <3>5. q = <<>>
      BY <3>4
    <3> QED
      BY <3>5
  <2> HIDE DEF Wanted
  <2>6. q \in Seq(Nat) /\ Len(q) \in Nat
    BY <2>2, <2>4, <2>5
  <2>7. \A a, b \in Nat : Min({a, b}) \in Nat /\ Min({a, b}) <= a /\ Min({a, b}) <= b
    <3> SUFFICES ASSUME NEW a \in Nat, NEW b \in Nat
                 PROVE  Min({a, b}) \in Nat /\ Min({a, b}) <= a /\ Min({a, b}) <= b
      OBVIOUS
    <3>1. \E e \in {a, b} : \A y \in {a, b} : e =< y
      BY SMT
    <3>2. Min({a, b}) \in {a, b} /\ \A y \in {a, b} : Min({a, b}) =< y
      BY <3>1 DEF Min
    <3> QED
      BY <3>2
  <2>8. PICK u : u = Min({Len(q), max_out})
    OBVIOUS
  <2>9. u \in Nat /\ u <= Len(q) /\ u <= max_out
    BY <2>2, <2>6, <2>7, <2>8
  <2>10. CASE max_out <= 0 \/ from > to
    <3>1. u = 0
      BY <2>2, <2>5, <2>9, <2>10
    <3>2. SubSeq(q, 1, 0) = <<>>
      BY SubSeqEmpty
    <3>3. RowsInRange(from, to, max_out) = <<>>
      BY <2>10 DEF RowsInRange
    <3> QED
      BY <2>3, <2>8, <3>1, <3>2, <3>3
  <2>11. CASE ~(max_out <= 0 \/ from > to)
    <3>1. Collect(from, to) = q
      BY <2>2, <2>4, <2>11
    <3>2. RowsInRange(from, to, max_out) =
              SubSeq(Collect(from, to), 1, Min({Len(Collect(from, to)), max_out}))
      BY <2>11, Zenon DEF RowsInRange
    <3> QED
      BY <2>3, <3>1, <3>2
  <2> QED
    BY <2>10, <2>11
<1> QED
  BY <1>1, OrderAlways, PTL

\* bptree_search and bptree_range are exact between inserts.
THEOREM LookupsAreExact == Spec => []LookupsExact
<1>1. SearchExact /\ RangeExact => LookupsExact
  BY DEF LookupsExact
<1> QED
  BY <1>1, SearchesAreExact, RangesAreExact, PTL

=============================================================================
