-------------------------- MODULE DictionaryProofs --------------------------
(***************************************************************************)
(* Proofs about Dictionary, for every alphabet, every set of words and     *)
(* every number of rows: what the loop over the rows builds is a trie      *)
(* without dead branches that finds each word by its last row, and the     *)
(* statements keep the trie of a ready engine equal to it, so that a       *)
(* prefix search over that trie answers the words of the file, each once.  *)
(***************************************************************************)
EXTENDS Dictionary, CopyingProofs, TLAPS

-----------------------------------------------------------------------------
(* The inductive invariant                                                 *)

\* A trie of at most m rows: its nodes are reached from the root, and each
\* leads to a word.
Tight(t, m) ==
    \A p \in DOMAIN t :
        /\ p \in Seq(1 .. Letters) /\ t[p] \in -1 .. m - 1
        /\ Prefixes(p) \subseteq DOMAIN t
        /\ p = <<>> \/ \E q \in DOMAIN t : IsPrefix(p, q) /\ t[q] >= 0

FileInv ==
    /\ schema \in BOOLEAN /\ exists \in BOOLEAN /\ ready \in BOOLEAN
    /\ unseen \in BOOLEAN /\ short \in BOOLEAN
    /\ rows \in Seq(Words) /\ Len(rows) <= MaxRows
    /\ admitted \in Words \cup {NoWord}

\* A ready engine answers from the trie of the rows in the file.
BuiltInv ==
    schema /\ exists /\ ~unseen /\ ready => AllValid(rows) /\ trie = Build(rows)

DictionaryInv == FileInv /\ Tight(trie, MaxRows) /\ BuiltInv /\ ReadyExact

-----------------------------------------------------------------------------
(* Paths                                                                   *)

\* A valid word is a path of the trie.
LEMMA ValidWordIsPath ==
  ASSUME NEW w \in Words, WordIsValid(w)
  PROVE  w \in Seq(1 .. Letters) /\ w # <<>>
<1>1. w \in Seq(0 .. Letters)
  BY DictionaryAssumption
<1>2. DOMAIN w = 1 .. Len(w) /\ Len(w) \in Nat /\ w = [i \in 1 .. Len(w) |-> w[i]]
  BY <1>1
<1>3. \A i \in 1 .. Len(w) : w[i] \in 1 .. Letters
  BY <1>2 DEF WordIsValid
<1>4. [i \in 1 .. Len(w) |-> w[i]] \in Seq(1 .. Letters)
  BY <1>2, <1>3
<1>5. w \in Seq(1 .. Letters)
  BY <1>2, <1>4, Zenon
<1> QED
  BY <1>5 DEF WordIsValid

\* The nodes on the way to a word, and those on the way to them.
LEMMA PathPrefixes ==
  ASSUME NEW S, NEW w \in Seq(S)
  PROVE  /\ w \in Prefixes(w)
         /\ \A p \in Prefixes(w) :
                /\ p \in Seq(S) /\ IsPrefix(p, w)
                /\ Prefixes(p) \subseteq Prefixes(w)
<1>1. Len(w) \in 0 .. Len(w) /\ w = SubSeq(w, 1, Len(w))
  OBVIOUS
<1>2. w \in Prefixes(w)
  BY <1>1 DEF Prefixes
<1>3. ASSUME NEW p \in Prefixes(w)
      PROVE  p \in Seq(S) /\ IsPrefix(p, w) /\ Prefixes(p) \subseteq Prefixes(w)
  <2>1. PICK l \in 0 .. Len(w) : p = SubSeq(w, 1, l)
    BY DEF Prefixes
  <2>2. p \in Seq(S) /\ Len(p) = l /\ \A k \in 1 .. l : p[k] = w[k]
    BY <2>1
  <2>3. SubSeq(p, 1, Len(p)) = p
    BY <2>2
  <2>4. IsPrefix(p, w)
    BY <2>1, <2>2, <2>3 DEF IsPrefix
  <2>5. ASSUME NEW k \in 0 .. Len(p) PROVE SubSeq(p, 1, k) \in Prefixes(w)
    <3>1. k \in 0 .. Len(w) /\ k <= l
      BY <2>2
    <3>2. SubSeq(p, 1, k) = SubSeq(w, 1, k)
      BY <2>2, <3>1
    <3> QED
      BY <3>1, <3>2 DEF Prefixes
  <2>6. Prefixes(p) \subseteq Prefixes(w)
    BY <2>5 DEF Prefixes
  <2> QED
    BY <2>2, <2>4, <2>6
<1> QED
  BY <1>2, <1>3

\* trie_insert keeps the trie tight: the nodes it makes lead to the new word.
LEMMA InsertTight ==
  ASSUME NEW t, NEW m \in Nat, Tight(t, m),
         NEW w \in Seq(1 .. Letters)
  PROVE  Tight(TrieInsert(t, w, m), m + 1)
<1> DEFINE u == TrieInsert(t, w, m)
<1>1. /\ DOMAIN u = DOMAIN t \cup Prefixes(w)
      /\ \A p \in DOMAIN u : u[p] = IF p = w THEN m ELSE IF p \in DOMAIN t THEN t[p] ELSE -1
  BY DEF TrieInsert
<1>2. /\ w \in Prefixes(w)
      /\ \A p \in Prefixes(w) : /\ p \in Seq(1 .. Letters) /\ IsPrefix(p, w)
                                /\ Prefixes(p) \subseteq Prefixes(w)
  BY PathPrefixes
<1> HIDE DEF u
<1> SUFFICES ASSUME NEW p \in DOMAIN u
             PROVE  /\ p \in Seq(1 .. Letters) /\ u[p] \in -1 .. (m + 1) - 1
                    /\ Prefixes(p) \subseteq DOMAIN u
                    /\ p = <<>> \/ \E q \in DOMAIN u : IsPrefix(p, q) /\ u[q] >= 0
  BY DEF Tight, u
<1>3. w \in DOMAIN u /\ u[w] = m /\ m >= 0
  BY <1>1, <1>2
<1>4. CASE p \in Prefixes(w)
  <2>1. u[p] \in -1 .. (m + 1) - 1
    BY <1>1 DEF Tight
  <2> QED
    BY <1>1, <1>2, <1>3, <1>4, <2>1
<1>5. CASE p \notin Prefixes(w)
  <2>1. p \in DOMAIN t /\ p # w /\ u[p] = t[p]
    BY <1>1, <1>2, <1>5
  <2>2. /\ p \in Seq(1 .. Letters) /\ t[p] \in -1 .. m - 1
        /\ Prefixes(p) \subseteq DOMAIN t
        /\ p = <<>> \/ \E q \in DOMAIN t : IsPrefix(p, q) /\ t[q] >= 0
    BY <2>1 DEF Tight
  <2>3. \A q \in DOMAIN t : t[q] >= 0 => u[q] >= 0
    BY <1>1, <1>3
  <2>4. p = <<>> \/ \E q \in DOMAIN u : IsPrefix(p, q) /\ u[q] >= 0
    BY <1>1, <2>2, <2>3
  <2>5. u[p] \in -1 .. (m + 1) - 1
    BY <2>1, <2>2
  <2> QED
    BY <1>1, <2>2, <2>4, <2>5
<1> QED
  BY <1>4, <1>5

\* trie_create makes a tight trie.
LEMMA EmptyTight ==
  ASSUME NEW m \in Nat
  PROVE  Tight(EmptyTrie, m) /\ Tight(NoTrie, m)
<1>1. DOMAIN EmptyTrie = {<<>>} /\ EmptyTrie[<<>>] = -1 /\ DOMAIN NoTrie = {}
  BY DEF EmptyTrie, NoTrie
<1>2. <<>> \in Seq(1 .. Letters) /\ Len(<<>>) = 0
  OBVIOUS
<1>3. Prefixes(<<>>) \subseteq {<<>>}
  BY <1>2 DEF Prefixes
<1>4. -1 \in -1 .. m - 1
  OBVIOUS
<1> QED
  BY <1>1, <1>2, <1>3, <1>4 DEF Tight

-----------------------------------------------------------------------------
(* What the loop over the rows builds                                      *)

\* The row a trie has for a word.
RowOf(t, p) == IF p \in DOMAIN t THEN t[p] ELSE -1

\* Of the first n rows the last one that holds p is numbered r.
LastAt(s, n, p, r) ==
    \/ r = -1 /\ \A k \in 1 .. n : s[k] # p
    \/ /\ r + 1 \in 1 .. n /\ r \in Int /\ s[r + 1] = p
       /\ \A k \in 1 .. n : s[k] = p => k <= r + 1

\* g has the trie after every row of the loop.
Loop(g, s) ==
    /\ g[0] = EmptyTrie
    /\ \A n \in 1 .. Len(s) : g[n] = TrieInsert(g[n - 1], s[n], n - 1)
    /\ Build(s) = g[Len(s)]

\* The loop runs: there is a function that describes it.
LEMMA LoopExists ==
  ASSUME NEW s \in Seq(Words)
  PROVE  \E g : Loop(g, s)
<1> DEFINE loop(g, n) == /\ g = [k \in 0 .. n |-> g[k]]
                         /\ g[0] = EmptyTrie
                         /\ \A k \in 1 .. n : g[k] = TrieInsert(g[k - 1], s[k], k - 1)
           bad == {n \in 0 .. Len(s) : ~ \E g : loop(g, n)}
<1>0. Len(s) \in Nat
  OBVIOUS
<1>1. bad = {}
  <2> SUFFICES ASSUME bad # {} PROVE FALSE
    OBVIOUS
  <2>1. bad \subseteq Nat
    OBVIOUS
  <2>2. PICK n \in bad : \A y \in bad : n <= y
    <3> HIDE DEF bad
    <3> QED
      BY <2>1, LeastNatural
  <2>3. loop([k \in 0 .. 0 |-> EmptyTrie], 0)
    OBVIOUS
  <2>4. n \in Nat /\ n # 0 /\ n - 1 \in 0 .. Len(s) /\ ~(n <= n - 1)
    <3>1. n \in 0 .. Len(s) /\ ~ \E g : loop(g, n)
      OBVIOUS
    <3> HIDE DEF loop, bad
    <3>2. n # 0
      BY <2>3, <3>1
    <3> QED
      BY <1>0, <3>1, <3>2
  <2>5. n - 1 \notin bad
    <3> HIDE DEF bad
    <3> QED
      BY <2>2, <2>4
  <2>6. PICK g : loop(g, n - 1)
    <3> HIDE DEF loop
    <3> QED
      BY <2>4, <2>5
  <2> DEFINE h == [k \in 0 .. n |->
                      IF k = n THEN TrieInsert(g[n - 1], s[n], n - 1) ELSE g[k]]
  <2>7. \A k \in 0 .. n - 1 : k \in 0 .. n /\ h[k] = g[k]
    BY <2>4
  <2>8. h[0] = EmptyTrie
    BY <2>4, <2>6
  <2>9. ASSUME NEW k \in 1 .. n PROVE h[k] = TrieInsert(h[k - 1], s[k], k - 1)
    <3>1. k - 1 \in 0 .. n - 1 /\ h[k - 1] = g[k - 1]
      BY <2>4, <2>7
    <3>2. CASE k = n
      BY <2>4, <3>1, <3>2
    <3>3. CASE k # n
      <4>1. k \in 1 .. n - 1 /\ k \in 0 .. n - 1
        BY <2>4, <3>3
      <4> QED
        BY <2>6, <2>7, <3>1, <4>1
    <3> QED
      BY <3>2, <3>3
  <2>10. h = [k \in 0 .. n |-> h[k]]
    OBVIOUS
  <2>11. loop(h, n)
    <3> HIDE DEF h
    <3> QED
      BY <2>8, <2>9, <2>10
  <2> HIDE DEF loop, h
  <2> QED
    BY <2>11
<1>2. PICK g : loop(g, Len(s))
  <2> HIDE DEF loop
  <2>1. Len(s) \in 0 .. Len(s) /\ Len(s) \notin bad
    BY <1>0, <1>1
  <2> QED
    BY <2>1
<1> DEFINE body(f) == [n \in 0 .. Len(s) |->
                          IF n = 0 THEN EmptyTrie ELSE TrieInsert(f[n - 1], s[n], n - 1)]
           upto == CHOOSE f : f = body(f)
<1>3. g = body(g)
  <2>1. ASSUME NEW n \in 0 .. Len(s) PROVE g[n] = body(g)[n]
    <3>1. n = 0 \/ n \in 1 .. Len(s)
      BY <1>0
    <3> QED
      BY <1>2, <3>1
  <2>2. g = [n \in 0 .. Len(s) |-> g[n]]
    BY <1>2
  <2>3. body(g) = [n \in 0 .. Len(s) |-> body(g)[n]]
    OBVIOUS
  <2> HIDE DEF body
  <2> QED
    BY <2>1, <2>2, <2>3
<1>4. upto = body(upto)
  BY <1>3
<1>5. Build(s) = upto[Len(s)]
  BY DEF Build
<1> HIDE DEF upto
<1>6. upto[0] = EmptyTrie
  BY <1>0, <1>4
<1>7. ASSUME NEW n \in 1 .. Len(s)
      PROVE  upto[n] = TrieInsert(upto[n - 1], s[n], n - 1)
  <2>1. n \in 0 .. Len(s) /\ n # 0
    BY <1>0
  <2> QED
    BY <1>4, <2>1
<1> QED
  BY <1>5, <1>6, <1>7 DEF Loop

\* A search finds the new row under the new word and the old ones elsewhere.
LEMMA InsertFinds ==
  ASSUME NEW t, NEW w \in Seq(1 .. Letters), NEW m, NEW p
  PROVE  RowOf(TrieInsert(t, w, m), p) = IF p = w THEN m ELSE RowOf(t, p)
<1> DEFINE u == TrieInsert(t, w, m)
<1>1. /\ DOMAIN u = DOMAIN t \cup Prefixes(w)
      /\ \A q \in DOMAIN u : u[q] = IF q = w THEN m ELSE IF q \in DOMAIN t THEN t[q] ELSE -1
  BY DEF TrieInsert
<1>2. w \in Prefixes(w)
  BY PathPrefixes
<1> HIDE DEF u
<1>3. RowOf(u, p) = IF p = w THEN m ELSE RowOf(t, p)
  BY <1>1, <1>2 DEF RowOf
<1> QED
  BY <1>3 DEF u

\* From words the trie can hold, the loop builds a tight trie that has every
\* word under the last row that holds it.
LEMMA BuildIsExact ==
  ASSUME NEW s \in Seq(Words), AllValid(s)
  PROVE  /\ Tight(Build(s), Len(s))
         /\ \A p : p # <<>> => LastAt(s, Len(s), p, RowOf(Build(s), p))
<1>0. Len(s) \in Nat /\ DOMAIN s = 1 .. Len(s) /\ \A k \in 1 .. Len(s) : s[k] \in Words
  OBVIOUS
<1>0a. PICK g : Loop(g, s)
  BY LoopExists
<1>1. /\ g[0] = EmptyTrie
      /\ \A n \in 1 .. Len(s) : g[n] = TrieInsert(g[n - 1], s[n], n - 1)
      /\ Build(s) = g[Len(s)]
  BY <1>0a DEF Loop
<1>2. \A k \in 1 .. Len(s) : s[k] \in Seq(1 .. Letters) /\ s[k] # <<>>
  BY <1>0, ValidWordIsPath DEF AllValid
<1> DEFINE good(n) == /\ Tight(g[n], n)
                      /\ \A p : p # <<>> => LastAt(s, n, p, RowOf(g[n], p))
           bad == {n \in 0 .. Len(s) : ~good(n)}
<1>3. good(0)
  <2>1. Tight(g[0], 0)
    BY <1>1, EmptyTight
  <2>2. \A p : p # <<>> => RowOf(g[0], p) = -1
    BY <1>1 DEF RowOf, EmptyTrie
  <2>3. \A p : p # <<>> => LastAt(s, 0, p, RowOf(g[0], p))
    BY <2>2 DEF LastAt
  <2> QED
    BY <2>1, <2>3
<1>4. ASSUME NEW n \in 1 .. Len(s), good(n - 1) PROVE good(n)
  <2>0. /\ n - 1 \in Nat /\ (n - 1) + 1 = n /\ n \in Nat
        /\ g[n] = TrieInsert(g[n - 1], s[n], n - 1)
        /\ s[n] \in Seq(1 .. Letters)
    BY <1>0, <1>1, <1>2
  <2>1. Tight(g[n], n)
    <3>1. Tight(TrieInsert(g[n - 1], s[n], n - 1), (n - 1) + 1)
      BY <1>4, <2>0, InsertTight
    <3> QED
      BY <2>0, <3>1
  <2>2. ASSUME NEW p, p # <<>> PROVE LastAt(s, n, p, RowOf(g[n], p))
    <3>1. RowOf(g[n], p) = IF p = s[n] THEN n - 1 ELSE RowOf(g[n - 1], p)
      BY <2>0, InsertFinds
    <3>2. LastAt(s, n - 1, p, RowOf(g[n - 1], p))
      BY <1>4, <2>2
    <3>3. CASE p = s[n]
      BY <2>0, <3>1, <3>3 DEF LastAt
    <3>4. CASE p # s[n]
      <4>1. \A k \in 1 .. n : k \in 1 .. n - 1 \/ k = n
        BY <2>0
      <4> QED
        BY <2>0, <3>1, <3>2, <3>4, <4>1 DEF LastAt
    <3> QED
      BY <3>3, <3>4
  <2> QED
    BY <2>1, <2>2
<1> HIDE DEF good
<1>5. bad = {}
  <2> SUFFICES ASSUME bad # {} PROVE FALSE
    OBVIOUS
  <2>1. bad \subseteq Nat
    OBVIOUS
  <2>2. PICK n \in bad : \A y \in bad : n <= y
    <3> HIDE DEF bad
    <3> QED
      BY <2>1, LeastNatural
  <2>3. n \in 1 .. Len(s) /\ ~good(n) /\ n - 1 \in 0 .. Len(s) /\ ~(n <= n - 1)
    BY <1>0, <1>3
  <2>4. n - 1 \notin bad
    <3> HIDE DEF bad
    <3> QED
      BY <2>2, <2>3
  <2>5. good(n - 1)
    BY <2>3, <2>4
  <2> QED
    BY <1>4, <2>3, <2>5
<1>6. good(Len(s))
  BY <1>0, <1>5
<1> QED
  BY <1>1, <1>6 DEF good

-----------------------------------------------------------------------------
(* What a search by prefix collects                                        *)

\* q has the numbers of S, each once.
Covers(q, S) ==
    /\ q \in Seq(Int)
    /\ \A i, j \in 1 .. Len(q) : q[i] = q[j] => i = j
    /\ \A x : x \in S <=> \E i \in 1 .. Len(q) : q[i] = x

\* A list of nothing, and of one row.
LEMMA CoversFew ==
  /\ Covers(<<>>, {})
  /\ \A x \in Int : Covers(<<x>>, {x})
<1>1. Covers(<<>>, {})
  <2>1. <<>> \in Seq(Int) /\ 1 .. Len(<<>>) = {}
    OBVIOUS
  <2> QED
    BY <2>1 DEF Covers
<1>2. ASSUME NEW x \in Int PROVE Covers(<<x>>, {x})
  <2>1. PICK q : q = <<x>>
    OBVIOUS
  <2>2. q \in Seq(Int) /\ Len(q) = 1 /\ q[1] = x
    BY <2>1
  <2>3. \A i \in 1 .. Len(q) : i = 1
    BY <2>2
  <2>4. 1 \in 1 .. Len(q)
    BY <2>2
  <2>5. Covers(q, {x})
    BY <2>2, <2>3, <2>4 DEF Covers
  <2> QED
    BY <2>1, <2>5
<1> QED
  BY <1>1, <1>2

\* Two lists without a common row.
LEMMA CoversBoth ==
  ASSUME NEW q, NEW S, Covers(q, S), NEW r, NEW T, Covers(r, T),
         \A x : ~(x \in S /\ x \in T)
  PROVE  Covers(q \o r, S \cup T)
<1>1. /\ q \in Seq(Int)
      /\ \A i, j \in 1 .. Len(q) : q[i] = q[j] => i = j
      /\ \A x : x \in S <=> \E i \in 1 .. Len(q) : q[i] = x
  BY DEF Covers
<1>2. /\ r \in Seq(Int)
      /\ \A i, j \in 1 .. Len(r) : r[i] = r[j] => i = j
      /\ \A x : x \in T <=> \E i \in 1 .. Len(r) : r[i] = x
  BY DEF Covers
<1>3. PICK m, n, p : m = Len(q) /\ n = Len(r) /\ p = q \o r
  OBVIOUS
<1>4. /\ m \in Nat /\ n \in Nat /\ p \in Seq(Int) /\ Len(p) = m + n
      /\ \A k \in 1 .. m + n : /\ k <= m => p[k] = q[k]
                               /\ ~(k <= m) => p[k] = r[k - m]
  BY <1>1, <1>2, <1>3
<1>5. \A k \in 1 .. m : k \in 1 .. m + n /\ p[k] = q[k]
  BY <1>4
<1>6. \A k \in 1 .. n : m + k \in 1 .. m + n /\ p[m + k] = r[k]
  <2> SUFFICES ASSUME NEW k \in 1 .. n PROVE m + k \in 1 .. m + n /\ p[m + k] = r[k]
    OBVIOUS
  <2>1. m + k \in 1 .. m + n /\ ~(m + k <= m) /\ (m + k) - m = k
    BY <1>4
  <2> QED
    BY <1>4, <2>1
<1>7. \A k \in 1 .. m + n : k \in 1 .. m \/ \E l \in 1 .. n : k = m + l
  <2> SUFFICES ASSUME NEW k \in 1 .. m + n, k \notin 1 .. m
               PROVE  \E l \in 1 .. n : k = m + l
    OBVIOUS
  <2>1. k - m \in 1 .. n /\ k = m + (k - m)
    BY <1>4
  <2> QED
    BY <2>1
<1>8. \A i \in 1 .. m : p[i] \in S
  BY <1>1, <1>3, <1>5
<1>9. \A i \in 1 .. n : p[m + i] \in T
  BY <1>2, <1>3, <1>6
<1>10. ASSUME NEW i \in 1 .. m + n, NEW j \in 1 .. m + n, p[i] = p[j] PROVE i = j
  <2>1. CASE i \in 1 .. m /\ j \in 1 .. m
    BY <1>1, <1>3, <1>5, <1>10, <2>1
  <2>2. CASE i \in 1 .. m /\ \E l \in 1 .. n : j = m + l
    BY <1>8, <1>9, <1>10, <2>2
  <2>3. CASE j \in 1 .. m /\ \E l \in 1 .. n : i = m + l
    BY <1>8, <1>9, <1>10, <2>3
  <2>4. CASE (\E k \in 1 .. n : i = m + k) /\ (\E l \in 1 .. n : j = m + l)
    <3>1. PICK k \in 1 .. n : i = m + k
      BY <2>4
    <3>2. PICK l \in 1 .. n : j = m + l
      BY <2>4
    <3>3. r[k] = r[l]
      BY <1>6, <1>10, <3>1, <3>2
    <3>4. k = l
      BY <1>2, <1>3, <3>3
    <3> QED
      BY <3>1, <3>2, <3>4
  <2> QED
    BY <1>7, <2>1, <2>2, <2>3, <2>4
<1>11. ASSUME NEW x PROVE x \in S \cup T <=> \E i \in 1 .. m + n : p[i] = x
  <2>1. ASSUME x \in S PROVE \E i \in 1 .. m + n : p[i] = x
    <3>1. PICK i \in 1 .. m : q[i] = x
      BY <1>1, <1>3, <2>1
    <3> QED
      BY <1>5, <3>1
  <2>2. ASSUME x \in T PROVE \E i \in 1 .. m + n : p[i] = x
    <3>1. PICK i \in 1 .. n : r[i] = x
      BY <1>2, <1>3, <2>2
    <3> QED
      BY <1>6, <3>1
  <2>3. ASSUME NEW i \in 1 .. m + n, p[i] = x PROVE x \in S \cup T
    BY <1>7, <1>8, <1>9, <2>3
  <2> QED
    BY <2>1, <2>2, <2>3
<1>12. Covers(p, S \cup T)
  BY <1>4, <1>10, <1>11 DEF Covers
<1> QED
  BY <1>3, <1>12

\* g has what FlattenSeq has joined of the first lists of ss.
Joins(g, ss) ==
    /\ g[1] = ss[1]
    /\ \A n \in 2 .. Len(ss) : g[n] = g[n - 1] \o ss[n]
    /\ FlattenSeq(ss) = g[Len(ss)]

\* FlattenSeq joins list by list.
LEMMA JoinsExists ==
  ASSUME NEW ss, Len(ss) \in Nat \ {0}
  PROVE  \E g : Joins(g, ss)
<1> DEFINE join(g, n) == /\ g = [k \in 1 .. n |-> g[k]]
                         /\ g[1] = ss[1]
                         /\ \A k \in 2 .. n : g[k] = g[k - 1] \o ss[k]
           bad == {n \in 1 .. Len(ss) : ~ \E g : join(g, n)}
<1>0. Len(ss) \in Nat /\ Len(ss) \in 1 .. Len(ss) /\ \A n \in 1 .. Len(ss) : n \in Nat
  OBVIOUS
<1>1. bad = {}
  <2> SUFFICES ASSUME bad # {} PROVE FALSE
    OBVIOUS
  <2>1. bad \subseteq Nat
    <3> HIDE DEF join
    <3> QED
      BY <1>0
  <2>2. PICK n \in bad : \A y \in bad : n <= y
    <3> HIDE DEF bad
    <3> QED
      BY <2>1, LeastNatural
  <2>3. join([k \in 1 .. 1 |-> ss[1]], 1)
    OBVIOUS
  <2>4. n \in Nat /\ n # 1 /\ n - 1 \in 1 .. Len(ss) /\ ~(n <= n - 1)
    <3>1. n \in 1 .. Len(ss) /\ ~ \E g : join(g, n)
      OBVIOUS
    <3> HIDE DEF join, bad
    <3>2. n # 1
      BY <2>3, <3>1
    <3> QED
      BY <3>1, <3>2
  <2>5. n - 1 \notin bad
    <3> HIDE DEF bad
    <3> QED
      BY <2>2, <2>4
  <2>6. PICK g : join(g, n - 1)
    <3> HIDE DEF join
    <3> QED
      BY <2>4, <2>5
  <2> DEFINE h == [k \in 1 .. n |-> IF k = n THEN g[n - 1] \o ss[n] ELSE g[k]]
  <2>7. \A k \in 1 .. n - 1 : k \in 1 .. n /\ h[k] = g[k]
    BY <2>4
  <2>8. h[1] = ss[1]
    BY <2>4, <2>6
  <2>9. ASSUME NEW k \in 2 .. n PROVE h[k] = h[k - 1] \o ss[k]
    <3>1. k - 1 \in 1 .. n - 1 /\ h[k - 1] = g[k - 1] /\ k \in 1 .. n
      BY <2>4, <2>7
    <3>2. CASE k = n
      BY <2>4, <3>1, <3>2
    <3>3. CASE k # n
      <4>1. k \in 2 .. n - 1 /\ k \in 1 .. n - 1
        BY <2>4, <3>3
      <4> QED
        BY <2>6, <2>7, <3>1, <4>1
    <3> QED
      BY <3>2, <3>3
  <2>10. h = [k \in 1 .. n |-> h[k]]
    OBVIOUS
  <2>11. join(h, n)
    <3> HIDE DEF h
    <3> QED
      BY <2>8, <2>9, <2>10
  <2> HIDE DEF join, h
  <2> QED
    BY <2>11
<1>2. PICK g : join(g, Len(ss))
  <2> HIDE DEF join
  <2>1. Len(ss) \in 1 .. Len(ss) /\ Len(ss) \notin bad
    BY <1>0, <1>1
  <2> QED
    BY <2>1
<1> DEFINE body(f) == [n \in 1 .. Len(ss) |-> IF n = 1 THEN ss[n] ELSE f[n - 1] \o ss[n]]
           flatten == CHOOSE f : f = body(f)
<1>3. g = body(g)
  <2>1. ASSUME NEW n \in 1 .. Len(ss) PROVE g[n] = body(g)[n]
    <3>1. n = 1 \/ n \in 2 .. Len(ss)
      OBVIOUS
    <3> QED
      BY <1>2, <3>1
  <2>2. g = [n \in 1 .. Len(ss) |-> g[n]]
    BY <1>2
  <2>3. body(g) = [n \in 1 .. Len(ss) |-> body(g)[n]]
    OBVIOUS
  <2> HIDE DEF body
  <2> QED
    BY <2>1, <2>2, <2>3
<1>4. flatten = body(flatten)
  BY <1>3
<1>5. FlattenSeq(ss) = flatten[Len(ss)]
  BY DEF FlattenSeq
<1> HIDE DEF flatten
<1>6. flatten[1] = ss[1]
  BY <1>4
<1>7. ASSUME NEW n \in 2 .. Len(ss) PROVE flatten[n] = flatten[n - 1] \o ss[n]
  <2>1. n \in 1 .. Len(ss) /\ n # 1
    OBVIOUS
  <2> QED
    BY <1>4, <2>1
<1> QED
  BY <1>5, <1>6, <1>7 DEF Joins

\* The rows of the first n lists.
Some(S, n) == UNION {S[k] : k \in 1 .. n}

\* The children of a node one after the other: no row twice, if no two of
\* them have a row in common.
LEMMA CoversFlat ==
  ASSUME NEW ss, Len(ss) \in Nat \ {0}, NEW S,
         \A k \in 1 .. Len(ss) : Covers(ss[k], S[k]),
         \A j, k \in 1 .. Len(ss) : \A x : x \in S[j] /\ x \in S[k] => j = k
  PROVE  Covers(FlattenSeq(ss), Some(S, Len(ss)))
<1>1. PICK g : Joins(g, ss)
  BY JoinsExists
<1>2. /\ g[1] = ss[1]
      /\ \A n \in 2 .. Len(ss) : g[n] = g[n - 1] \o ss[n]
      /\ FlattenSeq(ss) = g[Len(ss)]
  BY <1>1 DEF Joins
<1> DEFINE good(n) == Covers(g[n], Some(S, n))
           bad == {n \in 1 .. Len(ss) : ~good(n)}
<1>3. good(1)
  <2>1. Some(S, 1) = S[1]
    BY DEF Some
  <2> QED
    BY <1>2, <2>1
<1>4. ASSUME NEW n \in 2 .. Len(ss), good(n - 1) PROVE good(n)
  <2>1. n \in 1 .. Len(ss) /\ n - 1 \in Nat /\ \A k \in 1 .. n : k \in 1 .. n - 1 \/ k = n
    OBVIOUS
  <2>2. \A k \in 1 .. n - 1 : k \in 1 .. Len(ss) /\ k # n /\ k \in 1 .. n
    OBVIOUS
  <2>3. n \in 1 .. n
    OBVIOUS
  <2>4. Some(S, n) = Some(S, n - 1) \cup S[n]
    BY <2>1, <2>2, <2>3 DEF Some
  <2>5. \A x : ~(x \in Some(S, n - 1) /\ x \in S[n])
    BY <2>1, <2>2 DEF Some
  <2>6. Covers(g[n - 1] \o ss[n], Some(S, n - 1) \cup S[n])
    BY <1>4, <2>1, <2>5, CoversBoth
  <2> QED
    BY <1>2, <2>4, <2>6
<1> HIDE DEF good
<1>5. bad = {}
  <2> SUFFICES ASSUME bad # {} PROVE FALSE
    OBVIOUS
  <2>1. bad \subseteq Nat
    OBVIOUS
  <2>2. PICK n \in bad : \A y \in bad : n <= y
    <3> HIDE DEF bad
    <3> QED
      BY <2>1, LeastNatural
  <2>3. n \in 1 .. Len(ss) /\ ~good(n) /\ n # 1
    BY <1>3
  <2>4. n \in 2 .. Len(ss) /\ n - 1 \in 1 .. Len(ss) /\ ~(n <= n - 1)
    BY <2>3
  <2>5. n - 1 \notin bad
    <3> HIDE DEF bad
    <3> QED
      BY <2>2, <2>4
  <2>6. good(n - 1)
    BY <2>4, <2>5
  <2> QED
    BY <1>4, <2>3, <2>4, <2>6
<1>6. good(Len(ss))
  BY <1>5
<1> QED
  BY <1>2, <1>6 DEF good

\* No path has m letters.
Below(t, m) == \A p \in DOMAIN t : p \in Seq(1 .. Letters) /\ Len(p) < m

\* The loop over the rows builds a trie of some depth.
LEMMA BuildIsBounded ==
  ASSUME NEW s \in Seq(Words), AllValid(s)
  PROVE  \E m \in Nat : Below(Build(s), m)
<1>0. Len(s) \in Nat /\ DOMAIN s = 1 .. Len(s) /\ \A k \in 1 .. Len(s) : s[k] \in Words
  OBVIOUS
<1>0a. PICK g : Loop(g, s)
  BY LoopExists
<1>1. /\ g[0] = EmptyTrie
      /\ \A n \in 1 .. Len(s) : g[n] = TrieInsert(g[n - 1], s[n], n - 1)
      /\ Build(s) = g[Len(s)]
  BY <1>0a DEF Loop
<1>2. \A k \in 1 .. Len(s) : s[k] \in Seq(1 .. Letters) /\ s[k] # <<>>
  BY <1>0, ValidWordIsPath DEF AllValid
<1> DEFINE good(n) == \E m \in Nat : Below(g[n], m)
           bad == {n \in 0 .. Len(s) : ~good(n)}
<1>3. good(0)
  <2>1. DOMAIN g[0] = {<<>>}
    BY <1>1 DEF EmptyTrie
  <2>2. <<>> \in Seq(1 .. Letters) /\ Len(<<>>) < 1
    OBVIOUS
  <2>3. Below(g[0], 1)
    BY <2>1, <2>2 DEF Below
  <2> QED
    BY <2>3
<1>4. ASSUME NEW n \in 1 .. Len(s), good(n - 1) PROVE good(n)
  <2>1. PICK m \in Nat : Below(g[n - 1], m)
    BY <1>4
  <2>2. PICK w : w = s[n]
    OBVIOUS
  <2>3. w \in Seq(1 .. Letters) /\ Len(w) \in Nat
    BY <1>2, <2>2
  <2>4. DOMAIN g[n] = DOMAIN g[n - 1] \cup Prefixes(w)
    BY <1>1, <2>2 DEF TrieInsert
  <2>5. \A p \in Prefixes(w) : p \in Seq(1 .. Letters) /\ Len(p) <= Len(w) /\ Len(p) \in Nat
    <3> SUFFICES ASSUME NEW p \in Prefixes(w)
                 PROVE  p \in Seq(1 .. Letters) /\ Len(p) <= Len(w) /\ Len(p) \in Nat
      OBVIOUS
    <3>1. p \in Seq(1 .. Letters) /\ IsPrefix(p, w)
      BY <2>3, PathPrefixes
    <3> QED
      BY <3>1 DEF IsPrefix
  <2>6. PICK l : l = m + Len(w) + 1
    OBVIOUS
  <2>7. l \in Nat /\ m <= l /\ Len(w) < l
    BY <2>3, <2>6
  <2>8. ASSUME NEW p \in DOMAIN g[n - 1] PROVE p \in Seq(1 .. Letters) /\ Len(p) < l
    <3>1. p \in Seq(1 .. Letters) /\ Len(p) < m /\ Len(p) \in Nat
      BY <2>1 DEF Below
    <3> QED
      BY <2>7, <3>1
  <2>9. ASSUME NEW p \in Prefixes(w) PROVE p \in Seq(1 .. Letters) /\ Len(p) < l
    <3>1. p \in Seq(1 .. Letters) /\ Len(p) <= Len(w) /\ Len(p) \in Nat
      BY <2>5
    <3> QED
      BY <2>3, <2>7, <3>1
  <2>10. Below(g[n], l)
    BY <2>4, <2>8, <2>9 DEF Below
  <2> QED
    BY <2>7, <2>10
<1> HIDE DEF good
<1>5. bad = {}
  <2> SUFFICES ASSUME bad # {} PROVE FALSE
    OBVIOUS
  <2>1. bad \subseteq Nat
    OBVIOUS
  <2>2. PICK n \in bad : \A y \in bad : n <= y
    <3> HIDE DEF bad
    <3> QED
      BY <2>1, LeastNatural
  <2>3. n \in 1 .. Len(s) /\ ~good(n) /\ n - 1 \in 0 .. Len(s) /\ ~(n <= n - 1)
    BY <1>0, <1>3
  <2>4. n - 1 \notin bad
    <3> HIDE DEF bad
    <3> QED
      BY <2>2, <2>3
  <2>5. good(n - 1)
    BY <2>3, <2>4
  <2> QED
    BY <1>4, <2>3, <2>5
<1>6. good(Len(s))
  BY <1>0, <1>5
<1> QED
  BY <1>1, <1>6 DEF good

\* The row of a node, and what f has for its children.
Own(t, p) == IF t[p] >= 0 THEN <<t[p]>> ELSE <<>>
Kids(f, t, p) ==
    [k \in 1 .. Letters |-> IF Append(p, k) \in DOMAIN t THEN f[Append(p, k)] ELSE <<>>]
Gathered(f, t, p) == Own(t, p) \o FlattenSeq(Kids(f, t, p))

\* A child is one letter longer.
LEMMA ChildIsLonger ==
  ASSUME NEW t, NEW m \in Nat, Below(t, m), NEW p \in DOMAIN t, NEW k \in 1 .. Letters
  PROVE  /\ Len(p) \in Nat /\ Append(p, k) \in Seq(1 .. Letters)
         /\ Len(Append(p, k)) = Len(p) + 1
<1>1. p \in Seq(1 .. Letters)
  BY DEF Below
<1> QED
  BY <1>1

\* collect_prefix_rows ends: there is a function that describes it.
LEMMA GatherExists ==
  ASSUME NEW t, NEW m \in Nat, Below(t, m)
  PROVE  \E f : \A p \in DOMAIN t :
             f[p] = Gathered(f, t, p) /\ CollectPrefixRows(t, p) = f[p]
<1> DEFINE far(f, n) == /\ f = [p \in DOMAIN t |-> f[p]]
                        /\ \A p \in DOMAIN t : Len(p) + n >= m => f[p] = Gathered(f, t, p)
           bad == {n \in 0 .. m : ~ \E f : far(f, n)}
<1>0. \A p \in DOMAIN t : Len(p) \in Nat /\ Len(p) < m
  BY DEF Below
<1>1. \E f : far(f, 0)
  <2> DEFINE e == [p \in DOMAIN t |-> <<>>]
  <2>1. e = [p \in DOMAIN t |-> e[p]]
    OBVIOUS
  <2>2. \A p \in DOMAIN t : ~(Len(p) + 0 >= m)
    BY <1>0
  <2> HIDE DEF e
  <2> QED
    BY <2>1, <2>2
<1>2. ASSUME NEW n \in Nat, NEW f, far(f, n) PROVE \E h : far(h, n + 1)
  <2> DEFINE h == [p \in DOMAIN t |-> IF Len(p) + (n + 1) >= m THEN Gathered(f, t, p) ELSE <<>>]
  <2>1. h = [p \in DOMAIN t |-> h[p]]
    OBVIOUS
  <2>2. \A p \in DOMAIN t : Len(p) + (n + 1) >= m => h[p] = Gathered(f, t, p)
    OBVIOUS
  <2> HIDE DEF h
  <2>3. \A p \in DOMAIN t : Len(p) + n >= m => h[p] = f[p]
    <3> SUFFICES ASSUME NEW p \in DOMAIN t, Len(p) + n >= m PROVE h[p] = f[p]
      OBVIOUS
    <3>1. Len(p) + (n + 1) >= m
      BY <1>0
    <3>2. h[p] = Gathered(f, t, p)
      BY <2>2, <3>1
    <3>3. f[p] = Gathered(f, t, p)
      BY <1>2
    <3> QED
      BY <3>2, <3>3
  <2>4. ASSUME NEW p \in DOMAIN t, Len(p) + (n + 1) >= m PROVE Gathered(h, t, p) = Gathered(f, t, p)
    <3>1. ASSUME NEW k \in 1 .. Letters, Append(p, k) \in DOMAIN t
          PROVE  h[Append(p, k)] = f[Append(p, k)]
      <4>1. Len(p) \in Nat /\ Len(Append(p, k)) = Len(p) + 1
        BY ChildIsLonger
      <4>2. Len(Append(p, k)) + n >= m
        BY <2>4, <4>1
      <4> QED
        BY <2>3, <3>1, <4>2
    <3>2. Kids(h, t, p) = Kids(f, t, p)
      BY <3>1 DEF Kids
    <3> QED
      BY <3>2 DEF Gathered
  <2>5. \A p \in DOMAIN t : Len(p) + (n + 1) >= m => h[p] = Gathered(h, t, p)
    BY <2>2, <2>4
  <2>6. far(h, n + 1)
    BY <2>1, <2>5
  <2> HIDE DEF far
  <2> QED
    BY <2>6
<1> HIDE DEF far
<1>3. bad = {}
  <2> SUFFICES ASSUME bad # {} PROVE FALSE
    OBVIOUS
  <2>1. bad \subseteq Nat
    OBVIOUS
  <2>2. PICK n \in bad : \A y \in bad : n <= y
    <3> HIDE DEF bad
    <3> QED
      BY <2>1, LeastNatural
  <2>3. n \in 0 .. m /\ n # 0 /\ ~ \E f : far(f, n)
    BY <1>1
  <2>4. n - 1 \in Nat /\ n - 1 \in 0 .. m /\ ~(n <= n - 1) /\ (n - 1) + 1 = n
    BY <2>3
  <2>5. n - 1 \notin bad
    <3> HIDE DEF bad
    <3> QED
      BY <2>2, <2>4
  <2>6. PICK f : far(f, n - 1)
    BY <2>4, <2>5
  <2>7. \E h : far(h, (n - 1) + 1)
    BY <1>2, <2>4, <2>6
  <2> QED
    BY <2>3, <2>4, <2>7
<1>4. PICK f : far(f, m)
  <2>1. m \in 0 .. m
    OBVIOUS
  <2> QED
    BY <1>3, <2>1
<1> DEFINE body(b) == [p \in DOMAIN t |-> Gathered(b, t, p)]
           below == CHOOSE b : b = body(b)
<1>5. f = body(f)
  <2>1. /\ f = [p \in DOMAIN t |-> f[p]]
        /\ \A p \in DOMAIN t : Len(p) + m >= m => f[p] = Gathered(f, t, p)
    BY <1>4 DEF far
  <2>2. \A p \in DOMAIN t : Len(p) + m >= m
    BY <1>0
  <2>3. \A p \in DOMAIN t : f[p] = Gathered(f, t, p)
    BY <2>1, <2>2
  <2> QED
    BY <2>1, <2>3
<1>6. below = body(below)
  BY <1>5
<1>7. \A p : CollectPrefixRows(t, p) = below[p]
  BY DEF CollectPrefixRows, Gathered, Own, Kids
<1> HIDE DEF below
<1>8. \A p \in DOMAIN t : below[p] = Gathered(below, t, p)
  BY <1>6
<1> QED
  BY <1>7, <1>8

\* The letters of a path.
LEMMA LetterOfPath ==
  ASSUME NEW S, NEW q \in Seq(S), NEW i \in 1 .. Len(q)
  PROVE  q[i] \in S
  OBVIOUS

\* What trie_search_prefix has collected when its array is full.
LEMMA FirstOfList ==
  ASSUME NEW S, NEW s \in Seq(S), NEW n \in 0 .. Len(s), NEW f, f = SubSeq(s, 1, n)
  PROVE  /\ Len(f) = n /\ DOMAIN f = 1 .. n
         /\ \A i \in 1 .. n : f[i] = s[i] /\ i \in 1 .. Len(s)
<1>1. n \in Nat /\ Len(s) \in Nat /\ n <= Len(s)
  OBVIOUS
<1>2. f \in Seq(S) /\ Len(f) = n
  BY <1>1
<1>3. \A i \in 1 .. n : f[i] = s[i] /\ i \in 1 .. Len(s)
  BY <1>1
<1> QED
  BY <1>2, <1>3

\* A path is a prefix of another one if it agrees with it letter by letter.
LEMMA PrefixIs ==
  ASSUME NEW S, NEW p \in Seq(S), NEW q \in Seq(S)
  PROVE  /\ Len(p) \in Nat /\ Len(q) \in Nat
         /\ IsPrefix(p, q) <=> Len(p) <= Len(q) /\ \A i \in 1 .. Len(p) : p[i] = q[i]
<1>1. Len(p) \in Nat /\ Len(q) \in Nat
  OBVIOUS
<1>2. SubSeq(p, 1, Len(p)) = p
  BY <1>1
<1>3. ASSUME Len(p) <= Len(q)
      PROVE  /\ SubSeq(q, 1, Len(p)) \in Seq(S) /\ Len(SubSeq(q, 1, Len(p))) = Len(p)
             /\ \A i \in 1 .. Len(p) : SubSeq(q, 1, Len(p))[i] = q[i]
  BY <1>1, <1>3
<1>4. ASSUME Len(p) <= Len(q), \A i \in 1 .. Len(p) : p[i] = q[i]
      PROVE  p = SubSeq(q, 1, Len(p))
  <2>1. PICK u : u = SubSeq(q, 1, Len(p))
    OBVIOUS
  <2>2. u \in Seq(S) /\ Len(u) = Len(p) /\ \A i \in 1 .. Len(p) : u[i] = p[i]
    BY <1>3, <1>4, <2>1
  <2>3. p = u
    BY <2>2
  <2> QED
    BY <2>1, <2>3
<1> QED
  BY <1>1, <1>2, <1>3, <1>4 DEF IsPrefix

\* Below a node are the node itself and what is below one of its children.
LEMMA PrefixStep ==
  ASSUME NEW p \in Seq(1 .. Letters), NEW q \in Seq(1 .. Letters)
  PROVE  /\ IsPrefix(p, p)
         /\ IsPrefix(p, q) => p = q \/ \E k \in 1 .. Letters :
                                           /\ IsPrefix(Append(p, k), q)
                                           /\ Append(p, k) \in Prefixes(q)
         /\ \A k \in 1 .. Letters : IsPrefix(Append(p, k), q) =>
                IsPrefix(p, q) /\ p # q /\ q[Len(p) + 1] = k
<1>1. Len(p) \in Nat /\ Len(q) \in Nat
  OBVIOUS
<1>2. IsPrefix(p, p)
  BY <1>1, PrefixIs
<1>3. ASSUME NEW k \in 1 .. Letters
      PROVE  /\ Append(p, k) \in Seq(1 .. Letters) /\ Len(Append(p, k)) = Len(p) + 1
             /\ \A i \in 1 .. Len(p) : Append(p, k)[i] = p[i]
             /\ Append(p, k)[Len(p) + 1] = k
  BY <1>1
<1>4. ASSUME IsPrefix(p, q), p # q
      PROVE  \E k \in 1 .. Letters : IsPrefix(Append(p, k), q) /\ Append(p, k) \in Prefixes(q)
  <2>1. Len(p) <= Len(q) /\ \A i \in 1 .. Len(p) : p[i] = q[i]
    BY <1>4, PrefixIs
  <2>2. Len(p) # Len(q)
    BY <1>4, <2>1
  <2>3. Len(p) + 1 \in 1 .. Len(q) /\ Len(p) + 1 <= Len(q) /\ Len(p) + 1 \in 0 .. Len(q)
    BY <1>1, <2>1, <2>2
  <2>4. PICK k \in 1 .. Letters : k = q[Len(p) + 1]
    <3>1. q[Len(p) + 1] \in 1 .. Letters
      BY <2>3, LetterOfPath
    <3> QED
      BY <3>1
  <2>5. PICK c : c = Append(p, k)
    OBVIOUS
  <2>6. /\ c \in Seq(1 .. Letters) /\ Len(c) = Len(p) + 1
        /\ \A i \in 1 .. Len(p) : c[i] = q[i]
        /\ c[Len(p) + 1] = q[Len(p) + 1]
    BY <1>3, <2>1, <2>4, <2>5
  <2>7. \A i \in 1 .. Len(c) : i \in 1 .. Len(p) \/ i = Len(p) + 1
    BY <1>1, <2>6
  <2>8. \A i \in 1 .. Len(c) : c[i] = q[i]
    BY <2>6, <2>7
  <2>9. IsPrefix(c, q)
    BY <2>3, <2>6, <2>8, PrefixIs
  <2>10. SubSeq(c, 1, Len(c)) = SubSeq(q, 1, Len(c)) /\ SubSeq(c, 1, Len(c)) = c
    BY <2>6, <2>9 DEF IsPrefix
  <2>11. c \in Prefixes(q)
    BY <2>3, <2>6, <2>10 DEF Prefixes
  <2> QED
    BY <2>5, <2>9, <2>11
<1>5. ASSUME NEW k \in 1 .. Letters, IsPrefix(Append(p, k), q)
      PROVE  IsPrefix(p, q) /\ p # q /\ q[Len(p) + 1] = k
  <2>1. PICK c : c = Append(p, k)
    OBVIOUS
  <2>2. /\ c \in Seq(1 .. Letters) /\ Len(c) = Len(p) + 1
        /\ \A i \in 1 .. Len(p) : c[i] = p[i]
        /\ c[Len(p) + 1] = k
    BY <1>3, <2>1
  <2>3. IsPrefix(c, q)
    BY <1>5, <2>1
  <2>4. Len(c) <= Len(q) /\ \A i \in 1 .. Len(c) : c[i] = q[i]
    BY <2>2, <2>3, PrefixIs
  <2>5. \A i \in 1 .. Len(p) : i \in 1 .. Len(c)
    BY <1>1, <2>2
  <2>6. Len(p) <= Len(q) /\ Len(p) # Len(q) /\ Len(p) + 1 \in 1 .. Len(c)
    BY <1>1, <2>2, <2>4
  <2>7. \A i \in 1 .. Len(p) : p[i] = q[i]
    BY <2>2, <2>4, <2>5
  <2>8. IsPrefix(p, q)
    BY <2>6, <2>7, PrefixIs
  <2> QED
    BY <2>2, <2>4, <2>6, <2>8
<1> QED
  BY <1>2, <1>4, <1>5

\* The rows of the words below a node.
Under(t, p) == {t[q] : q \in {u \in DOMAIN t : IsPrefix(p, u) /\ t[u] >= 0}}
Children(t, p) == [k \in 1 .. Letters |-> Under(t, Append(p, k))]

\* No row is in two nodes.
Single(t) == \A q, u \in DOMAIN t : t[q] >= 0 /\ t[q] = t[u] => q = u

\* The row of the node and the rows below its children, none of them twice.
LEMMA UnderSplit ==
  ASSUME NEW t, NEW n, Tight(t, n), Single(t), NEW p \in DOMAIN t
  PROVE  /\ \A x : x \in Under(t, p) <=>
                       (t[p] >= 0 /\ x = t[p]) \/ x \in Some(Children(t, p), Letters)
         /\ \A x \in Some(Children(t, p), Letters) : ~(t[p] >= 0 /\ x = t[p])
         /\ \A j, k \in 1 .. Letters : \A x :
                x \in Children(t, p)[j] /\ x \in Children(t, p)[k] => j = k
         /\ \A k \in 1 .. Letters : Append(p, k) \notin DOMAIN t => Under(t, Append(p, k)) = {}
<1>1. \A q \in DOMAIN t : q \in Seq(1 .. Letters) /\ Prefixes(q) \subseteq DOMAIN t
  BY DEF Tight
<1>2. \A x, u : x \in Under(t, u) <=>
          \E q \in DOMAIN t : IsPrefix(u, q) /\ t[q] >= 0 /\ x = t[q]
  BY DEF Under
<1>3. \A k \in 1 .. Letters : Children(t, p)[k] = Under(t, Append(p, k))
  BY DEF Children
<1>4. \A x : x \in Some(Children(t, p), Letters) <=>
          \E k \in 1 .. Letters : x \in Under(t, Append(p, k))
  BY <1>3 DEF Some
<1>5. IsPrefix(p, p)
  BY <1>1, PrefixStep
<1>6. ASSUME NEW q \in DOMAIN t, IsPrefix(p, q), p # q
      PROVE  \E k \in 1 .. Letters : IsPrefix(Append(p, k), q) /\ Append(p, k) \in DOMAIN t
  <2>1. p \in Seq(1 .. Letters) /\ q \in Seq(1 .. Letters)
    BY <1>1
  <2>2. PICK k \in 1 .. Letters : IsPrefix(Append(p, k), q) /\ Append(p, k) \in Prefixes(q)
    BY <1>6, <2>1, PrefixStep
  <2> QED
    BY <1>1, <2>2
<1>7. ASSUME NEW q \in DOMAIN t, NEW k \in 1 .. Letters, IsPrefix(Append(p, k), q)
      PROVE  /\ IsPrefix(p, q) /\ p # q /\ q[Len(p) + 1] = k
             /\ Append(p, k) \in DOMAIN t
  <2>1. p \in Seq(1 .. Letters) /\ q \in Seq(1 .. Letters)
    BY <1>1
  <2>2. IsPrefix(p, q) /\ p # q /\ q[Len(p) + 1] = k
    BY <1>7, <2>1, PrefixStep
  <2>3. PICK j \in 1 .. Letters : IsPrefix(Append(p, j), q) /\ Append(p, j) \in DOMAIN t
    BY <1>6, <2>2
  <2>4. q[Len(p) + 1] = j
    BY <2>1, <2>3, PrefixStep
  <2> QED
    BY <2>2, <2>3, <2>4
<1>8. ASSUME NEW x
      PROVE  x \in Under(t, p) <=>
                 (t[p] >= 0 /\ x = t[p]) \/ x \in Some(Children(t, p), Letters)
  <2>1. ASSUME x \in Under(t, p)
        PROVE  (t[p] >= 0 /\ x = t[p]) \/ x \in Some(Children(t, p), Letters)
    <3>1. PICK q \in DOMAIN t : IsPrefix(p, q) /\ t[q] >= 0 /\ x = t[q]
      BY <1>2, <2>1
    <3>2. CASE p = q
      BY <3>1, <3>2
    <3>3. CASE p # q
      BY <1>2, <1>4, <1>6, <3>1, <3>3
    <3> QED
      BY <3>2, <3>3
  <2>2. ASSUME t[p] >= 0 /\ x = t[p] PROVE x \in Under(t, p)
    BY <1>2, <1>5, <2>2
  <2>3. ASSUME x \in Some(Children(t, p), Letters) PROVE x \in Under(t, p)
    <3>1. PICK k \in 1 .. Letters : x \in Under(t, Append(p, k))
      BY <1>4, <2>3
    <3>2. PICK q \in DOMAIN t : IsPrefix(Append(p, k), q) /\ t[q] >= 0 /\ x = t[q]
      BY <1>2, <3>1
    <3> QED
      BY <1>2, <1>7, <3>2
  <2> QED
    BY <2>1, <2>2, <2>3
<1>9. ASSUME NEW x \in Some(Children(t, p), Letters), t[p] >= 0, x = t[p] PROVE FALSE
  <2>1. PICK k \in 1 .. Letters : x \in Under(t, Append(p, k))
    BY <1>4
  <2>2. PICK q \in DOMAIN t : IsPrefix(Append(p, k), q) /\ t[q] >= 0 /\ x = t[q]
    BY <1>2, <2>1
  <2>3. p = q
    BY <1>9, <2>2 DEF Single
  <2> QED
    BY <1>7, <2>2, <2>3
<1>10. ASSUME NEW j \in 1 .. Letters, NEW k \in 1 .. Letters, NEW x,
              x \in Children(t, p)[j], x \in Children(t, p)[k]
       PROVE  j = k
  <2>1. PICK q \in DOMAIN t : IsPrefix(Append(p, j), q) /\ t[q] >= 0 /\ x = t[q]
    BY <1>2, <1>3, <1>10
  <2>2. PICK u \in DOMAIN t : IsPrefix(Append(p, k), u) /\ t[u] >= 0 /\ x = t[u]
    BY <1>2, <1>3, <1>10
  <2>3. q = u
    BY <2>1, <2>2 DEF Single
  <2>4. q[Len(p) + 1] = j /\ u[Len(p) + 1] = k
    BY <1>7, <2>1, <2>2
  <2> QED
    BY <2>3, <2>4
<1>11. ASSUME NEW k \in 1 .. Letters, Append(p, k) \notin DOMAIN t
       PROVE  Under(t, Append(p, k)) = {}
  <2>1. \A x : x \notin Under(t, Append(p, k))
    BY <1>2, <1>7, <1>11
  <2> QED
    BY <2>1
<1> QED
  BY <1>8, <1>9, <1>10, <1>11

\* collect_prefix_rows finds the rows of the words below a node, each once.
LEMMA CollectsAll ==
  ASSUME NEW t, NEW n \in Nat, Tight(t, n), Single(t), NEW m \in Nat, Below(t, m)
  PROVE  \A p \in DOMAIN t : Covers(CollectPrefixRows(t, p), Under(t, p))
<1>0. Letters \in Nat \ {0}
  BY DictionaryAssumption
<1>1. PICK f : \A p \in DOMAIN t : f[p] = Gathered(f, t, p) /\ CollectPrefixRows(t, p) = f[p]
  BY GatherExists
<1> DEFINE good(p) == Covers(f[p], Under(t, p))
           bad == {i \in 0 .. m : \E p \in DOMAIN t : Len(p) + i >= m /\ ~good(p)}
<1>2. \A p \in DOMAIN t : Len(p) \in Nat /\ Len(p) < m
  BY DEF Below
<1>3. ASSUME NEW p \in DOMAIN t,
             \A k \in 1 .. Letters : Append(p, k) \in DOMAIN t => good(Append(p, k))
      PROVE  good(p)
  <2>1. PICK ss : ss = Kids(f, t, p)
    OBVIOUS
  <2>2. PICK S : S = Children(t, p)
    OBVIOUS
  <2>3. Len(ss) = Letters
    BY <1>0, <2>1 DEF Kids
  <2>4. \A k \in 1 .. Letters : /\ Append(p, k) \in DOMAIN t => ss[k] = f[Append(p, k)]
                                /\ Append(p, k) \notin DOMAIN t => ss[k] = <<>>
                                /\ S[k] = Under(t, Append(p, k))
    BY <2>1, <2>2 DEF Kids, Children
  <2>5. /\ \A x : x \in Under(t, p) <=>
                      (t[p] >= 0 /\ x = t[p]) \/ x \in Some(S, Letters)
        /\ \A x \in Some(S, Letters) : ~(t[p] >= 0 /\ x = t[p])
        /\ \A j, k \in 1 .. Letters : \A x : x \in S[j] /\ x \in S[k] => j = k
        /\ \A k \in 1 .. Letters : Append(p, k) \notin DOMAIN t => Under(t, Append(p, k)) = {}
    BY <2>2, UnderSplit
  <2>6. ASSUME NEW k \in 1 .. Letters PROVE Covers(ss[k], S[k])
    <3>1. CASE Append(p, k) \in DOMAIN t
      BY <1>3, <2>4, <3>1
    <3>2. CASE Append(p, k) \notin DOMAIN t
      <4>1. ss[k] = <<>> /\ S[k] = {}
        BY <2>4, <2>5, <3>2
      <4> QED
        BY <4>1, CoversFew
    <3> QED
      BY <3>1, <3>2
  <2>7. Covers(FlattenSeq(ss), Some(S, Letters))
    <3>1. Len(ss) \in Nat \ {0}
      BY <1>0, <2>3
    <3>2. \A k \in 1 .. Len(ss) : Covers(ss[k], S[k])
      BY <2>3, <2>6
    <3>3. \A j, k \in 1 .. Len(ss) : \A x : x \in S[j] /\ x \in S[k] => j = k
      BY <2>3, <2>5
    <3>4. Covers(FlattenSeq(ss), Some(S, Len(ss)))
      BY <3>1, <3>2, <3>3, CoversFlat
    <3> QED
      BY <2>3, <3>4
  <2>8. PICK T : T = {x \in {t[p]} : t[p] >= 0}
    OBVIOUS
  <2>9. \A x : x \in T <=> t[p] >= 0 /\ x = t[p]
    BY <2>8
  <2>10. Covers(Own(t, p), T)
    <3>0. t[p] \in Int
      BY DEF Tight
    <3>1. CASE t[p] >= 0
      <4>1. T = {t[p]} /\ Own(t, p) = <<t[p]>>
        BY <2>8, <3>1 DEF Own
      <4> QED
        BY <3>0, <4>1, CoversFew
    <3>2. CASE ~(t[p] >= 0)
      <4>1. T = {} /\ Own(t, p) = <<>>
        BY <2>8, <3>2 DEF Own
      <4> QED
        BY <4>1, CoversFew
    <3> QED
      BY <3>1, <3>2
  <2>11. Covers(Own(t, p) \o FlattenSeq(ss), T \cup Some(S, Letters))
    BY <2>5, <2>7, <2>9, <2>10, CoversBoth
  <2>12. Under(t, p) = T \cup Some(S, Letters)
    BY <2>5, <2>9
  <2>13. f[p] = Own(t, p) \o FlattenSeq(ss)
    BY <1>1, <2>1 DEF Gathered
  <2> QED
    BY <2>11, <2>12, <2>13
<1> HIDE DEF good
<1>4. bad = {}
  <2> SUFFICES ASSUME bad # {} PROVE FALSE
    OBVIOUS
  <2>1. bad \subseteq Nat
    OBVIOUS
  <2>2. PICK i \in bad : \A y \in bad : i <= y
    <3> HIDE DEF bad
    <3> QED
      BY <2>1, LeastNatural
  <2>3. i \in 0 .. m
    OBVIOUS
  <2>4. PICK p \in DOMAIN t : Len(p) + i >= m /\ ~good(p)
    OBVIOUS
  <2>5. i # 0 /\ i - 1 \in 0 .. m /\ ~(i <= i - 1)
    BY <1>2, <2>3, <2>4
  <2>6. i - 1 \notin bad
    <3> HIDE DEF bad
    <3> QED
      BY <2>2, <2>5
  <2>7. ASSUME NEW k \in 1 .. Letters, Append(p, k) \in DOMAIN t PROVE good(Append(p, k))
    <3>1. Len(p) \in Nat /\ Len(Append(p, k)) = Len(p) + 1
      BY ChildIsLonger
    <3>2. Len(Append(p, k)) + (i - 1) >= m
      BY <2>3, <2>4, <3>1
    <3> QED
      BY <2>5, <2>6, <2>7, <3>2
  <2> QED
    BY <1>3, <2>4, <2>7
<1>5. ASSUME NEW p \in DOMAIN t PROVE good(p)
  <2>1. m \in 0 .. m /\ Len(p) + m >= m
    BY <1>2
  <2> QED
    BY <1>4, <2>1
<1> QED
  BY <1>1, <1>5 DEF good

\* Each word has one row, its last one.
LEMMA BuildIsSingle ==
  ASSUME NEW s \in Seq(Words), AllValid(s)
  PROVE  /\ Single(Build(s))
         /\ \A p \in DOMAIN Build(s) : Build(s)[p] >= 0 => p # <<>>
<1>0. Len(s) \in Nat /\ DOMAIN s = 1 .. Len(s) /\ \A k \in 1 .. Len(s) : s[k] \in Words
  OBVIOUS
<1>1. PICK g : Loop(g, s)
  BY LoopExists
<1>2. /\ g[0] = EmptyTrie
      /\ \A n \in 1 .. Len(s) : g[n] = TrieInsert(g[n - 1], s[n], n - 1)
      /\ Build(s) = g[Len(s)]
  BY <1>1 DEF Loop
<1>3. \A k \in 1 .. Len(s) : s[k] \in Seq(1 .. Letters) /\ s[k] # <<>>
  BY <1>0, ValidWordIsPath DEF AllValid
<1> DEFINE good(n) == RowOf(g[n], <<>>) = -1
           bad == {n \in 0 .. Len(s) : ~good(n)}
<1>4. good(0)
  BY <1>2 DEF RowOf, EmptyTrie
<1>5. ASSUME NEW n \in 1 .. Len(s), good(n - 1) PROVE good(n)
  <2>1. g[n] = TrieInsert(g[n - 1], s[n], n - 1) /\ s[n] \in Seq(1 .. Letters) /\ s[n] # <<>>
    BY <1>2, <1>3
  <2>2. RowOf(g[n], <<>>) = RowOf(g[n - 1], <<>>)
    BY <2>1, InsertFinds
  <2> QED
    BY <1>5, <2>2
<1> HIDE DEF good
<1>6. bad = {}
  <2> SUFFICES ASSUME bad # {} PROVE FALSE
    OBVIOUS
  <2>1. bad \subseteq Nat
    OBVIOUS
  <2>2. PICK n \in bad : \A y \in bad : n <= y
    <3> HIDE DEF bad
    <3> QED
      BY <2>1, LeastNatural
  <2>3. n \in 1 .. Len(s) /\ ~good(n) /\ n - 1 \in 0 .. Len(s) /\ ~(n <= n - 1)
    BY <1>0, <1>4
  <2>4. n - 1 \notin bad
    <3> HIDE DEF bad
    <3> QED
      BY <2>2, <2>3
  <2>5. good(n - 1)
    BY <2>3, <2>4
  <2> QED
    BY <1>5, <2>3, <2>5
<1>7. PICK t : t = Build(s)
  OBVIOUS
<1>8. RowOf(t, <<>>) = -1
  <2>1. good(Len(s))
    BY <1>0, <1>6
  <2> QED
    BY <1>2, <1>7, <2>1 DEF good
<1>9. \A p \in DOMAIN t : t[p] >= 0 => p # <<>>
  BY <1>8 DEF RowOf
<1>10. \A p : p # <<>> => LastAt(s, Len(s), p, RowOf(t, p))
  BY <1>7, BuildIsExact
<1>11. ASSUME NEW p \in DOMAIN t, t[p] >= 0 PROVE s[t[p] + 1] = p
  <2>1. LastAt(s, Len(s), p, t[p])
    BY <1>9, <1>10, <1>11 DEF RowOf
  <2>2. t[p] # -1
    BY <1>11
  <2> QED
    BY <2>1, <2>2 DEF LastAt
<1>12. Single(t)
  <2> SUFFICES ASSUME NEW p \in DOMAIN t, NEW q \in DOMAIN t, t[p] >= 0, t[p] = t[q]
               PROVE  p = q
    BY DEF Single
  <2>1. s[t[p] + 1] = p /\ s[t[q] + 1] = q
    BY <1>11
  <2> QED
    BY <2>1
<1> QED
  BY <1>7, <1>9, <1>12

\* The last rows of the words that begin with p.
LastOnes(s, p) ==
    {k - 1 : k \in {j \in DOMAIN s : /\ IsPrefix(p, s[j])
                                     /\ \A i \in DOMAIN s : s[i] = s[j] => i <= j}}

\* The rows below a node of the trie are those.
LEMMA UnderIsLast ==
  ASSUME NEW s \in Seq(Words), AllValid(s), NEW t, t = Build(s), NEW p
  PROVE  Under(t, p) = LastOnes(s, p)
<1>0. /\ Len(s) \in Nat /\ DOMAIN s = 1 .. Len(s)
      /\ \A k \in 1 .. Len(s) : s[k] # <<>>
  BY ValidWordIsPath DEF AllValid
<1>1. \A q : q # <<>> => LastAt(s, Len(s), q, RowOf(t, q))
  BY BuildIsExact
<1>2. \A q \in DOMAIN t : t[q] >= 0 => q # <<>>
  BY BuildIsSingle
<1>3. ASSUME NEW x \in Under(t, p) PROVE x \in LastOnes(s, p)
  <2>1. PICK q \in DOMAIN t : IsPrefix(p, q) /\ t[q] >= 0 /\ x = t[q]
    BY DEF Under
  <2>2. LastAt(s, Len(s), q, x)
    BY <1>1, <1>2, <2>1 DEF RowOf
  <2>3. x # -1
    BY <2>1
  <2>4. /\ x + 1 \in 1 .. Len(s) /\ x \in Int /\ s[x + 1] = q
        /\ \A k \in 1 .. Len(s) : s[k] = q => k <= x + 1
    BY <2>2, <2>3 DEF LastAt
  <2>5. PICK j : j = x + 1
    OBVIOUS
  <2>6. j - 1 = x
    BY <2>4, <2>5
  <2>7. j \in DOMAIN s /\ IsPrefix(p, s[j]) /\ \A i \in DOMAIN s : s[i] = s[j] => i <= j
    BY <1>0, <2>1, <2>4, <2>5
  <2> QED
    BY <2>6, <2>7 DEF LastOnes
<1>4. ASSUME NEW x \in LastOnes(s, p) PROVE x \in Under(t, p)
  <2>1. PICK j \in DOMAIN s : /\ x = j - 1 /\ IsPrefix(p, s[j])
                              /\ \A i \in DOMAIN s : s[i] = s[j] => i <= j
    BY DEF LastOnes
  <2>2. PICK q, r : q = s[j] /\ r = RowOf(t, q)
    OBVIOUS
  <2>3. j \in 1 .. Len(s) /\ q # <<>> /\ LastAt(s, Len(s), q, r)
    BY <1>0, <1>1, <2>2
  <2>4. /\ r + 1 \in 1 .. Len(s) /\ r \in Int /\ s[r + 1] = q
        /\ j <= r + 1
    BY <2>2, <2>3 DEF LastAt
  <2>5. r + 1 <= j
    BY <1>0, <2>1, <2>2, <2>4
  <2>6. r = x /\ r >= 0 /\ r # -1
    BY <1>0, <2>1, <2>3, <2>4, <2>5
  <2>7. q \in DOMAIN t /\ t[q] = x /\ t[q] >= 0 /\ IsPrefix(p, q)
    BY <2>1, <2>2, <2>6 DEF RowOf
  <2> QED
    BY <2>7 DEF Under
<1> QED
  BY <1>3, <1>4

-----------------------------------------------------------------------------
(* Every step keeps the invariant                                          *)

\* dictionary_trie_rebuild_locked leaves the trie of the rows, or one without
\* words and an engine that is not ready.
LEMMA RebuildKeeps ==
  ASSUME Rebuild, schema' \in BOOLEAN, exists' \in BOOLEAN,
         rows' \in Seq(Words), Len(rows') <= MaxRows,
         admitted' \in Words \cup {NoWord}
  PROVE  DictionaryInv'
<1> DEFINE ok == schema' /\ exists' /\ AllValid(rows')
<1>0. unseen' = FALSE /\ MaxRows \in Nat /\ Len(rows') \in Nat
  BY DictionaryAssumption DEF Rebuild
<1>1. CASE /\ trie' = IF ok THEN Build(rows') ELSE EmptyTrie
           /\ ready' = ok /\ short' = FALSE
  <2>1. ok \in BOOLEAN
    BY DEF AllValid
  <2>2. FileInv'
    BY <1>0, <1>1, <2>1 DEF FileInv
  <2>3. Tight(trie', MaxRows)
    <3>1. CASE ok
      <4>1. Tight(trie', Len(rows'))
        BY <1>1, <3>1, BuildIsExact
      <4>2. \A r \in -1 .. Len(rows') - 1 : r \in -1 .. MaxRows - 1
        BY <1>0
      <4> QED
        BY <4>1, <4>2 DEF Tight
    <3>2. CASE ~ok
      BY <1>0, <1>1, <3>2, EmptyTight
    <3> QED
      BY <3>1, <3>2
  <2>4. BuiltInv'
    BY <1>1 DEF BuiltInv
  <2>5. ReadyExact'
    <3>1. schema' /\ exists' => ready' = AllValid(rows')
      BY <1>1 DEF AllValid
    <3> QED
      BY <3>1 DEF ReadyExact
  <2> QED
    BY <2>2, <2>3, <2>4, <2>5 DEF DictionaryInv
<1>2. CASE trie' \in {EmptyTrie, NoTrie} /\ ready' = FALSE /\ short' = TRUE
  <2>1. Tight(trie', MaxRows)
    BY <1>0, <1>2, EmptyTight
  <2> QED
    BY <1>0, <1>2, <2>1 DEF DictionaryInv, FileInv, BuiltInv, ReadyExact
<1> QED
  BY <1>1, <1>2 DEF Rebuild

\* engine_init on an empty table.
LEMMA InitDictionary ==
  ASSUME Init PROVE DictionaryInv
<1>1. rows \in Seq(Words) /\ Len(rows) = 0 /\ MaxRows \in Nat /\ AllValid(rows)
  BY DictionaryAssumption DEF Init, AllValid
<1>2. Build(rows) = EmptyTrie
  <2>1. PICK g : Loop(g, rows)
    BY <1>1, LoopExists
  <2> QED
    BY <1>1, <2>1 DEF Loop
<1>3. Tight(trie, MaxRows)
  BY <1>1, EmptyTight DEF Init
<1>4. ReadyExact
  <2>1. AllValid(rows) = TRUE
    BY <1>1 DEF AllValid
  <2> QED
    BY <2>1 DEF Init, ReadyExact
<1>5. FileInv
  <2>1. Len(rows) <= MaxRows
    BY <1>1
  <2> QED
    BY <1>1, <2>1 DEF Init, FileInv
<1>6. BuiltInv
  BY <1>1, <1>2 DEF Init, BuiltInv
<1> QED
  BY <1>3, <1>4, <1>5, <1>6 DEF DictionaryInv

\* The row is appended to the words of the file.
LEMMA WordAppended ==
  ASSUME FileInv, NEW w \in Words, AppendWord(w)
  PROVE  /\ schema' = TRUE /\ exists' = TRUE
         /\ rows' \in Seq(Words) /\ Len(rows') <= MaxRows
<1>1. rows \in Seq(Words) /\ Len(rows) < MaxRows /\ MaxRows \in Nat /\ Len(rows) \in Nat
  BY DictionaryAssumption DEF FileInv, AppendWord
<1>2. rows' = Append(rows, w) /\ schema = TRUE /\ schema' = schema /\ exists' = TRUE
  BY Zenon DEF FileInv, AppendWord
<1>3. rows' \in Seq(Words) /\ Len(rows') = Len(rows) + 1
  BY <1>1, <1>2
<1> QED
  BY <1>1, <1>2, <1>3

\* INSERT, and the INSERT of an administrator that was let through before.
LEMMA InsertKeeps ==
  ASSUME DictionaryInv, (\E w \in Words : Insert(w)) \/ AdminInsert
  PROVE  DictionaryInv'
<1>0. FileInv
  BY DEF DictionaryInv
<1>1. ASSUME NEW w \in Words, Insert(w) PROVE DictionaryInv'
  <2>1. AppendWord(w) /\ Rebuild /\ admitted' = admitted
    BY <1>1 DEF Insert
  <2>2. /\ schema' = TRUE /\ exists' = TRUE
        /\ rows' \in Seq(Words) /\ Len(rows') <= MaxRows
    BY <1>0, <2>1, WordAppended
  <2> QED
    BY <1>0, <2>1, <2>2, RebuildKeeps DEF FileInv
<1>2. CASE AdminInsert
  <2>1. admitted \in Words /\ AppendWord(admitted) /\ Rebuild /\ admitted' = NoWord
    BY <1>0, <1>2 DEF AdminInsert, FileInv
  <2>2. /\ schema' = TRUE /\ exists' = TRUE
        /\ rows' \in Seq(Words) /\ Len(rows') <= MaxRows
    BY <1>0, <2>1, WordAppended
  <2> QED
    BY <2>1, <2>2, RebuildKeeps
<1> QED
  BY <1>1, <1>2

\* An INSERT that fails after the row was written is remembered as unseen.
LEMMA InsertHalfKeeps ==
  ASSUME DictionaryInv, NEW w \in Words, InsertHalf(w)
  PROVE  DictionaryInv'
<1>0. FileInv
  BY DEF DictionaryInv
<1>1. /\ AppendWord(w) /\ unseen' = TRUE
      /\ UNCHANGED <<trie, ready, short, admitted>>
  BY DEF InsertHalf
<1>2. /\ schema' = TRUE /\ exists' = TRUE
      /\ rows' \in Seq(Words) /\ Len(rows') <= MaxRows
  BY <1>0, <1>1, WordAppended
<1> QED
  BY <1>1, <1>2 DEF DictionaryInv, FileInv, BuiltInv, ReadyExact, Tight

\* DELETE and UPDATE write words back.
LEMMA RewriteKeeps ==
  ASSUME DictionaryInv, NEW w \in Words,
         Delete(w) \/ \E new \in Words : Update(w, new)
  PROVE  DictionaryInv'
<1>0. /\ FileInv /\ rows \in Seq(Words) /\ Len(rows) <= MaxRows
      /\ Len(rows) \in Nat /\ MaxRows \in Nat
  BY DictionaryAssumption DEF DictionaryInv, FileInv
<1>1. CASE Delete(w)
  <2>1. CopyWithout(rows, w) \in Seq(Words) /\ Len(CopyWithout(rows, w)) <= Len(rows)
    BY <1>0, CopyIsShorter
  <2>2. rows' \in Seq(Words) /\ Len(rows') <= MaxRows
    <3>1. Len(CopyWithout(rows, w)) \in Nat /\ rows' = CopyWithout(rows, w)
      BY <1>1, <2>1 DEF Delete
    <3> QED
      BY <1>0, <2>1, <3>1
  <2>3. Rebuild /\ UNCHANGED <<schema, exists, admitted>>
    BY <1>1 DEF Delete
  <2> QED
    BY <1>0, <2>2, <2>3, RebuildKeeps DEF FileInv
<1>2. ASSUME NEW new \in Words, Update(w, new) PROVE DictionaryInv'
  <2>1. rows' = [k \in DOMAIN rows |-> IF rows[k] = w THEN new ELSE rows[k]]
    BY <1>2 DEF Update
  <2>2. rows' \in Seq(Words) /\ Len(rows') = Len(rows)
    BY <1>0, <2>1
  <2>3. Rebuild /\ UNCHANGED <<schema, exists, admitted>>
    BY <1>2 DEF Update
  <2> QED
    BY <1>0, <2>2, <2>3, RebuildKeeps DEF FileInv
<1> QED
  BY <1>1, <1>2

\* CREATE of the table, and engine_init after a crash or a shutdown.
LEMMA StartKeeps ==
  ASSUME DictionaryInv, Create \/ Restart
  PROVE  DictionaryInv'
<1>0. FileInv
  BY DEF DictionaryInv
<1>1. CASE Create
  BY <1>0, <1>1, RebuildKeeps DEF FileInv, Create
<1>2. CASE Restart
  <2>1. rows' = rows /\ admitted' = NoWord
    BY <1>2 DEF Restart, EngineInit
  <2>2. CASE schema' = TRUE /\ exists' = (exists \/ ~schema) /\ Rebuild
    <3>1. exists' \in BOOLEAN
      BY <2>2
    <3> QED
      BY <1>0, <2>1, <2>2, <3>1, RebuildKeeps DEF FileInv
  <2>3. CASE /\ ~schema /\ UNCHANGED <<schema, exists>>
             /\ trie' = EmptyTrie /\ ready' = FALSE
             /\ unseen' = FALSE /\ short' = FALSE
    <3>1. Tight(trie', MaxRows)
      BY <2>3, EmptyTight, DictionaryAssumption
    <3> QED
      BY <1>0, <2>1, <2>3, <3>1 DEF DictionaryInv, FileInv, BuiltInv, ReadyExact
  <2> QED
    BY <1>2, <2>2, <2>3 DEF Restart, EngineInit
<1> QED
  BY <1>1, <1>2

\* Steps that leave the trie alone: the gate of /api/admin/insert, and the
\* statements that failed.
LEMMA NoRefreshKeeps ==
  ASSUME DictionaryInv,
         \/ \E w \in Words : AdmitInsert(w)
         \/ AdminInsertFails \/ RewriteFails \/ CreateFails
  PROVE  DictionaryInv'
<1>1. CASE (\E w \in Words : AdmitInsert(w)) \/ AdminInsertFails
  <2>1. /\ UNCHANGED <<schema, exists, rows, trie, ready, unseen, short>>
        /\ admitted' \in Words \cup {NoWord}
    BY <1>1 DEF AdmitInsert, AdminInsertFails, fileVars, trieVars
  <2> QED
    BY <2>1 DEF DictionaryInv, FileInv, BuiltInv, ReadyExact, Tight
<1>2. CASE RewriteFails
  <2>1. /\ rows' = <<>> /\ exists' = FALSE /\ unseen' = TRUE
        /\ UNCHANGED <<schema, trie, ready, short, admitted>>
    BY <1>2 DEF RewriteFails
  <2>2. rows' \in Seq(Words) /\ Len(rows') <= MaxRows
    BY <2>1, DictionaryAssumption
  <2> QED
    BY <2>1, <2>2 DEF DictionaryInv, FileInv, BuiltInv, ReadyExact, Tight
<1>3. CASE CreateFails
  <2>1. /\ schema' = FALSE
        /\ UNCHANGED <<exists, rows, admitted, trie, ready, unseen, short>>
    BY <1>3 DEF CreateFails, NoRefresh, trieVars
  <2> QED
    BY <2>1 DEF DictionaryInv, FileInv, BuiltInv, ReadyExact, Tight
<1> QED
  BY <1>1, <1>2, <1>3

\* So does every step of the dictionary.
LEMMA StepDictionary ==
  ASSUME DictionaryInv, [Next]_vars
  PROVE  DictionaryInv'
<1>1. CASE Next
  BY <1>1, InsertKeeps, InsertHalfKeeps, RewriteKeeps, StartKeeps, NoRefreshKeeps DEF Next
<1>2. CASE UNCHANGED vars
  <2>1. UNCHANGED <<schema, exists, rows, trie, ready, unseen, short, admitted>>
    BY <1>2 DEF vars, fileVars, trieVars
  <2> QED
    BY <2>1 DEF DictionaryInv, FileInv, BuiltInv, ReadyExact, Tight
<1> QED
  BY <1>1, <1>2

-----------------------------------------------------------------------------
(* The theorems                                                            *)

\* A ready engine has the trie of the rows in the file, and the trie is tight.
THEOREM DictionaryInvariant == Spec => []DictionaryInv
<1>1. Init => DictionaryInv
  BY InitDictionary
<1>2. DictionaryInv /\ [Next]_vars => DictionaryInv'
  BY StepDictionary
<1> QED
  BY <1>1, <1>2, PTL DEF Spec

\* The trie of s_dictionary_trie never has a branch without a word, a node
\* the walk from the root misses, or a child outside the array of children,
\* for any alphabet, any words and any number of rows.
THEOREM TrieStaysTight == Spec => []TrieTight
<1>1. DictionaryInv => TrieTight
  BY DEF DictionaryInv, FileInv, Tight, TrieTight, TypeOK
<1> QED
  BY <1>1, DictionaryInvariant, PTL

\* engine_is_ready is closed exactly as long as the table holds a word that
\* the trie refuses.
THEOREM GateIsExact == Spec => []ReadyExact
<1>1. DictionaryInv => ReadyExact
  BY DEF DictionaryInv
<1> QED
  BY <1>1, DictionaryInvariant, PTL

\* trie_search_exact of a ready engine finds every word of the table by its
\* last row and no word that is not there, after any statements.
THEOREM SearchFindsLastRow == Spec => []WordsFound
<1>1. ASSUME DictionaryInv PROVE WordsFound
  <2> SUFFICES ASSUME schema, exists, ~unseen, ready, NEW p \in Words
               PROVE  TrieSearchExact(trie, p) =
                         SelectLastInSeq(rows, LAMBDA u : u = p) - 1
    BY DEF WordsFound
  <2>0. rows \in Seq(Words) /\ Len(rows) \in Nat /\ AllValid(rows) /\ trie = Build(rows)
    BY <1>1 DEF DictionaryInv, FileInv, BuiltInv
  <2> DEFINE I == {i \in 1 .. Len(rows) : rows[i] = p}
             r == TrieSearchExact(trie, p)
  <2>1. SelectLastInSeq(rows, LAMBDA u : u = p) = IF I # {} THEN Max(I) ELSE 0
    BY DEF SelectLastInSeq
  <2>2. CASE ~WordIsValid(p)
    <3>1. I = {}
      BY <2>0, <2>2 DEF AllValid
    <3> QED
      BY <2>1, <2>2, <3>1 DEF TrieSearchExact
  <2>3. CASE WordIsValid(p)
    <3>1. r = RowOf(trie, p) /\ p # <<>>
      BY <2>3 DEF TrieSearchExact, RowOf, WordIsValid
    <3>2. LastAt(rows, Len(rows), p, r)
      BY <2>0, <3>1, BuildIsExact
    <3> HIDE DEF r
    <3>3. CASE r = -1 /\ \A k \in 1 .. Len(rows) : rows[k] # p
      BY <2>1, <3>3 DEF r
    <3>4. CASE /\ r + 1 \in 1 .. Len(rows) /\ r \in Int /\ rows[r + 1] = p
               /\ \A k \in 1 .. Len(rows) : rows[k] = p => k <= r + 1
      <4>1. r + 1 \in I /\ \A i \in I : i <= r + 1 /\ i \in Int
        BY <2>0, <3>4
      <4>2. Max(I) = r + 1
        <5> HIDE DEF I
        <5>1. Max(I) \in I /\ \A i \in I : Max(I) >= i
          BY <3>4, <4>1 DEF Max
        <5> QED
          BY <3>4, <4>1, <5>1
      <4> QED
        BY <2>1, <3>4, <4>1, <4>2 DEF r
    <3> QED
      BY <3>2, <3>3, <3>4 DEF LastAt
  <2> QED
    BY <2>2, <2>3
<1> QED
  BY <1>1, DictionaryInvariant, PTL

\* Every search by prefix answers from the trie as a scan of the file would,
\* with all words that begin with the prefix, also at the limit of the array of
\* execute_select; no row is found twice, and a search for a whole word finds
\* its last row.
THEOREM PrefixesAreExact == Spec => []PrefixExact
<1>1. ASSUME DictionaryInv, WordsFound PROVE PrefixExact
  <2> SUFFICES ASSUME schema, exists, ~unseen, NEW p \in Words
               PROVE  /\ Answer(p) \in {ScanRows(p), LastRows(p)}
                      /\ UseTrie(p) => IsInjective(TrieSearchPrefix(trie, p, MaxOut))
    BY <1>1 DEF PrefixExact
  <2>1. CASE ~UseTrie(p)
    <3>1. Answer(p) = ScanRows(p)
      BY <2>1 DEF Answer
    <3> QED
      BY <2>1, <3>1
  <2>2. CASE UseTrie(p)
    <3>1. WordIsValid(p) /\ ready
      BY <2>2 DEF UseTrie
    <3>2. rows \in Seq(Words) /\ Len(rows) \in Nat /\ AllValid(rows) /\ trie = Build(rows)
      BY <1>1, <3>1 DEF DictionaryInv, FileInv, BuiltInv
    <3>3. MaxOut \in Nat \ {0}
      BY DictionaryAssumption
    <3>4. PICK t, found : t = trie /\ found = TrieSearchPrefix(t, p, MaxOut)
      OBVIOUS
    <3>5. Tight(t, Len(rows)) /\ Single(t)
      BY <3>2, <3>4, BuildIsExact, BuildIsSingle
    <3>6. PICK m \in Nat : Below(t, m)
      BY <3>2, <3>4, BuildIsBounded
    <3>7. Under(t, p) = LastOnes(rows, p)
      BY <3>2, <3>4, UnderIsLast
    <3>8. CASE p \notin DOMAIN t
      <4>1. found = <<>> /\ Len(found) = 0
        BY <3>4, <3>8 DEF TrieSearchPrefix
      <4>2. \A q \in DOMAIN t : ~IsPrefix(p, q)
        <5> SUFFICES ASSUME NEW q \in DOMAIN t, IsPrefix(p, q) PROVE FALSE
          OBVIOUS
        <5>1. p \in Seq(1 .. Letters) /\ q \in Seq(1 .. Letters) /\ Prefixes(q) \subseteq DOMAIN t
          BY <3>1, <3>5, ValidWordIsPath DEF Tight
        <5>2. Len(p) \in 0 .. Len(q) /\ SubSeq(p, 1, Len(p)) = p
          BY <5>1 DEF IsPrefix
        <5>3. p \in Prefixes(q)
          BY <5>2 DEF IsPrefix, Prefixes
        <5> QED
          BY <3>8, <5>1, <5>3
      <4>3. LastOnes(rows, p) = {}
        BY <3>7, <4>2 DEF Under
      <4>4. Range(found) \cap 0 .. Len(rows) - 1 = LastOnes(rows, p)
        BY <4>1, <4>3 DEF Range
      <4>5. IsInjective(found)
        BY <4>1 DEF IsInjective
      <4> QED
        BY <2>2, <3>4, <4>4, <4>5 DEF Answer, LastRows, LastOnes
    <3>9. CASE p \in DOMAIN t
      <4>1. PICK all : all = CollectPrefixRows(t, p)
        OBVIOUS
      <4>2. Covers(all, LastOnes(rows, p))
        BY <3>2, <3>5, <3>6, <3>7, <3>9, <4>1, CollectsAll
      <4>3. /\ all \in Seq(Int) /\ Len(all) \in Nat /\ DOMAIN all = 1 .. Len(all)
            /\ \A i, j \in 1 .. Len(all) : all[i] = all[j] => i = j
            /\ \A x : x \in LastOnes(rows, p) <=> \E i \in 1 .. Len(all) : all[i] = x
        BY <4>2 DEF Covers
      <4>4. PICK n : n = IF Len(all) < MaxOut THEN Len(all) ELSE MaxOut
        OBVIOUS
      <4>5. n \in 0 .. Len(all) /\ (n < MaxOut => n = Len(all))
        <5>1. all \in Seq(Int) /\ Len(all) \in Nat
          BY <4>3
        <5>2. PICK l : l = Len(all)
          OBVIOUS
        <5>3. l \in Nat /\ n = IF l < MaxOut THEN l ELSE MaxOut
          BY <4>4, <5>1, <5>2, Zenon
        <5>4. n \in 0 .. l /\ (n < MaxOut => n = l)
          BY <3>3, <5>3
        <5> QED
          BY <5>2, <5>4, Zenon
      <4>6. found = SubSeq(all, 1, n)
        BY <3>1, <3>4, <3>9, <4>1, <4>4 DEF TrieSearchPrefix
      <4>7. /\ Len(found) = n /\ DOMAIN found = 1 .. n
            /\ \A i \in 1 .. n : found[i] = all[i] /\ i \in 1 .. Len(all)
        <5>1. all \in Seq(Int) /\ n \in 0 .. Len(all)
          BY <4>3, <4>5, Zenon
        <5> QED
          BY <4>6, <5>1, FirstOfList, Zenon
      <4>8. IsInjective(found)
        BY <4>3, <4>7 DEF IsInjective
      <4>9. ASSUME Complete(found) PROVE Range(found) \cap 0 .. Len(rows) - 1 = LastOnes(rows, p)
        <5>1. n = Len(all)
          BY <4>5, <4>7, <4>9 DEF Complete
        <5>2. \A x : x \in Range(found) <=> x \in LastOnes(rows, p)
          BY <4>3, <4>7, <5>1 DEF Range
        <5>3. \A k \in 1 .. Len(rows) : k - 1 \in 0 .. Len(rows) - 1
          BY <3>2
        <5>4. \A x \in LastOnes(rows, p) : x \in 0 .. Len(rows) - 1
          BY <3>2, <5>3 DEF LastOnes
        <5> QED
          BY <5>2, <5>4
      <4>10. CASE Complete(found)
        BY <2>2, <3>4, <4>8, <4>9, <4>10 DEF Answer, LastRows, LastOnes
      <4>11. CASE ~Complete(found)
        BY <2>2, <3>4, <4>8, <4>11 DEF Answer
      <4> QED
        BY <4>10, <4>11
    <3> QED
      BY <3>8, <3>9
  <2> QED
    BY <2>1, <2>2
<1> QED
  BY <1>1, DictionaryInvariant, SearchFindsLastRow, PTL

=============================================================================
