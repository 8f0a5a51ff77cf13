---------------------------- MODULE CopyingProofs ----------------------------
(***************************************************************************)
(* What the copying loop leaves, for sequences of every length.  Induction *)
(* is by the least index at which a claim would fail.                      *)
(***************************************************************************)
EXTENDS Copying, NaturalsInduction, WellFoundedInduction, TLAPS

\* A nonempty set of naturals has a least element.
LEMMA LeastNatural ==
  ASSUME NEW S, S \subseteq Nat, S # {}
  PROVE  \E x \in S : \A y \in S : x <= y
<1> DEFINE less == {p \in Nat \X Nat : p[1] < p[2]}
<1>1. IsWellFoundedOn(less, Nat)
  BY NatLessThanWellFounded DEF OpToRel
<1>2. PICK x \in S : \A y \in S : ~(<<y, x>> \in less)
  <2> HIDE DEF less
  <2> QED
    BY <1>1, WFMin
<1>3. \A y \in S : x <= y
  <2> SUFFICES ASSUME NEW y \in S, y < x PROVE FALSE
    OBVIOUS
  <2>1. <<y, x>> \in less
    OBVIOUS
  <2> QED
    BY <1>2, <2>1
<1> QED
  BY <1>3

\* The loop that copies all elements but one kind ends with no more than
\* there were, and the function that describes it exists.
LEMMA CopyIsShorter ==
  ASSUME NEW S, NEW s \in Seq(S), NEW x
  PROVE  CopyWithout(s, x) \in Seq(S) /\ Len(CopyWithout(s, x)) <= Len(s)
<1> DEFINE step(q, k) == IF s[k] = x THEN q ELSE Append(q, s[k])
           loops(n) == {g \in [0 .. n -> Seq(S)] :
                           /\ g[0] = <<>>
                           /\ \A k \in 1 .. n : g[k] = step(g[k - 1], k)
                           /\ \A k \in 0 .. n : Len(g[k]) <= k}
           bad == {n \in 0 .. Len(s) : loops(n) = {}}
<1>0. DOMAIN s = 1 .. Len(s) /\ Len(s) \in Nat /\ \A k \in 1 .. Len(s) : s[k] \in S
  OBVIOUS
<1>1. bad = {}
  <2> SUFFICES ASSUME bad # {} PROVE FALSE
    OBVIOUS
  <2>1. bad \subseteq Nat
    OBVIOUS
  <2>2. PICK n \in bad : \A y \in bad : n <= y
    <3> HIDE DEF bad
    <3> QED
      BY <2>1, LeastNatural
  <2>3. [k \in 0 .. 0 |-> <<>>] \in loops(0)
    OBVIOUS
  <2>4. n \in Nat /\ n # 0 /\ n - 1 \in 0 .. Len(s) /\ ~(n <= n - 1) /\ n \in 1 .. Len(s)
    <3>1. n \in 0 .. Len(s) /\ loops(n) = {}
      OBVIOUS
    <3>2. n # 0
      BY <2>3, <3>1
    <3> HIDE DEF loops, bad
    <3> QED
      BY <1>0, <3>1, <3>2
  <2>5. n - 1 \notin bad
    <3> HIDE DEF bad
    <3> QED
      BY <2>2, <2>4
  <2>6. PICK g : g \in loops(n - 1)
    BY <2>4, <2>5
  <2> DEFINE h == [k \in 0 .. n |-> IF k = n THEN step(g[n - 1], n) ELSE g[k]]
  <2>7. g[n - 1] \in Seq(S) /\ Len(g[n - 1]) <= n - 1
    BY <2>4, <2>6
  <2>8. step(g[n - 1], n) \in Seq(S) /\ Len(step(g[n - 1], n)) <= n
    BY <1>0, <2>4, <2>7
  <2>9. \A k \in 0 .. n - 1 : h[k] = g[k] /\ g[k] \in Seq(S)
    BY <2>4, <2>6
  <2>10. h \in [0 .. n -> Seq(S)]
    <3>1. \A k \in 0 .. n : k = n \/ k \in 0 .. n - 1
      BY <2>4
    <3>2. \A k \in 0 .. n : h[k] \in Seq(S)
      BY <2>4, <2>8, <2>9, <3>1
    <3> QED
      BY <3>2
  <2>11. h[0] = <<>>
    BY <2>4, <2>6, <2>9
  <2>12. ASSUME NEW k \in 1 .. n PROVE h[k] = step(h[k - 1], k)
    <3>1. k - 1 \in 0 .. n - 1 /\ h[k - 1] = g[k - 1]
      BY <2>4, <2>9
    <3>2. CASE k = n
      BY <2>4, <3>1, <3>2
    <3>3. CASE k # n
      <4>1. k \in 1 .. n - 1
        BY <2>4, <3>3
      <4>2. g[k] = step(g[k - 1], k)
        BY <2>6, <4>1
      <4>3. h[k] = g[k]
        BY <2>9, <4>1
      <4> QED
        BY <3>1, <4>2, <4>3
    <3> QED
      BY <3>2, <3>3
  <2>13. ASSUME NEW k \in 0 .. n PROVE Len(h[k]) <= k
    BY <2>4, <2>6, <2>8, <2>9
  <2>14. h \in loops(n)
    <3> HIDE DEF h, step
    <3> QED
      BY <2>10, <2>11, <2>12, <2>13
  <2> QED
    BY <2>14
<1>2. PICK g : g \in loops(Len(s))
  <2> HIDE DEF loops
  <2>1. Len(s) \in 0 .. Len(s)
    BY <1>0
  <2>2. Len(s) \notin bad
    BY <1>1
  <2> QED
    BY <2>1, <2>2
<1> DEFINE body(f) == [n \in 0 .. Len(s) |->
                          IF n = 0 THEN <<>>
                          ELSE IF s[n] = x THEN f[n - 1] ELSE Append(f[n - 1], s[n])]
           upto == CHOOSE f : f = body(f)
<1>3. g = body(g)
  <2>1. \A n \in 0 .. Len(s) : g[n] = body(g)[n]
    <3> SUFFICES ASSUME NEW n \in 0 .. Len(s) PROVE g[n] = body(g)[n]
      OBVIOUS
    <3>1. n = 0 \/ n \in 1 .. Len(s)
      OBVIOUS
    <3> QED
      BY <1>2, <3>1
  <2>2. DOMAIN g = 0 .. Len(s) /\ g = [n \in 0 .. Len(s) |-> g[n]]
    BY <1>2
  <2> QED
    BY <2>1, <2>2
<1>4. upto = body(upto)
  BY <1>3
<1>5. \A n \in 0 .. Len(s) : upto[n] = g[n]
  <2> DEFINE apart == {n \in 0 .. Len(s) : upto[n] # g[n]}
  <2> HIDE DEF upto
  <2> SUFFICES ASSUME apart # {} PROVE FALSE
    OBVIOUS
  <2>1. apart \subseteq Nat
    OBVIOUS
  <2>2. PICK n \in apart : \A y \in apart : n <= y
    <3> HIDE DEF apart
    <3> QED
      BY <2>1, LeastNatural
  <2>3. n \in 0 .. Len(s) /\ upto[n] # g[n]
    OBVIOUS
  <2>4. n # 0
    BY <1>2, <1>4, <2>3
  <2>5. n - 1 \in 0 .. Len(s) /\ ~(n <= n - 1)
    BY <2>3, <2>4
  <2>6. n - 1 \notin apart
    <3> HIDE DEF apart
    <3> QED
      BY <2>2, <2>5
  <2>7. upto[n - 1] = g[n - 1]
    BY <2>5, <2>6
  <2> QED
    BY <1>3, <1>4, <2>3, <2>7
<1>6. CopyWithout(s, x) = upto[Len(s)]
  BY DEF CopyWithout
<1> HIDE DEF upto
<1>7. CopyWithout(s, x) = g[Len(s)]
  BY <1>0, <1>5, <1>6
<1> QED
  BY <1>0, <1>2, <1>7

=============================================================================
