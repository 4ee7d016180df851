-------------------------- MODULE SingleThreadProofs --------------------------
(***************************************************************************)
(* Proofs about Detections and SingleThread, for every output of a model,  *)
(* every folder of images and both thresholds.                             *)
(*                                                                         *)
(* What the loops of the code compute is shown by induction on the number  *)
(* of their rounds, written with sets of numbers in place of formulas.     *)
(***************************************************************************)
EXTENDS SingleThread, WellFoundedInduction, TLAPS

-----------------------------------------------------------------------------
(* Induction.                                                              *)

\* A set of natural numbers that is not empty has a least member.
LEMMA Least ==
  ASSUME NEW T \in SUBSET Nat, T # {}
  PROVE  \E n \in T : \A m \in T : n <= m
<1> DEFINE R == OpToRel(<, Nat)
<1>1. IsWellFoundedOn(R, Nat)
  BY NatLessThanWellFounded
<1> HIDE DEF R
<1>2. PICK n \in T : \A m \in T : ~ (<<m, n>> \in R)
  BY <1>1, WFMin
<1>3. \A m \in T : ~ (m < n)
  BY <1>2 DEF R, OpToRel
<1> QED
  BY <1>3

\* A set with 0 and with the successor of each of its numbers has all of them.
LEMMA Induction ==
  ASSUME NEW T, 0 \in T, \A n \in Nat : n \in T => n + 1 \in T
  PROVE  Nat \subseteq T
<1> SUFFICES ASSUME Nat \ T # {} PROVE FALSE
  OBVIOUS
<1>1. PICK n \in Nat \ T : \A m \in Nat \ T : n <= m
  BY Least
<1>2. n - 1 \in Nat /\ n - 1 \in T
  BY <1>1
<1> QED
  BY <1>1, <1>2

-----------------------------------------------------------------------------
(* Where: the subsequence of what is kept.                                 *)

\* The equation of the recursive function in Where, on 0 .. n.
Rounds(s, keep, n, f) ==
  f = [m \in 0 .. n |->
         IF m = 0 THEN <<>>
         ELSE IF keep[m] THEN Append(f[m - 1], s[m]) ELSE f[m - 1]]

\* The rounds of the loop can be carried out, whatever their number.
LEMMA RoundsExist ==
  ASSUME NEW s, NEW keep, NEW n \in Nat
  PROVE  \E f : Rounds(s, keep, n, f)
<1> DEFINE T == {m \in Nat : \E f : Rounds(s, keep, m, f)}
<1>1. 0 \in T
  <2>1. Rounds(s, keep, 0, [m \in 0 .. 0 |-> <<>>])
    BY DEF Rounds
  <2> QED
    BY <2>1
<1>2. ASSUME NEW m \in Nat, m \in T PROVE m + 1 \in T
  <2>1. PICK f : Rounds(s, keep, m, f)
    BY <1>2
  <2> DEFINE g == [k \in 0 .. m + 1 |->
                     IF k <= m THEN f[k]
                     ELSE IF keep[m + 1] THEN Append(f[m], s[m + 1]) ELSE f[m]]
  <2>2. ASSUME NEW k \in 0 .. m + 1
        PROVE  g[k] = IF k = 0 THEN <<>>
                      ELSE IF keep[k] THEN Append(g[k - 1], s[k]) ELSE g[k - 1]
    <3>1. CASE k = m + 1
      BY <3>1
    <3>2. CASE k # m + 1
      <4>1. k \in 0 .. m /\ (k # 0 => k - 1 \in 0 .. m)
        BY <3>2
      <4>2. f[k] = IF k = 0 THEN <<>>
                   ELSE IF keep[k] THEN Append(f[k - 1], s[k]) ELSE f[k - 1]
        BY <4>1, <2>1 DEF Rounds
      <4> QED
        BY <4>1, <4>2
    <3> QED
      BY <3>1, <3>2
  <2>3. Rounds(s, keep, m + 1, g)
    BY <2>2 DEF Rounds
  <2> QED
    BY <2>3
<1> HIDE DEF T
<1>3. Nat \subseteq T
  BY <1>1, <1>2, Induction
<1> QED
  BY <1>3 DEF T

\* After n rounds the result has what is kept of the first n elements, in order.
IsWhere(s, keep, n, r) ==
  /\ r \in Seq({s[i] : i \in 1 .. n})
  /\ \A k \in 1 .. Len(r) : \E i \in 1 .. n : keep[i] /\ r[k] = s[i]
  /\ \A i \in 1 .. n : keep[i] => \E k \in 1 .. Len(r) : r[k] = s[i]
  /\ \A k, l \in 1 .. Len(r) : k < l =>
       \E i, j \in 1 .. n : i < j /\ keep[i] /\ keep[j] /\ r[k] = s[i] /\ r[l] = s[j]

\* A round that keeps nothing, and one that keeps its element.
LEMMA IsWhereStep ==
  ASSUME NEW s, NEW keep, NEW n \in Nat, NEW r, IsWhere(s, keep, n, r)
  PROVE  /\ ~keep[n + 1] => IsWhere(s, keep, n + 1, r)
         /\ keep[n + 1] => IsWhere(s, keep, n + 1, Append(r, s[n + 1]))
<1> DEFINE S == {s[i] : i \in 1 .. n + 1}
<1>1. r \in Seq(S)
  BY DEF IsWhere
<1>2. Len(r) \in Nat
  BY <1>1
<1>3. ASSUME ~keep[n + 1] PROVE IsWhere(s, keep, n + 1, r)
  <2>1. \A k \in 1 .. Len(r) : \E i \in 1 .. n + 1 : keep[i] /\ r[k] = s[i]
    BY DEF IsWhere
  <2>2. ASSUME NEW i \in 1 .. n + 1, keep[i]
        PROVE  \E k \in 1 .. Len(r) : r[k] = s[i]
    <3>1. i \in 1 .. n
      <4>1. i # n + 1
        BY <1>3, <2>2, Zenon
      <4> QED
        BY <4>1
    <3> QED
      BY <3>1, <2>2 DEF IsWhere
  <2>3. ASSUME NEW k \in 1 .. Len(r), NEW l \in 1 .. Len(r), k < l
        PROVE  \E i, j \in 1 .. n + 1 :
                 i < j /\ keep[i] /\ keep[j] /\ r[k] = s[i] /\ r[l] = s[j]
    BY <2>3 DEF IsWhere
  <2> QED
    BY <1>1, <2>1, <2>2, <2>3 DEF IsWhere
<1>4. ASSUME keep[n + 1] PROVE IsWhere(s, keep, n + 1, Append(r, s[n + 1]))
  <2> DEFINE a == Append(r, s[n + 1])
  <2>1. a \in Seq(S) /\ Len(a) = Len(r) + 1 /\ a[Len(r) + 1] = s[n + 1]
    BY <1>1
  <2>2. \A k \in 1 .. Len(r) : a[k] = r[k]
    BY <1>1
  <2> HIDE DEF a
  <2>3. ASSUME NEW k \in 1 .. Len(a)
        PROVE  \E i \in 1 .. n + 1 : keep[i] /\ a[k] = s[i]
    <3>1. CASE k = Len(r) + 1
      BY <3>1, <2>1, <1>4
    <3>2. CASE k \in 1 .. Len(r)
      BY <3>2, <2>2 DEF IsWhere
    <3> QED
      BY <3>1, <3>2, <2>1, <1>2
  <2>4. ASSUME NEW i \in 1 .. n + 1, keep[i]
        PROVE  \E k \in 1 .. Len(a) : a[k] = s[i]
    <3>1. CASE i = n + 1
      BY <3>1, <2>1, <1>2
    <3>2. CASE i \in 1 .. n
      <4>1. PICK k \in 1 .. Len(r) : r[k] = s[i]
        BY <3>2, <2>4 DEF IsWhere
      <4> QED
        BY <4>1, <2>1, <2>2, <1>2
    <3> QED
      BY <3>1, <3>2
  <2>5. ASSUME NEW k \in 1 .. Len(a), NEW l \in 1 .. Len(a), k < l
        PROVE  \E i, j \in 1 .. n + 1 :
                 i < j /\ keep[i] /\ keep[j] /\ a[k] = s[i] /\ a[l] = s[j]
    <3>1. k \in 1 .. Len(r)
      BY <2>5, <2>1, <1>2
    <3>2. PICK i \in 1 .. n : keep[i] /\ r[k] = s[i]
      BY <3>1 DEF IsWhere
    <3>3. CASE l = Len(r) + 1
      <4>1. i \in 1 .. n + 1 /\ n + 1 \in 1 .. n + 1 /\ i < n + 1
        OBVIOUS
      <4> QED
        BY <3>1, <3>2, <3>3, <4>1, <2>1, <2>2, <1>4
    <3>4. CASE l \in 1 .. Len(r)
      <4>1. PICK p \in 1 .. n, q \in 1 .. n :
              p < q /\ keep[p] /\ keep[q] /\ r[k] = s[p] /\ r[l] = s[q]
        BY <3>1, <3>4, <2>5 DEF IsWhere
      <4>2. p \in 1 .. n + 1 /\ q \in 1 .. n + 1
        OBVIOUS
      <4> QED
        BY <4>1, <4>2, <3>1, <3>4, <2>2
    <3> QED
      BY <3>3, <3>4, <2>1, <1>2
  <2> QED
    BY <2>1, <2>3, <2>4, <2>5 DEF IsWhere, a
<1> QED
  BY <1>3, <1>4

\* Where(s, keep) has what keep keeps of s, nothing else, in the order of s.
LEMMA WhereFacts ==
  ASSUME NEW s, Len(s) \in Nat, NEW keep
  PROVE  IsWhere(s, keep, Len(s), Where(s, keep))
<1> DEFINE N == Len(s)
           P(f) == f = [m \in 0 .. N |->
                          IF m = 0 THEN <<>>
                          ELSE IF keep[m] THEN Append(f[m - 1], s[m]) ELSE f[m - 1]]
           F == CHOOSE f : P(f)
<1>1. Where(s, keep) = F[N]
  BY DEF Where
<1>2. \E f : P(f)
  <2>1. PICK f : Rounds(s, keep, N, f)
    BY RoundsExist
  <2>2. P(f)
    BY <2>1 DEF Rounds
  <2> QED
    BY <2>2
<1>3. P(F)
  <2> HIDE DEF P
  <2> QED
    BY <1>2
<1> HIDE DEF F
<1>4. \A m \in 0 .. N :
        F[m] = IF m = 0 THEN <<>>
               ELSE IF keep[m] THEN Append(F[m - 1], s[m]) ELSE F[m - 1]
  BY <1>3
<1> DEFINE T == {m \in Nat : m <= N => IsWhere(s, keep, m, F[m])}
<1>5. 0 \in T
  <2>1. IsWhere(s, keep, 0, <<>>)
    BY DEF IsWhere
  <2> QED
    BY <2>1, <1>4
<1>6. ASSUME NEW m \in Nat, m \in T PROVE m + 1 \in T
  <2> SUFFICES ASSUME m + 1 <= N PROVE IsWhere(s, keep, m + 1, F[m + 1])
    OBVIOUS
  <2>1. IsWhere(s, keep, m, F[m])
    BY <1>6
  <2>2. F[m + 1] = IF keep[m + 1] THEN Append(F[m], s[m + 1]) ELSE F[m]
    BY <1>4
  <2> QED
    BY <2>1, <2>2, IsWhereStep
<1> HIDE DEF T
<1>7. N \in T
  BY <1>5, <1>6, Induction
<1> QED
  BY <1>7, <1>1 DEF T

\* Where(s, keep) as a set: what keep keeps of s.
LEMMA WhereRange ==
  ASSUME NEW S, NEW s \in Seq(S), NEW keep
  PROVE  /\ Where(s, keep) \in Seq(S)
         /\ Range(Where(s, keep)) = {s[i] : i \in {j \in 1 .. Len(s) : keep[j]}}
<1> DEFINE r == Where(s, keep)
<1>1. IsWhere(s, keep, Len(s), r)
  BY WhereFacts
<1> HIDE DEF r
<1>2. r \in Seq({s[i] : i \in 1 .. Len(s)}) /\ {s[i] : i \in 1 .. Len(s)} \subseteq S
  BY <1>1 DEF IsWhere
<1>3. r \in Seq(S)
  BY <1>2
<1>4. Range(r) = {r[k] : k \in 1 .. Len(r)}
  BY <1>3 DEF Range
<1>5. Range(r) \subseteq {s[i] : i \in {j \in 1 .. Len(s) : keep[j]}}
  <2> SUFFICES ASSUME NEW k \in 1 .. Len(r)
               PROVE  \E i \in {j \in 1 .. Len(s) : keep[j]} : r[k] = s[i]
    BY <1>4
  <2>1. PICK i \in 1 .. Len(s) : keep[i] /\ r[k] = s[i]
    BY <1>1 DEF IsWhere
  <2> QED
    BY <2>1
<1>6. {s[i] : i \in {j \in 1 .. Len(s) : keep[j]}} \subseteq Range(r)
  BY <1>4, <1>1 DEF IsWhere
<1> QED
  BY <1>3, <1>5, <1>6 DEF r

-----------------------------------------------------------------------------
(* nms_filter().                                                           *)

\* Confident keeps exactly the detections that reach the threshold.
LEMMA ConfidentFacts ==
  ASSUME NEW S, NEW d \in Seq(S)
  PROVE  /\ Confident(d) \in Seq(S)
         /\ Range(Confident(d)) = {e \in Range(d) : e.confidence >= ConfThreshold}
<1> DEFINE keep == [i \in DOMAIN d |-> d[i].confidence >= ConfThreshold]
<1>1. DOMAIN d = 1 .. Len(d)
  OBVIOUS
<1>2. \A j \in 1 .. Len(d) : keep[j] <=> d[j].confidence >= ConfThreshold
  BY <1>1
<1>3. Confident(d) = Where(d, keep)
  BY DEF Confident
<1> HIDE DEF keep
<1>4. {d[i] : i \in {j \in 1 .. Len(d) : keep[j]}}
        = {e \in Range(d) : e.confidence >= ConfThreshold}
  BY <1>1, <1>2 DEF Range
<1>5. /\ Where(d, keep) \in Seq(S)
      /\ Range(Where(d, keep)) = {d[i] : i \in {j \in 1 .. Len(d) : keep[j]}}
  BY WhereRange
<1> QED
  BY <1>3, <1>4, <1>5

\* A sort moves its elements about, and puts the more confident ones first.
LEMMA SortedFacts ==
  ASSUME NEW S, NEW d \in Seq(S), NEW s \in SortedOrders(d)
  PROVE  /\ s \in Seq(S) /\ Range(s) = Range(d)
         /\ \A i, j \in 1 .. Len(s) : i < j => s[i].confidence >= s[j].confidence
<1> DEFINE D == 1 .. Len(d)
<1>1. DOMAIN d = D /\ Len(d) \in Nat /\ \A i \in D : d[i] \in S
  OBVIOUS
<1>2. PICK p \in Bijection(D, D) :
        /\ s = [i \in D |-> d[p[i]]]
        /\ \A i, j \in D : i < j => d[p[i]].confidence >= d[p[j]].confidence
  BY <1>1 DEF SortedOrders
<1>3. p \in [D -> D] /\ \A k \in D : \E i \in D : p[i] = k
  BY <1>2 DEF Bijection, Surjection
<1>4. s \in Seq(S) /\ Len(s) = Len(d) /\ DOMAIN s = D /\ \A i \in D : s[i] = d[p[i]]
  BY <1>1, <1>2, <1>3
<1>5. Range(s) = {s[i] : i \in D} /\ Range(d) = {d[i] : i \in D}
  BY <1>1, <1>4 DEF Range
<1>6. \A i \in D : s[i] = d[p[i]] /\ p[i] \in D
  BY <1>3, <1>4
<1>7. Range(s) = Range(d)
  <2>1. Range(s) \subseteq Range(d)
    BY <1>5, <1>6
  <2>2. ASSUME NEW k \in D PROVE d[k] \in Range(s)
    <3>1. PICK i \in D : p[i] = k
      BY <1>3
    <3> QED
      BY <3>1, <1>5, <1>6
  <2> QED
    BY <2>1, <2>2, <1>5
<1> QED
  BY <1>2, <1>4, <1>7

\* The equation of the recursive function in Suppressed, on 1 .. n.
Marks(s, n, f) ==
  f = [j \in 1 .. n |-> \E i \in 1 .. j - 1 : ~f[i] /\ Overlap(s[i], s[j])]

\* The rounds of the loop that marks what is suppressed can be carried out.
LEMMA MarksExist ==
  ASSUME NEW s, NEW n \in Nat
  PROVE  \E f : Marks(s, n, f)
<1> DEFINE T == {m \in Nat : \E f : Marks(s, m, f)}
<1>1. 0 \in T
  <2>1. Marks(s, 0, [j \in 1 .. 0 |-> FALSE])
    BY DEF Marks
  <2> QED
    BY <2>1
<1>2. ASSUME NEW m \in Nat, m \in T PROVE m + 1 \in T
  <2>1. PICK f : Marks(s, m, f)
    BY <1>2
  <2> DEFINE g == [j \in 1 .. m + 1 |->
                     \E i \in 1 .. j - 1 : ~f[i] /\ Overlap(s[i], s[j])]
  <2>2. ASSUME NEW i \in 1 .. m PROVE g[i] = f[i]
    <3>1. f[i] = \E k \in 1 .. i - 1 : ~f[k] /\ Overlap(s[k], s[i])
      BY <2>1 DEF Marks
    <3>2. i \in 1 .. m + 1
      OBVIOUS
    <3>3. g[i] = \E k \in 1 .. i - 1 : ~f[k] /\ Overlap(s[k], s[i])
      BY <3>2, Zenon
    <3> HIDE DEF g
    <3> QED
      BY <3>1, <3>3, Zenon
  <2>3. ASSUME NEW j \in 1 .. m + 1
        PROVE  g[j] = \E i \in 1 .. j - 1 : ~g[i] /\ Overlap(s[i], s[j])
    <3>1. \A i \in 1 .. j - 1 : g[i] = f[i]
      <4>1. \A i \in 1 .. j - 1 : i \in 1 .. m
        OBVIOUS
      <4> QED
        BY <4>1, <2>2, Zenon
    <3>2. g[j] = \E i \in 1 .. j - 1 : ~f[i] /\ Overlap(s[i], s[j])
      OBVIOUS
    <3> HIDE DEF g
    <3> QED
      BY <3>1, <3>2, Zenon
  <2>5. g = [j \in 1 .. m + 1 |-> g[j]]
    OBVIOUS
  <2> HIDE DEF g
  <2>4. Marks(s, m + 1, g)
    BY <2>3, <2>5, Zenon DEF Marks
  <2> QED
    BY <2>4
<1> HIDE DEF T
<1>3. Nat \subseteq T
  BY <1>1, <1>2, Induction
<1> QED
  BY <1>3 DEF T

\* Suppressed has what the comment of its definition says: an element is suppressed
\* by an earlier one that is not, and that it overlaps.
LEMMA SuppressedFacts ==
  ASSUME NEW S, NEW s \in Seq(S)
  PROVE  Suppressed(s) =
           [j \in 1 .. Len(s) |->
              \E i \in 1 .. j - 1 : ~Suppressed(s)[i] /\ Overlap(s[i], s[j])]
<1> DEFINE P(f) == f = [j \in DOMAIN s |->
                          \E i \in 1 .. j - 1 : ~f[i] /\ Overlap(s[i], s[j])]
<1>1. Suppressed(s) = CHOOSE f : P(f)
  BY DEF Suppressed
<1>2. DOMAIN s = 1 .. Len(s) /\ Len(s) \in Nat
  OBVIOUS
<1>3. \E f : P(f)
  <2>1. PICK f : Marks(s, Len(s), f)
    BY <1>2, MarksExist
  <2>2. P(f)
    BY <2>1, <1>2 DEF Marks
  <2> QED
    BY <2>2
<1>4. P(Suppressed(s))
  <2> HIDE DEF P
  <2> QED
    BY <1>1, <1>3
<1> QED
  BY <1>2, <1>4

\* What is left by nms_filter() is a non-maximum suppression of the sorted sequence.
LEMMA UnsuppressedFacts ==
  ASSUME NEW S, NEW s \in Seq(S),
         \A i, j \in 1 .. Len(s) : i < j => s[i].confidence >= s[j].confidence
  PROVE  IsSuppressionOf(Unsuppressed(s), Range(s))
<1> DEFINE D == 1 .. Len(s)
           gone == Suppressed(s)
           keep == [j \in DOMAIN s |-> ~gone[j]]
           r == Unsuppressed(s)
<1>1. DOMAIN s = D /\ Len(s) \in Nat /\ Range(s) = {s[i] : i \in D}
  BY DEF Range
<1>2. r = Where(s, keep)
  BY DEF Unsuppressed
<1>3. \A j \in D : keep[j] = ~gone[j]
  BY <1>1, Zenon
<1>4. \A j \in D : gone[j] = \E i \in 1 .. j - 1 : ~gone[i] /\ Overlap(s[i], s[j])
  BY SuppressedFacts, Zenon
<1> HIDE DEF gone, keep, r
<1>5. /\ r \in Seq(S)
      /\ Range(r) = {s[i] : i \in {j \in D : keep[j]}}
      /\ IsWhere(s, keep, Len(s), r)
  <2>1. /\ Where(s, keep) \in Seq(S)
        /\ Range(Where(s, keep)) = {s[i] : i \in {j \in D : keep[j]}}
    BY WhereRange
  <2>2. IsWhere(s, keep, Len(s), Where(s, keep))
    BY <1>1, WhereFacts
  <2> QED
    BY <2>1, <2>2, <1>2
<1>6. Range(r) = {s[i] : i \in {j \in D : ~gone[j]}}
  BY <1>3, <1>5
<1>7. DOMAIN r = 1 .. Len(r)
  BY <1>5
<1>8. Range(r) \subseteq Range(s)
  BY <1>1, <1>6
<1>9. ASSUME NEW k \in DOMAIN r, NEW l \in DOMAIN r, k < l
      PROVE  /\ r[k].confidence >= r[l].confidence
             /\ ~Overlap(r[k], r[l])
  <2>1. PICK i \in D, j \in D :
          i < j /\ keep[i] /\ keep[j] /\ r[k] = s[i] /\ r[l] = s[j]
    <3>1. k \in 1 .. Len(r) /\ l \in 1 .. Len(r)
      BY <1>7
    <3>2. \A p, q \in 1 .. Len(r) : p < q =>
            \E i, j \in 1 .. Len(s) :
              i < j /\ keep[i] /\ keep[j] /\ r[p] = s[i] /\ r[q] = s[j]
      BY <1>5 DEF IsWhere
    <3> QED
      BY <3>1, <3>2, <1>9, Zenon
  <2>2. ~gone[i] /\ ~gone[j]
    BY <2>1, <1>3, Zenon
  <2>3. i \in 1 .. j - 1
    BY <2>1
  <2>4. ~Overlap(s[i], s[j])
    BY <2>2, <2>3, <1>4, Zenon
  <2> QED
    BY <2>1, <2>4
<1>10. ASSUME NEW d \in Range(s) \ Range(r)
       PROVE  \E e \in Range(r) : e.confidence >= d.confidence /\ Overlap(e, d)
  <2>1. PICK j \in D : d = s[j]
    BY <1>1
  <2>2. gone[j]
    BY <2>1, <1>6
  <2>3. PICK i \in 1 .. j - 1 : ~gone[i] /\ Overlap(s[i], s[j])
    BY <2>2, <1>4, Zenon
  <2>4. i \in D /\ i < j
    OBVIOUS
  <2>5. s[i] \in Range(r)
    BY <2>3, <2>4, <1>6
  <2>6. s[i].confidence >= s[j].confidence
    BY <2>4
  <2> QED
    BY <2>1, <2>3, <2>5, <2>6, Zenon
<1> QED
  BY <1>8, <1>9, <1>10 DEF IsSuppressionOf, r

\* nms_filter() (postprocess.cpp:25): for every list of detections, both thresholds and
\* every order std::sort() may leave equal scores in, the result is sorted, its members
\* do not overlap, and each detection that reaches the score threshold and is missing
\* overlaps one of them that is at least as confident.
THEOREM NmsSuppresses ==
  ASSUME NEW S, NEW d \in Seq(S), NEW r \in NmsFilter(d)
  PROVE  IsSuppressionOf(r, {e \in Range(d) : e.confidence >= ConfThreshold})
<1>1. /\ Confident(d) \in Seq(S)
      /\ Range(Confident(d)) = {e \in Range(d) : e.confidence >= ConfThreshold}
  BY ConfidentFacts
<1>2. PICK s \in SortedOrders(Confident(d)) : r = Unsuppressed(s)
  BY DEF NmsFilter
<1>3. /\ s \in Seq(S) /\ Range(s) = Range(Confident(d))
      /\ \A i, j \in 1 .. Len(s) : i < j => s[i].confidence >= s[j].confidence
  BY <1>1, <1>2, SortedFacts
<1>4. IsSuppressionOf(r, Range(s))
  BY <1>2, <1>3, UnsuppressedFacts
<1> QED
  BY <1>1, <1>3, <1>4

-----------------------------------------------------------------------------
(* The parsers.                                                            *)

\* The scores of an anchor and 0 have a maximum: the loop over the classes finds one.
LEMMA BestScoreFacts ==
  ASSUME NEW scores \in Seq(Nat)
  PROVE  /\ BestScore(scores) \in {0} \cup Range(scores)
         /\ \A k \in 1 .. Len(scores) : scores[k] <= BestScore(scores)
<1> DEFINE Upto(n) == {0} \cup {scores[k] : k \in 1 .. n}
           IsMax(n, m) == m \in Upto(n) /\ \A k \in 1 .. n : scores[k] <= m
           T == {n \in Nat : n <= Len(scores) => \E m \in Nat : IsMax(n, m)}
<1>1. Len(scores) \in Nat /\ \A k \in 1 .. Len(scores) : scores[k] \in Nat
  OBVIOUS
<1>2. 0 \in T
  <2>1. IsMax(0, 0)
    OBVIOUS
  <2> QED
    BY <2>1
<1>3. ASSUME NEW n \in Nat, n \in T PROVE n + 1 \in T
  <2> SUFFICES ASSUME n + 1 <= Len(scores) PROVE \E m \in Nat : IsMax(n + 1, m)
    OBVIOUS
  <2>1. PICK m \in Nat : IsMax(n, m)
    BY <1>1, <1>3
  <2>2. scores[n + 1] \in Nat
    BY <1>1
  <2>3. \A k \in 1 .. n + 1 : k \in 1 .. n \/ k = n + 1
    OBVIOUS
  <2>4. CASE scores[n + 1] <= m
    <3>1. IsMax(n + 1, m)
      BY <2>1, <2>3, <2>4
    <3> QED
      BY <3>1
  <2>5. CASE ~ (scores[n + 1] <= m)
    <3>1. \A k \in 1 .. n : scores[k] \in Nat
      BY <1>1
    <3>2. IsMax(n + 1, scores[n + 1])
      BY <2>1, <2>2, <2>3, <2>5, <3>1
    <3> QED
      BY <3>2, <2>2
  <2> QED
    BY <2>4, <2>5
<1> HIDE DEF T
<1>4. Len(scores) \in T
  BY <1>1, <1>2, <1>3, Induction
<1>5. PICK m \in Nat : IsMax(Len(scores), m)
  BY <1>1, <1>4 DEF T
<1> DEFINE S == {0} \cup Range(scores)
<1>6. S = Upto(Len(scores))
  BY DEF Range
<1>7. m \in S /\ \A y \in S : m >= y
  BY <1>5, <1>6
<1>8. BestScore(scores) = CHOOSE x \in S : \A y \in S : x >= y
  BY DEF BestScore, Max
<1> HIDE DEF S
<1>9. BestScore(scores) \in S /\ \A y \in S : BestScore(scores) >= y
  BY <1>7, <1>8
<1> QED
  BY <1>1, <1>6, <1>9 DEF S

\* The class and the score the parser gives an anchor are those of the one class that
\* beats the others, ties included.
LEMMA BestClassWins ==
  ASSUME NEW scores \in Seq(Nat) \ {<<>>}
  PROVE  /\ BestClass(scores) + 1 \in DOMAIN scores
         /\ scores[BestClass(scores) + 1] = BestScore(scores)
         /\ BestClass(scores) \in Int
         /\ \A k \in DOMAIN scores : Wins(scores, k) <=> k = BestClass(scores) + 1
<1> DEFINE b == BestScore(scores)
           D == 1 .. Len(scores)
<1>1. DOMAIN scores = D /\ Len(scores) \in Nat \ {0} /\ \A k \in D : scores[k] \in Nat
  OBVIOUS
<1>2. b \in {0} \cup {scores[k] : k \in D} /\ \A k \in D : scores[k] <= b
  BY <1>1, BestScoreFacts DEF Range
<1>3. \E c \in D : scores[c] = b /\ BestClass(scores) = c - 1
                  /\ \A k \in D : scores[k] = b => c <= k
  <2>1. CASE b = 0
    <3>1. 1 \in D /\ \A k \in D : scores[k] = 0
      BY <2>1, <1>1, <1>2
    <3>2. BestClass(scores) = 1 - 1
      BY <2>1 DEF BestClass
    <3> QED
      BY <3>1, <3>2, <2>1
  <2>2. CASE b # 0
    <3> DEFINE B == {c \in DOMAIN scores : scores[c] = b}
    <3>1. B \in SUBSET Nat /\ B # {} /\ B \subseteq D
      BY <2>2, <1>1, <1>2
    <3>2. BestClass(scores) = Min(B) - 1
      BY <2>2 DEF BestClass
    <3>3. \A k \in D : scores[k] = b => k \in B
      BY <1>1
    <3>4. \A k \in B : scores[k] = b
      OBVIOUS
    <3> HIDE DEF B
    <3>5. \E x \in B : \A y \in B : x =< y
      BY <3>1, Least
    <3>6. Min(B) \in B /\ \A y \in B : Min(B) =< y
      BY <3>5 DEF Min
    <3> QED
      BY <3>1, <3>2, <3>3, <3>4, <3>6
  <2> QED
    BY <2>1, <2>2
<1>4. PICK c \in D : scores[c] = b /\ BestClass(scores) = c - 1
                   /\ \A k \in D : scores[k] = b => c <= k
  BY <1>3
<1> HIDE DEF b
<1>5. c = BestClass(scores) + 1 /\ c \in Nat
  BY <1>4
<1>6. Wins(scores, c)
  BY <1>1, <1>2, <1>4 DEF Wins
<1>7. ASSUME NEW k \in D, Wins(scores, k) PROVE k = c
  <2>1. scores[c] < scores[k] \/ (scores[c] = scores[k] /\ c >= k)
    BY <1>1, <1>7 DEF Wins
  <2>2. scores[k] <= scores[c] /\ scores[c] \in Nat /\ scores[k] \in Nat
    BY <1>1, <1>2, <1>4
  <2>3. scores[k] = b /\ c >= k
    BY <2>1, <2>2, <1>4
  <2> QED
    BY <2>3, <1>4, <1>5
<1> QED
  BY <1>1, <1>4, <1>5, <1>6, <1>7 DEF b

\* Reads of an output that the assumption on Outputs allows.
LEMMA YoloFacts ==
  ASSUME NEW o \in Outputs, o.kind = "yolo"
  PROVE  /\ DOMAIN o.anchors = 1 .. Len(o.anchors) /\ Len(o.anchors) \in Nat
         /\ \A a \in DOMAIN o.anchors : o.anchors[a].scores \in Seq(Nat) \ {<<>>}
<1>1. o \in YoloOutput
  BY OutputsAssumption DEF SsdOutput
<1> DEFINE A == [box : [cx : Int, cy : Int, w : Int, h : Int],
                 scores : Seq(Nat) \ {<<>>}]
<1>2. o.anchors \in Seq(A)
  BY <1>1 DEF YoloOutput
<1>3. \A x \in A : x.scores \in Seq(Nat) \ {<<>>}
  OBVIOUS
<1> HIDE DEF A
<1> QED
  BY <1>2, <1>3

\* The count of an SSD's rows is a number.
LEMMA SsdFacts ==
  ASSUME NEW o \in Outputs, o.kind = "ssd"
  PROVE  o.count \in Nat
<1>1. o \in SsdOutput
  BY OutputsAssumption DEF YoloOutput
<1> QED
  BY <1>1 DEF SsdOutput

\* A sequence through Confident, and what it keeps read off its index.
LEMMA ParsedFacts ==
  ASSUME NEW n \in Nat, NEW d, d = [i \in 1 .. n |-> d[i]]
  PROVE  /\ Confident(d) \in Seq(Range(d))
         /\ {e \in Range(Confident(d)) : e.confidence >= ConfThreshold}
              = {d[i] : i \in {j \in 1 .. n : d[j].confidence >= ConfThreshold}}
<1>1. DOMAIN d = 1 .. n
  OBVIOUS
<1>2. Range(d) = {d[i] : i \in 1 .. n}
  BY <1>1 DEF Range
<1>3. d \in Seq(Range(d))
  BY <1>1, <1>2
<1>4. /\ Confident(d) \in Seq(Range(d))
      /\ Range(Confident(d)) = {e \in Range(d) : e.confidence >= ConfThreshold}
  BY <1>3, ConfidentFacts
<1> QED
  BY <1>2, <1>4

\* Inference::run() (inference.cpp:68): the detections of the output it has parsed that
\* reach the threshold are the candidates read off the tensors: one per anchor whose best
\* class reaches it, with the first of the best classes, or one per row of an SSD.
THEOREM RunFindsCandidates ==
  ASSUME output \in Outputs, output.kind \in {"yolo", "ssd"}
  PROVE  /\ \E S : Run(output) \in Seq(S)
         /\ {e \in Range(Run(output)) : e.confidence >= ConfThreshold} = Candidates
<1>1. CASE output.kind = "yolo"
  <2> DEFINE row == output.anchors
             D == 1 .. Len(row)
             score(a) == row[a].scores
             box(a) == Corners(row[a].box)
             d == [a \in DOMAIN row |->
                     Detection(box(a), BestClass(score(a)), BestScore(score(a)), a)]
  <2>1. DOMAIN row = D /\ Len(row) \in Nat
        /\ \A a \in D : score(a) \in Seq(Nat) \ {<<>>}
    BY <1>1, YoloFacts
  <2>2. Run(output) = Confident(d)
    BY <1>1 DEF Run, ParseYolov8Output
  <2>3. d = [a \in 1 .. Len(row) |-> d[a]]
    BY <2>1
  <2>4. \A a \in D : d[a] = Detection(box(a), BestClass(score(a)), BestScore(score(a)), a)
    BY <2>1
  <2>5. \A a \in D : d[a].confidence = BestScore(score(a))
    BY <2>4 DEF Detection
  <2> DEFINE Of(a) == {Detection(box(a), c - 1, score(a)[c], a) :
                         c \in {k \in DOMAIN score(a) :
                                 Wins(score(a), k) /\ score(a)[k] >= ConfThreshold}}
  <2>6. Candidates = UNION {Of(a) : a \in DOMAIN row}
    BY <1>1 DEF Candidates
  <2> HIDE DEF d
  <2>7. ASSUME NEW a \in D
        PROVE  Of(a) = IF d[a].confidence >= ConfThreshold THEN {d[a]} ELSE {}
    <3> DEFINE w == BestClass(score(a)) + 1
    <3>1. /\ w \in DOMAIN score(a) /\ score(a)[w] = BestScore(score(a))
          /\ BestClass(score(a)) \in Int
          /\ \A k \in DOMAIN score(a) : Wins(score(a), k) <=> k = w
      BY <2>1, BestClassWins
    <3>2. w - 1 = BestClass(score(a))
      BY <3>1
    <3>3. d[a] = Detection(box(a), w - 1, score(a)[w], a)
      BY <2>4, <3>1, <3>2
    <3>4. d[a].confidence = score(a)[w]
      BY <2>5, <3>1
    <3> HIDE DEF w, score, box
    <3> QED
      BY <3>1, <3>3, <3>4
  <2> HIDE DEF Of, row
  <2>8. Candidates = {d[i] : i \in {j \in D : d[j].confidence >= ConfThreshold}}
    <3> DEFINE K == {d[i] : i \in {j \in D : d[j].confidence >= ConfThreshold}}
    <3>1. ASSUME NEW e \in Candidates PROVE e \in K
      <4>1. PICK a \in D : e \in Of(a)
        BY <2>1, <2>6
      <4>2. e = d[a] /\ d[a].confidence >= ConfThreshold
        BY <4>1, <2>7
      <4> QED
        BY <4>2
    <3>2. ASSUME NEW j \in D, d[j].confidence >= ConfThreshold
          PROVE  d[j] \in Candidates
      <4>1. d[j] \in Of(j)
        BY <3>2, <2>7
      <4> QED
        BY <4>1, <2>1, <2>6
    <3> QED
      BY <3>1, <3>2
  <2>9. /\ Confident(d) \in Seq(Range(d))
        /\ {e \in Range(Confident(d)) : e.confidence >= ConfThreshold}
             = {d[i] : i \in {j \in D : d[j].confidence >= ConfThreshold}}
    BY <2>1, <2>3, ParsedFacts
  <2> QED
    BY <2>2, <2>8, <2>9
<1>2. CASE output.kind = "ssd"
  <2> DEFINE row == output.rows
             D == 1 .. output.count
             d == [i \in D |-> Detection(row[i].box, row[i].class, row[i].score, i)]
  <2>1. output.count \in Nat
    BY <1>2, SsdFacts
  <2>2. Run(output) = Confident(d)
    BY <1>2 DEF Run, ParseSsdOutput
  <2>3. \A i \in D : d[i] = Detection(row[i].box, row[i].class, row[i].score, i)
    OBVIOUS
  <2>4. \A i \in D : d[i].confidence = row[i].score
    BY <2>3 DEF Detection
  <2>5. d = [i \in 1 .. output.count |-> d[i]]
    OBVIOUS
  <2>6. Candidates = {Detection(row[i].box, row[i].class, row[i].score, i) :
                        i \in {j \in D : row[j].score >= ConfThreshold}}
    BY <1>2 DEF Candidates
  <2> HIDE DEF d
  <2>7. Candidates = {d[i] : i \in {j \in D : d[j].confidence >= ConfThreshold}}
    BY <2>3, <2>4, <2>6
  <2>8. /\ Confident(d) \in Seq(Range(d))
        /\ {e \in Range(Confident(d)) : e.confidence >= ConfThreshold}
             = {d[i] : i \in {j \in D : d[j].confidence >= ConfThreshold}}
    BY <2>1, <2>5, ParsedFacts
  <2> QED
    BY <2>2, <2>7, <2>8
<1> QED
  BY <1>1, <1>2

-----------------------------------------------------------------------------
(* The agents.                                                             *)

\* The folder an agent reads from has images, once it has been opened.
HasFiles == pc \notin {"open", "exited"} /\ Files => source.files # <<>>

\* What the thread has in hand comes from the output of the frame in hand.
FromOutput ==
  pc \in {"nms", "send"} =>
    \/ output \in Outputs /\ output.kind \in {"yolo", "ssd"} /\ raw = Run(output)
    \/ output = NoOutput /\ raw = <<>>

Suppression == pc = "send" => filtered \in NmsFilter(raw)

IInv == TypeOK /\ HasFiles /\ FromOutput /\ Suppression

\* A FILE source has a sequence of files.
LEMMA FolderIsSeq ==
  ASSUME source \in Sources, Files
  PROVE  source.files \in Seq(BOOLEAN)
<1>1. source # Camera
  BY DEF Files, Camera
<1>2. source \in [kind : {"file"}, files : Folders]
  BY <1>1 DEF Sources
<1> QED
  BY <1>2, FoldersAssumption

\* files_[idx_ % files_.size()]: the next index is one of the folder's.
LEMMA NextIndexInFolder ==
  ASSUME source \in Sources, Files, source.files # <<>>, idx \in Int, NextIndex
  PROVE  idx' \in 0 .. Len(source.files) - 1
<1> DEFINE n == Len(source.files)
<1>1. n \in Nat \ {0}
  BY FolderIsSeq
<1>2. idx' = (idx + 1) % n
  BY DEF NextIndex
<1> HIDE DEF n
<1>3. idx' \in 0 .. n - 1
  BY <1>1, <1>2
<1> QED
  BY <1>3 DEF n

\* The invariant speaks of the folder through these values only.
LEMMA ConfigKept ==
  ASSUME UNCHANGED config
  PROVE  /\ agent' = agent /\ model' = model /\ source' = source
         /\ Files' = Files
BY DEF config, Files

\* FileFrameSource's idx_ is a number, whatever the source.
LEMMA IdxIsInt == TypeOK => idx \in Int
<1> SUFFICES ASSUME TypeOK PROVE idx \in Int
  OBVIOUS
<1>1. CASE Files /\ source.files # <<>>
  <2>1. Len(source.files) \in Nat
    BY <1>1, FolderIsSeq DEF TypeOK
  <2>2. idx \in 0 .. Len(source.files) - 1
    BY <1>1 DEF TypeOK
  <2> QED
    BY <2>1, <2>2
<1>2. CASE ~(Files /\ source.files # <<>>)
  <2>1. idx \in {0}
    BY <1>2 DEF TypeOK
  <2> QED
    BY <2>1
<1> QED
  BY <1>1, <1>2

\* An agent has opened nothing yet and holds nothing.
LEMMA InitIInv == Init => IInv
<1> SUFFICES ASSUME Init PROVE IInv
  OBVIOUS
<1>1. 0 \in IF Files /\ source.files # <<>> THEN 0 .. Len(source.files) - 1 ELSE {0}
  <2>1. CASE Files /\ source.files # <<>>
    <3>1. source.files \in Seq(BOOLEAN)
      BY <2>1, FolderIsSeq DEF Init
    <3>2. Len(source.files) \in Nat \ {0}
      BY <2>1, <3>1
    <3> QED
      BY <2>1, <3>2
  <2>2. CASE ~(Files /\ source.files # <<>>)
    BY <2>2
  <2> QED
    BY <2>1, <2>2
<1>2. TypeOK
  BY <1>1 DEF Init, TypeOK, PC
<1> QED
  BY <1>2 DEF Init, IInv, HasFiles, FromOutput, Suppression

\* The part of the type invariant that an action leaves alone with config and idx.
LEMMA TypeKept ==
  ASSUME TypeOK, UNCHANGED <<config, idx>>,
         pc' \in PC, impl' \in BOOLEAN, flag' \in BOOLEAN,
         output' \in Outputs \cup {NoOutput},
         agent = "python" => ~impl' /\ ~flag'
  PROVE  TypeOK'
BY ConfigKept DEF TypeOK

\* A step that leaves what the thread has in hand, with pc away from "nms" and "send".
LEMMA HandKept ==
  ASSUME UNCHANGED data, pc' \notin {"nms", "send"}
  PROVE  FromOutput' /\ Suppression'
BY DEF FromOutput, Suppression

\* A step away from "open" keeps the folder that was opened.
LEMMA FolderKept ==
  ASSUME HasFiles, UNCHANGED config, pc \notin {"open", "exited"} \/ pc' = "exited"
  PROVE  HasFiles'
BY ConfigKept DEF HasFiles

\* The frame sources: idx stays, or moves to the next file.
LEMMA SourceStep ==
  ASSUME IInv, UNCHANGED <<config, impl, flag, output>>, pc = "capture", pc' \in PC,
         UNCHANGED idx \/ (Files /\ NextIndex)
  PROVE  TypeOK'
<1> USE DEF IInv
<1>1. CASE UNCHANGED idx
  BY <1>1, TypeKept DEF TypeOK
<1>2. CASE Files /\ NextIndex
  <2>1. source.files # <<>>
    BY <1>2 DEF HasFiles
  <2>2. idx' \in 0 .. Len(source.files) - 1
    BY <1>2, <2>1, IdxIsInt, NextIndexInFolder DEF TypeOK
  <2> QED
    BY <1>2, <2>1, <2>2, ConfigKept DEF TypeOK
<1> QED
  BY <1>1, <1>2

\* Each step of either agent keeps the invariant.
LEMMA NextIInv == IInv /\ [Next]_vars => IInv'
<1> SUFFICES ASSUME IInv, [Next]_vars PROVE IInv'
  OBVIOUS
<1> USE DEF IInv
<1>t. /\ pc \in PC /\ impl \in BOOLEAN /\ flag \in BOOLEAN
      /\ output \in Outputs \cup {NoOutput}
      /\ agent = "python" => ~impl /\ ~flag
  BY DEF TypeOK
<1>q. ASSUME UNCHANGED <<config, impl, flag, idx, data>>, pc' \in PC \ {"nms", "send"},
             HasFiles'
      PROVE  IInv'
  BY <1>q, <1>t, TypeKept, HandKept DEF data
<1>1. CASE OpenFails \/ LoadFails \/ PyRaises
  <2>1. UNCHANGED <<config, impl, flag, idx, data>> /\ pc' = "exited"
    BY <1>1 DEF OpenFails, LoadFails, PyRaises, Exit, Goto
  <2>2. HasFiles'
    BY <2>1, FolderKept
  <2> QED
    BY <1>q, <2>1, <2>2 DEF PC
<1>2. CASE Open
  <2>1. /\ UNCHANGED <<config, impl, flag, idx, data>> /\ pc' \in {"start", "capture"}
        /\ Files => source.files # <<>>
    BY <1>2 DEF Open, Goto
  <2>2. HasFiles'
    BY <2>1, ConfigKept DEF HasFiles
  <2> QED
    BY <1>q, <2>1, <2>2 DEF PC
<1>3. CASE Start
  <2>1. /\ UNCHANGED <<config, flag, idx, data>> /\ pc = "start" /\ pc' = "top"
        /\ agent = "l0" /\ impl' = TRUE
    BY <1>3 DEF Start, Goto
  <2> QED
    BY <2>1, <1>t, TypeKept, HandKept, FolderKept DEF data, PC
<1>4. CASE Stop
  <2>1. /\ UNCHANGED <<config, flag, idx, data>> /\ pc = "stop" /\ pc' = "exited"
        /\ impl' = FALSE
    BY <1>4 DEF Stop, Exit, Goto
  <2> QED
    BY <2>1, <1>t, TypeKept, HandKept, FolderKept DEF data, PC
<1>5. CASE Top
  <2>1. /\ UNCHANGED <<config, impl, flag, idx, data>>
        /\ pc = "top" /\ pc' \in {"stop", "capture"}
    BY <1>5 DEF Top, AsksFlag
  <2>2. HasFiles'
    BY <2>1, FolderKept
  <2> QED
    BY <1>q, <2>1, <2>2 DEF PC
<1>6. CASE Capture \/ PySkips \/ SourceEnds
  <2>1. /\ UNCHANGED <<config, impl, flag, data>> /\ pc = "capture"
        /\ pc' \in {"infer", "capture", "stop", "exited"}
        /\ UNCHANGED idx \/ (Files /\ NextIndex)
    BY <1>6
    DEF Capture, PySkips, SourceEnds, Goto, FileFrame, FileEnds, CameraFrame, CameraEnds
  <2>2. UNCHANGED output
    BY <2>1 DEF data
  <2>3. TypeOK'
    BY <2>1, <2>2, SourceStep DEF PC
  <2> QED
    BY <2>1, <2>3, HandKept, FolderKept
<1>7. CASE Infer
  <2>1. /\ UNCHANGED <<config, impl, flag, idx>> /\ pc = "infer" /\ pc' = "nms"
        /\ \/ output' \in Outputs /\ output'.kind = model /\ raw' = Run(output')
           \/ output' = NoOutput /\ raw' = <<>>
    BY <1>7 DEF Infer, Goto
  <2>2. TypeOK'
    BY <2>1, <1>t, TypeKept DEF PC
  <2>3. FromOutput'
    BY <2>1 DEF FromOutput, TypeOK
  <2> QED
    BY <2>1, <2>2, <2>3, FolderKept DEF Suppression
<1>8. CASE Nms
  <2>1. /\ UNCHANGED <<config, impl, flag, idx, output, raw>>
        /\ pc = "nms" /\ pc' = "send" /\ filtered' \in NmsFilter(raw)
    BY <1>8 DEF Nms, Goto
  <2>2. TypeOK'
    BY <2>1, <1>t, TypeKept DEF PC
  <2>3. FromOutput' /\ Suppression'
    BY <2>1 DEF FromOutput, Suppression
  <2> QED
    BY <2>1, <2>2, <2>3, FolderKept
<1>9. CASE Send
  <2>1. /\ UNCHANGED <<config, impl, flag, idx>> /\ output' = NoOutput
        /\ pc = "send" /\ pc' \in {"top", "capture"}
    BY <1>9 DEF Send, Goto
  <2>2. TypeOK'
    BY <2>1, <1>t, TypeKept DEF PC
  <2> QED
    BY <2>1, <2>2, FolderKept DEF FromOutput, Suppression
<1>10. CASE RequestShutdown
  <2>1. /\ UNCHANGED <<config, pc, impl, idx, data>> /\ agent = "l0" /\ flag' = TRUE
    BY <1>10 DEF RequestShutdown
  <2>2. TypeOK'
    BY <2>1, <1>t, TypeKept DEF data
  <2> QED
    BY <2>1, <2>2, ConfigKept DEF HasFiles, FromOutput, Suppression, data
<1>11. CASE UNCHANGED vars
  <2>1. UNCHANGED <<config, pc, impl, flag, idx, data>>
    BY <1>11 DEF vars
  <2>2. TypeOK'
    BY <2>1, <1>t, TypeKept DEF data
  <2> QED
    BY <2>1, <2>2, ConfigKept DEF HasFiles, FromOutput, Suppression, data
<1> QED
  BY <1>1, <1>2, <1>3, <1>4, <1>5, <1>6, <1>7, <1>8, <1>9, <1>10, <1>11
  DEF Next, L0Loop, PyWorks, PySends, Exited

\* Every reachable state is well typed; in particular FileFrameSource's idx_ never leaves
\* the folder, however often it wraps around.
THEOREM TypeCorrect == Spec => []TypeOK
<1>1. IInv => TypeOK
  BY DEF IInv
<1> QED
  BY <1>1, InitIInv, NextIInv, PTL DEF Spec

\* SentIsSuppression of one state.
LEMMA SentFromIInv == IInv => SentIsSuppression
<1> SUFFICES ASSUME IInv, pc = "send" PROVE IsSuppressionOf(filtered, Candidates)
  BY DEF SentIsSuppression
<1>1. filtered \in NmsFilter(raw)
  BY DEF IInv, Suppression
<1>2. CASE output \in Outputs /\ output.kind \in {"yolo", "ssd"} /\ raw = Run(output)
  <2>1. PICK S : raw \in Seq(S)
    BY <1>2, RunFindsCandidates
  <2>2. {e \in Range(raw) : e.confidence >= ConfThreshold} = Candidates
    BY <1>2, RunFindsCandidates
  <2> QED
    BY <1>1, <2>1, <2>2, NmsSuppresses
<1>3. CASE output = NoOutput /\ raw = <<>>
  <2>1. raw \in Seq({}) /\ Range(raw) = {}
    BY <1>3 DEF Range
  <2>2. Candidates = {}
    BY <1>3 DEF Candidates, NoOutput
  <2>3. {e \in Range(raw) : e.confidence >= ConfThreshold} = Candidates
    BY <2>1, <2>2
  <2> QED
    BY <1>1, <2>1, <2>3, NmsSuppresses
<1> QED
  BY <1>2, <1>3 DEF IInv, FromOutput

\* Every agent with one thread sends, for each frame, a non-maximum suppression of the
\* boxes that the model has put out for that frame: sorted, without overlaps, and with
\* nothing missing that a more confident one does not cover.
THEOREM SentCorrect == Spec => []SentIsSuppression
BY InitIInv, NextIInv, SentFromIInv, PTL DEF Spec
=============================================================================
