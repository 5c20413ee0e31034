-------------------------- MODULE IndexBuildProofs --------------------------
(***************************************************************************)
(* Proofs about IndexBuild.                                                *)
(***************************************************************************)
EXTENDS IndexBuild, FiniteSetTheorems, SequenceTheorems, TLAPS

-----------------------------------------------------------------------------
(* Sorting.  R is a strict order on S, as a set of pairs. *)

\* How many members of S come before x.
RankIn(S, R, x) == Cardinality({y \in S : <<y, x>> \in R})

\* In a finite ordered set, ranks follow the order and every rank is taken.
LEMMA RankFacts ==
  ASSUME NEW S, IsFiniteSet(S), NEW R,
         \A x \in S : <<x, x>> \notin R,
         \A x, y, z \in S : <<x, y>> \in R /\ <<y, z>> \in R => <<x, z>> \in R,
         \A x, y \in S : x = y \/ <<x, y>> \in R \/ <<y, x>> \in R
  PROVE  /\ \A x \in S : RankIn(S, R, x) \in 0..(Cardinality(S) - 1)
         /\ \A x, y \in S : <<x, y>> \in R <=> RankIn(S, R, x) < RankIn(S, R, y)
         /\ \A k \in 0..(Cardinality(S) - 1) : \E x \in S : RankIn(S, R, x) = k
<1> DEFINE Below(x) == {y \in S : <<y, x>> \in R}
<1> DEFINE N == Cardinality(S)
<1>1. N \in Nat
  BY FS_CardinalityType
<1>2. ASSUME NEW x \in S
      PROVE  /\ IsFiniteSet(Below(x)) /\ Cardinality(Below(x)) \in Nat
             /\ Cardinality(Below(x)) < N
  <2>1. Below(x) \in SUBSET S /\ x \notin Below(x)
    OBVIOUS
  <2>2. IsFiniteSet(Below(x)) /\ Cardinality(Below(x)) <= N /\ (N = Cardinality(Below(x)) => S = Below(x))
    <3> HIDE DEF Below
    <3> QED BY <2>1, FS_Subset
  <2>3. Cardinality(Below(x)) \in Nat
    <3> HIDE DEF Below
    <3> QED BY <2>2, FS_CardinalityType
  <2> HIDE DEF Below, N
  <2> QED BY <1>1, <2>1, <2>2, <2>3
<1>3. ASSUME NEW x \in S, NEW y \in S, <<x, y>> \in R
      PROVE  Cardinality(Below(x)) < Cardinality(Below(y))
  <2>1. Below(x) \in SUBSET Below(y) /\ x \in Below(y) /\ x \notin Below(x)
    BY <1>3
  <2>2. IsFiniteSet(Below(y)) /\ Cardinality(Below(y)) \in Nat /\ Cardinality(Below(x)) \in Nat
    BY <1>2
  <2>3. /\ Cardinality(Below(x)) <= Cardinality(Below(y))
        /\ (Cardinality(Below(y)) = Cardinality(Below(x)) => Below(y) = Below(x))
    <3> HIDE DEF Below
    <3> QED BY <2>1, <2>2, FS_Subset
  <2> HIDE DEF Below
  <2> QED BY <2>1, <2>2, <2>3
<1>4. \A x \in S : RankIn(S, R, x) = Cardinality(Below(x))
  BY DEF RankIn
<1>5. \A x \in S : RankIn(S, R, x) \in 0..(N - 1)
  <2> HIDE DEF Below, N
  <2> QED BY <1>1, <1>2, <1>4
<1>6. ASSUME NEW x \in S, NEW y \in S
      PROVE <<x, y>> \in R <=> RankIn(S, R, x) < RankIn(S, R, y)
  <2>1. RankIn(S, R, x) \in Nat /\ RankIn(S, R, y) \in Nat
    BY <1>5, <1>1
  <2> HIDE DEF Below
  <2>2. CASE x = y
    BY <2>1, <2>2
  <2>3. CASE <<x, y>> \in R
    BY <2>3, <1>3, <1>4
  <2>4. CASE <<y, x>> \in R
    <3>1. <<x, y>> \notin R
      BY <2>4
    <3>2. RankIn(S, R, y) < RankIn(S, R, x)
      BY <2>4, <1>3, <1>4
    <3> QED BY <2>1, <3>1, <3>2
  <2> QED BY <2>2, <2>3, <2>4
<1>7. ASSUME NEW k \in 0..(N - 1) PROVE \E x \in S : RankIn(S, R, x) = k
  <2> DEFINE f == [x \in S |-> RankIn(S, R, x)]
  <2>1. f \in [S -> 0..(N - 1)]
    BY <1>5
  <2>2. \A x, y \in S : f[x] = f[y] => x = y
    <3> SUFFICES ASSUME NEW x \in S, NEW y \in S, f[x] = f[y] PROVE x = y
      OBVIOUS
    <3>1. RankIn(S, R, x) = RankIn(S, R, y) /\ RankIn(S, R, x) \in Int
      BY <1>1, <1>5
    <3>2. ~(RankIn(S, R, x) < RankIn(S, R, y)) /\ ~(RankIn(S, R, y) < RankIn(S, R, x))
      BY <3>1
    <3> QED BY <3>2, <1>6
  <2>3. f \in Injection(S, 0..(N - 1))
    BY <2>1, <2>2, Zenon DEF Injection, IsInjective
  <2>4. IsFiniteSet(0..(N - 1)) /\ Cardinality(0..(N - 1)) = N
    <3> HIDE DEF N
    <3> QED BY <1>1, FS_Interval
  <2>5. f \in Surjection(S, 0..(N - 1))
    <3> HIDE DEF f
    <3> QED BY <2>3, <2>4, FS_Injection
  <2>6. \E x \in S : f[x] = k
    <3> HIDE DEF f
    <3> QED BY <2>5 DEF Surjection
  <2> QED BY <2>6
<1> HIDE DEF N
<1> QED BY <1>5, <1>6, <1>7 DEF N

\* Tuples of one length are totally ordered by LexLess.
LexOrdered(S) ==
  /\ \A a \in S : ~LexLess(a, a)
  /\ \A a, b, c \in S : LexLess(a, b) /\ LexLess(b, c) => LexLess(a, c)
  /\ \A a, b \in S : a = b \/ LexLess(a, b) \/ LexLess(b, a)

\* The order of pairs, written out.
LEMMA PairLess ==
  ASSUME NEW a \in Nat \X Nat, NEW b \in Nat \X Nat
  PROVE  LexLess(a, b) <=> a[1] < b[1] \/ (a[1] = b[1] /\ a[2] < b[2])
<1>1. DOMAIN a = {1, 2} /\ a[1] \in Nat /\ a[2] \in Nat /\ b[1] \in Nat /\ b[2] \in Nat
  OBVIOUS
<1>2. LexLess(a, b) <=> \/ a[1] < b[1] /\ \A j \in 1..(1 - 1) : a[j] = b[j]
                        \/ a[2] < b[2] /\ \A j \in 1..(2 - 1) : a[j] = b[j]
  BY <1>1, Zenon DEF LexLess
<1>3. 1..(1 - 1) = {} /\ 1..(2 - 1) = {1}
  OBVIOUS
<1> QED BY <1>2, <1>3

\* The pairs of the prefix postings are totally ordered.
LEMMA PairsOrdered == LexOrdered(Nat \X Nat)
<1>1. ASSUME NEW a \in Nat \X Nat PROVE ~LexLess(a, a)
  BY PairLess
<1>2. ASSUME NEW a \in Nat \X Nat, NEW b \in Nat \X Nat, NEW c \in Nat \X Nat,
             LexLess(a, b), LexLess(b, c)
      PROVE  LexLess(a, c)
  <2>1. /\ a[1] \in Nat /\ a[2] \in Nat /\ b[1] \in Nat /\ b[2] \in Nat /\ c[1] \in Nat /\ c[2] \in Nat
        /\ a[1] < b[1] \/ (a[1] = b[1] /\ a[2] < b[2])
        /\ b[1] < c[1] \/ (b[1] = c[1] /\ b[2] < c[2])
    BY <1>2, PairLess
  <2>2. a[1] < c[1] \/ (a[1] = c[1] /\ a[2] < c[2])
    BY <2>1
  <2> QED BY <2>2, PairLess
<1>3. ASSUME NEW a \in Nat \X Nat, NEW b \in Nat \X Nat
      PROVE  a = b \/ LexLess(a, b) \/ LexLess(b, a)
  <2>1. a = <<a[1], a[2]>> /\ b = <<b[1], b[2]>> /\ a[1] \in Nat /\ a[2] \in Nat /\ b[1] \in Nat /\ b[2] \in Nat
    OBVIOUS
  <2>2. CASE a[1] = b[1] /\ a[2] = b[2]
    BY <2>1, <2>2
  <2>3. CASE ~(a[1] = b[1] /\ a[2] = b[2])
    BY <2>1, <2>3, PairLess
  <2> QED BY <2>2, <2>3
<1> QED BY <1>1, <1>2, <1>3 DEF LexOrdered

\* The sorter counts as everybody does.
LEMMA SorterCounts == ASSUME NEW S PROVE RecordSort!Cardinality(S) = Cardinality(S)
BY DEF RecordSort!Cardinality, Cardinality

\* t lists the records of b in the order p.
Rearranges(p, b, t) ==
  /\ p \in [1..Len(b) -> 1..Len(b)]
  /\ \A k \in 1..Len(b) : t[k] = b[p[k]]
  /\ \A j, k \in 1..Len(b) : p[j] = p[k] => j = k
  /\ \A i \in 1..Len(b) : \E k \in 1..Len(b) : p[k] = i

\* Sorted() rearranges a buffer in ascending order.
LEMMA SortedFacts ==
  ASSUME NEW S, LexOrdered(S), NEW b \in Seq(S)
  PROVE  /\ RecordSort!Sorted(b) \in Seq(S)
         /\ Len(RecordSort!Sorted(b)) = Len(b)
         /\ \E p : Rearranges(p, b, RecordSort!Sorted(b))
         /\ \A j, k \in 1..Len(b) : j < k => ~LexLess(RecordSort!Sorted(b)[k], RecordSort!Sorted(b)[j])
<1> DEFINE n == Len(b)
<1> DEFINE D == 1..n
<1> DEFINE R == {q \in D \X D : RecordSort!Before(b, q[1], q[2])}
<1>1. n \in Nat /\ DOMAIN b = D /\ \A i \in D : b[i] \in S
  OBVIOUS
<1>2. \A i, j \in D : RecordSort!Before(b, i, j) <=>
                        LexLess(b[i], b[j]) \/ (~LexLess(b[j], b[i]) /\ i < j)
  BY DEF RecordSort!Before, Itself
<1>3. \A i, j \in D : <<i, j>> \in R <=> RecordSort!Before(b, i, j)
  OBVIOUS
<1>4. IsFiniteSet(D) /\ Cardinality(D) = n
  <2>1. n \in Nat /\ n \in Int
    BY <1>1
  <2> HIDE DEF n
  <2> QED BY <2>1, FS_Interval
<1>5. \A i \in D : <<i, i>> \notin R
  <2> HIDE DEF R
  <2> QED BY <1>1, <1>2, <1>3 DEF LexOrdered
<1>6. \A i, j, k \in D : <<i, j>> \in R /\ <<j, k>> \in R => <<i, k>> \in R
  <2> SUFFICES ASSUME NEW i \in D, NEW j \in D, NEW k \in D, <<i, j>> \in R, <<j, k>> \in R
               PROVE  <<i, k>> \in R
    OBVIOUS
  <2> HIDE DEF R
  <2>1. /\ LexLess(b[i], b[j]) \/ (~LexLess(b[j], b[i]) /\ i < j)
        /\ LexLess(b[j], b[k]) \/ (~LexLess(b[k], b[j]) /\ j < k)
    BY <1>2, <1>3
  <2>2. i \in Int /\ j \in Int /\ k \in Int /\ b[i] \in S /\ b[j] \in S /\ b[k] \in S
    BY <1>1
  <2>3. LexLess(b[i], b[k]) \/ (~LexLess(b[k], b[i]) /\ i < k)
    BY <2>1, <2>2 DEF LexOrdered
  <2> QED BY <2>3, <1>2, <1>3
<1>7. \A i, j \in D : i = j \/ <<i, j>> \in R \/ <<j, i>> \in R
  <2> SUFFICES ASSUME NEW i \in D, NEW j \in D, i # j PROVE <<i, j>> \in R \/ <<j, i>> \in R
    OBVIOUS
  <2> HIDE DEF R
  <2>1. i < j \/ j < i
    BY <1>1
  <2> QED BY <2>1, <1>1, <1>2, <1>3 DEF LexOrdered
<1> DEFINE Rank(i) == RankIn(D, R, i)
<1>8. /\ \A i \in D : Rank(i) \in 0..(n - 1)
      /\ \A i, j \in D : <<i, j>> \in R <=> Rank(i) < Rank(j)
      /\ \A k \in 0..(n - 1) : \E i \in D : Rank(i) = k
  <2> HIDE DEF R, D
  <2> QED BY <1>4, <1>5, <1>6, <1>7, RankFacts
<1>9. \A i \in D : Cardinality({j \in D : RecordSort!Before(b, j, i)}) = Rank(i)
  <2> TAKE i \in D
  <2>1. {j \in D : RecordSort!Before(b, j, i)} = {j \in D : <<j, i>> \in R}
    BY <1>3
  <2> HIDE DEF R
  <2> QED BY <2>1 DEF RankIn
<1> DEFINE At(k) == CHOOSE i \in D : Rank(i) + 1 = k
<1>10. RecordSort!Sorted(b) = [k \in D |-> b[At(k)]]
  <2> DEFINE counted == [i \in DOMAIN b |-> RecordSort!Cardinality({j \in DOMAIN b : RecordSort!Before(b, j, i)}) + 1]
  <2>1. RecordSort!Sorted(b) = [k \in DOMAIN b |-> b[CHOOSE i \in DOMAIN b : counted[i] = k]]
    BY Zenon DEF RecordSort!Sorted
  <2>2. \A i \in D : counted[i] = Rank(i) + 1
    <3> HIDE DEF Rank
    <3> QED BY <1>1, <1>9, SorterCounts
  <2>3. ASSUME NEW k \in D PROVE (CHOOSE i \in D : counted[i] = k) = At(k)
    <3> HIDE DEF Rank, D, counted
    <3> QED BY <2>2
  <2> HIDE DEF counted, At, D
  <2> QED BY <2>1, <2>3, <1>1
<1>11. ASSUME NEW k \in D PROVE At(k) \in D /\ Rank(At(k)) + 1 = k
  <2>1. \E i \in D : Rank(i) + 1 = k
    <3>1. k - 1 \in 0..(n - 1) /\ (k - 1) + 1 = k
      BY <1>1
    <3> HIDE DEF Rank
    <3> QED BY <3>1, <1>8
  <2> HIDE DEF Rank, D
  <2> QED BY <2>1
<1> HIDE DEF Rank, R
<1>12. \A i, j \in D : Rank(i) = Rank(j) => i = j
  <2> SUFFICES ASSUME NEW i \in D, NEW j \in D, Rank(i) = Rank(j) PROVE i = j
    OBVIOUS
  <2>1. Rank(i) \in Int /\ Rank(j) \in Int
    BY <1>8, <1>1
  <2>2. ~(Rank(i) < Rank(j)) /\ ~(Rank(j) < Rank(i))
    BY <2>1
  <2> QED BY <2>2, <1>7, <1>8
<1> DEFINE p == [k \in D |-> At(k)]
<1>13. p \in [D -> D] /\ \A k \in D : p[k] = At(k)
  BY <1>11
<1> HIDE DEF At, p
<1>14. \A k \in D : RecordSort!Sorted(b)[k] = b[p[k]] /\ b[p[k]] \in S
  BY <1>10, <1>13, <1>1
<1>15. \A j, k \in D : p[j] = p[k] => j = k
  <2> TAKE j, k \in D
  <2>1. Rank(At(j)) + 1 = j /\ Rank(At(k)) + 1 = k
    BY <1>11
  <2> QED BY <2>1, <1>13
<1>16. ASSUME NEW i \in D PROVE \E k \in D : p[k] = i
  <2>1. Rank(i) + 1 \in D
    BY <1>8, <1>1
  <2>2. Rank(At(Rank(i) + 1)) + 1 = Rank(i) + 1 /\ At(Rank(i) + 1) \in D
    BY <2>1, <1>11
  <2>3. Rank(At(Rank(i) + 1)) = Rank(i)
    <3>1. Rank(i) \in Int /\ Rank(At(Rank(i) + 1)) \in Int
      BY <1>8, <2>2, <1>1
    <3> QED BY <2>2, <3>1
  <2>4. At(Rank(i) + 1) = i
    BY <2>2, <2>3, <1>12
  <2> QED BY <2>1, <2>4, <1>13
<1>17. ASSUME NEW j \in D, NEW k \in D, j < k
       PROVE  ~LexLess(RecordSort!Sorted(b)[k], RecordSort!Sorted(b)[j])
  <2>1. p[j] \in D /\ p[k] \in D /\ Rank(p[j]) + 1 = j /\ Rank(p[k]) + 1 = k
    BY <1>11, <1>13
  <2>2. Rank(p[j]) < Rank(p[k])
    <3>1. Rank(p[j]) \in Int /\ Rank(p[k]) \in Int /\ j \in Int /\ k \in Int
      BY <2>1, <1>8, <1>1
    <3> QED BY <2>1, <3>1, <1>17
  <2>3. RecordSort!Before(b, p[j], p[k])
    BY <2>1, <2>2, <1>8, <1>3
  <2>4. ~LexLess(b[p[k]], b[p[j]])
    <3>1. b[p[j]] \in S /\ b[p[k]] \in S
      BY <1>14
    <3>2. LexLess(b[p[j]], b[p[k]]) \/ ~LexLess(b[p[k]], b[p[j]])
      BY <2>1, <2>3, <1>2
    <3> QED BY <3>1, <3>2 DEF LexOrdered
  <2> QED BY <2>4, <1>14
<1>18. RecordSort!Sorted(b) \in Seq(S) /\ Len(RecordSort!Sorted(b)) = n
  BY <1>10, <1>14, <1>1
<1>19. Rearranges(p, b, RecordSort!Sorted(b))
  BY <1>13, <1>14, <1>15, <1>16 DEF Rearranges
<1> QED BY <1>17, <1>18, <1>19

\* A list without repetition in ascending order.
Strict(s) == \A j, k \in 1..Len(s) : j < k => LexLess(s[j], s[k])

\* Ascending() lists a finite set of numbers.
LEMMA AscendingFacts ==
  ASSUME NEW S \in SUBSET Nat, IsFiniteSet(S)
  PROVE  /\ Ascending(S) \in Seq(S)
         /\ Len(Ascending(S)) = Cardinality(S)
         /\ \A j, k \in 1..Cardinality(S) : j < k => Ascending(S)[j] < Ascending(S)[k]
         /\ ToSet(Ascending(S)) = S
<1> DEFINE R == {q \in S \X S : q[1] < q[2]}
<1> DEFINE N == Cardinality(S)
<1> DEFINE Rank(x) == RankIn(S, R, x)
<1>1. N \in Nat
  BY FS_CardinalityType
<1>2. \A x, y \in S : <<x, y>> \in R <=> x < y
  OBVIOUS
<1>3. /\ \A x \in S : Rank(x) \in 0..(N - 1)
      /\ \A x, y \in S : <<x, y>> \in R <=> Rank(x) < Rank(y)
      /\ \A k \in 0..(N - 1) : \E x \in S : Rank(x) = k
  <2>1. /\ \A x \in S : <<x, x>> \notin R
        /\ \A x, y, z \in S : <<x, y>> \in R /\ <<y, z>> \in R => <<x, z>> \in R
        /\ \A x, y \in S : x = y \/ <<x, y>> \in R \/ <<y, x>> \in R
    <3> HIDE DEF R
    <3> QED BY <1>2
  <2> HIDE DEF R
  <2> QED BY <2>1, RankFacts
<1>4. \A x \in S : Cardinality({y \in S : y < x}) = Rank(x)
  <2> TAKE x \in S
  <2>1. {y \in S : y < x} = {y \in S : <<y, x>> \in R}
    BY <1>2
  <2> HIDE DEF R
  <2> QED BY <2>1 DEF RankIn
<1> DEFINE At(k) == CHOOSE x \in S : Cardinality({y \in S : y < x}) = k - 1
<1>5. Ascending(S) = [k \in 1..N |-> At(k)]
  BY DEF Ascending
<1> HIDE DEF Rank, R
<1>6. ASSUME NEW k \in 1..N PROVE At(k) \in S /\ Rank(At(k)) = k - 1
  <2>1. k - 1 \in 0..(N - 1)
    BY <1>1
  <2>2. \E x \in S : Cardinality({y \in S : y < x}) = k - 1
    BY <2>1, <1>3, <1>4
  <2>3. At(k) \in S /\ Cardinality({y \in S : y < At(k)}) = k - 1
    BY <2>2
  <2> HIDE DEF At
  <2> QED BY <2>3, <1>4
<1> HIDE DEF At, N
<1>7. Ascending(S) \in Seq(S) /\ Len(Ascending(S)) = N /\ \A k \in 1..N : Ascending(S)[k] = At(k)
  BY <1>1, <1>5, <1>6
<1>8. ASSUME NEW j \in 1..N, NEW k \in 1..N, j < k PROVE At(j) < At(k)
  <2>1. Rank(At(j)) < Rank(At(k))
    BY <1>6, <1>8, <1>1
  <2> QED BY <2>1, <1>6, <1>3, <1>2
<1>9. ASSUME NEW x \in S PROVE \E k \in 1..N : At(k) = x
  <2>1. Rank(x) \in 0..(N - 1) /\ Rank(x) + 1 \in 1..N /\ (Rank(x) + 1) - 1 = Rank(x)
    BY <1>3, <1>1
  <2>2. At(Rank(x) + 1) \in S /\ Rank(At(Rank(x) + 1)) = Rank(x)
    BY <2>1, <1>6
  <2>3. ~(Rank(x) < Rank(At(Rank(x) + 1))) /\ ~(Rank(At(Rank(x) + 1)) < Rank(x))
    BY <2>1, <2>2
  <2>4. PICK y \in S : y = At(Rank(x) + 1)
    BY <2>2
  <2>5. ~(x < y) /\ ~(y < x)
    BY <2>3, <2>4, <1>3, <1>2
  <2>6. x = y
    BY <2>5
  <2> QED BY <2>1, <2>4, <2>6
<1>10. ToSet(Ascending(S)) = S
  <2>1. DOMAIN Ascending(S) = 1..N
    BY <1>7, <1>1
  <2>2. ASSUME NEW x \in ToSet(Ascending(S)) PROVE x \in S
    BY <2>1, <1>6, <1>7 DEF ToSet
  <2>3. ASSUME NEW x \in S PROVE x \in ToSet(Ascending(S))
    <3>1. PICK k \in 1..N : At(k) = x
      BY <1>9
    <3> QED BY <3>1, <2>1, <1>7 DEF ToSet
  <2> QED BY <2>2, <2>3
<1> QED BY <1>7, <1>8, <1>10 DEF N

\* A number up to n is n or smaller.
LEMMA UpTo == ASSUME NEW n \in Nat, NEW k \in 1..n PROVE k = n \/ k < n
OBVIOUS

\* The last record of a list, put back behind the others.
LEMMA FrontFacts ==
  ASSUME NEW S, NEW s \in Seq(S), s # <<>>
  PROVE  Append(SubSeq(s, 1, Len(s) - 1), s[Len(s)]) = s
<1>1. Len(s) \in Nat \ {0}
  OBVIOUS
<1>2. Len(SubSeq(s, 1, Len(s) - 1)) = Len(s) - 1
  <2>1. PICK n \in Int : n = Len(s) - 1 /\ n >= 0
    BY <1>1
  <2>2. \A i \in 1..n : s[i] \in S
    BY <1>1, <2>1
  <2>3. Len(SubSeq(s, 1, n)) = IF 1 <= n THEN n - 1 + 1 ELSE 0
    BY <2>2, SubSeqProperties
  <2>4. Len(SubSeq(s, 1, n)) = n
    BY <2>1, <2>3
  <2> QED BY <2>1, <2>4
<1>3. \A i \in 1..(Len(s) - 1) : SubSeq(s, 1, Len(s) - 1)[i] = s[i]
  BY <1>1
<1>4. SubSeq(s, 1, Len(s) - 1) \in Seq(S)
  BY <1>1
<1> QED BY <1>1, <1>2, <1>3, <1>4

\* One more record of a list.
LEMMA AppendedSet ==
  ASSUME NEW S, NEW s \in Seq(S), NEW e \in S
  PROVE  ToSet(Append(s, e)) = ToSet(s) \cup {e}
<1> DEFINE w == Append(s, e)
<1>1. w \in Seq(S) /\ Len(w) = Len(s) + 1 /\ w[Len(s) + 1] = e /\ \A k \in 1..Len(s) : w[k] = s[k]
  OBVIOUS
<1>2. Len(s) \in Nat /\ DOMAIN s = 1..Len(s) /\ DOMAIN w = (1..Len(s)) \cup {Len(s) + 1}
  OBVIOUS
<1> HIDE DEF w
<1>3. ToSet(w) = ToSet(s) \cup {e}
  BY <1>1, <1>2 DEF ToSet
<1> QED BY <1>3 DEF w

\* A record that is not below those written goes behind them, once.
LEMMA WrittenFacts ==
  ASSUME NEW S, LexOrdered(S), NEW out \in Seq(S), Strict(out), NEW item \in S,
         \A k \in 1..Len(out) : ~LexLess(item, out[k])
  PROVE  /\ RecordSort!Written(out, item) \in Seq(S)
         /\ Strict(RecordSort!Written(out, item))
         /\ ToSet(RecordSort!Written(out, item)) = ToSet(out) \cup {item}
         /\ \A k \in 1..Len(RecordSort!Written(out, item)) : ~LexLess(item, RecordSort!Written(out, item)[k])
<1> DEFINE w == RecordSort!Written(out, item)
<1>0. Len(out) \in Nat /\ DOMAIN out = 1..Len(out) /\ \A k \in 1..Len(out) : out[k] \in S
  OBVIOUS
<1>1. CASE out # <<>> /\ out[Len(out)] = item
  <2>1. Len(out) \in 1..Len(out) /\ Len(out) \in Nat \ {0}
    BY <1>1
  <2>2. w = Append(SubSeq(out, 1, Len(out) - 1), out[Len(out)])
    BY <1>1 DEF RecordSort!Written, RecordSort!Last, RecordSort!Front, Itself, KeepFirst
  <2>3. w = out
    BY <1>1, <2>2, FrontFacts, Zenon
  <2>4. ToSet(out) = ToSet(out) \cup {item}
    BY <2>1, <1>1, <1>0 DEF ToSet
  <2> HIDE DEF w
  <2> QED BY <2>3, <2>4 DEF w
<1>2. CASE ~(out # <<>> /\ out[Len(out)] = item)
  <2>1. w = Append(out, item)
    BY <1>2 DEF RecordSort!Written, RecordSort!Last, Itself
  <2> HIDE DEF w
  <2>2. w \in Seq(S) /\ Len(w) = Len(out) + 1 /\ w[Len(out) + 1] = item /\ \A k \in 1..Len(out) : w[k] = out[k]
    BY <2>1
  <2>3. ASSUME NEW k \in 1..Len(out) PROVE LexLess(out[k], item)
    <3>1. out[k] # item
      <4>1. CASE k = Len(out)
        BY <4>1, <1>2
      <4>2. CASE k < Len(out)
        <5>1. LexLess(out[k], out[Len(out)]) /\ Len(out) \in 1..Len(out)
          BY <4>2, <1>0 DEF Strict
        <5>2. ~LexLess(item, out[Len(out)])
          BY <5>1
        <5> QED BY <5>1, <5>2
      <4>3. k = Len(out) \/ k < Len(out)
        BY <1>0, UpTo, Zenon
      <4> QED BY <4>1, <4>2, <4>3
    <3> QED BY <3>1, <1>0 DEF LexOrdered
  <2>4. Strict(w)
    <3> SUFFICES ASSUME NEW j \in 1..(Len(out) + 1), NEW k \in 1..(Len(out) + 1), j < k PROVE LexLess(w[j], w[k])
      BY <2>2 DEF Strict
    <3>1. j \in 1..Len(out)
      BY <1>0
    <3>2. CASE k = Len(out) + 1
      BY <2>2, <2>3, <3>1, <3>2
    <3>3. CASE k \in 1..Len(out)
      BY <2>2, <3>1, <3>3 DEF Strict
    <3> QED BY <3>2, <3>3, <1>0
  <2>5. ToSet(w) = ToSet(out) \cup {item}
    <3>1. DOMAIN w = 1..(Len(out) + 1) /\ 1..(Len(out) + 1) = (1..Len(out)) \cup {Len(out) + 1}
      BY <2>2, <1>0
    <3> QED BY <3>1, <2>2, <1>0 DEF ToSet
  <2>6. ASSUME NEW k \in 1..Len(w) PROVE ~LexLess(item, w[k])
    <3>1. CASE k = Len(out) + 1
      BY <3>1, <2>2 DEF LexOrdered
    <3>2. CASE k \in 1..Len(out)
      BY <3>2, <2>2
    <3> QED BY <3>1, <3>2, <2>2, <1>0
  <2> QED BY <2>2, <2>4, <2>5, <2>6 DEF w
<1> QED BY <1>1, <1>2

-----------------------------------------------------------------------------
(* Writing a run. *)

\* One pass of Combined().
WriteStep(sorted, out, i) == RecordSort!Written(out, sorted[i])
Writing == INSTANCE Iteration WITH Step <- WriteStep

\* Combined() writes the records of an ascending list once.
LEMMA CombinedFacts ==
  ASSUME NEW S, LexOrdered(S), NEW s \in Seq(S),
         \A j, k \in 1..Len(s) : j < k => ~LexLess(s[k], s[j])
  PROVE  /\ RecordSort!Combined(s) \in Seq(S)
         /\ Strict(RecordSort!Combined(s))
         /\ ToSet(RecordSort!Combined(s)) = ToSet(s)
<1>0. Len(s) \in Nat /\ DOMAIN s = 1..Len(s) /\ \A k \in 1..Len(s) : s[k] \in S
  OBVIOUS
<1> DEFINE F == CHOOSE f : f = [n \in 0..Len(s) |-> IF n = 0 THEN <<>> ELSE RecordSort!Written(f[n - 1], s[n])]
<1>1. RecordSort!Combined(s) = F[Len(s)]
  BY Zenon DEF RecordSort!Combined
<1>2. Writing!IsRun(F, s, <<>>, Len(s))
  <2>1. \E f : Writing!IsRun(f, s, <<>>, Len(s))
    BY <1>0, Writing!RunExists
  <2>2. \E f : f = [n \in 0..Len(s) |-> IF n = 0 THEN <<>> ELSE RecordSort!Written(f[n - 1], s[n])]
    BY <2>1 DEF Writing!IsRun, WriteStep
  <2>3. F = [n \in 0..Len(s) |-> IF n = 0 THEN <<>> ELSE RecordSort!Written(F[n - 1], s[n])]
    BY <2>2
  <2> HIDE DEF F
  <2> QED BY <2>3 DEF Writing!IsRun, WriteStep
<1> HIDE DEF F
<1>3. F[0] = <<>> /\ \A i \in 1..Len(s) : F[i] = RecordSort!Written(F[i - 1], s[i])
  <2>1. PICK none : none = <<>>
    OBVIOUS
  <2>2. Writing!IsRun(F, s, none, Len(s))
    BY <1>2, <2>1
  <2>3. F[0] = none /\ \A i \in 1..Len(s) : F[i] = WriteStep(s, F[i - 1], i)
    BY <1>0, <2>2, Writing!RunStates
  <2> QED BY <2>1, <2>3 DEF WriteStep
<1> DEFINE Good(n) == /\ F[n] \in Seq(S) /\ Strict(F[n])
                      /\ ToSet(F[n]) = {s[i] : i \in 1..n}
                      /\ n \in 1..Len(s) => \A k \in 1..Len(F[n]) : ~LexLess(s[n], F[n][k])
<1> DEFINE T == {n \in Nat : n <= Len(s) => Good(n)}
<1>4. 0 \in T
  <2>1. <<>> \in Seq(S) /\ Strict(<<>>) /\ ToSet(<<>>) = {} /\ {s[i] : i \in 1..0} = {}
    BY DEF Strict, ToSet
  <2> QED BY <2>1, <1>3
<1>5. ASSUME NEW n \in Nat, n \in T PROVE n + 1 \in T
  <2> SUFFICES ASSUME n + 1 <= Len(s) PROVE Good(n + 1)
    OBVIOUS
  <2>1. n <= Len(s) /\ n + 1 \in 1..Len(s) /\ (n + 1) - 1 = n
    BY <1>0
  <2>2. Good(n)
    BY <1>5, <2>1
  <2>3. F[n + 1] = RecordSort!Written(F[n], s[n + 1]) /\ s[n + 1] \in S
    BY <2>1, <1>3, <1>0
  <2>4. ASSUME NEW k \in 1..Len(F[n]) PROVE ~LexLess(s[n + 1], F[n][k])
    <3>1. F[n][k] \in ToSet(F[n])
      BY <2>2 DEF ToSet
    <3>2. PICK i \in 1..n : F[n][k] = s[i]
      BY <2>2, <3>1
    <3>3. i \in 1..Len(s) /\ i < n + 1
      BY <2>1, <1>0
    <3> QED BY <3>2, <3>3, <2>1
  <2>5. 1..(n + 1) = (1..n) \cup {n + 1}
    OBVIOUS
  <2>6. /\ F[n + 1] \in Seq(S) /\ Strict(F[n + 1]) /\ ToSet(F[n + 1]) = ToSet(F[n]) \cup {s[n + 1]}
        /\ \A k \in 1..Len(F[n + 1]) : ~LexLess(s[n + 1], F[n + 1][k])
    BY <2>2, <2>3, <2>4, WrittenFacts
  <2>7. {s[i] : i \in 1..(n + 1)} = {s[i] : i \in 1..n} \cup {s[n + 1]}
    BY <2>5
  <2> QED BY <2>2, <2>6, <2>7
<1>6. \A n \in Nat : n \in T
  <2>1. \A n \in Nat : n \in T => n + 1 \in T
    BY <1>5
  <2> HIDE DEF T
  <2> QED BY <1>4, <2>1, Writing!SetInduction
<1>7. Good(Len(s))
  <2>1. Len(s) \in T
    <3> HIDE DEF T
    <3> QED BY <1>0, <1>6
  <2>2. Len(s) <= Len(s)
    BY <1>0
  <2> HIDE DEF Good
  <2> QED BY <2>1, <2>2
<1>8. ToSet(s) = {s[i] : i \in 1..Len(s)}
  BY <1>0 DEF ToSet
<1> QED BY <1>1, <1>7, <1>8

\* A rearrangement has the same records.
LEMMA RearrangedSet ==
  ASSUME NEW S, NEW b \in Seq(S), NEW t \in Seq(S), Len(t) = Len(b), NEW p, Rearranges(p, b, t)
  PROVE  ToSet(t) = ToSet(b)
<1>1. DOMAIN t = 1..Len(b) /\ DOMAIN b = 1..Len(b)
  OBVIOUS
<1>2. ASSUME NEW x \in ToSet(t) PROVE x \in ToSet(b)
  <2>1. PICK k \in 1..Len(b) : x = t[k]
    BY <1>1 DEF ToSet
  <2>2. x = b[p[k]] /\ p[k] \in 1..Len(b)
    BY <2>1 DEF Rearranges
  <2> QED BY <2>2, <1>1 DEF ToSet
<1>3. ASSUME NEW x \in ToSet(b) PROVE x \in ToSet(t)
  <2>1. PICK i \in 1..Len(b) : x = b[i]
    BY <1>1 DEF ToSet
  <2>2. PICK k \in 1..Len(b) : p[k] = i
    BY DEF Rearranges
  <2>3. t[k] = x
    BY <2>1, <2>2 DEF Rearranges
  <2> QED BY <2>3, <1>1 DEF ToSet
<1> QED BY <1>2, <1>3

\* What a spill writes: the records of the buffer once, ascending.
LEMMA RunFacts ==
  ASSUME NEW S, LexOrdered(S), NEW b \in Seq(S)
  PROVE  /\ RecordSort!Combined(RecordSort!Sorted(b)) \in Seq(S)
         /\ Strict(RecordSort!Combined(RecordSort!Sorted(b)))
         /\ ToSet(RecordSort!Combined(RecordSort!Sorted(b))) = ToSet(b)
<1> DEFINE t == RecordSort!Sorted(b)
<1>1. t \in Seq(S) /\ Len(t) = Len(b) /\ \A j, k \in 1..Len(b) : j < k => ~LexLess(t[k], t[j])
  BY SortedFacts
<1>2. PICK p : Rearranges(p, b, t)
  BY SortedFacts
<1> HIDE DEF t
<1>4. ToSet(t) = ToSet(b)
  BY <1>1, <1>2, RearrangedSet
<1>5. /\ RecordSort!Combined(t) \in Seq(S) /\ Strict(RecordSort!Combined(t))
      /\ ToSet(RecordSort!Combined(t)) = ToSet(t)
  BY <1>1, CombinedFacts
<1> QED BY <1>4, <1>5 DEF t

\* A sorter of records of S: its runs are written ascending.
SorterOf(S, sorter) ==
  /\ sorter \in [buffer : Seq(S), runs : Seq(Seq(S))]
  /\ \A r \in 1..Len(sorter.runs) : Strict(sorter.runs[r])

\* The records pushed into it.
RunContents(runs) == UNION {ToSet(runs[r]) : r \in 1..Len(runs)}
Contents(sorter) == ToSet(sorter.buffer) \cup RunContents(sorter.runs)

\* A spill moves the buffer to a run.
LEMMA SpilledFacts ==
  ASSUME NEW S, LexOrdered(S), NEW sorter, SorterOf(S, sorter)
  PROVE  /\ SorterOf(S, RecordSort!Spilled(sorter))
         /\ Contents(RecordSort!Spilled(sorter)) = Contents(sorter)
         /\ RecordSort!Spilled(sorter).buffer = <<>>
<1>1. sorter \in [buffer : Seq(S), runs : Seq(Seq(S))] /\ \A r \in 1..Len(sorter.runs) : Strict(sorter.runs[r])
  BY DEF SorterOf
<1>2. CASE sorter.buffer = <<>>
  <2>1. RecordSort!Spilled(sorter) = sorter
    BY <1>2 DEF RecordSort!Spilled
  <2> QED BY <1>2, <2>1
<1>3. CASE sorter.buffer # <<>>
  <2> DEFINE run == RecordSort!Combined(RecordSort!Sorted(sorter.buffer))
  <2> DEFINE runs == Append(sorter.runs, run)
  <2>1. RecordSort!Spilled(sorter) = [buffer |-> <<>>, runs |-> runs]
    BY <1>3 DEF RecordSort!Spilled
  <2>2. run \in Seq(S) /\ Strict(run) /\ ToSet(run) = ToSet(sorter.buffer)
    BY <1>1, RunFacts
  <2> HIDE DEF run
  <2>3. /\ runs \in Seq(Seq(S)) /\ Len(runs) = Len(sorter.runs) + 1 /\ runs[Len(sorter.runs) + 1] = run
        /\ \A r \in 1..Len(sorter.runs) : runs[r] = sorter.runs[r]
    BY <1>1, <2>2
  <2>4. Len(sorter.runs) \in Nat /\ 1..(Len(sorter.runs) + 1) = (1..Len(sorter.runs)) \cup {Len(sorter.runs) + 1}
    BY <1>1
  <2> HIDE DEF runs
  <2>5. SorterOf(S, [buffer |-> <<>>, runs |-> runs])
    <3>1. \A r \in 1..Len(runs) : Strict(runs[r])
      BY <1>1, <2>2, <2>3, <2>4
    <3> QED BY <2>3, <3>1 DEF SorterOf
  <2>6. RunContents(runs) = RunContents(sorter.runs) \cup ToSet(run)
    BY <2>3, <2>4 DEF RunContents
  <2>7. ToSet(<<>>) = {}
    BY DEF ToSet
  <2>8. Contents([buffer |-> <<>>, runs |-> runs]) = Contents(sorter)
    BY <2>2, <2>6, <2>7 DEF Contents
  <2> QED BY <2>1, <2>5, <2>8
<1> QED BY <1>2, <1>3

\* Pushing adds one record.
LEMMA PushedFacts ==
  ASSUME NEW S, LexOrdered(S), NEW sorter, SorterOf(S, sorter), NEW item \in S, NEW limit
  PROVE  /\ SorterOf(S, RecordSort!Pushed(sorter, item, limit))
         /\ Contents(RecordSort!Pushed(sorter, item, limit)) = Contents(sorter) \cup {item}
<1> DEFINE grown == [sorter EXCEPT !.buffer = Append(@, item)]
<1>1. sorter \in [buffer : Seq(S), runs : Seq(Seq(S))] /\ \A r \in 1..Len(sorter.runs) : Strict(sorter.runs[r])
  BY DEF SorterOf
<1>2. RecordSort!Pushed(sorter, item, limit) = IF Len(grown.buffer) >= limit THEN RecordSort!Spilled(grown) ELSE grown
  BY DEF RecordSort!Pushed
<1>3. /\ grown \in [buffer : Seq(S), runs : Seq(Seq(S))]
      /\ grown.runs = sorter.runs /\ grown.buffer = Append(sorter.buffer, item)
  <2>1. Append(sorter.buffer, item) \in Seq(S)
    BY <1>1
  <2>2. PICK more \in Seq(S) : more = Append(sorter.buffer, item)
    BY <2>1
  <2>3. grown = [sorter EXCEPT !.buffer = more]
    BY <2>2
  <2> HIDE DEF grown
  <2> QED BY <1>1, <2>2, <2>3
<1> HIDE DEF grown
<1>4. SorterOf(S, grown)
  BY <1>1, <1>3 DEF SorterOf
<1>5. ToSet(grown.buffer) = ToSet(sorter.buffer) \cup {item}
  BY <1>1, <1>3, AppendedSet
<1>6. Contents(grown) = Contents(sorter) \cup {item}
  BY <1>3, <1>5 DEF Contents
<1>7. SorterOf(S, RecordSort!Spilled(grown)) /\ Contents(RecordSort!Spilled(grown)) = Contents(grown)
  BY <1>4, SpilledFacts
<1> QED BY <1>2, <1>4, <1>6, <1>7

\* One pass of PushAll().
PushStep(call, sorter, i) == RecordSort!Pushed(sorter, call.items[i], call.threshold)
Pushing == INSTANCE Iteration WITH Step <- PushStep

\* PushAll() adds its records, whatever is spilled on the way.
LEMMA PushAllFacts ==
  ASSUME NEW S, LexOrdered(S), NEW sorter, SorterOf(S, sorter), NEW items \in Seq(S), NEW limit
  PROVE  /\ SorterOf(S, RecordSort!PushAll(sorter, items, limit))
         /\ Contents(RecordSort!PushAll(sorter, items, limit)) = Contents(sorter) \cup ToSet(items)
<1>0. Len(items) \in Nat /\ DOMAIN items = 1..Len(items) /\ \A k \in 1..Len(items) : items[k] \in S
  OBVIOUS
<1> DEFINE F == CHOOSE f : f = [n \in 0..Len(items) |-> IF n = 0 THEN sorter ELSE RecordSort!Pushed(f[n - 1], items[n], limit)]
<1> DEFINE call == [items |-> items, threshold |-> limit]
<1>1. RecordSort!PushAll(sorter, items, limit) = F[Len(items)]
  BY Zenon DEF RecordSort!PushAll
<1>2. \A s, i : PushStep(call, s, i) = RecordSort!Pushed(s, items[i], limit)
  BY DEF PushStep
<1>3. Pushing!IsRun(F, call, sorter, Len(items))
  <2>1. \E f : Pushing!IsRun(f, call, sorter, Len(items))
    BY <1>0, Pushing!RunExists
  <2>2. \E f : f = [n \in 0..Len(items) |-> IF n = 0 THEN sorter ELSE RecordSort!Pushed(f[n - 1], items[n], limit)]
    <3> HIDE DEF call
    <3> QED BY <2>1, <1>2 DEF Pushing!IsRun
  <2>3. F = [n \in 0..Len(items) |-> IF n = 0 THEN sorter ELSE RecordSort!Pushed(F[n - 1], items[n], limit)]
    BY <2>2
  <2> HIDE DEF F, call
  <2> QED BY <2>3, <1>2 DEF Pushing!IsRun
<1> HIDE DEF F, call
<1>4. F[0] = sorter /\ \A i \in 1..Len(items) : F[i] = RecordSort!Pushed(F[i - 1], items[i], limit)
  <2>1. F = [n \in 0..Len(items) |-> IF n = 0 THEN sorter ELSE PushStep(call, F[n - 1], n)]
    BY <1>3 DEF Pushing!IsRun
  <2>2. F[0] = sorter
    BY <2>1, <1>0
  <2>3. ASSUME NEW i \in 1..Len(items) PROVE F[i] = PushStep(call, F[i - 1], i)
    <3>1. i \in 0..Len(items) /\ i # 0
      BY <1>0
    <3> QED BY <2>1, <3>1
  <2> QED BY <2>2, <2>3, <1>2
<1> DEFINE Good(n) == SorterOf(S, F[n]) /\ Contents(F[n]) = Contents(sorter) \cup {items[i] : i \in 1..n}
<1> DEFINE T == {n \in Nat : n <= Len(items) => Good(n)}
<1>5. 0 \in T
  <2>1. {items[i] : i \in 1..0} = {}
    OBVIOUS
  <2> QED BY <2>1, <1>4
<1>6. ASSUME NEW n \in Nat, n \in T PROVE n + 1 \in T
  <2> SUFFICES ASSUME n + 1 <= Len(items) PROVE Good(n + 1)
    OBVIOUS
  <2>1. n <= Len(items) /\ n + 1 \in 1..Len(items) /\ (n + 1) - 1 = n
    BY <1>0
  <2>2. Good(n)
    BY <1>6, <2>1
  <2>3. F[n + 1] = RecordSort!Pushed(F[n], items[n + 1], limit) /\ items[n + 1] \in S
    BY <2>1, <1>4, <1>0
  <2>4. SorterOf(S, F[n + 1]) /\ Contents(F[n + 1]) = Contents(F[n]) \cup {items[n + 1]}
    BY <2>2, <2>3, PushedFacts
  <2>5. 1..(n + 1) = (1..n) \cup {n + 1}
    OBVIOUS
  <2>6. {items[i] : i \in 1..(n + 1)} = {items[i] : i \in 1..n} \cup {items[n + 1]}
    BY <2>5
  <2> QED BY <2>2, <2>4, <2>6
<1>7. \A n \in Nat : n \in T
  <2>1. \A n \in Nat : n \in T => n + 1 \in T
    BY <1>6
  <2> HIDE DEF T
  <2> QED BY <1>5, <2>1, Pushing!SetInduction
<1>8. Good(Len(items))
  <2>1. Len(items) \in T
    <3> HIDE DEF T
    <3> QED BY <1>0, <1>7
  <2>2. Len(items) <= Len(items)
    BY <1>0
  <2> HIDE DEF Good
  <2> QED BY <2>1, <2>2
<1>9. ToSet(items) = {items[i] : i \in 1..Len(items)}
  BY <1>0 DEF ToSet
<1> QED BY <1>1, <1>8, <1>9

\* A finite collection of records has a least one.
LEMMA LeastExists ==
  ASSUME NEW S, LexOrdered(S), NEW L, IsFiniteSet(L), L # {}, NEW h \in [L -> S]
  PROVE  \E r \in L : \A q \in L : ~LexLess(h[q], h[r])
<1> DEFINE H == {h[r] : r \in L}
<1> DEFINE R == {q \in H \X H : LexLess(q[1], q[2])}
<1>1. IsFiniteSet(H) /\ H # {} /\ H \subseteq S
  <2>1. h \in Surjection(L, H)
    BY Zenon DEF Surjection
  <2>2. IsFiniteSet(H)
    <3> HIDE DEF H
    <3> QED BY <2>1, FS_Surjection
  <2> QED BY <2>2
<1>2. \A x, y \in H : <<x, y>> \in R <=> LexLess(x, y)
  <2> HIDE DEF H
  <2> QED OBVIOUS
<1>3. Cardinality(H) \in Nat /\ Cardinality(H) # 0
  <2> HIDE DEF H
  <2> QED BY <1>1, FS_CardinalityType, FS_EmptySet
<1>4. /\ \A x \in H : <<x, x>> \notin R
      /\ \A x, y, z \in H : <<x, y>> \in R /\ <<y, z>> \in R => <<x, z>> \in R
      /\ \A x, y \in H : x = y \/ <<x, y>> \in R \/ <<y, x>> \in R
  <2> HIDE DEF H, R
  <2> QED BY <1>1, <1>2 DEF LexOrdered
<1>5. /\ \A x \in H : RankIn(H, R, x) \in 0..(Cardinality(H) - 1)
      /\ \A x, y \in H : <<x, y>> \in R <=> RankIn(H, R, x) < RankIn(H, R, y)
      /\ \A k \in 0..(Cardinality(H) - 1) : \E x \in H : RankIn(H, R, x) = k
  <2> HIDE DEF H, R
  <2> QED BY <1>1, <1>4, RankFacts
<1> HIDE DEF R
<1>6. PICK x \in H : RankIn(H, R, x) = 0
  <2> HIDE DEF H
  <2>1. 0 \in 0..(Cardinality(H) - 1)
    BY <1>3
  <2> QED BY <2>1, <1>5
<1>7. \A y \in H : ~LexLess(y, x)
  <2> HIDE DEF H
  <2> TAKE y \in H
  <2>1. ~(RankIn(H, R, y) < 0)
    BY <1>3, <1>5
  <2> QED BY <2>1, <1>2, <1>5, <1>6
<1>8. PICK r \in L : x = h[r]
  BY <1>6
<1>9. \A q \in L : h[q] \in H
  OBVIOUS
<1> HIDE DEF H
<1> QED BY <1>7, <1>8, <1>9

-----------------------------------------------------------------------------
(* Merging the runs. *)

\* Where the records of the runs are.
Places(runs) == UNION {{r} \X (1..Len(runs[r])) : r \in 1..Len(runs)}

\* The records popped when the cursors are at at.
Consumed(runs, at) == {q \in Places(runs) : q[2] < at[q[1]]}

\* The cursors of a merge, between the runs' first records and their ends.
Cursors(runs, at) ==
  at \in [1..Len(runs) -> Nat] /\ \A r \in 1..Len(runs) : at[r] \in 1..(Len(runs[r]) + 1)

\* Runs of records of S as spills write them.
RunsOf(S, runs) == runs \in Seq(Seq(S)) /\ \A r \in 1..Len(runs) : Strict(runs[r])

\* What the merge has written is what it popped, ascending, and nothing it
\* has yet to pop comes before it.
MergeInv(S, runs, st) ==
  /\ st = [at |-> st.at, out |-> st.out]
  /\ Cursors(runs, st.at)
  /\ st.out \in Seq(S) /\ Strict(st.out)
  /\ ToSet(st.out) = {runs[q[1]][q[2]] : q \in Consumed(runs, st.at)}
  /\ \A r \in 1..Len(runs) : st.at[r] <= Len(runs[r]) =>
        \A k \in 1..Len(st.out) : ~LexLess(runs[r][st.at[r]], st.out[k])

\* There are finitely many records.
LEMMA PlacesFacts ==
  ASSUME NEW S, NEW runs \in Seq(Seq(S))
  PROVE  /\ IsFiniteSet(Places(runs)) /\ Cardinality(Places(runs)) \in Nat
         /\ \A r, i : <<r, i>> \in Places(runs) <=> r \in 1..Len(runs) /\ i \in 1..Len(runs[r])
         /\ \A q \in Places(runs) : q = <<q[1], q[2]>> /\ q[1] \in 1..Len(runs) /\ q[2] \in 1..Len(runs[q[1]])
<1> DEFINE n == Len(runs)
<1> DEFINE f == [r \in 1..n |-> {r} \X (1..Len(runs[r]))]
<1> DEFINE A == {f[r] : r \in 1..n}
<1>1. n \in Nat /\ \A r \in 1..n : runs[r] \in Seq(S) /\ Len(runs[r]) \in Nat
  OBVIOUS
<1>2. Places(runs) = UNION A
  BY DEF Places
<1>3. IsFiniteSet(A)
  <2>1. IsFiniteSet(1..n)
    <3> HIDE DEF n
    <3> QED BY <1>1, FS_Interval
  <2>2. f \in Surjection(1..n, A)
    BY Zenon DEF Surjection
  <2> HIDE DEF A, f, n
  <2> QED BY <2>1, <2>2, FS_Surjection
<1>4. ASSUME NEW r \in 1..n PROVE IsFiniteSet(f[r])
  <2>1. IsFiniteSet({r}) /\ IsFiniteSet(1..Len(runs[r]))
    <3>1. PICK m \in Int : m = Len(runs[r])
      BY <1>1
    <3>2. IsFiniteSet(1..m)
      BY FS_Interval
    <3> QED BY <3>1, <3>2, FS_Singleton
  <2>2. IsFiniteSet({r} \X (1..Len(runs[r])))
    BY <2>1, FS_Product
  <2> QED BY <2>2
<1>5. IsFiniteSet(UNION A)
  <2>1. \A a \in A : IsFiniteSet(a)
    <3> HIDE DEF f
    <3> QED BY <1>4
  <2> HIDE DEF A
  <2> QED BY <1>3, <2>1, FS_UNION
<1>6. IsFiniteSet(Places(runs)) /\ Cardinality(Places(runs)) \in Nat
  <2> HIDE DEF A
  <2> QED BY <1>2, <1>5, FS_CardinalityType
<1>7. ASSUME NEW r, NEW i PROVE <<r, i>> \in Places(runs) <=> r \in 1..n /\ i \in 1..Len(runs[r])
  BY DEF Places
<1>8. ASSUME NEW q \in Places(runs)
      PROVE  q = <<q[1], q[2]>> /\ q[1] \in 1..n /\ q[2] \in 1..Len(runs[q[1]])
  <2>1. PICK r \in 1..n : q \in {r} \X (1..Len(runs[r]))
    BY DEF Places
  <2> QED BY <2>1
<1> QED BY <1>6, <1>7, <1>8

\* One step of the merge pops a record that was not popped.
LEMMA PoppedFacts ==
  ASSUME NEW S, LexOrdered(S), NEW runs, RunsOf(S, runs), NEW st, MergeInv(S, runs, st),
         Consumed(runs, st.at) # Places(runs)
  PROVE  /\ MergeInv(S, runs, RecordSort!Popped(runs, st))
         /\ \E q \in Places(runs) \ Consumed(runs, st.at) :
               Consumed(runs, RecordSort!Popped(runs, st).at) = Consumed(runs, st.at) \cup {q}
<1> DEFINE D == 1..Len(runs)
<1> DEFINE at == st.at
<1> DEFINE out == st.out
<1> DEFINE live == {r \in D : at[r] <= Len(runs[r])}
<1> DEFINE least == CHOOSE r \in live : \A q \in live : ~LexLess(runs[q][at[q]], runs[r][at[r]])
<1> DEFINE item == runs[least][at[least]]
<1> DEFINE at2 == [at EXCEPT ![least] = @ + 1]
<1> DEFINE out2 == RecordSort!Written(out, item)
<1>1. /\ Len(runs) \in Nat /\ DOMAIN runs = D /\ \A r \in D : runs[r] \in Seq(S) /\ Len(runs[r]) \in Nat /\ Strict(runs[r])
      /\ \A r \in D : \A i \in 1..Len(runs[r]) : runs[r][i] \in S
  <2>1. runs \in Seq(Seq(S))
    BY DEF RunsOf
  <2>2. Len(runs) \in Nat /\ DOMAIN runs = D /\ \A r \in D : runs[r] \in Seq(S)
    BY <2>1
  <2>3. \A r \in D : Len(runs[r]) \in Nat /\ \A i \in 1..Len(runs[r]) : runs[r][i] \in S
    <3> HIDE DEF D
    <3> QED BY <2>2
  <2> QED BY <2>2, <2>3 DEF RunsOf
<1>2. at \in [D -> Nat] /\ \A r \in D : at[r] \in 1..(Len(runs[r]) + 1)
  BY DEF MergeInv, Cursors
<1>3. /\ out \in Seq(S) /\ Strict(out)
      /\ ToSet(out) = {runs[q[1]][q[2]] : q \in Consumed(runs, at)}
      /\ \A r \in D : at[r] <= Len(runs[r]) => \A k \in 1..Len(out) : ~LexLess(runs[r][at[r]], out[k])
  BY Zenon DEF MergeInv
<1>4. RecordSort!Popped(runs, st) = [at |-> at2, out |-> out2]
  BY <1>1, Zenon DEF RecordSort!Popped, Itself
<1>5. /\ \A r, i : <<r, i>> \in Places(runs) <=> r \in D /\ i \in 1..Len(runs[r])
      /\ \A q \in Places(runs) : q = <<q[1], q[2]>> /\ q[1] \in D /\ q[2] \in 1..Len(runs[q[1]])
  BY PlacesFacts DEF RunsOf
<1> HIDE DEF at, out, D
<1>6. \A r \in live : r \in D /\ at[r] \in 1..Len(runs[r]) /\ runs[r][at[r]] \in S
  BY <1>1, <1>2
<1>7. live # {} /\ IsFiniteSet(live)
  <2>1. PICK q \in Places(runs) : q \notin Consumed(runs, at)
    BY DEF Consumed, at
  <2>2. q[1] \in D /\ q[2] \in 1..Len(runs[q[1]]) /\ ~(q[2] < at[q[1]])
    BY <2>1, <1>5 DEF Consumed
  <2>3. q[1] \in live
    BY <2>2, <1>1, <1>2
  <2>4. IsFiniteSet(D) /\ live \in SUBSET D
    <3>1. PICK m \in Int : m = Len(runs)
      BY <1>1
    <3>2. IsFiniteSet(D)
      BY <3>1, FS_Interval DEF D
    <3> QED BY <3>2
  <2> HIDE DEF live
  <2> QED BY <2>3, <2>4, FS_Subset
<1> HIDE DEF live
<1>8. least \in live /\ \A q \in live : ~LexLess(runs[q][at[q]], runs[least][at[least]])
  <2> DEFINE h == [r \in live |-> runs[r][at[r]]]
  <2>1. h \in [live -> S]
    BY <1>6
  <2>2. \E r \in live : \A q \in live : ~LexLess(h[q], h[r])
    <3> HIDE DEF h
    <3> QED BY <1>7, <2>1, LeastExists
  <2>3. \E r \in live : \A q \in live : ~LexLess(runs[q][at[q]], runs[r][at[r]])
    BY <2>2
  <2> QED BY <2>3, Zenon
<1> HIDE DEF least
<1>9. least \in D /\ at[least] \in 1..Len(runs[least]) /\ item \in S
  BY <1>6, <1>8
<1>10. at2 \in [D -> Nat] /\ at2[least] = at[least] + 1 /\ \A r \in D : r # least => at2[r] = at[r]
  BY <1>2, <1>9
<1> HIDE DEF at2
<1>11. Cursors(runs, at2)
  <2>1. ASSUME NEW r \in D PROVE at2[r] \in 1..(Len(runs[r]) + 1)
    <3>1. CASE r = least
      BY <3>1, <1>1, <1>9, <1>10
    <3>2. CASE r # least
      BY <3>2, <1>2, <1>10
    <3> QED BY <3>1, <3>2
  <2> QED BY <2>1, <1>10 DEF Cursors, D
<1> DEFINE new == <<least, at[least]>>
<1>12. new \in Places(runs) /\ new \notin Consumed(runs, at)
  <2>1. new \in Places(runs) /\ new[1] = least /\ new[2] = at[least]
    BY <1>5, <1>9
  <2>2. at[least] \in Nat
    BY <1>9, <1>2
  <2> HIDE DEF new
  <2>3. ~(new[2] < at[new[1]])
    BY <2>1, <2>2
  <2> QED BY <2>1, <2>3 DEF Consumed
<1>13. Consumed(runs, at2) = Consumed(runs, at) \cup {new}
  <2>1. ASSUME NEW q \in Places(runs)
        PROVE  q[2] < at2[q[1]] <=> q[2] < at[q[1]] \/ q = new
    <3>1. q = <<q[1], q[2]>> /\ q[1] \in D /\ q[2] \in Int /\ at[q[1]] \in Int
      BY <1>5, <1>1, <1>2
    <3>2. CASE q[1] # least
      <4>1. q # new
        BY <3>2
      <4> HIDE DEF new
      <4> QED BY <3>1, <3>2, <4>1, <1>10
    <3>3. CASE q[1] = least
      <4>1. q = new <=> q[2] = at[least]
        BY <3>1, <3>3
      <4>2. at2[q[1]] = at[least] + 1 /\ at[q[1]] = at[least]
        BY <3>3, <1>10
      <4> HIDE DEF new
      <4> QED BY <3>1, <4>1, <4>2
    <3> QED BY <3>2, <3>3
  <2> HIDE DEF new
  <2> QED BY <2>1, <1>12 DEF Consumed
<1> HIDE DEF item
<1>14. \A k \in 1..Len(out) : ~LexLess(item, out[k])
  BY <1>3, <1>6, <1>8, <1>9, <1>1, <1>2 DEF item, live
<1>15. /\ out2 \in Seq(S) /\ Strict(out2) /\ ToSet(out2) = ToSet(out) \cup {item}
       /\ \A k \in 1..Len(out2) : ~LexLess(item, out2[k])
  BY <1>3, <1>9, <1>14, WrittenFacts
<1> HIDE DEF out2
<1>16. ToSet(out2) = {runs[q[1]][q[2]] : q \in Consumed(runs, at2)}
  <2>1. new[1] = least /\ new[2] = at[least] /\ item = runs[new[1]][new[2]]
    BY DEF item
  <2> HIDE DEF new
  <2> QED BY <2>1, <1>3, <1>13, <1>15
<1>17. ASSUME NEW r \in D, at2[r] <= Len(runs[r]), NEW k \in 1..Len(out2)
       PROVE  ~LexLess(runs[r][at2[r]], out2[k])
  <2>1. out2[k] \in S /\ (out2[k] \in ToSet(out) \/ out2[k] = item)
    BY <1>15 DEF ToSet
  <2>2. CASE r = least
    <3>1. at2[r] \in 1..Len(runs[r]) /\ at[r] \in 1..Len(runs[r]) /\ at[r] < at2[r]
      BY <1>1, <1>9, <1>10, <1>17, <2>2
    <3>2. LexLess(runs[r][at[r]], runs[r][at2[r]]) /\ runs[r][at2[r]] \in S
      BY <3>1, <1>1 DEF Strict
    <3>3. LexLess(item, runs[r][at2[r]])
      BY <3>2, <2>2 DEF item
    <3>4. ~LexLess(item, out2[k])
      BY <1>15
    <3> QED BY <3>2, <3>3, <3>4, <2>1, <1>9 DEF LexOrdered
  <2>3. CASE r # least
    <3>1. at2[r] = at[r] /\ r \in live
      BY <1>10, <1>17, <2>3 DEF live
    <3>2. ~LexLess(runs[r][at[r]], item)
      BY <3>1, <1>8 DEF item
    <3>3. CASE out2[k] \in ToSet(out)
      <4>1. PICK i \in 1..Len(out) : out2[k] = out[i]
        BY <3>3, <1>3 DEF ToSet
      <4>2. at[r] <= Len(runs[r])
        BY <3>1 DEF live
      <4> QED BY <4>1, <4>2, <3>1, <1>3
    <3> QED BY <2>1, <3>1, <3>2, <3>3
  <2> QED BY <2>2, <2>3
<1>18. MergeInv(S, runs, [at |-> at2, out |-> out2])
  BY <1>11, <1>15, <1>16, <1>17 DEF MergeInv, D
<1>19. Consumed(runs, RecordSort!Popped(runs, st).at) = Consumed(runs, st.at) \cup {new}
  <2> HIDE DEF new
  <2> QED BY <1>4, <1>13 DEF at
<1> HIDE DEF new
<1> QED BY <1>4, <1>12, <1>18, <1>19 DEF at

\* One pass of Merged().
PopStep(runs, st, i) == RecordSort!Popped(runs, st)
Popping == INSTANCE Iteration WITH Step <- PopStep

\* Merged() lists the records of all runs once, ascending.
LEMMA MergedFacts ==
  ASSUME NEW S, LexOrdered(S), NEW runs, RunsOf(S, runs)
  PROVE  /\ RecordSort!Merged(runs) \in Seq(S)
         /\ Strict(RecordSort!Merged(runs))
         /\ ToSet(RecordSort!Merged(runs)) = RunContents(runs)
<1> DEFINE D == 1..Len(runs)
<1> DEFINE first == [at |-> [r \in D |-> 1], out |-> <<>>]
<1> DEFINE N == Cardinality(Places(runs))
<1> DEFINE F == CHOOSE f : f = [n \in 0..N |-> IF n = 0 THEN first ELSE RecordSort!Popped(runs, f[n - 1])]
<1>0. runs \in Seq(Seq(S)) /\ DOMAIN runs = D /\ Len(runs) \in Nat /\ \A r \in D : runs[r] \in Seq(S)
  BY DEF RunsOf
<1>1. \A r \in D : DOMAIN runs[r] = 1..Len(runs[r]) /\ Len(runs[r]) \in Nat
  <2> HIDE DEF D
  <2> QED BY <1>0
<1>2. /\ IsFiniteSet(Places(runs)) /\ N \in Nat
      /\ \A r, i : <<r, i>> \in Places(runs) <=> r \in D /\ i \in 1..Len(runs[r])
      /\ \A q \in Places(runs) : q = <<q[1], q[2]>> /\ q[1] \in D /\ q[2] \in 1..Len(runs[q[1]])
  BY <1>0, PlacesFacts
<1>3. RecordSort!Merged(runs) = F[N].out
  <2>1. UNION {{r} \X DOMAIN runs[r] : r \in DOMAIN runs} = Places(runs)
    <3> HIDE DEF D
    <3>1. {{r} \X DOMAIN runs[r] : r \in D} = {{r} \X (1..Len(runs[r])) : r \in D}
      BY <1>1
    <3> QED BY <3>1, <1>0, Zenon DEF Places, D
  <2> DEFINE places == UNION {{r} \X DOMAIN runs[r] : r \in DOMAIN runs}
  <2> DEFINE M == RecordSort!Cardinality(places)
  <2> DEFINE G == CHOOSE f : f = [n \in 0..M |->
             IF n = 0 THEN [at |-> [r \in DOMAIN runs |-> 1], out |-> <<>>] ELSE RecordSort!Popped(runs, f[n - 1])]
  <2>2. RecordSort!Merged(runs) = G[M].out
    BY Zenon DEF RecordSort!Merged
  <2>3. M = N
    BY <2>1, SorterCounts
  <2> HIDE DEF M, N
  <2>4. [at |-> [r \in DOMAIN runs |-> 1], out |-> <<>>] = first
    BY <1>0
  <2> HIDE DEF first
  <2>5. G = F
    BY <2>3, <2>4
  <2> HIDE DEF F, G
  <2> QED BY <2>2, <2>3, <2>5
<1> HIDE DEF first, N
<1>4. F = [n \in 0..N |-> IF n = 0 THEN first ELSE RecordSort!Popped(runs, F[n - 1])]
  <2>1. \E f : Popping!IsRun(f, runs, first, N)
    BY <1>2, Popping!RunExists
  <2>2. \E f : f = [n \in 0..N |-> IF n = 0 THEN first ELSE RecordSort!Popped(runs, f[n - 1])]
    BY <2>1 DEF Popping!IsRun, PopStep
  <2> QED BY <2>2
<1> HIDE DEF F
<1>5. F[0] = first
  BY <1>4, <1>2
<1>6. ASSUME NEW i \in 1..N PROVE F[i] = RecordSort!Popped(runs, F[i - 1])
  <2>1. i \in 0..N /\ i # 0
    BY <1>2
  <2> QED BY <2>1, <1>4
<1> DEFINE Good(n) == MergeInv(S, runs, F[n]) /\ Cardinality(Consumed(runs, F[n].at)) = n
<1> DEFINE T == {n \in Nat : n <= N => Good(n)}
<1>7. Good(0)
  <2> DEFINE one == [r \in D |-> 1]
  <2>1. first.at = one /\ first.out = <<>> /\ first = [at |-> one, out |-> <<>>]
    BY DEF first
  <2>2. Cursors(runs, one)
    <3> HIDE DEF D
    <3>1. one \in [D -> Nat] /\ \A r \in D : one[r] = 1 /\ 1 \in 1..(Len(runs[r]) + 1)
      BY <1>1
    <3> HIDE DEF one
    <3> QED BY <3>1 DEF Cursors, D
  <2>3. Consumed(runs, one) = {}
    <3>1. ASSUME NEW q \in Places(runs) PROVE ~(q[2] < one[q[1]])
      <4>1. q[1] \in D /\ one[q[1]] = 1 /\ q[2] \in Nat /\ q[2] >= 1
        BY <1>2, <1>1
      <4> QED BY <4>1
    <3> HIDE DEF one
    <3> QED BY <3>1 DEF Consumed
  <2>4. ToSet(<<>>) = {} /\ Strict(<<>>) /\ <<>> \in Seq(S) /\ 1..Len(<<>>) = {}
    BY DEF ToSet, Strict
  <2> HIDE DEF one
  <2>5. MergeInv(S, runs, first)
    BY <2>1, <2>2, <2>3, <2>4 DEF MergeInv
  <2>6. Cardinality(Consumed(runs, first.at)) = 0
    BY <2>1, <2>3, FS_EmptySet
  <2> QED BY <1>5, <2>5, <2>6
<1>8. ASSUME NEW n \in Nat, n + 1 <= N, Good(n) PROVE Good(n + 1)
  <2>1. n + 1 \in 1..N /\ (n + 1) - 1 = n /\ n # N
    BY <1>8, <1>2
  <2>2. F[n + 1] = RecordSort!Popped(runs, F[n])
    BY <2>1, <1>6
  <2>3. Consumed(runs, F[n].at) # Places(runs)
    BY <1>8, <2>1 DEF N
  <2>4. /\ MergeInv(S, runs, F[n + 1])
        /\ \E q \in Places(runs) \ Consumed(runs, F[n].at) :
              Consumed(runs, F[n + 1].at) = Consumed(runs, F[n].at) \cup {q}
    BY <1>8, <2>2, <2>3, PoppedFacts
  <2>5. PICK q : q \notin Consumed(runs, F[n].at) /\ Consumed(runs, F[n + 1].at) = Consumed(runs, F[n].at) \cup {q}
    BY <2>4
  <2>6. IsFiniteSet(Consumed(runs, F[n].at))
    <3>1. Consumed(runs, F[n].at) \in SUBSET Places(runs)
      BY DEF Consumed
    <3> QED BY <3>1, <1>2, FS_Subset
  <2>7. Cardinality(Consumed(runs, F[n + 1].at)) = n + 1
    BY <2>5, <2>6, <1>8, FS_AddElement
  <2> QED BY <2>4, <2>7
<1> HIDE DEF Good
<1>9. \A n \in Nat : n \in T
  <2>1. 0 \in T
    BY <1>7
  <2>2. \A n \in Nat : n \in T => n + 1 \in T
    <3> SUFFICES ASSUME NEW n \in Nat, n \in T, n + 1 <= N PROVE Good(n + 1)
      OBVIOUS
    <3>1. n <= N
      BY <1>2
    <3> QED BY <3>1, <1>8
  <2> HIDE DEF T
  <2> QED BY <2>1, <2>2, Popping!SetInduction
<1>10. MergeInv(S, runs, F[N]) /\ Consumed(runs, F[N].at) = Places(runs)
  <2>1. N <= N
    BY <1>2
  <2>2. Good(N)
    BY <1>2, <1>9, <2>1
  <2>3. Consumed(runs, F[N].at) \in SUBSET Places(runs)
    BY DEF Consumed
  <2>4. Consumed(runs, F[N].at) = Places(runs)
    BY <2>2, <2>3, <1>2, FS_Subset DEF Good, N
  <2> QED BY <2>2, <2>4 DEF Good
<1>11. {runs[q[1]][q[2]] : q \in Places(runs)} = RunContents(runs)
  <2>1. ASSUME NEW q \in Places(runs) PROVE runs[q[1]][q[2]] \in RunContents(runs)
    <3>1. q[1] \in D /\ q[2] \in DOMAIN runs[q[1]]
      BY <1>2, <1>1
    <3>2. runs[q[1]][q[2]] \in ToSet(runs[q[1]])
      BY <3>1 DEF ToSet
    <3> QED BY <3>1, <3>2 DEF RunContents
  <2>2. ASSUME NEW x \in RunContents(runs) PROVE \E q \in Places(runs) : x = runs[q[1]][q[2]]
    <3>1. PICK r \in D : x \in ToSet(runs[r])
      BY DEF RunContents
    <3>2. PICK i \in 1..Len(runs[r]) : x = runs[r][i]
      BY <3>1, <1>1 DEF ToSet
    <3>3. <<r, i>> \in Places(runs) /\ <<r, i>>[1] = r /\ <<r, i>>[2] = i
      BY <1>2
    <3> QED BY <3>2, <3>3
  <2> QED BY <2>1, <2>2
<1>12. F[N].out \in Seq(S) /\ Strict(F[N].out) /\ ToSet(F[N].out) = {runs[q[1]][q[2]] : q \in Places(runs)}
  BY <1>10, Zenon DEF MergeInv
<1> QED BY <1>3, <1>11, <1>12

-----------------------------------------------------------------------------
(* The prefix postings file. *)

\* A set of numbers from 1 that has every smaller one too ends somewhere.
LEMMA InitialSegment ==
  ASSUME NEW n \in Nat, NEW A \in SUBSET (1..n), \A i \in A : \A j \in 1..i : j \in A
  PROVE  A = 1..Cardinality(A) /\ Cardinality(A) \in 0..n
<1> DEFINE Closed(B) == \A i \in B : \A j \in 1..i : j \in B
<1> DEFINE T == {m \in Nat : \A B \in SUBSET (1..m) : Closed(B) => \E k \in 0..m : B = 1..k}
<1>1. 0 \in T
  <2>1. \A B \in SUBSET (1..0) : B = 1..0
    OBVIOUS
  <2>2. ASSUME NEW B \in SUBSET (1..0) PROVE \E k \in 0..0 : B = 1..k
    <3>1. 0 \in 0..0 /\ B = 1..0
      BY <2>1
    <3> QED BY <3>1
  <2> HIDE DEF Closed
  <2> QED BY <2>2
<1>2. ASSUME NEW m \in Nat, m \in T PROVE m + 1 \in T
  <2> SUFFICES ASSUME NEW B \in SUBSET (1..(m + 1)), Closed(B) PROVE \E k \in 0..(m + 1) : B = 1..k
    OBVIOUS
  <2>1. CASE m + 1 \in B
    <3>1. B = 1..(m + 1)
      BY <2>1
    <3> QED BY <3>1
  <2>2. CASE m + 1 \notin B
    <3>1. B \in SUBSET (1..m)
      BY <2>2
    <3>2. PICK k \in 0..m : B = 1..k
      BY <3>1, <1>2
    <3> QED BY <3>2
  <2> QED BY <2>1, <2>2
<1>3. n \in T
  <2>1. \A m \in Nat : m \in T => m + 1 \in T
    BY <1>2
  <2> HIDE DEF T
  <2> QED BY <1>1, <2>1, Pushing!SetInduction
<1>4. PICK k \in 0..n : A = 1..k
  BY <1>3
<1>5. Cardinality(1..k) = k
  BY FS_Interval
<1> QED BY <1>4, <1>5

\* A hash of so many buckets lies in one of them.
LEMMA PrefixRange ==
  ASSUME NEW h \in 0..(BucketCount * BucketWidth - 1)
  PROVE  Prefix(h) \in 0..(BucketCount - 1)
<1>1. BucketWidth \in Nat /\ BucketWidth > 0 /\ BucketCount \in Nat /\ BucketCount > 0
  BY PrefixAssumption
<1>2. BucketCount * BucketWidth \in Int
  BY <1>1
<1>3. h \in Nat /\ h < BucketCount * BucketWidth
  BY <1>2
<1>4. PICK q \in Int : q = h \div BucketWidth /\ q >= 0 /\ q * BucketWidth <= h
  BY <1>1, <1>3
<1>5. q < BucketCount
  <2> SUFFICES ASSUME q >= BucketCount PROVE FALSE
    BY <1>1
  <2>1. q * BucketWidth >= BucketCount * BucketWidth
    BY <1>1
  <2> QED BY <1>1, <1>2, <1>3, <1>4, <2>1
<1> QED BY <1>1, <1>4, <1>5 DEF Prefix

\* Lists of pairs as a prefix file is written from.
PairLists == {pairs \in Seq((0..(BucketCount - 1)) \X Nat) : Strict(pairs)}

\* The pairs of a file lie in their buckets, and each bucket's games ascend.
LEMMA PairListFacts ==
  ASSUME NEW pairs \in PairLists
  PROVE  /\ Len(pairs) \in Nat /\ DOMAIN pairs = 1..Len(pairs)
         /\ \A i \in 1..Len(pairs) : pairs[i][1] \in 0..(BucketCount - 1) /\ pairs[i][2] \in Nat
         /\ \A i, j \in 1..Len(pairs) : i < j =>
               pairs[i][1] < pairs[j][1] \/ (pairs[i][1] = pairs[j][1] /\ pairs[i][2] < pairs[j][2])
<1>0. BucketCount \in Nat
  BY PrefixAssumption
<1>1. pairs \in Seq((0..(BucketCount - 1)) \X Nat) /\ Strict(pairs)
  BY DEF PairLists
<1>2. Len(pairs) \in Nat /\ DOMAIN pairs = 1..Len(pairs) /\ \A i \in 1..Len(pairs) : pairs[i] \in (0..(BucketCount - 1)) \X Nat
  BY <1>1
<1>3. \A i \in 1..Len(pairs) : pairs[i][1] \in 0..(BucketCount - 1) /\ pairs[i][2] \in Nat /\ pairs[i] \in Nat \X Nat
  BY <1>0, <1>2
<1>4. ASSUME NEW i \in 1..Len(pairs), NEW j \in 1..Len(pairs), i < j
      PROVE  pairs[i][1] < pairs[j][1] \/ (pairs[i][1] = pairs[j][1] /\ pairs[i][2] < pairs[j][2])
  <2>1. LexLess(pairs[i], pairs[j])
    BY <1>1, <1>4 DEF Strict
  <2> QED BY <2>1, <1>3, PairLess
<1> QED BY <1>2, <1>3, <1>4

\* An offset is the number of pairs of the buckets below.
LEMMA OffsetFacts ==
  ASSUME NEW pairs \in PairLists, NEW bucket \in 0..BucketCount
  PROVE  /\ PrefixFileOf(pairs).offsets[bucket] \in 0..Len(pairs)
         /\ \A i \in 1..Len(pairs) : i <= PrefixFileOf(pairs).offsets[bucket] <=> pairs[i][1] < bucket
<1> DEFINE n == Len(pairs)
<1> DEFINE A == {i \in 1..n : pairs[i][1] < bucket}
<1>0. BucketCount \in Nat
  BY PrefixAssumption
<1>1. n \in Nat /\ DOMAIN pairs = 1..n
  BY PairListFacts
<1>2. PrefixFileOf(pairs).offsets[bucket] = Cardinality(A)
  BY <1>1 DEF PrefixFileOf
<1>3. ASSUME NEW i \in A, NEW j \in 1..i PROVE j \in A
  <2>1. i \in 1..n /\ j \in 1..n /\ pairs[i][1] < bucket
    BY <1>1
  <2>2. pairs[i][1] \in Int /\ pairs[j][1] \in Int /\ (j < i => pairs[j][1] <= pairs[i][1])
    BY <2>1, <1>0, PairListFacts
  <2>3. pairs[j][1] <= pairs[i][1]
    BY <2>1, <2>2
  <2>4. pairs[j][1] < bucket
    BY <2>1, <2>2, <2>3, <1>0
  <2> QED BY <2>1, <2>4
<1>4. A = 1..Cardinality(A) /\ Cardinality(A) \in 0..n
  <2>1. A \in SUBSET (1..n)
    OBVIOUS
  <2> HIDE DEF A, n
  <2> QED BY <2>1, <1>1, <1>3, InitialSegment
<1>5. PICK m \in 0..n : m = Cardinality(A) /\ A = 1..m
  BY <1>4
<1>6. \A i \in 1..n : i <= m <=> pairs[i][1] < bucket
  <2> TAKE i \in 1..n
  <2>1. i \in A <=> pairs[i][1] < bucket
    OBVIOUS
  <2>2. i \in 1..m <=> i <= m
    BY <1>1
  <2> HIDE DEF A
  <2> QED BY <2>1, <2>2, <1>5
<1> HIDE DEF A
<1> QED BY <1>2, <1>5, <1>6

\* open() accepts such a file.
LEMMA PairFileAccepted ==
  ASSUME NEW pairs \in PairLists
  PROVE  PrefixAccepts(PrefixFileOf(pairs))
<1> DEFINE file == PrefixFileOf(pairs)
<1> DEFINE off == file.offsets
<1> DEFINE n == Len(pairs)
<1>0. BucketCount \in Nat /\ 0 \in 0..BucketCount /\ BucketCount \in 0..BucketCount
  BY PrefixAssumption
<1>1. n \in Nat /\ DOMAIN pairs = 1..n /\ \A i \in 1..n : pairs[i][1] \in 0..(BucketCount - 1)
  BY PairListFacts
<1>2. \A b \in 0..BucketCount : off[b] \in 0..n /\ \A i \in 1..n : i <= off[b] <=> pairs[i][1] < b
  BY OffsetFacts
<1>3. Len(file.games) = n
  <2>1. file.games = [i \in 1..n |-> pairs[i][2]]
    BY <1>1 DEF PrefixFileOf
  <2> HIDE DEF n, file
  <2> QED BY <2>1, <1>1
<1> HIDE DEF off, n
<1>4. off[0] = 0
  <2> SUFFICES ASSUME off[0] # 0 PROVE FALSE
    OBVIOUS
  <2>1. 1 \in 1..n /\ 1 <= off[0]
    BY <1>0, <1>1, <1>2
  <2>2. pairs[1][1] < 0
    BY <2>1, <1>0, <1>2
  <2> QED BY <2>1, <2>2, <1>0, <1>1
<1>5. off[BucketCount] = n
  <2> SUFFICES ASSUME off[BucketCount] # n PROVE FALSE
    OBVIOUS
  <2>1. n \in 1..n /\ ~(n <= off[BucketCount])
    BY <1>0, <1>1, <1>2
  <2>2. ~(pairs[n][1] < BucketCount)
    BY <2>1, <1>0, <1>2
  <2> QED BY <2>1, <2>2, <1>0, <1>1
<1>6. ASSUME NEW b \in 1..BucketCount PROVE off[b - 1] <= off[b]
  <2>1. b \in 0..BucketCount /\ b - 1 \in 0..BucketCount
    BY <1>0
  <2>2. off[b] \in 0..n /\ off[b - 1] \in 0..n
    BY <2>1, <1>2
  <2> SUFFICES ASSUME off[b - 1] > off[b] PROVE FALSE
    BY <2>2, <1>1
  <2>3. off[b - 1] \in 1..n /\ ~(off[b - 1] <= off[b])
    BY <2>2, <1>1
  <2>4. pairs[off[b - 1]][1] < b - 1 /\ ~(pairs[off[b - 1]][1] < b)
    BY <2>1, <2>2, <2>3, <1>2
  <2>5. pairs[off[b - 1]][1] \in Int
    BY <2>3, <1>1, <1>0
  <2> QED BY <2>4, <2>5, <2>1, <1>0
<1> QED BY <1>3, <1>4, <1>5, <1>6 DEF PrefixAccepts, off

\* A list of ascending numbers has as many members as places.
LEMMA AscendingLen ==
  ASSUME NEW s \in Seq(Nat), \A j, k \in 1..Len(s) : j < k => s[j] < s[k]
  PROVE  Len(s) = Cardinality(ToSet(s))
<1> DEFINE D == 1..Len(s)
<1>1. Len(s) \in Nat /\ DOMAIN s = D /\ \A k \in D : s[k] \in Nat
  OBVIOUS
<1>2. s \in [D -> ToSet(s)] /\ \A x \in ToSet(s) : \E k \in D : s[k] = x
  BY <1>1 DEF ToSet
<1>3. \A j, k \in D : s[j] = s[k] => j = k
  <2> SUFFICES ASSUME NEW j \in D, NEW k \in D, s[j] = s[k] PROVE j = k
    OBVIOUS
  <2>1. ~(s[j] < s[k]) /\ ~(s[k] < s[j])
    BY <1>1
  <2>2. ~(j < k) /\ ~(k < j)
    BY <2>1
  <2> QED BY <2>2, <1>1
<1>4. IsFiniteSet(D) /\ Cardinality(D) = Len(s)
  <2>1. PICK n \in Nat : n = Len(s)
    BY <1>1
  <2>2. IsFiniteSet(1..n) /\ Cardinality(1..n) = n
    BY FS_Interval
  <2> QED BY <2>1, <2>2
<1> HIDE DEF D
<1>5. s \in Bijection(D, ToSet(s))
  BY <1>2, <1>3, Zenon DEF Bijection, Injection, Surjection, IsInjective
<1>6. ExistsBijection(D, ToSet(s))
  BY <1>5 DEF ExistsBijection
<1> QED BY <1>4, <1>6, FS_Bijection

\* The candidates of a position are the games paired with its bucket, once.
LEMMA CandidatesFacts ==
  ASSUME NEW pairs \in PairLists, NEW h \in 0..(BucketCount * BucketWidth - 1)
  PROVE  /\ Len(Candidates(PrefixFileOf(pairs), h)) = Cardinality(ToSet(Candidates(PrefixFileOf(pairs), h)))
         /\ \A id : id \in ToSet(Candidates(PrefixFileOf(pairs), h)) <=> <<Prefix(h), id>> \in ToSet(pairs)
<1> DEFINE file == PrefixFileOf(pairs)
<1> DEFINE n == Len(pairs)
<1> DEFINE p == Prefix(h)
<1> DEFINE lo == file.offsets[p]
<1> DEFINE hi == file.offsets[p + 1]
<1> DEFINE found == Candidates(file, h)
<1>0. BucketCount \in Nat /\ p \in 0..(BucketCount - 1)
  BY PrefixAssumption, PrefixRange
<1>1. /\ n \in Nat /\ DOMAIN pairs = 1..n
      /\ \A i \in 1..n : pairs[i][1] \in 0..(BucketCount - 1) /\ pairs[i][2] \in Nat
      /\ \A i, j \in 1..n : i < j =>
            pairs[i][1] < pairs[j][1] \/ (pairs[i][1] = pairs[j][1] /\ pairs[i][2] < pairs[j][2])
  BY PairListFacts
<1>2. file.games = [i \in 1..n |-> pairs[i][2]]
  BY <1>1 DEF PrefixFileOf
<1>3. found = SubSeq(file.games, lo + 1, hi)
  BY DEF Candidates
<1> HIDE DEF file
<1>4. /\ lo \in 0..n /\ hi \in 0..n
      /\ \A i \in 1..n : (i <= lo <=> pairs[i][1] < p) /\ (i <= hi <=> pairs[i][1] < p + 1)
  <2>1. p \in 0..BucketCount /\ p + 1 \in 0..BucketCount
    BY <1>0
  <2> HIDE DEF n, p
  <2> QED BY <2>1, OffsetFacts DEF file, n
<1> HIDE DEF lo, hi, p, n
<1>5. \A i \in 1..n : lo < i /\ i <= hi <=> pairs[i][1] = p
  <2> TAKE i \in 1..n
  <2>1. i \in Int /\ lo \in Int /\ hi \in Int /\ pairs[i][1] \in Int /\ p \in Int
    BY <1>0, <1>1, <1>4
  <2> QED BY <2>1, <1>4
<1>6. /\ found \in Seq(Nat) /\ Len(found) = (IF lo + 1 <= hi THEN hi - (lo + 1) + 1 ELSE 0)
      /\ \A i \in 1..(hi - (lo + 1) + 1) : found[i] = file.games[lo + 1 + i - 1]
  <2>1. \A i \in (lo + 1)..hi : file.games[i] \in Nat
    BY <1>1, <1>2, <1>4
  <2>2. lo + 1 \in Int /\ hi \in Int
    BY <1>1, <1>4
  <2> QED BY <1>3, <2>1, <2>2, SubSeqProperties
<1> HIDE DEF found
<1>7. Len(found) \in Nat /\ DOMAIN found = 1..Len(found)
  BY <1>6
<1>8. ASSUME NEW k \in 1..Len(found)
      PROVE  lo + k \in 1..n /\ lo < lo + k /\ lo + k <= hi /\ found[k] = pairs[lo + k][2]
  <2>1. k \in Int /\ lo \in Int /\ hi \in Int /\ 0 <= lo /\ hi <= n /\ 1 <= k /\ k <= Len(found) /\ Len(found) \in Int
    BY <1>1, <1>4, <1>7
  <2>2. lo + 1 <= hi /\ k <= hi - (lo + 1) + 1
    BY <1>6, <2>1
  <2>3. lo + k \in 1..n /\ lo < lo + k /\ lo + k <= hi /\ lo + 1 + k - 1 = lo + k
    BY <2>1, <2>2, <1>1
  <2>4. found[k] = file.games[lo + k]
    BY <1>6, <2>1, <2>2, <2>3
  <2> QED BY <2>3, <2>4, <1>2
<1>9. ASSUME NEW j \in 1..Len(found), NEW k \in 1..Len(found), j < k PROVE found[j] < found[k]
  <2>1. lo + j \in 1..n /\ lo + k \in 1..n /\ lo + j < lo + k
    BY <1>8, <1>9, <1>7, <1>4, <1>1
  <2>2. pairs[lo + j][1] = p /\ pairs[lo + k][1] = p
    BY <1>8, <1>5
  <2>3. pairs[lo + j][2] < pairs[lo + k][2]
    BY <2>1, <2>2, <1>1, <1>0
  <2> QED BY <2>3, <1>8
<1>10. Len(found) = Cardinality(ToSet(found))
  BY <1>6, <1>9, AscendingLen
<1>11. ASSUME NEW id PROVE id \in ToSet(found) <=> <<p, id>> \in ToSet(pairs)
  <2>1. ASSUME id \in ToSet(found) PROVE <<p, id>> \in ToSet(pairs)
    <3>1. PICK k \in 1..Len(found) : id = found[k]
      BY <2>1, <1>7 DEF ToSet
    <3>2. lo + k \in 1..n /\ pairs[lo + k][1] = p /\ pairs[lo + k][2] = id
      BY <3>1, <1>8, <1>5
    <3>3. pairs[lo + k] = <<p, id>>
      <4>1. pairs \in Seq((0..(BucketCount - 1)) \X Nat)
        BY DEF PairLists
      <4>2. pairs[lo + k] \in (0..(BucketCount - 1)) \X Nat
        BY <4>1, <3>2, <1>1
      <4> QED BY <4>2, <3>2
    <3> QED BY <3>2, <3>3, <1>1 DEF ToSet
  <2>2. ASSUME <<p, id>> \in ToSet(pairs) PROVE id \in ToSet(found)
    <3>1. PICK i \in 1..n : pairs[i] = <<p, id>>
      BY <2>2, <1>1 DEF ToSet
    <3>2. lo < i /\ i <= hi
      BY <3>1, <1>5
    <3>3. i \in Int /\ lo \in Int /\ hi \in Int
      BY <1>1, <1>4
    <3>4. i - lo \in 1..Len(found) /\ lo + (i - lo) = i
      BY <3>2, <3>3, <1>6
    <3>5. found[i - lo] = pairs[lo + (i - lo)][2]
      BY <3>4, <1>8
    <3>6. found[i - lo] = id
      BY <3>5, <3>4, <3>1
    <3> QED BY <3>4, <3>6, <1>7 DEF ToSet
  <2> QED BY <2>1, <2>2
<1> QED BY <1>10, <1>11 DEF found, file, p

-----------------------------------------------------------------------------
(* The build of the prefix postings. *)

\* The pairs that some games contribute.
PairsOf(games, ids) == UNION {{<<Prefix(h), id>> : h \in Visited(games[id].moves)} : id \in ids}

\* A file that lists the pairs of all games.
FullFile(games, file) ==
  \E pairs \in PairLists : ToSet(pairs) = PairsOf(games, DOMAIN games) /\ file = PrefixFileOf(pairs)

\* What was pushed and what is still queued are together the pairs of all
\* games, and the written file lists those.
PrefixInv ==
  /\ library \in Libraries
  /\ prefixQueue \in Seq(DOMAIN library)
  /\ SorterOf(Nat \X Nat, prefixRecords)
  /\ prefixBuilt \in {"append", "written", "open", "failed"}
  /\ prefixBuilt = "append" =>
        Contents(prefixRecords) \cup PairsOf(library, ToSet(prefixQueue)) = PairsOf(library, DOMAIN library)
  /\ prefixBuilt \in {"written", "open"} => \A file \in prefixFile : FullFile(library, file)

\* A game's rows are its pairs.
LEMMA RowFacts ==
  ASSUME library \in Libraries, NEW id \in DOMAIN library
  PROVE  /\ PrefixRows(id, library[id]) \in Seq((0..(BucketCount - 1)) \X Nat)
         /\ ToSet(PrefixRows(id, library[id])) = PairsOf(library, {id})
<1> DEFINE moves == library[id].moves
<1> DEFINE rows == PrefixRows(id, library[id])
<1>1. /\ id \in Nat /\ moves \in Seq(Nat) /\ Len(moves) \in Nat
      /\ Visited(moves) \subseteq 0..(BucketCount * BucketWidth - 1)
  BY IndexAssumption
<1>2. Visited(moves) = {Boards(moves)[ply] : ply \in 0..Len(moves)}
  BY DEF Visited
<1>3. rows = [i \in 1..(Len(moves) + 1) |-> <<Prefix(Boards(moves)[i - 1]), id>>]
  BY DEF PrefixRows
<1>4. PairsOf(library, {id}) = {<<Prefix(h), id>> : h \in Visited(moves)}
  BY DEF PairsOf
<1> HIDE DEF moves, rows
<1>5. ASSUME NEW i \in 1..(Len(moves) + 1) PROVE <<Prefix(Boards(moves)[i - 1]), id>> \in (0..(BucketCount - 1)) \X Nat
  <2>1. i - 1 \in 0..Len(moves)
    BY <1>1
  <2>2. Boards(moves)[i - 1] \in 0..(BucketCount * BucketWidth - 1)
    BY <2>1, <1>1, <1>2
  <2>3. Prefix(Boards(moves)[i - 1]) \in 0..(BucketCount - 1)
    BY <2>2, PrefixRange
  <2> QED BY <2>3, <1>1
<1>6. rows \in Seq((0..(BucketCount - 1)) \X Nat) /\ DOMAIN rows = 1..(Len(moves) + 1)
  BY <1>1, <1>3, <1>5
<1>7. ASSUME NEW x \in ToSet(rows) PROVE x \in PairsOf(library, {id})
  <2>1. PICK i \in 1..(Len(moves) + 1) : x = <<Prefix(Boards(moves)[i - 1]), id>>
    BY <1>3, <1>6 DEF ToSet
  <2>2. i - 1 \in 0..Len(moves)
    BY <1>1
  <2> QED BY <2>1, <2>2, <1>2, <1>4
<1>8. ASSUME NEW x \in PairsOf(library, {id}) PROVE x \in ToSet(rows)
  <2>1. PICK ply \in 0..Len(moves) : x = <<Prefix(Boards(moves)[ply]), id>>
    BY <1>2, <1>4
  <2>2. ply + 1 \in 1..(Len(moves) + 1) /\ (ply + 1) - 1 = ply
    BY <1>1
  <2>3. rows[ply + 1] = x
    BY <2>1, <2>2, <1>3
  <2> QED BY <2>2, <2>3, <1>6 DEF ToSet
<1> QED BY <1>6, <1>7, <1>8 DEF rows

\* Every pair of a game is in a bucket.
LEMMA PairsInBuckets ==
  ASSUME library \in Libraries
  PROVE  PairsOf(library, DOMAIN library) \subseteq (0..(BucketCount - 1)) \X Nat
<1>1. ASSUME NEW id \in DOMAIN library, NEW h \in Visited(library[id].moves)
      PROVE  <<Prefix(h), id>> \in (0..(BucketCount - 1)) \X Nat
  <2>1. id \in Nat /\ h \in 0..(BucketCount * BucketWidth - 1)
    BY IndexAssumption
  <2> QED BY <2>1, PrefixRange
<1> QED BY <1>1 DEF PairsOf

\* A list of the pairs of all games, ascending, is one a file is written from.
LEMMA FullFileOf ==
  ASSUME library \in Libraries, NEW pairs \in Seq(Nat \X Nat), Strict(pairs),
         ToSet(pairs) = PairsOf(library, DOMAIN library)
  PROVE  FullFile(library, PrefixFileOf(pairs))
<1>1. \A i \in 1..Len(pairs) : pairs[i] \in (0..(BucketCount - 1)) \X Nat
  BY PairsInBuckets DEF ToSet
<1>2. pairs \in Seq((0..(BucketCount - 1)) \X Nat)
  BY <1>1
<1>3. pairs \in PairLists
  BY <1>2 DEF PairLists
<1> QED BY <1>3 DEF FullFile

\* The next game's pairs move from the queue to the sorter.
LEMMA QueueFacts ==
  ASSUME NEW S, NEW s \in Seq(S), s # <<>>
  PROVE  Head(s) \in S /\ Tail(s) \in Seq(S) /\ ToSet(s) = {Head(s)} \cup ToSet(Tail(s))
<1>1. Head(s) \in S /\ Tail(s) \in Seq(S) /\ Len(s) \in Nat \ {0} /\ Len(Tail(s)) = Len(s) - 1 /\ Head(s) = s[1]
  OBVIOUS
<1>2. \A i \in 1..(Len(s) - 1) : Tail(s)[i] = s[i + 1]
  OBVIOUS
<1>3. DOMAIN s = 1..Len(s) /\ DOMAIN Tail(s) = 1..(Len(s) - 1)
  BY <1>1
<1>4. PICK t : t = Tail(s)
  OBVIOUS
<1>5. ASSUME NEW x \in ToSet(s) PROVE x = s[1] \/ x \in ToSet(t)
  <2>1. PICK i \in 1..Len(s) : x = s[i]
    BY <1>3 DEF ToSet
  <2>2. CASE i # 1
    <3>1. i - 1 \in 1..(Len(s) - 1) /\ (i - 1) + 1 = i
      BY <1>1, <2>2
    <3>2. t[i - 1] = x
      BY <2>1, <3>1, <1>2, <1>4
    <3> QED BY <3>1, <3>2, <1>3, <1>4 DEF ToSet
  <2> QED BY <2>1, <2>2
<1>6. ASSUME NEW x \in ToSet(t) PROVE x \in ToSet(s)
  <2>1. PICK i \in 1..(Len(s) - 1) : x = t[i]
    BY <1>3, <1>4 DEF ToSet
  <2>2. i + 1 \in 1..Len(s) /\ x = s[i + 1]
    BY <2>1, <1>1, <1>2, <1>4
  <2> QED BY <2>2, <1>3 DEF ToSet
<1>7. s[1] \in ToSet(s)
  <2>1. 1 \in 1..Len(s)
    BY <1>1
  <2> QED BY <2>1, <1>3 DEF ToSet
<1> QED BY <1>1, <1>4, <1>5, <1>6, <1>7

\* A build begins with every game queued.
LEMMA PrefixInvInit == Init => PrefixInv
<1> SUFFICES ASSUME Init PROVE PrefixInv
  OBVIOUS
<1>1. /\ library \in Libraries /\ prefixQueue = Ascending(DOMAIN library)
      /\ prefixRecords = [buffer |-> <<>>, runs |-> <<>>] /\ prefixBuilt = "append"
  BY DEF Init, PrefixInit, RecordSort!NoRecords
<1>2. DOMAIN library \in SUBSET Nat /\ IsFiniteSet(DOMAIN library)
  BY <1>1, IndexAssumption
<1>3. prefixQueue \in Seq(DOMAIN library) /\ ToSet(prefixQueue) = DOMAIN library
  BY <1>1, <1>2, AscendingFacts
<1>4. SorterOf(Nat \X Nat, prefixRecords)
  BY <1>1 DEF SorterOf
<1>5. Contents(prefixRecords) = {}
  BY <1>1 DEF Contents, RunContents, ToSet
<1> QED BY <1>1, <1>3, <1>4, <1>5 DEF PrefixInv

\* append() of one game.
LEMMA AppendPrefixInv ==
  ASSUME PrefixInv, AppendPrefixRows, UNCHANGED library
  PROVE  PrefixInv'
<1> DEFINE id == Head(prefixQueue)
<1> DEFINE rows == PrefixRows(id, library[id])
<1>1. /\ prefixBuilt = "append" /\ prefixQueue # <<>> /\ prefixBuilt' = "append" /\ library' = library
      /\ prefixRecords' = RecordSort!PushAll(prefixRecords, rows, prefixThreshold)
      /\ prefixQueue' = Tail(prefixQueue)
  BY DEF AppendPrefixRows, AppendPrefixes
<1>2. /\ library \in Libraries /\ prefixQueue \in Seq(DOMAIN library) /\ SorterOf(Nat \X Nat, prefixRecords)
      /\ Contents(prefixRecords) \cup PairsOf(library, ToSet(prefixQueue)) = PairsOf(library, DOMAIN library)
  BY <1>1 DEF PrefixInv
<1>3. id \in DOMAIN library /\ Tail(prefixQueue) \in Seq(DOMAIN library) /\ ToSet(prefixQueue) = {id} \cup ToSet(Tail(prefixQueue))
  BY <1>1, <1>2, QueueFacts
<1>4. rows \in Seq(Nat \X Nat) /\ ToSet(rows) = PairsOf(library, {id})
  <2>1. rows \in Seq((0..(BucketCount - 1)) \X Nat) /\ ToSet(rows) = PairsOf(library, {id})
    BY <1>2, <1>3, RowFacts
  <2>2. (0..(BucketCount - 1)) \X Nat \subseteq Nat \X Nat
    BY PrefixAssumption
  <2> HIDE DEF rows
  <2> QED BY <2>1, <2>2, SeqMonotonic
<1> HIDE DEF rows, id
<1>5. SorterOf(Nat \X Nat, prefixRecords') /\ Contents(prefixRecords') = Contents(prefixRecords) \cup PairsOf(library, {id})
  BY <1>1, <1>2, <1>4, PairsOrdered, PushAllFacts
<1>6. PairsOf(library, ToSet(prefixQueue)) = PairsOf(library, {id}) \cup PairsOf(library, ToSet(Tail(prefixQueue)))
  BY <1>3 DEF PairsOf
<1>7. Contents(prefixRecords') \cup PairsOf(library, ToSet(prefixQueue')) = PairsOf(library, DOMAIN library)
  BY <1>1, <1>2, <1>5, <1>6
<1> QED BY <1>1, <1>2, <1>3, <1>5, <1>7 DEF PrefixInv

\* finalize(): the file lists every pair, merged or from memory.
LEMMA FinalizePrefixInv ==
  ASSUME PrefixInv, FinalizePrefix, UNCHANGED library
  PROVE  PrefixInv'
<1>1. /\ prefixBuilt = "append" /\ prefixQueue = <<>> /\ library' = library
      /\ prefixRecords' = [buffer |-> <<>>, runs |-> <<>>] /\ prefixBuilt' = "written" /\ prefixQueue' = prefixQueue
  BY DEF FinalizePrefix, RecordSort!NoRecords
<1>2. /\ library \in Libraries /\ prefixQueue \in Seq(DOMAIN library) /\ SorterOf(Nat \X Nat, prefixRecords)
      /\ Contents(prefixRecords) \cup PairsOf(library, ToSet(prefixQueue)) = PairsOf(library, DOMAIN library)
  BY <1>1 DEF PrefixInv
<1>3. Contents(prefixRecords) = PairsOf(library, DOMAIN library)
  BY <1>1, <1>2 DEF PairsOf, ToSet
<1>4. prefixRecords.buffer \in Seq(Nat \X Nat)
  BY <1>2 DEF SorterOf
<1>5. ASSUME prefixRecords.runs = <<>> PROVE FullFile(library, FinalizeInMemory(prefixRecords))
  <2> DEFINE pairs == RecordSort!Combined(RecordSort!Sorted(prefixRecords.buffer))
  <2>1. pairs \in Seq(Nat \X Nat) /\ Strict(pairs) /\ ToSet(pairs) = ToSet(prefixRecords.buffer)
    BY <1>4, PairsOrdered, RunFacts
  <2>2. RunContents(prefixRecords.runs) = {}
    BY <1>5 DEF RunContents
  <2>3. ToSet(pairs) = PairsOf(library, DOMAIN library)
    BY <2>1, <2>2, <1>3 DEF Contents
  <2> HIDE DEF pairs
  <2>4. FullFile(library, PrefixFileOf(pairs))
    BY <2>1, <2>3, <1>2, FullFileOf
  <2> QED BY <2>4 DEF FinalizeInMemory, pairs
<1>6. FullFile(library, FinalizeExternalMerge(prefixRecords))
  <2> DEFINE spilled == RecordSort!Spilled(prefixRecords)
  <2> DEFINE pairs == RecordSort!Merged(spilled.runs)
  <2>1. SorterOf(Nat \X Nat, spilled) /\ Contents(spilled) = Contents(prefixRecords) /\ spilled.buffer = <<>>
    BY <1>2, PairsOrdered, SpilledFacts
  <2> HIDE DEF spilled
  <2>2. RunsOf(Nat \X Nat, spilled.runs)
    BY <2>1 DEF SorterOf, RunsOf
  <2>3. pairs \in Seq(Nat \X Nat) /\ Strict(pairs) /\ ToSet(pairs) = RunContents(spilled.runs)
    BY <2>2, PairsOrdered, MergedFacts
  <2>4. RunContents(spilled.runs) = Contents(spilled)
    BY <2>1 DEF Contents, ToSet
  <2>5. ToSet(pairs) = PairsOf(library, DOMAIN library)
    BY <2>1, <2>3, <2>4, <1>3
  <2> HIDE DEF pairs
  <2>6. FullFile(library, PrefixFileOf(pairs))
    BY <2>3, <2>5, <1>2, FullFileOf
  <2> QED BY <2>6 DEF FinalizeExternalMerge, pairs, spilled
<1>7. \A file \in prefixFile' : FullFile(library, file)
  BY <1>5, <1>6 DEF FinalizePrefix
<1>8. SorterOf(Nat \X Nat, prefixRecords')
  BY <1>1 DEF SorterOf
<1> QED BY <1>1, <1>2, <1>7, <1>8 DEF PrefixInv

\* Every step of a build keeps PrefixInv; open() finds a file it accepts.
LEMMA PrefixInvStep == PrefixInv /\ [Next]_vars => PrefixInv'
<1> SUFFICES ASSUME PrefixInv, [Next]_vars PROVE PrefixInv'
  OBVIOUS
<1>1. ASSUME UNCHANGED <<library, prefixVars>> PROVE PrefixInv'
  BY <1>1 DEF PrefixInv, prefixVars
<1>2. ASSUME AppendPrefixFails, UNCHANGED library PROVE PrefixInv'
  BY <1>2 DEF AppendPrefixFails, PrefixInv
<1>3. ASSUME PrefixFails, UNCHANGED library PROVE PrefixInv'
  <2>1. SorterOf(Nat \X Nat, prefixRecords')
    BY <1>3, PairsOrdered, SpilledFacts DEF PrefixInv, PrefixFails
  <2> QED BY <1>3, <2>1 DEF PrefixFails, PrefixInv
<1>4. ASSUME OpenPrefix, UNCHANGED library PROVE PrefixInv'
  <2>1. \A file \in prefixFile : FullFile(library, file)
    BY <1>4 DEF PrefixInv, OpenPrefix
  <2>2. \A file \in prefixFile : PrefixAccepts(file)
    BY <2>1, PairFileAccepted DEF FullFile
  <2>3. prefixBuilt' = "open"
    BY <1>4, <2>2 DEF OpenPrefix
  <2> QED BY <1>4, <2>1, <2>3 DEF OpenPrefix, PrefixInv
<1>5. CASE BuildPostings
  BY <1>1, <1>5 DEF BuildPostings
<1>6. CASE BuildTree
  BY <1>1, <1>6 DEF BuildTree
<1>7. CASE BuildPrefixes
  BY <1>2, <1>3, <1>4, <1>7, AppendPrefixInv, FinalizePrefixInv DEF BuildPrefixes, PrefixNext
<1>8. CASE UNCHANGED vars
  BY <1>1, <1>8 DEF vars
<1> QED BY <1>5, <1>6, <1>7, <1>8 DEF Next

\* The pairs of the games taken from the queue are in the sorter or in the file,
\* whatever spills on the way (append(), spill(), finalize()).
THEOREM PrefixBuildCorrect == Spec => []PrefixInv
BY PrefixInvInit, PrefixInvStep, PTL DEF Spec

\* The prefix builder never writes a file that open() refuses: its part of
\* NeverRejected, for every library, spill threshold and number of buckets.
THEOREM PrefixNeverRejected == Spec => [](prefixBuilt # "rejected")
<1>1. PrefixInv => prefixBuilt # "rejected"
  BY DEF PrefixInv
<1> QED BY <1>1, PrefixBuildCorrect, PTL

\* The candidates of a position are distinct and include every game that
\* holds it, whether or not the builder spilled (finalize_in_memory(),
\* finalize_external_merge(), candidates()).
THEOREM CandidatesAreSound == Spec => []CandidatesSound
<1>1. PrefixInv => CandidatesSound
  <2> SUFFICES ASSUME PrefixInv, prefixBuilt = "open", NEW hash \in Hashes, NEW file \in prefixFile
               PROVE  LET found == Candidates(file, hash)
                      IN  /\ TrueIds(hash) \subseteq ToSet(found)
                          /\ Len(found) = Cardinality(ToSet(found))
                          /\ \A id \in ToSet(found) : \E h \in Visited(library[id].moves) : Prefix(h) = Prefix(hash)
    BY DEF CandidatesSound
  <2>1. PICK pairs \in PairLists : ToSet(pairs) = PairsOf(library, DOMAIN library) /\ file = PrefixFileOf(pairs)
    BY DEF PrefixInv, FullFile
  <2>2. hash \in 0..(BucketCount * BucketWidth - 1)
    BY IndexAssumption
  <2> DEFINE found == Candidates(file, hash)
  <2>3. /\ Len(found) = Cardinality(ToSet(found))
        /\ \A id : id \in ToSet(found) <=> <<Prefix(hash), id>> \in PairsOf(library, DOMAIN library)
    BY <2>1, <2>2, CandidatesFacts
  <2> HIDE DEF found
  <2>4. ASSUME NEW id \in TrueIds(hash) PROVE id \in ToSet(found)
    <3>1. id \in DOMAIN library /\ hash \in Visited(library[id].moves)
      BY DEF TrueIds
    <3>2. <<Prefix(hash), id>> \in PairsOf(library, DOMAIN library)
      BY <3>1 DEF PairsOf
    <3> QED BY <3>2, <2>3
  <2>5. ASSUME NEW id \in ToSet(found) PROVE \E h \in Visited(library[id].moves) : Prefix(h) = Prefix(hash)
    <3>1. <<Prefix(hash), id>> \in PairsOf(library, DOMAIN library)
      BY <2>3
    <3>2. PICK other \in DOMAIN library : \E h \in Visited(library[other].moves) : <<Prefix(hash), id>> = <<Prefix(h), other>>
      BY <3>1 DEF PairsOf
    <3>3. PICK h \in Visited(library[other].moves) : <<Prefix(hash), id>> = <<Prefix(h), other>>
      BY <3>2
    <3> QED BY <3>3
  <2> QED BY <2>3, <2>4, <2>5 DEF found
<1> QED BY <1>1, PrefixBuildCorrect, PTL

-----------------------------------------------------------------------------
(* The occurrence stream of the position postings. *)

\* Occurrence records: hash, game and ply.
Triples == Nat \X Nat \X Nat

\* The order of occurrence records, written out.
LEMMA TripleLess ==
  ASSUME NEW a \in Triples, NEW b \in Triples
  PROVE  LexLess(a, b) <=> \/ a[1] < b[1]
                           \/ a[1] = b[1] /\ a[2] < b[2]
                           \/ a[1] = b[1] /\ a[2] = b[2] /\ a[3] < b[3]
<1>1. DOMAIN a = {1, 2, 3}
  BY DEF Triples
<1>2. LexLess(a, b) <=> \/ a[1] < b[1] /\ \A j \in 1..(1 - 1) : a[j] = b[j]
                        \/ a[2] < b[2] /\ \A j \in 1..(2 - 1) : a[j] = b[j]
                        \/ a[3] < b[3] /\ \A j \in 1..(3 - 1) : a[j] = b[j]
  BY <1>1, Zenon DEF LexLess
<1>3. 1..(1 - 1) = {} /\ 1..(2 - 1) = {1} /\ 1..(3 - 1) = {1, 2}
  OBVIOUS
<1> QED BY <1>2, <1>3

\* Occurrence records are totally ordered.
LEMMA TriplesOrdered == LexOrdered(Triples)
<1>0. \A a \in Triples : a = <<a[1], a[2], a[3]>> /\ a[1] \in Nat /\ a[2] \in Nat /\ a[3] \in Nat
  BY DEF Triples
<1>1. ASSUME NEW a \in Triples PROVE ~LexLess(a, a)
  BY <1>0, TripleLess
<1>2. ASSUME NEW a \in Triples, NEW b \in Triples, NEW c \in Triples, LexLess(a, b), LexLess(b, c)
      PROVE  LexLess(a, c)
  <2>1. /\ a[1] \in Nat /\ a[2] \in Nat /\ a[3] \in Nat /\ b[1] \in Nat /\ b[2] \in Nat /\ b[3] \in Nat
        /\ c[1] \in Nat /\ c[2] \in Nat /\ c[3] \in Nat
    BY <1>0
  <2>2. /\ a[1] < b[1] \/ (a[1] = b[1] /\ a[2] < b[2]) \/ (a[1] = b[1] /\ a[2] = b[2] /\ a[3] < b[3])
        /\ b[1] < c[1] \/ (b[1] = c[1] /\ b[2] < c[2]) \/ (b[1] = c[1] /\ b[2] = c[2] /\ b[3] < c[3])
    BY <1>2, TripleLess
  <2>3. a[1] < c[1] \/ (a[1] = c[1] /\ a[2] < c[2]) \/ (a[1] = c[1] /\ a[2] = c[2] /\ a[3] < c[3])
    BY <2>1, <2>2
  <2> QED BY <2>3, TripleLess
<1>3. ASSUME NEW a \in Triples, NEW b \in Triples PROVE a = b \/ LexLess(a, b) \/ LexLess(b, a)
  <2>1. CASE a[1] = b[1] /\ a[2] = b[2] /\ a[3] = b[3]
    BY <2>1, <1>0
  <2>2. CASE ~(a[1] = b[1] /\ a[2] = b[2] /\ a[3] = b[3])
    <3>1. /\ a[1] \in Nat /\ a[2] \in Nat /\ a[3] \in Nat /\ b[1] \in Nat /\ b[2] \in Nat /\ b[3] \in Nat
      BY <1>0
    <3>2. \/ a[1] < b[1] \/ (a[1] = b[1] /\ a[2] < b[2]) \/ (a[1] = b[1] /\ a[2] = b[2] /\ a[3] < b[3])
          \/ b[1] < a[1] \/ (b[1] = a[1] /\ b[2] < a[2]) \/ (b[1] = a[1] /\ b[2] = a[2] /\ b[3] < a[3])
      BY <2>2, <3>1
    <3> QED BY <3>2, TripleLess
  <2> QED BY <2>1, <2>2
<1> QED BY <1>1, <1>2, <1>3 DEF LexOrdered

\* No record is in a list twice.
Distinct(s) == \A j, k \in 1..Len(s) : s[j] = s[k] => j = k

\* A sorter of records that were pushed once.
RawSorterOf(S, sorter) == SorterOf(S, sorter) /\ Distinct(sorter.buffer)

\* spill_current_buffer() moves the buffer to a run.
LEMMA SpillRestFacts ==
  ASSUME NEW S, LexOrdered(S), NEW sorter, RawSorterOf(S, sorter)
  PROVE  /\ RawSorterOf(S, SpillRest(sorter))
         /\ Contents(SpillRest(sorter)) = Contents(sorter)
         /\ SpillRest(sorter).buffer = <<>>
<1>1. /\ sorter \in [buffer : Seq(S), runs : Seq(Seq(S))] /\ \A r \in 1..Len(sorter.runs) : Strict(sorter.runs[r])
      /\ Distinct(sorter.buffer) /\ SorterOf(S, sorter)
  BY DEF RawSorterOf, SorterOf
<1>2. CASE sorter.buffer = <<>>
  <2>1. SpillRest(sorter) = sorter
    BY <1>2 DEF SpillRest
  <2> QED BY <1>2, <2>1
<1>3. CASE sorter.buffer # <<>>
  <2> DEFINE b == sorter.buffer
  <2> DEFINE run == RecordSort!Sorted(b)
  <2> DEFINE runs == Append(sorter.runs, run)
  <2>1. SpillRest(sorter) = [buffer |-> <<>>, runs |-> runs]
    BY <1>3 DEF SpillRest
  <2>2. b \in Seq(S) /\ Distinct(b) /\ Len(b) \in Nat /\ \A i \in 1..Len(b) : b[i] \in S
    BY <1>1
  <2> HIDE DEF b
  <2>3. run \in Seq(S) /\ Len(run) = Len(b) /\ \A j, k \in 1..Len(b) : j < k => ~LexLess(run[k], run[j])
    BY <2>2, SortedFacts
  <2>4. PICK p : Rearranges(p, b, run)
    BY <2>2, SortedFacts
  <2> HIDE DEF run
  <2>5. Strict(run)
    <3> SUFFICES ASSUME NEW j \in 1..Len(b), NEW k \in 1..Len(b), j < k PROVE LexLess(run[j], run[k])
      BY <2>3 DEF Strict
    <3>1. j # k /\ p[j] # p[k] /\ p[j] \in 1..Len(b) /\ p[k] \in 1..Len(b)
      <4>1. j # k
        BY <2>2
      <4>2. p[j] \in 1..Len(b) /\ p[k] \in 1..Len(b)
        BY <2>4 DEF Rearranges
      <4>3. p[j] = p[k] => j = k
        BY <2>4 DEF Rearranges
      <4> QED BY <4>1, <4>2, <4>3
    <3>2. run[j] = b[p[j]] /\ run[k] = b[p[k]]
      BY <2>4 DEF Rearranges
    <3>3. run[j] # run[k] /\ run[j] \in S /\ run[k] \in S
      BY <3>1, <3>2, <2>2 DEF Distinct
    <3> QED BY <3>3, <2>3 DEF LexOrdered
  <2>6. ToSet(run) = ToSet(b)
    BY <2>2, <2>3, <2>4, RearrangedSet
  <2>7. /\ runs \in Seq(Seq(S)) /\ Len(runs) = Len(sorter.runs) + 1 /\ runs[Len(sorter.runs) + 1] = run
        /\ \A r \in 1..Len(sorter.runs) : runs[r] = sorter.runs[r]
    BY <1>1, <2>3
  <2>8. Len(sorter.runs) \in Nat /\ 1..(Len(sorter.runs) + 1) = (1..Len(sorter.runs)) \cup {Len(sorter.runs) + 1}
    BY <1>1
  <2> HIDE DEF runs
  <2>9. RawSorterOf(S, [buffer |-> <<>>, runs |-> runs])
    <3>1. \A r \in 1..Len(runs) : Strict(runs[r])
      BY <1>1, <2>5, <2>7, <2>8
    <3>2. Distinct(<<>>)
      BY DEF Distinct
    <3> QED BY <2>7, <3>1, <3>2 DEF SorterOf, RawSorterOf
  <2>10. RunContents(runs) = RunContents(sorter.runs) \cup ToSet(run)
    BY <2>7, <2>8 DEF RunContents
  <2>11. Contents([buffer |-> <<>>, runs |-> runs]) = Contents(sorter)
    <3>1. ToSet(<<>>) = {}
      BY DEF ToSet
    <3> QED BY <3>1, <2>6, <2>10 DEF Contents, b
  <2> QED BY <2>1, <2>9, <2>11
<1> QED BY <1>2, <1>3

\* append() of one row that was not pushed before.
LEMMA PushRowFacts ==
  ASSUME NEW S, LexOrdered(S), NEW sorter, RawSorterOf(S, sorter), NEW row \in S, row \notin Contents(sorter),
         NEW limit
  PROVE  /\ RawSorterOf(S, PushRow(sorter, row, limit))
         /\ Contents(PushRow(sorter, row, limit)) = Contents(sorter) \cup {row}
<1> DEFINE grown == [sorter EXCEPT !.buffer = Append(@, row)]
<1>1. /\ sorter \in [buffer : Seq(S), runs : Seq(Seq(S))] /\ \A r \in 1..Len(sorter.runs) : Strict(sorter.runs[r])
      /\ Distinct(sorter.buffer)
  BY DEF RawSorterOf, SorterOf
<1>2. PushRow(sorter, row, limit) = IF Len(grown.buffer) < limit THEN grown ELSE SpillRest(grown)
  BY DEF PushRow
<1>3. /\ grown \in [buffer : Seq(S), runs : Seq(Seq(S))]
      /\ grown.runs = sorter.runs /\ grown.buffer = Append(sorter.buffer, row)
  <2>1. Append(sorter.buffer, row) \in Seq(S)
    BY <1>1
  <2>2. PICK more \in Seq(S) : more = Append(sorter.buffer, row)
    BY <2>1
  <2>3. grown = [sorter EXCEPT !.buffer = more]
    BY <2>2
  <2> HIDE DEF grown
  <2> QED BY <1>1, <2>2, <2>3
<1> HIDE DEF grown
<1>4. Distinct(grown.buffer)
  <2>1. PICK b \in Seq(S) : b = sorter.buffer
    BY <1>1
  <2>2. Len(b) \in Nat /\ DOMAIN b = 1..Len(b) /\ \A k \in 1..Len(b) : b[k] # row
    BY <2>1, <1>1 DEF Contents, ToSet
  <2>3. PICK w : w = Append(b, row)
    OBVIOUS
  <2>4. w \in Seq(S) /\ Len(w) = Len(b) + 1 /\ w[Len(b) + 1] = row /\ \A k \in 1..Len(b) : w[k] = b[k]
    BY <2>3
  <2>5. ASSUME NEW j \in 1..(Len(b) + 1), NEW k \in 1..(Len(b) + 1), w[j] = w[k] PROVE j = k
    <3>1. /\ j \in 1..Len(b) \/ j = Len(b) + 1
          /\ k \in 1..Len(b) \/ k = Len(b) + 1
      BY <2>2
    <3>2. \A i, l \in 1..Len(b) : b[i] = b[l] => i = l
      BY <1>1, <2>1 DEF Distinct
    <3> QED BY <3>1, <3>2, <2>2, <2>4, <2>5
  <2>6. Distinct(w)
    BY <2>4, <2>5 DEF Distinct
  <2> QED BY <2>1, <2>3, <2>6, <1>3
<1>5. RawSorterOf(S, grown)
  BY <1>1, <1>3, <1>4 DEF SorterOf, RawSorterOf
<1>6. ToSet(grown.buffer) = ToSet(sorter.buffer) \cup {row}
  BY <1>1, <1>3, AppendedSet
<1>7. Contents(grown) = Contents(sorter) \cup {row}
  BY <1>3, <1>6 DEF Contents
<1>8. RawSorterOf(S, SpillRest(grown)) /\ Contents(SpillRest(grown)) = Contents(grown)
  BY <1>5, SpillRestFacts
<1> QED BY <1>2, <1>5, <1>7, <1>8

\* One pass of AppendRows().
RowStep(call, sorter, i) == PushRow(sorter, call.rows[i], call.threshold)
Appending == INSTANCE Iteration WITH Step <- RowStep

\* append() adds new rows, whatever is spilled on the way.
LEMMA AppendRowsFacts ==
  ASSUME NEW S, LexOrdered(S), NEW sorter, RawSorterOf(S, sorter), NEW rows \in Seq(S), Distinct(rows),
         \A i \in 1..Len(rows) : rows[i] \notin Contents(sorter)
  PROVE  /\ RawSorterOf(S, AppendRows(sorter, rows))
         /\ Contents(AppendRows(sorter, rows)) = Contents(sorter) \cup ToSet(rows)
<1>0. Len(rows) \in Nat /\ DOMAIN rows = 1..Len(rows) /\ \A k \in 1..Len(rows) : rows[k] \in S
  OBVIOUS
<1>a. PICK limit : limit = threshold
  OBVIOUS
<1> DEFINE F == CHOOSE f : f = [n \in 0..Len(rows) |-> IF n = 0 THEN sorter ELSE PushRow(f[n - 1], rows[n], limit)]
<1> DEFINE call == [rows |-> rows, threshold |-> limit]
<1>1. AppendRows(sorter, rows) = F[Len(rows)]
  BY <1>a, Zenon DEF AppendRows
<1>2. \A s, i : RowStep(call, s, i) = PushRow(s, rows[i], limit)
  BY DEF RowStep
<1>3. F = [n \in 0..Len(rows) |-> IF n = 0 THEN sorter ELSE PushRow(F[n - 1], rows[n], limit)]
  <2>1. \E f : Appending!IsRun(f, call, sorter, Len(rows))
    BY <1>0, Appending!RunExists
  <2>2. \E f : f = [n \in 0..Len(rows) |-> IF n = 0 THEN sorter ELSE PushRow(f[n - 1], rows[n], limit)]
    <3> HIDE DEF call
    <3> QED BY <2>1, <1>2 DEF Appending!IsRun
  <2> QED BY <2>2
<1> HIDE DEF F, call
<1>4. F[0] = sorter
  BY <1>3, <1>0
<1>5. ASSUME NEW i \in 1..Len(rows) PROVE F[i] = PushRow(F[i - 1], rows[i], limit)
  <2>1. i \in 0..Len(rows) /\ i # 0
    BY <1>0
  <2> QED BY <1>3, <2>1
<1> DEFINE Good(n) == RawSorterOf(S, F[n]) /\ Contents(F[n]) = Contents(sorter) \cup {rows[i] : i \in 1..n}
<1> DEFINE T == {n \in Nat : n <= Len(rows) => Good(n)}
<1>6. 0 \in T
  <2>1. {rows[i] : i \in 1..0} = {}
    OBVIOUS
  <2> QED BY <2>1, <1>4
<1>7. ASSUME NEW n \in Nat, n \in T PROVE n + 1 \in T
  <2> SUFFICES ASSUME n + 1 <= Len(rows) PROVE Good(n + 1)
    OBVIOUS
  <2>1. n <= Len(rows) /\ n + 1 \in 1..Len(rows) /\ (n + 1) - 1 = n
    BY <1>0
  <2>2. Good(n)
    BY <1>7, <2>1
  <2>3. F[n + 1] = PushRow(F[n], rows[n + 1], limit) /\ rows[n + 1] \in S
    BY <2>1, <1>5, <1>0
  <2>4. rows[n + 1] \notin Contents(F[n])
    <3>1. ASSUME NEW i \in 1..n PROVE rows[i] # rows[n + 1]
      <4>1. i \in 1..Len(rows) /\ i # n + 1
        BY <2>1, <1>0
      <4> QED BY <4>1, <2>1 DEF Distinct
    <3>2. rows[n + 1] \notin Contents(sorter)
      BY <2>1
    <3> QED BY <2>2, <3>1, <3>2
  <2>5. RawSorterOf(S, F[n + 1]) /\ Contents(F[n + 1]) = Contents(F[n]) \cup {rows[n + 1]}
    BY <2>2, <2>3, <2>4, PushRowFacts
  <2>6. 1..(n + 1) = (1..n) \cup {n + 1}
    OBVIOUS
  <2>7. {rows[i] : i \in 1..(n + 1)} = {rows[i] : i \in 1..n} \cup {rows[n + 1]}
    BY <2>6
  <2> QED BY <2>2, <2>5, <2>7
<1>8. \A n \in Nat : n \in T
  <2>1. \A n \in Nat : n \in T => n + 1 \in T
    BY <1>7
  <2> HIDE DEF T
  <2> QED BY <1>6, <2>1, Appending!SetInduction
<1>9. Good(Len(rows))
  <2>1. Len(rows) \in T
    <3> HIDE DEF T
    <3> QED BY <1>0, <1>8
  <2>2. Len(rows) <= Len(rows)
    BY <1>0
  <2> HIDE DEF Good
  <2> QED BY <2>1, <2>2
<1>10. ToSet(rows) = {rows[i] : i \in 1..Len(rows)}
  BY <1>0 DEF ToSet
<1> QED BY <1>1, <1>9, <1>10

\* The occurrences of some games.
RowsOf(games, ids) == UNION {ToSet(GameRows(id, games[id])) : id \in ids}

\* What was appended and what is still queued are together the occurrences of
\* all games, no game is in both, and nothing is left in memory for the merge.
PostingsInv ==
  /\ library \in Libraries
  /\ queue \in Seq(DOMAIN library) /\ Distinct(queue)
  /\ RawSorterOf(Triples, records)
  /\ built \in {"replay", "merged"} =>
        /\ Contents(records) \cup RowsOf(library, ToSet(queue)) = RowsOf(library, DOMAIN library)
        /\ \A row \in Contents(records) : row[2] \notin ToSet(queue)
        /\ DOMAIN metadata = DOMAIN library \ ToSet(queue)
  /\ built = "merged" => queue = <<>> /\ records.buffer = <<>>

\* The stream merge_runs() writes the postings from lists every occurrence of
\* every canonical game once, by hash, game and ply, however append() and
\* finalize() spilled, and every game has its metadata.
OccurrencesMerged ==
  built = "merged" =>
      LET stream == RecordSort!Merged(records.runs)
      IN  /\ \A j, k \in 1..Len(stream) : j < k => LexLess(stream[j], stream[k])
          /\ ToSet(stream) = UNION {ToSet(GameRows(id, library[id])) : id \in DOMAIN library}
          /\ DOMAIN metadata = DOMAIN library

\* A game's rows are distinct records of that game.
LEMMA GameRowFacts ==
  ASSUME library \in Libraries, NEW id \in DOMAIN library
  PROVE  /\ GameRows(id, library[id]) \in Seq(Triples)
         /\ Distinct(GameRows(id, library[id]))
         /\ \A row \in ToSet(GameRows(id, library[id])) : row[2] = id
<1> DEFINE moves == library[id].moves
<1> DEFINE rows == GameRows(id, library[id])
<1>1. /\ id \in Nat /\ moves \in Seq(Nat) /\ Len(moves) \in Nat
      /\ Visited(moves) \subseteq 0..(BucketCount * BucketWidth - 1)
  BY IndexAssumption
<1>2. Visited(moves) = {Boards(moves)[ply] : ply \in 0..Len(moves)}
  BY DEF Visited
<1>3. rows = [i \in 1..(Len(moves) + 1) |-> <<Boards(moves)[i - 1], id, i - 1>>]
  BY DEF GameRows
<1> HIDE DEF moves, rows
<1>4. ASSUME NEW i \in 1..(Len(moves) + 1) PROVE <<Boards(moves)[i - 1], id, i - 1>> \in Triples
  <2>1. i - 1 \in 0..Len(moves) /\ i - 1 \in Nat
    BY <1>1
  <2>2. Boards(moves)[i - 1] \in Nat
    BY <2>1, <1>1, <1>2
  <2> QED BY <2>1, <2>2, <1>1 DEF Triples
<1>5. rows \in Seq(Triples) /\ Len(rows) = Len(moves) + 1 /\ DOMAIN rows = 1..(Len(moves) + 1)
  BY <1>1, <1>3, <1>4
<1>6. \A i \in 1..(Len(moves) + 1) : rows[i][2] = id /\ rows[i][3] = i - 1
  BY <1>3
<1>7. Distinct(rows)
  <2> SUFFICES ASSUME NEW j \in 1..(Len(moves) + 1), NEW k \in 1..(Len(moves) + 1), rows[j] = rows[k] PROVE j = k
    BY <1>5 DEF Distinct
  <2>1. j - 1 = k - 1
    BY <1>6
  <2> QED BY <2>1, <1>1
<1>8. \A row \in ToSet(rows) : row[2] = id
  BY <1>5, <1>6 DEF ToSet
<1> QED BY <1>5, <1>7, <1>8 DEF rows

\* The rest of a queue without repetition does not have its head.
LEMMA DistinctTail ==
  ASSUME NEW S, NEW s \in Seq(S), s # <<>>, Distinct(s)
  PROVE  Distinct(Tail(s)) /\ Head(s) \notin ToSet(Tail(s))
<1>1. Len(s) \in Nat \ {0} /\ Head(s) = s[1] /\ \A i \in 1..(Len(s) - 1) : Tail(s)[i] = s[i + 1]
  OBVIOUS
<1>2. PICK t \in Seq(S) : t = Tail(s)
  <2>1. Tail(s) \in Seq(S)
    OBVIOUS
  <2> QED BY <2>1
<1>3. Len(t) = Len(s) - 1 /\ DOMAIN t = 1..(Len(s) - 1) /\ \A i \in 1..(Len(s) - 1) : t[i] = s[i + 1]
  BY <1>1, <1>2
<1>4. \A i \in 1..(Len(s) - 1) : i + 1 \in 1..Len(s) /\ i + 1 # 1
  BY <1>1
<1>5. ASSUME NEW j \in 1..(Len(s) - 1), NEW k \in 1..(Len(s) - 1), t[j] = t[k] PROVE j = k
  <2>1. s[j + 1] = s[k + 1]
    BY <1>3, <1>5
  <2>2. j + 1 = k + 1
    BY <2>1, <1>4 DEF Distinct
  <2> QED BY <2>2, <1>1
<1>6. Distinct(t)
  BY <1>3, <1>5 DEF Distinct
<1>7. ASSUME s[1] \in ToSet(t) PROVE FALSE
  <2>1. PICK i \in 1..(Len(s) - 1) : t[i] = s[1]
    BY <1>3, <1>7 DEF ToSet
  <2>2. s[i + 1] = s[1] /\ 1 \in 1..Len(s)
    BY <2>1, <1>3, <1>1
  <2> QED BY <2>2, <1>4 DEF Distinct
<1> QED BY <1>1, <1>2, <1>6, <1>7

\* A build begins with every game queued and nothing appended.
LEMMA PostingsInvInit == Init => PostingsInv
<1> SUFFICES ASSUME Init PROVE PostingsInv
  OBVIOUS
<1>1. /\ library \in Libraries /\ queue = Ascending(DOMAIN library)
      /\ records = [buffer |-> <<>>, runs |-> <<>>] /\ metadata = <<>> /\ built = "replay"
  BY DEF Init, PostingsInit, RecordSort!NoRecords
<1>2. DOMAIN library \in SUBSET Nat /\ IsFiniteSet(DOMAIN library)
  BY <1>1, IndexAssumption
<1>3. /\ queue \in Seq(DOMAIN library) /\ ToSet(queue) = DOMAIN library /\ Len(queue) = Cardinality(DOMAIN library)
      /\ \A j, k \in 1..Cardinality(DOMAIN library) : j < k => queue[j] < queue[k]
  BY <1>1, <1>2, AscendingFacts
<1>4. Distinct(queue)
  <2>1. Len(queue) \in Nat /\ \A i \in 1..Len(queue) : queue[i] \in Nat
    BY <1>2, <1>3
  <2> SUFFICES ASSUME NEW j \in 1..Len(queue), NEW k \in 1..Len(queue), queue[j] = queue[k] PROVE j = k
    BY DEF Distinct
  <2>2. ~(queue[j] < queue[k]) /\ ~(queue[k] < queue[j])
    BY <2>1
  <2>3. ~(j < k) /\ ~(k < j)
    BY <2>2, <1>3
  <2> QED BY <2>1, <2>3
<1>5. RawSorterOf(Triples, records)
  BY <1>1 DEF SorterOf, RawSorterOf, Distinct
<1>6. Contents(records) = {} /\ DOMAIN metadata = {}
  BY <1>1 DEF Contents, RunContents, ToSet
<1> QED BY <1>1, <1>3, <1>4, <1>5, <1>6 DEF PostingsInv

\* append() of one game.
LEMMA AppendGameInv ==
  ASSUME PostingsInv, AppendGame, UNCHANGED library
  PROVE  PostingsInv'
<1> DEFINE id == Head(queue)
<1> DEFINE rows == GameRows(id, library[id])
<1>1. /\ built = "replay" /\ queue # <<>> /\ built' = "replay" /\ library' = library
      /\ records' = AppendRows(records, rows) /\ queue' = Tail(queue)
  BY DEF AppendGame
<1>2. DOMAIN metadata' = {id} \cup DOMAIN metadata
  BY DEF AppendGame
<1>3. /\ library \in Libraries /\ queue \in Seq(DOMAIN library) /\ Distinct(queue) /\ RawSorterOf(Triples, records)
      /\ Contents(records) \cup RowsOf(library, ToSet(queue)) = RowsOf(library, DOMAIN library)
      /\ \A row \in Contents(records) : row[2] \notin ToSet(queue)
      /\ DOMAIN metadata = DOMAIN library \ ToSet(queue)
  BY <1>1 DEF PostingsInv
<1>4. /\ id \in DOMAIN library /\ Tail(queue) \in Seq(DOMAIN library) /\ ToSet(queue) = {id} \cup ToSet(Tail(queue))
      /\ Distinct(Tail(queue)) /\ id \notin ToSet(Tail(queue))
  BY <1>1, <1>3, QueueFacts, DistinctTail
<1>5. rows \in Seq(Triples) /\ Distinct(rows) /\ \A row \in ToSet(rows) : row[2] = id
  BY <1>3, <1>4, GameRowFacts
<1>6. ToSet(rows) = RowsOf(library, {id})
  BY DEF RowsOf
<1> HIDE DEF rows, id
<1>7. \A i \in 1..Len(rows) : rows[i] \notin Contents(records)
  <2> TAKE i \in 1..Len(rows)
  <2>1. rows[i] \in ToSet(rows)
    BY <1>5 DEF ToSet
  <2> QED BY <2>1, <1>3, <1>4, <1>5
<1>8. RawSorterOf(Triples, records') /\ Contents(records') = Contents(records) \cup ToSet(rows)
  BY <1>1, <1>3, <1>5, <1>7, TriplesOrdered, AppendRowsFacts
<1>9. RowsOf(library, ToSet(queue)) = RowsOf(library, {id}) \cup RowsOf(library, ToSet(Tail(queue)))
  BY <1>4 DEF RowsOf
<1>10. Contents(records') \cup RowsOf(library, ToSet(queue')) = RowsOf(library, DOMAIN library)
  BY <1>1, <1>3, <1>6, <1>8, <1>9
<1>11. \A row \in Contents(records') : row[2] \notin ToSet(queue')
  BY <1>1, <1>3, <1>4, <1>5, <1>8
<1>12. DOMAIN metadata' = DOMAIN library \ ToSet(queue')
  BY <1>1, <1>2, <1>3, <1>4
<1> QED BY <1>1, <1>3, <1>4, <1>8, <1>10, <1>11, <1>12 DEF PostingsInv

\* Every step of a build keeps PostingsInv.
LEMMA PostingsInvStep == PostingsInv /\ [Next]_vars => PostingsInv'
<1> SUFFICES ASSUME PostingsInv, [Next]_vars PROVE PostingsInv'
  OBVIOUS
<1>1. ASSUME UNCHANGED <<library, postingsVars>> PROVE PostingsInv'
  BY <1>1 DEF PostingsInv, postingsVars
<1>2. ASSUME AppendFails, UNCHANGED library PROVE PostingsInv'
  BY <1>2 DEF AppendFails, PostingsInv
<1>3. ASSUME MergeRuns, UNCHANGED library PROVE PostingsInv'
  <2>1. RawSorterOf(Triples, records') /\ Contents(records') = Contents(records) /\ records'.buffer = <<>>
    BY <1>3, TriplesOrdered, SpillRestFacts DEF PostingsInv, MergeRuns
  <2> QED BY <1>3, <2>1 DEF MergeRuns, PostingsInv
<1>4. ASSUME FinalizeFails, UNCHANGED library PROVE PostingsInv'
  BY <1>4 DEF FinalizeFails, PostingsInv
<1>5. ASSUME PublishPostings, UNCHANGED library PROVE PostingsInv'
  <2>1. built' \in {"published", "rejected"} /\ UNCHANGED <<queue, records, metadata>>
    BY <1>5 DEF PublishPostings
  <2> QED BY <1>5, <2>1 DEF PostingsInv
<1>6. CASE BuildPostings
  BY <1>2, <1>3, <1>4, <1>5, <1>6, AppendGameInv DEF BuildPostings, PostingsNext
<1>7. CASE BuildTree
  BY <1>1, <1>7 DEF BuildTree
<1>8. CASE BuildPrefixes
  BY <1>1, <1>8 DEF BuildPrefixes
<1>9. CASE UNCHANGED vars
  BY <1>1, <1>9 DEF vars
<1> QED BY <1>6, <1>7, <1>8, <1>9 DEF Next

\* The occurrences of the games taken from the queue are in the buffer or in
\* a run, each once (append(), spill_current_buffer(), finalize()).
THEOREM PostingsBuildCorrect == Spec => []PostingsInv
BY PostingsInvInit, PostingsInvStep, PTL DEF Spec

\* The stream merge_runs() writes the postings from lists every occurrence of
\* every canonical game once, in order, whatever spilled, and every game has
\* its metadata.
THEOREM StreamIsExact == Spec => []OccurrencesMerged
<1>1. PostingsInv => OccurrencesMerged
  <2> SUFFICES ASSUME PostingsInv, built = "merged" PROVE OccurrencesMerged
    BY DEF OccurrencesMerged
  <2> DEFINE stream == RecordSort!Merged(records.runs)
  <2>1. /\ RawSorterOf(Triples, records) /\ records.buffer = <<>> /\ queue = <<>>
        /\ Contents(records) \cup RowsOf(library, ToSet(queue)) = RowsOf(library, DOMAIN library)
        /\ DOMAIN metadata = DOMAIN library \ ToSet(queue)
    BY DEF PostingsInv
  <2>2. RunsOf(Triples, records.runs)
    BY <2>1 DEF RawSorterOf, SorterOf, RunsOf
  <2>3. Strict(stream) /\ ToSet(stream) = RunContents(records.runs)
    BY <2>2, TriplesOrdered, MergedFacts
  <2>4. ToSet(<<>>) = {}
    BY DEF ToSet
  <2>5. RunContents(records.runs) = RowsOf(library, DOMAIN library)
    BY <2>1, <2>4 DEF Contents, RowsOf
  <2>6. DOMAIN metadata = DOMAIN library
    BY <2>1, <2>4
  <2> HIDE DEF stream
  <2>7. ToSet(stream) = UNION {ToSet(GameRows(id, library[id])) : id \in DOMAIN library}
    BY <2>3, <2>5 DEF RowsOf
  <2> QED BY <2>3, <2>6, <2>7 DEF OccurrencesMerged, Strict, stream
<1> QED BY <1>1, PostingsBuildCorrect, PTL
=============================================================================
