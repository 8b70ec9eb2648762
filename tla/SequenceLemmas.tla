--------------------------- MODULE SequenceLemmas ---------------------------
(***************************************************************************)
(* Lemmas of no part in particular: the least of a set of numbers, the     *)
(* n-th of a set of positions, sequences from which an element is taken or *)
(* into which one is put, and the latest of a finite set.                  *)
(***************************************************************************)
EXTENDS Integers, Sequences, FiniteSets, SequencesExt, TLAPS, FiniteSetTheorems, SequenceTheorems

-----------------------------------------------------------------------------
(***************************************************************************)
(* Counting: the n-th of a finite set of positions.                        *)
(***************************************************************************)

\* Every nonempty set of natural numbers has a least element.
LEMMA LeastNat ==
  ASSUME NEW T, T \subseteq Nat, T # {}
  PROVE  \E m \in T : \A k \in T : m <= k
<1> DEFINE less == {ss \in Nat \X Nat : ss[1] < ss[2]}
<1>1. \E m \in T : \A k \in T : <<k, m>> \notin less
  <2>1. IsWellFoundedOn(less, Nat)  BY NatLessThanWellFounded DEF OpToRel
  <2> HIDE DEF less
  <2> QED  BY <2>1, WFMin, Zenon
<1>2. PICK m \in T : \A k \in T : <<k, m>> \notin less  BY <1>1
<1>3. ASSUME NEW k \in T, k < m
      PROVE  <<k, m>> \in less
  BY <1>3
<1>4. \A k \in T : k \in Nat  OBVIOUS
<1> HIDE DEF less
<1>5. ASSUME NEW k \in T
      PROVE  m <= k
  <2>1. k \in Nat /\ m \in Nat  BY <1>4
  <2>2. ~(k < m)  BY <1>2, <1>3
  <2> QED  BY <2>1, <2>2
<1> QED  BY <1>5

Before(K, i) == {j \in K : j <= i}

LEMMA BeforeCounts ==
  ASSUME NEW L \in Nat, NEW K \in SUBSET (1..L), NEW i \in Nat
  PROVE  /\ IsFiniteSet(K) /\ IsFiniteSet(Before(K, i))
         /\ Cardinality(K) \in Nat /\ Cardinality(Before(K, i)) \in Nat
         /\ Cardinality(Before(K, i)) <= Cardinality(K)
<1>1. IsFiniteSet(1..L)  BY FS_Interval
<1>2. IsFiniteSet(K)  BY <1>1, FS_Subset
<1>3. Before(K, i) \in SUBSET K  BY DEF Before
<1> QED  BY <1>2, <1>3, FS_Subset, FS_CardinalityType

LEMMA BeforeGrows ==
  ASSUME NEW L \in Nat, NEW K \in SUBSET (1..L), NEW i \in Nat \ {0}
  PROVE  Cardinality(Before(K, i)) =
           IF i \in K THEN Cardinality(Before(K, i - 1)) + 1 ELSE Cardinality(Before(K, i - 1))
<1> DEFINE B == Before(K, i - 1)
<1>1. IsFiniteSet(B)
  <2>1. i - 1 \in Nat  OBVIOUS
  <2> QED  BY <2>1, BeforeCounts
<1>4. \A j \in K : j <= i <=> j <= i - 1 \/ j = i  OBVIOUS
<1>2. CASE i \in K
  <2>1. Before(K, i) = B \cup {i}  BY <1>2, <1>4 DEF Before
  <2>2. i \notin B  BY DEF Before
  <2>3. Cardinality(B \cup {i}) = Cardinality(B) + 1  BY <1>1, <2>2, FS_AddElement, Zenon
  <2> QED  BY <1>2, <2>1, <2>3, Zenon
<1>3. CASE i \notin K
  <2>1. Before(K, i) = B  BY <1>3, <1>4 DEF Before
  <2> QED  BY <1>3, <2>1
<1> QED  BY <1>2, <1>3

\* Every rank up to the size of the set is the rank of one of its elements.
LEMMA RankTaken ==
  ASSUME NEW L \in Nat, NEW K \in SUBSET (1..L), NEW n \in 1..Cardinality(K)
  PROVE  \E i \in K : Cardinality(Before(K, i)) = n
<1> DEFINE c(i) == Cardinality(Before(K, i))
           T == {i \in Nat : c(i) >= n}
<1>1. \A i \in Nat : c(i) \in Nat  BY BeforeCounts
<1>2. L \in T
  <2>1. \A j \in K : j <= L  OBVIOUS
  <2>3. Before(K, L) = K  BY <2>1 DEF Before
  <2>2. Cardinality(K) \in Nat  BY BeforeCounts
  <2> QED  BY <2>2, <2>3
<1>3. PICK m \in T : \A k \in T : m <= k
  <2> HIDE DEF T
  <2> QED  BY <1>2, LeastNat DEF T
<1>4. m # 0
  <2>1. Before(K, 0) = {}
    <3>1. \A j \in K : ~(j <= 0)  OBVIOUS
    <3> QED  BY <3>1 DEF Before
  <2>2. Cardinality({}) = 0  BY FS_EmptySet
  <2>3. n >= 1  OBVIOUS
  <2> QED  BY <1>3, <2>1, <2>2, <2>3
<1>5. m \in Nat \ {0} /\ c(m) >= n  BY <1>3, <1>4
<1>6. ~(c(m - 1) >= n)  BY <1>3, <1>5
<1>7. c(m) = IF m \in K THEN c(m - 1) + 1 ELSE c(m - 1)  BY <1>5, BeforeGrows
<1>8. c(m) \in Nat /\ c(m - 1) \in Nat /\ n \in Nat  BY <1>1, <1>5
<1> HIDE DEF c
<1> QED
  <2>1. m \in K /\ c(m) = n  BY <1>5, <1>6, <1>7, <1>8
  <2> QED  BY <2>1 DEF c

\* The n-th position of a set of positions.
Nth(K, n) == CHOOSE i \in K : Cardinality(Before(K, i)) = n

LEMMA NthTaken ==
  ASSUME NEW L \in Nat, NEW K \in SUBSET (1..L), NEW n \in 1..Cardinality(K)
  PROVE  Nth(K, n) \in K /\ Cardinality(Before(K, Nth(K, n))) = n
BY RankTaken DEF Nth

\* Of two positions the later has the higher rank.
LEMMA RanksAscend ==
  ASSUME NEW L \in Nat, NEW K \in SUBSET (1..L), NEW i \in K, NEW j \in K, i < j
  PROVE  Cardinality(Before(K, i)) < Cardinality(Before(K, j))
<1>1. i \in Nat /\ j \in Nat /\ \A x \in K : x \in Nat  OBVIOUS
<1>2. /\ IsFiniteSet(Before(K, i)) /\ Cardinality(Before(K, i)) \in Nat
      /\ IsFiniteSet(Before(K, j)) /\ Cardinality(Before(K, j)) \in Nat
  BY <1>1, BeforeCounts
<1>3. j \notin Before(K, i)  BY <1>1 DEF Before
<1>4. Cardinality(Before(K, i) \cup {j}) = Cardinality(Before(K, i)) + 1
  BY <1>2, <1>3, FS_AddElement, Zenon
<1>5. Before(K, i) \cup {j} \in SUBSET Before(K, j)
  <2>1. \A x \in Before(K, i) : x \in Before(K, j)  BY <1>1 DEF Before
  <2>2. j \in Before(K, j)  BY <1>1 DEF Before
  <2> QED  BY <2>1, <2>2
<1>6. Cardinality(Before(K, i) \cup {j}) <= Cardinality(Before(K, j))
  BY <1>2, <1>5, FS_Subset
<1> QED  BY <1>2, <1>4, <1>6

\* Every position is that of its rank.
LEMMA NthOfRank ==
  ASSUME NEW L \in Nat, NEW K \in SUBSET (1..L), NEW i \in K
  PROVE  /\ Cardinality(Before(K, i)) \in 1..Cardinality(K)
         /\ Nth(K, Cardinality(Before(K, i))) = i
<1> DEFINE n == Cardinality(Before(K, i))
<1>1. i \in Nat /\ \A x \in K : x \in Nat  OBVIOUS
<1>2. /\ IsFiniteSet(Before(K, i)) /\ n \in Nat /\ Cardinality(K) \in Nat /\ n <= Cardinality(K)
  BY <1>1, BeforeCounts
<1>3. n # 0
  <2>1. i \in Before(K, i)  BY <1>1 DEF Before
  <2> QED  BY <1>2, <2>1, FS_EmptySet
<1>4. n \in 1..Cardinality(K)  BY <1>2, <1>3
<1> DEFINE j == Nth(K, n)
<1>5. j \in K /\ Cardinality(Before(K, j)) = n  BY <1>4, NthTaken
<1>6. j = i
  <2>1. j \in Nat  BY <1>1, <1>5
  <2> HIDE DEF j
  <2>2. CASE j < i
    <3>1. Cardinality(Before(K, j)) < n  BY <1>5, <2>2, RanksAscend
    <3> HIDE DEF n
    <3> QED  BY <1>2, <1>5, <3>1
  <2>3. CASE i < j
    <3>1. n < Cardinality(Before(K, j))  BY <1>5, <2>3, RanksAscend
    <3> HIDE DEF n
    <3> QED  BY <1>2, <1>5, <3>1
  <2> QED  BY <1>1, <2>1, <2>2, <2>3
<1> QED  BY <1>4, <1>6

\* Positions of the positions of K: to choose among the ranks is to choose among K.
LEMMA RanksOfRanks ==
  ASSUME NEW L \in Nat, NEW K \in SUBSET (1..L), NEW M \in SUBSET (1..Cardinality(K)),
         NEW N \in SUBSET K, \A i \in K : i \in N <=> Cardinality(Before(K, i)) \in M
  PROVE  /\ Cardinality(N) = Cardinality(M)
         /\ \A m \in 1..Cardinality(M) : Nth(M, m) \in M /\ Nth(N, m) = Nth(K, Nth(M, m))
<1> DEFINE rank(i) == Cardinality(Before(K, i))
<1>1. Cardinality(K) \in Nat  BY BeforeCounts
<1>2. \A i \in K : rank(i) \in Nat /\ i \in Nat /\ Nth(K, rank(i)) = i
  <2> SUFFICES ASSUME NEW i \in K PROVE rank(i) \in Nat /\ i \in Nat /\ Nth(K, rank(i)) = i
    OBVIOUS
  <2>1. rank(i) \in 1..Cardinality(K) /\ Nth(K, rank(i)) = i  BY NthOfRank
  <2> HIDE DEF rank
  <2> QED  BY <1>1, <2>1
<1>3. \A q \in M : q \in Nat /\ Nth(K, q) \in K /\ rank(Nth(K, q)) = q
  BY NthTaken
<1>4. \A q \in M : Nth(K, q) \in N  BY <1>3
<1>5. N \in SUBSET (1..L)  OBVIOUS
<1>6. IsFiniteSet(N) /\ IsFiniteSet(M)  BY <1>1, <1>5, BeforeCounts
<1>7. ASSUME NEW S \in SUBSET N, NEW T \in SUBSET M,
             \A i \in S : rank(i) \in T, \A q \in T : Nth(K, q) \in S
      PROVE  Cardinality(S) = Cardinality(T)
  <2> DEFINE f == [i \in S |-> rank(i)]
  <2>1. f \in [S -> T]  BY <1>7
  <2>2. \A a, b \in S : f[a] = f[b] => a = b
    <3> SUFFICES ASSUME NEW a \in S, NEW b \in S, f[a] = f[b] PROVE a = b  OBVIOUS
    <3>1. a \in K /\ b \in K  OBVIOUS
    <3>2. rank(a) = rank(b)  OBVIOUS
    <3> HIDE DEF rank
    <3> QED  BY <1>2, <3>1, <3>2
  <2>3. \A q \in T : \E i \in S : f[i] = q
    <3> SUFFICES ASSUME NEW q \in T PROVE \E i \in S : f[i] = q  OBVIOUS
    <3>1. Nth(K, q) \in S /\ rank(Nth(K, q)) = q  BY <1>3, <1>7
    <3> QED  BY <3>1
  <2> HIDE DEF f
  <2>4. ExistsBijection(S, T)
    <3>1. f \in Bijection(S, T)
      BY <2>1, <2>2, <2>3 DEF Bijection, Injection, Surjection, IsInjective
    <3> QED  BY <3>1 DEF ExistsBijection
  <2>5. IsFiniteSet(S)  BY <1>6, FS_Subset
  <2> QED  BY <2>4, <2>5, FS_Bijection
<1>8. Cardinality(N) = Cardinality(M)
  <2>1. \A i \in N : rank(i) \in M  OBVIOUS
  <2> HIDE DEF rank
  <2> QED  BY <1>4, <1>7, <2>1
<1>9. ASSUME NEW m \in 1..Cardinality(M)
      PROVE  Nth(M, m) \in M /\ Nth(N, m) = Nth(K, Nth(M, m))
  <2> DEFINE q == Nth(M, m)
             i == Nth(K, q)
  <2>1. q \in M /\ Cardinality(Before(M, q)) = m  BY <1>1, NthTaken
  <2>2. i \in N /\ i \in K /\ rank(i) = q  BY <1>3, <1>4, <2>1
  <2>3. Cardinality(Before(N, i)) = Cardinality(Before(M, q))
    <3>1. Before(N, i) \in SUBSET N /\ Before(M, q) \in SUBSET M  BY DEF Before
    <3>2. ASSUME NEW j \in Before(N, i) PROVE rank(j) \in Before(M, q)
      <4>1. j \in K /\ j <= i /\ rank(j) \in M  BY DEF Before
      <4>2. j \in Nat /\ i \in Nat /\ rank(j) \in Nat /\ q \in Nat  BY <1>2, <1>3, <2>1, <2>2, <4>1
      <4>3. j = i \/ j < i  BY <4>1, <4>2
      <4>4. rank(j) <= q
        <5> HIDE DEF i, q
        <5>1. CASE j = i  BY <2>2, <4>2, <5>1
        <5>2. CASE j < i
          <6>1. rank(j) < rank(i)  BY <2>2, <4>1, <5>2, RanksAscend
          <6> HIDE DEF rank
          <6> QED  BY <2>2, <4>2, <6>1
        <5> QED  BY <4>3, <5>1, <5>2
      <4> QED  BY <4>1, <4>4 DEF Before
    <3>3. ASSUME NEW p \in Before(M, q) PROVE Nth(K, p) \in Before(N, i)
      <4>1. p \in M /\ p <= q  BY DEF Before
      <4> DEFINE j == Nth(K, p)
      <4>2. j \in K /\ j \in N /\ rank(j) = p  BY <1>3, <1>4, <4>1
      <4>3. j \in Nat /\ i \in Nat /\ p \in Nat /\ q \in Nat  BY <1>2, <1>3, <2>1, <2>2, <4>1, <4>2
      <4>4. j <= i
        <5> HIDE DEF i, q, j
        <5> SUFFICES ASSUME i < j PROVE FALSE  BY <4>3
        <5>1. rank(i) < rank(j)  BY <2>2, <4>2, RanksAscend
        <5> HIDE DEF rank
        <5> QED  BY <2>2, <4>1, <4>2, <4>3, <5>1
      <4> QED  BY <4>2, <4>4 DEF Before
    <3> HIDE DEF rank, q, i
    <3> QED  BY <1>7, <3>1, <3>2, <3>3
  <2>4. Nth(N, Cardinality(Before(N, i))) = i  BY <1>5, <2>2, NthOfRank
  <2> QED  BY <2>1, <2>3, <2>4
<1> QED  BY <1>8, <1>9
-----------------------------------------------------------------------------
(***************************************************************************)
(* Sequences.                                                              *)
(***************************************************************************)

LEMMA FunctionIsSeq ==
  ASSUME NEW S, NEW n \in Nat, NEW f \in [1..n -> S]
  PROVE  f \in Seq(S) /\ Len(f) = n
OBVIOUS
LEMMA RemoveAtProperties ==
  ASSUME NEW S, NEW s \in Seq(S), NEW i \in 1..Len(s)
  PROVE  /\ RemoveAt(s, i) \in Seq(S)
         /\ Len(RemoveAt(s, i)) = Len(s) - 1
         /\ \A n \in 1..Len(s) - 1 : RemoveAt(s, i)[n] = IF n < i THEN s[n] ELSE s[n + 1]
<1> DEFINE before == SubSeq(s, 1, i - 1)
           after  == SubSeq(s, i + 1, Len(s))
<1>1. Len(s) \in Nat /\ \A n \in 1..Len(s) : s[n] \in S  OBVIOUS
<1>2. /\ before \in Seq(S) /\ Len(before) = i - 1
      /\ \A n \in 1..i - 1 : before[n] = s[n]
  BY <1>1, SubSeqProperties
<1>3. /\ after \in Seq(S) /\ Len(after) = Len(s) - i
      /\ \A n \in 1..Len(s) - i : after[n] = s[i + n]
  BY <1>1, SubSeqProperties
<1>4. RemoveAt(s, i) = before \o after  BY DEF RemoveAt
<1> HIDE DEF before, after
<1>5. /\ RemoveAt(s, i) \in Seq(S) /\ Len(RemoveAt(s, i)) = Len(s) - 1
  BY <1>1, <1>2, <1>3, <1>4, ConcatProperties
<1>6. ASSUME NEW n \in 1..Len(s) - 1
      PROVE  RemoveAt(s, i)[n] = IF n < i THEN s[n] ELSE s[n + 1]
  <2>1. RemoveAt(s, i)[n] = IF n <= i - 1 THEN before[n] ELSE after[n - (i - 1)]
    BY <1>1, <1>2, <1>3, <1>4, ConcatProperties
  <2> QED  BY <2>1, <1>1, <1>2, <1>3
<1> QED  BY <1>5, <1>6

LEMMA InsertAtProperties ==
  ASSUME NEW S, NEW s \in Seq(S), NEW len, Len(s) + 1 = len,
         NEW i \in 1..len, NEW n \in 1..len, NEW e \in S
  PROVE  /\ InsertAt(s, i, e) \in Seq(S)
         /\ Len(InsertAt(s, i, e)) = len
         /\ n < i => InsertAt(s, i, e)[n] = s[n]
         /\ n = i => InsertAt(s, i, e)[n] = e
         /\ n > i => InsertAt(s, i, e)[n] = s[n - 1]
<1> DEFINE before == SubSeq(s, 1, i - 1)
           after  == SubSeq(s, i, Len(s))
           upto   == before \o <<e>>
<1>1. Len(s) \in Nat /\ \A k \in 1..Len(s) : s[k] \in S  OBVIOUS
<1>2. /\ before \in Seq(S) /\ Len(before) = i - 1
      /\ \A k \in 1..i - 1 : before[k] = s[k]
  BY <1>1, SubSeqProperties
<1>3. /\ after \in Seq(S) /\ Len(after) = Len(s) - i + 1
      /\ \A k \in 1..Len(s) - i + 1 : after[k] = s[i + k - 1]
  BY <1>1, SubSeqProperties
<1>4. <<e>> \in Seq(S) /\ Len(<<e>>) = 1 /\ <<e>>[1] = e  OBVIOUS
<1> HIDE DEF before, after
<1>5. /\ upto \in Seq(S) /\ Len(upto) = i
      /\ \A k \in 1..i : upto[k] = IF k <= i - 1 THEN before[k] ELSE <<e>>[k - (i - 1)]
  BY <1>1, <1>2, <1>4, ConcatProperties
<1>6. InsertAt(s, i, e) = upto \o after  BY DEF InsertAt, before, after
<1> HIDE DEF upto
<1>7. /\ InsertAt(s, i, e) \in Seq(S) /\ Len(InsertAt(s, i, e)) = Len(s) + 1
  <2>1. upto \o after \in Seq(S) /\ Len(upto \o after) = Len(upto) + Len(after)
    BY <1>3, <1>5, ConcatProperties
  <2> QED  BY <1>1, <1>3, <1>5, <1>6, <2>1
<1>8. /\ n < i => InsertAt(s, i, e)[n] = s[n]
      /\ n = i => InsertAt(s, i, e)[n] = e
      /\ n > i => InsertAt(s, i, e)[n] = s[n - 1]
  <2>5. n \in 1..Len(upto) + Len(after)  BY <1>1, <1>3, <1>5
  <2>6. (upto \o after)[n] = IF n <= Len(upto) THEN upto[n] ELSE after[n - Len(upto)]
    BY <1>3, <1>5, <2>5, ConcatProperties
  <2>1. InsertAt(s, i, e)[n] = IF n <= i THEN upto[n] ELSE after[n - i]
    BY <1>5, <1>6, <2>6
  <2>2. CASE n < i  BY <1>1, <1>2, <1>5, <2>1, <2>2
  <2>3. CASE n = i  BY <1>1, <1>4, <1>5, <2>1, <2>3
  <2>4. CASE n > i  BY <1>1, <1>3, <2>1, <2>4
  <2> QED  BY <2>2, <2>3, <2>4
<1> QED  BY <1>1, <1>7, <1>8

\* A finite set has an element that none is later than.
LEMMA LatestTaken ==
  ASSUME NEW U, IsFiniteSet(U), U # {}, NEW time \in [U -> Int]
  PROVE  \E u \in U : \A x \in U : time[x] <= time[u]
<1> DEFINE later(u) == {x \in U : time[x] > time[u]}
           counts == {Cardinality(later(u)) : u \in U}
<1>1. \A u \in U : IsFiniteSet(later(u)) /\ Cardinality(later(u)) \in Nat
  <2>1. \A u \in U : later(u) \in SUBSET U  OBVIOUS
  <2> HIDE DEF later
  <2> QED  BY <2>1, FS_Subset, FS_CardinalityType
<1>2. counts \subseteq Nat /\ counts # {}  BY <1>1
<1>3. PICK m \in counts : \A k \in counts : m <= k
  <2> HIDE DEF counts
  <2> QED  BY <1>2, LeastNat
<1>4. PICK u \in U : m = Cardinality(later(u))  OBVIOUS
<1>5. ASSUME NEW x \in U, time[x] > time[u] PROVE FALSE
  <2>1. later(x) \in SUBSET later(u)
    <3>1. \A y \in U : time[y] \in Int  OBVIOUS
    <3> QED  BY <1>5, <3>1
  <2>2. x \in later(u) /\ x \notin later(x)
    <3>1. time[x] \in Int  OBVIOUS
    <3> QED  BY <1>5, <3>1
  <2>3. Cardinality(later(x)) \in counts  OBVIOUS
  <2> HIDE DEF later, counts
  <2>4. /\ Cardinality(later(x)) <= Cardinality(later(u))
        /\ Cardinality(later(x)) = Cardinality(later(u)) => later(x) = later(u)
    BY <1>1, <2>1, FS_Subset
  <2>5. m <= Cardinality(later(x))  BY <1>3, <2>3
  <2>6. Cardinality(later(x)) = Cardinality(later(u))
    BY <1>1, <1>4, <2>4, <2>5
  <2> QED  BY <2>2, <2>4, <2>6
<1>6. ASSUME NEW x \in U PROVE time[x] <= time[u]
  <2>1. time[x] \in Int /\ time[u] \in Int /\ ~(time[x] > time[u])  BY <1>5
  <2> QED  BY <2>1
<1> QED  BY <1>6

=============================================================================
