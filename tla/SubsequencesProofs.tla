------------------------- MODULE SubsequencesProofs -------------------------
(***************************************************************************)
(* What filtering a sequence keeps: its entries, and their order.          *)
(***************************************************************************)
EXTENDS Subsequences, FiniteSetTheorems, FunctionTheorems, SequenceTheorems, TLAPS

\* f says where in s each entry of t comes from: from the positions in I, all
\* of them, in their order.
From(f, t, s, I) ==
    /\ f \in [1..Len(t) -> I]
    /\ \A n \in 1..Len(t) : t[n] = s[f[n]]
    /\ \A m, n \in 1..Len(t) : m < n => f[m] < f[n]
    /\ \A i \in I : \E n \in 1..Len(t) : f[n] = i

\* The positions are counted without gaps, in their order.
LEMMA Ranks ==
    ASSUME NEW N \in Nat, NEW I, I \subseteq 1..N
    PROVE  /\ IsFiniteSet(I) /\ Cardinality(I) \in Nat
           /\ \A i \in I : Rank(I, i) \in 1..Cardinality(I)
           /\ \A i, j \in I : i < j => Rank(I, i) < Rank(I, j)
           /\ \A n \in 1..Cardinality(I) : \E i \in I : Rank(I, i) = n
<1> DEFINE Upto(i) == {j \in I : j =< i}
           c == Cardinality(I)
<1>0. \A i \in I : i \in Int  OBVIOUS
<1>1. IsFiniteSet(I) /\ c \in Nat
  <2>1. IsFiniteSet(1..N)  BY FS_Interval
  <2> QED  BY <2>1, FS_Subset, FS_CardinalityType
<1>2. ASSUME NEW i \in I
      PROVE  IsFiniteSet(Upto(i)) /\ Cardinality(Upto(i)) \in 1..c
  <2>1. Upto(i) \subseteq I /\ i \in Upto(i)  OBVIOUS
  <2> HIDE DEF Upto
  <2>2. IsFiniteSet(Upto(i)) /\ Cardinality(Upto(i)) =< c
        BY <1>1, <2>1, FS_Subset
  <2>3. Cardinality(Upto(i)) \in Nat /\ Cardinality(Upto(i)) # 0
        BY <2>1, <2>2, FS_CardinalityType, FS_EmptySet
  <2> QED  BY <1>1, <2>2, <2>3
<1>3. ASSUME NEW i \in I, NEW j \in I, i < j
      PROVE  Cardinality(Upto(i)) < Cardinality(Upto(j))
  <2>1. Upto(i) \subseteq Upto(j) /\ j \in Upto(j) /\ j \notin Upto(i)
    <3>1. i \in Int /\ j \in Int /\ j =< j /\ ~(j =< i)  BY <1>0, <1>3
    <3>2. \A k \in I : k =< i => k =< j  BY <1>0, <1>3
    <3> QED  BY <3>1, <3>2
  <2> HIDE DEF Upto
  <2>2. Cardinality(Upto(i)) =< Cardinality(Upto(j))
        BY <1>2, <2>1, FS_Subset
  <2>3. Cardinality(Upto(i)) # Cardinality(Upto(j))
        BY <1>2, <2>1, FS_Subset
  <2>4. Cardinality(Upto(i)) \in 1..c /\ Cardinality(Upto(j)) \in 1..c
        BY <1>2
  <2> QED  BY <1>1, <2>2, <2>3, <2>4
<1> DEFINE rank == [i \in I |-> Cardinality(Upto(i))]
<1> HIDE DEF Upto
<1>4. rank \in [I -> 1..c]  BY <1>2
<1>5. ASSUME NEW i \in I, NEW j \in I, rank[i] = rank[j] PROVE i = j
  <2>1. i \in Int /\ j \in Int  OBVIOUS
  <2>2. Cardinality(Upto(i)) = Cardinality(Upto(j)) /\ Cardinality(Upto(i)) \in 1..c
        BY <1>2, <1>5
  <2>3. ~(i < j) /\ ~(j < i)  BY <1>1, <1>3, <2>2
  <2> QED  BY <2>1, <2>3
<1>6. rank \in Surjection(I, 1..c)
  <2> HIDE DEF rank, c
  <2>1. rank \in Injection(I, 1..c)  BY <1>4, <1>5 DEF Injection, IsInjective
  <2>2. IsFiniteSet(1..c) /\ Cardinality(1..c) = Cardinality(I)
        BY <1>1, FS_Interval DEF c
  <2> QED  BY <1>1, <2>1, <2>2, FS_Injection
<1>7. \A n \in 1..c : \E i \in I : rank[i] = n
  <2> HIDE DEF rank, c
  <2> QED  BY <1>6 DEF Surjection
<1> QED  BY <1>1, <1>2, <1>3, <1>7 DEF Rank, Upto

\* Filtering returns a sequence of the entries at the positions kept.
LEMMA SubsequenceFrom ==
    ASSUME NEW T, NEW s \in Seq(T), NEW I, I \subseteq 1..Len(s)
    PROVE  /\ Subsequence(s, I) \in Seq(T)
           /\ Len(Subsequence(s, I)) = Cardinality(I)
           /\ \E f : From(f, Subsequence(s, I), s, I)
<1> DEFINE t == Subsequence(s, I)
           c == Cardinality(I)
           f == [n \in 1..c |-> CHOOSE i \in I : Rank(I, i) = n]
<1>1. Len(s) \in Nat /\ \A i \in 1..Len(s) : s[i] \in T
      BY LenProperties, ElementOfSeq
<1>0. \A i \in I : i \in Int  BY <1>1
<1>2. /\ c \in Nat
      /\ \A i \in I : Rank(I, i) \in 1..c
      /\ \A i, j \in I : i < j => Rank(I, i) < Rank(I, j)
      /\ \A n \in 1..c : \E i \in I : Rank(I, i) = n
      BY <1>1, Ranks
<1>3. ASSUME NEW n \in 1..c PROVE f[n] \in I /\ Rank(I, f[n]) = n
      BY <1>2
<1>4. t = [n \in 1..c |-> s[f[n]]]
      BY DEF Subsequence
<1> HIDE DEF f, t, c
<1>5. f \in [1..c -> I]  BY <1>3 DEF f
<1>6. \A n \in 1..c : s[f[n]] \in T  BY <1>1, <1>3
<1>7. t \in Seq(T) /\ Len(t) = c  BY <1>2, <1>4, <1>6
<1>8. \A n \in 1..c : t[n] = s[f[n]]  BY <1>4
<1>9. ASSUME NEW m \in 1..c, NEW n \in 1..c, m < n PROVE f[m] < f[n]
  <2>1. f[m] \in I /\ f[n] \in I /\ Rank(I, f[m]) = m /\ Rank(I, f[n]) = n  BY <1>3
  <2>2. f[m] \in Int /\ f[n] \in Int  BY <1>0, <2>1
  <2>3. f[m] # f[n] /\ ~(f[n] < f[m])
    <3>1. \A i, j \in I : i < j => Rank(I, i) < Rank(I, j)  BY <1>2
    <3>2. m \in Int /\ n \in Int /\ ~(n < m) /\ m # n  BY <1>9
    <3> QED  BY <2>1, <3>1, <3>2
  <2> QED  BY <2>2, <2>3
<1>10. ASSUME NEW i \in I PROVE \E n \in 1..c : f[n] = i
  <2>1. Rank(I, i) \in 1..c  BY <1>2
  <2>2. f[Rank(I, i)] \in I /\ Rank(I, f[Rank(I, i)]) = Rank(I, i)  BY <1>3, <2>1
  <2>3. f[Rank(I, i)] \in Int /\ i \in Int  BY <1>0, <2>2
  <2>4. ~(f[Rank(I, i)] < i) /\ ~(i < f[Rank(I, i)])
    <3>1. \A k, j \in I : k < j => Rank(I, k) < Rank(I, j)  BY <1>2
    <3>2. ~(Rank(I, i) < Rank(I, i))  BY <2>1
    <3> QED  BY <2>2, <3>1, <3>2
  <2> QED  BY <2>1, <2>3, <2>4
<1>11. From(f, t, s, I)  BY <1>5, <1>7, <1>8, <1>9, <1>10 DEF From
<1> QED  BY <1>7, <1>11 DEF t, c
=============================================================================
