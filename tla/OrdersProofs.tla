---------------------------- MODULE OrdersProofs ----------------------------
(***************************************************************************)
(* What Orders computes for every finite set of numbers.                   *)
(***************************************************************************)
EXTENDS Orders, Sequences, FiniteSetTheorems, TLAPS

\* Ascending lists the numbers of a finite set once each.
LEMMA AscendingLists ==
    ASSUME NEW S \in SUBSET Int, IsFiniteSet(S)
    PROVE  /\ Cardinality(S) \in Nat
           /\ Ascending(S) \in [1 .. Cardinality(S) -> S]
           /\ \A i \in S : \E k \in 1 .. Cardinality(S) : Ascending(S)[k] = i
           /\ \A k, l \in 1 .. Cardinality(S) :
                 k < l => Ascending(S)[k] < Ascending(S)[l]
<1> DEFINE upto(i) == {j \in S : j <= i}
           rank == [i \in S |-> Cardinality(upto(i))]
           N == Cardinality(S)
<1>1. N \in Nat
  BY FS_CardinalityType
<1>2. \A i \in S : IsFiniteSet(upto(i)) /\ Cardinality(upto(i)) \in 1 .. N
  <2> TAKE i \in S
  <2>1. upto(i) \in SUBSET S
    OBVIOUS
  <2>2. IsFiniteSet(upto(i)) /\ Cardinality(upto(i)) <= N
    BY <2>1, FS_Subset
  <2>3. Cardinality(upto(i)) \in Nat
    BY <2>2, FS_CardinalityType
  <2>4. i \in upto(i)
    OBVIOUS
  <2>5. Cardinality(upto(i)) # 0
    BY <2>2, <2>4, FS_EmptySet
  <2> QED BY <1>1, <2>2, <2>3, <2>5
<1>3. \A i, j \in S : i < j => Cardinality(upto(i)) < Cardinality(upto(j))
  <2> SUFFICES ASSUME NEW i \in S, NEW j \in S, i < j
               PROVE  Cardinality(upto(i)) < Cardinality(upto(j))
    OBVIOUS
  <2>1. upto(i) \in SUBSET upto(j)
    <3>1. \A x \in S : x <= i => x <= j
      OBVIOUS
    <3> QED BY <3>1
  <2>2. upto(i) # upto(j)
    <3>1. j \in upto(j) /\ j \notin upto(i)
      OBVIOUS
    <3> HIDE DEF upto
    <3> QED BY <3>1
  <2>3. /\ Cardinality(upto(i)) <= Cardinality(upto(j))
        /\ Cardinality(upto(i)) # Cardinality(upto(j))
    BY <1>2, <2>1, <2>2, FS_Subset
  <2> QED BY <1>2, <2>3
<1>4. rank \in [S -> 1 .. N]
  BY <1>2
<1>5. rank \in Injection(S, 1 .. N)
  <2>1. \A i, j \in S : rank[i] = rank[j] => i = j
    BY <1>2, <1>3
  <2> QED BY <1>4, <2>1 DEF Injection, IsInjective
<1>6. IsFiniteSet(1 .. N) /\ Cardinality(1 .. N) = N
  BY <1>1, FS_Interval
<1>7. rank \in Surjection(S, 1 .. N)
  BY <1>5, <1>6, FS_Injection
<1>8. \A k \in 1 .. N : \E i \in S : Cardinality(upto(i)) = k
  BY <1>7 DEF Surjection
<1> DEFINE at(k) == CHOOSE i \in S : Cardinality(upto(i)) = k
<1>9. \A k \in 1 .. N : at(k) \in S /\ Cardinality(upto(at(k))) = k
  BY <1>8
<1>10. Ascending(S) = [k \in 1 .. N |-> at(k)]
  BY DEF Ascending
<1> HIDE DEF at
<1>11. /\ Ascending(S) \in [1 .. N -> S]
       /\ \A k \in 1 .. N : /\ Ascending(S)[k] \in S
                              /\ Cardinality(upto(Ascending(S)[k])) = k
  BY <1>9, <1>10
<1> HIDE DEF upto, N
<1>14. S \subseteq Int /\ \A i \in S : Cardinality(upto(i)) \in Int
  BY <1>2
<1>12. ASSUME NEW i \in S PROVE \E k \in 1 .. N : Ascending(S)[k] = i
  <2> DEFINE k == Cardinality(upto(i))
  <2>1. k \in 1 .. N
    BY <1>2
  <2>2. Ascending(S)[k] \in S /\ Cardinality(upto(Ascending(S)[k])) = k
    BY <1>11, <2>1
  <2>3. ~ (Ascending(S)[k] < i) /\ ~ (i < Ascending(S)[k])
    <3>1. \A a \in S : Cardinality(upto(a)) = Cardinality(upto(i)) => ~ (a < i) /\ ~ (i < a)
      BY <1>3, <1>14
    <3> QED BY <2>2, <3>1
  <2>4. Ascending(S)[k] \in Int /\ i \in Int
    BY <1>14, <2>2
  <2> HIDE DEF k
  <2> QED BY <2>1, <2>3, <2>4
<1>13. ASSUME NEW k \in 1 .. N, NEW l \in 1 .. N, k < l
       PROVE  Ascending(S)[k] < Ascending(S)[l]
  <2>1. /\ Ascending(S)[k] \in S /\ Cardinality(upto(Ascending(S)[k])) = k
        /\ Ascending(S)[l] \in S /\ Cardinality(upto(Ascending(S)[l])) = l
    BY <1>11
  <2>2. k \in Int /\ l \in Int /\ Ascending(S)[k] \in Int /\ Ascending(S)[l] \in Int
    BY <1>14, <2>1
  <2>3. ~ (Ascending(S)[l] < Ascending(S)[k])
    BY <1>3, <1>13, <2>1, <2>2
  <2>4. Ascending(S)[l] # Ascending(S)[k]
    BY <1>13, <2>1, <2>2
  <2> QED BY <2>2, <2>3, <2>4
<1> QED BY <1>1, <1>11, <1>12, <1>13 DEF N

\* A finite set of numbers that is not empty has a least one.
LEMMA LeastIs ==
    ASSUME NEW S \in SUBSET Int, IsFiniteSet(S), S # {}
    PROVE  \E i \in S : \A j \in S : i <= j
<1>1. Cardinality(S) \in Nat /\ Cardinality(S) # 0
  BY FS_CardinalityType, FS_EmptySet
<1> DEFINE i == Ascending(S)[1]
<1>2. i \in S
  BY <1>1, AscendingLists
<1>3. \A j \in S : i <= j
  <2> TAKE j \in S
  <2>1. PICK k \in 1 .. Cardinality(S) : Ascending(S)[k] = j
    BY AscendingLists
  <2>2. k = 1 \/ 1 < k
    BY <1>1, <2>1
  <2>3. 1 < k => i < j
    BY <1>1, <2>1, AscendingLists
  <2>4. i \in Int /\ j \in Int
    BY <1>2
  <2> QED BY <2>1, <2>2, <2>3, <2>4
<1> QED BY <1>2, <1>3
\* Selected keeps entries of the list, each place once and in order.
LEMMA SelectedLists ==
    ASSUME NEW T, NEW s \in Seq(T), NEW S \in SUBSET DOMAIN s
    PROVE  /\ Selected(s, S) \in Seq(T)
           /\ \A i \in S : \E k \in DOMAIN Selected(s, S) : Selected(s, S)[k] = s[i]
           /\ \E at \in [DOMAIN Selected(s, S) -> S] :
                 /\ \A k \in DOMAIN Selected(s, S) : Selected(s, S)[k] = s[at[k]]
                 /\ \A k, l \in DOMAIN Selected(s, S) : at[k] = at[l] => k = l
<1> DEFINE N == Cardinality(S)
           at == Ascending(S)
<1>1. DOMAIN s = 1 .. Len(s) /\ Len(s) \in Nat /\ \A i \in DOMAIN s : s[i] \in T
  OBVIOUS
<1>2. IsFiniteSet(S) /\ S \in SUBSET Int
  <2>1. IsFiniteSet(DOMAIN s)
    BY <1>1, FS_Interval
  <2> QED BY <1>1, <2>1, FS_Subset
<1>3. /\ N \in Nat /\ at \in [1 .. N -> S]
      /\ \A i \in S : \E k \in 1 .. N : at[k] = i
      /\ \A k, l \in 1 .. N : k < l => at[k] < at[l]
  BY <1>2, AscendingLists
<1>4. Selected(s, S) = [k \in 1 .. N |-> s[at[k]]]
  BY DEF Selected
<1> HIDE DEF at, N
<1>5. \A k, l \in 1 .. N : at[k] = at[l] => k = l
  <2> TAKE k, l \in 1 .. N
  <2>1. k \in Int /\ l \in Int /\ at[k] \in Int /\ at[l] \in Int
    BY <1>2, <1>3
  <2> QED BY <1>3, <2>1
<1>6. DOMAIN Selected(s, S) = 1 .. N /\ Selected(s, S) \in [1 .. N -> T]
  BY <1>1, <1>3, <1>4
<1>7. Selected(s, S) \in Seq(T)
  BY <1>3, <1>6
<1>8. /\ at \in [DOMAIN Selected(s, S) -> S]
      /\ \A k \in DOMAIN Selected(s, S) : Selected(s, S)[k] = s[at[k]]
  BY <1>3, <1>4, <1>6
<1>9. \A i \in S : \E k \in DOMAIN Selected(s, S) : Selected(s, S)[k] = s[i]
  BY <1>3, <1>6, <1>8
<1>10. \E f \in [DOMAIN Selected(s, S) -> S] :
          /\ \A k \in DOMAIN Selected(s, S) : Selected(s, S)[k] = s[f[k]]
          /\ \A k, l \in DOMAIN Selected(s, S) : f[k] = f[l] => k = l
  <2> USE <1>8
  <2> WITNESS at \in [DOMAIN Selected(s, S) -> S]
  <2> QED BY <1>5, <1>6, <1>8
<1> QED BY <1>7, <1>9, <1>10
=============================================================================
