------------------------- MODULE SubsequenceProofs --------------------------
(***************************************************************************)
(* What is known about the elements of a sequence at some of its positions *)
(* (Subsequences), and about functions that are sequences.                 *)
(***************************************************************************)
EXTENDS Subsequences, Integers, SequencesExt, SequenceTheorems, FiniteSetTheorems,
        FunctionTheorems, TLAPS

-----------------------------------------------------------------------------
\* Ranks are counted from 1 and grow with the elements.
LEMMA RankRange ==
    ASSUME NEW S, S \subseteq Int, IsFiniteSet(S), NEW i \in S
    PROVE  Rank(S, i) \in 1..Cardinality(S) /\ Rank(S, i) \in Nat /\ Cardinality(S) \in Nat
<1>. DEFINE upTo == {j \in S : j <= i}
<1>1. upTo \in SUBSET S /\ i \in upTo
  <2>1. i \in Int
    OBVIOUS
  <2>. QED BY <2>1
<1>2. IsFiniteSet(upTo) /\ Cardinality(upTo) <= Cardinality(S)
  BY <1>1, FS_Subset
<1>3. Cardinality(upTo) \in Nat /\ Cardinality(upTo) # 0 /\ Cardinality(S) \in Nat
  BY <1>1, <1>2, FS_CardinalityType, FS_EmptySet
<1>4. Rank(S, i) = Cardinality(upTo)
  BY DEF Rank
<1>. HIDE DEF upTo
<1>5. ASSUME NEW r \in Nat, NEW c \in Nat, r # 0, r <= c PROVE r \in 1..c
  BY <1>5
<1>. QED BY <1>2, <1>3, <1>4, <1>5

LEMMA RankGrows ==
    ASSUME NEW S, S \subseteq Int, IsFiniteSet(S), NEW i \in S, NEW j \in S, i < j
    PROVE  Rank(S, i) < Rank(S, j)
<1>. DEFINE low == {k \in S : k <= i}
            high == {k \in S : k <= j}
<1>0. \A k \in S : k \in Int
  OBVIOUS
<1>1. low \in SUBSET high /\ high \in SUBSET S /\ j \in high /\ j \notin low
  <2>1. ASSUME NEW k \in S, k <= i PROVE k <= j
    BY <1>0, <2>1
  <2>2. j <= j /\ ~(j <= i)
    BY <1>0
  <2>. QED BY <2>1, <2>2
<1>2. IsFiniteSet(high) /\ IsFiniteSet(low)
  BY <1>1, FS_Subset
<1>3. Cardinality(low) <= Cardinality(high) /\ (Cardinality(high) = Cardinality(low) => high = low)
  BY <1>1, <1>2, FS_Subset
<1>4. Cardinality(low) \in Nat /\ Cardinality(high) \in Nat
  BY <1>2, FS_CardinalityType
<1>5. Rank(S, i) = Cardinality(low) /\ Rank(S, j) = Cardinality(high)
  BY DEF Rank
<1>6. low # high
  BY <1>1
<1>. HIDE DEF low, high
<1>. QED BY <1>3, <1>4, <1>5, <1>6

LEMMA RankTells ==
    ASSUME NEW S, S \subseteq Int, IsFiniteSet(S), NEW i \in S, NEW j \in S, Rank(S, i) = Rank(S, j)
    PROVE  i = j
<1>1. i \in Int /\ j \in Int /\ Rank(S, i) \in Nat /\ Rank(S, j) \in Nat
  BY RankRange
<1>2. ASSUME i < j PROVE FALSE
  <2>1. Rank(S, i) < Rank(S, j)
    BY <1>2, RankGrows
  <2>. QED BY <2>1, <1>1
<1>3. ASSUME j < i PROVE FALSE
  <2>1. Rank(S, j) < Rank(S, i)
    BY <1>3, RankGrows
  <2>. QED BY <2>1, <1>1
<1>. QED BY <1>1, <1>2, <1>3

\* Every number up to the size of S is the rank of one element.
LEMMA RankOnto ==
    ASSUME NEW S, S \subseteq Int, IsFiniteSet(S), NEW n \in 1..Cardinality(S)
    PROVE  \E i \in S : Rank(S, i) = n
<1>. DEFINE N == 1..Cardinality(S)
            f == [i \in S |-> Rank(S, i)]
<1>1. Cardinality(S) \in Nat
  BY FS_CardinalityType
<1>2. IsFiniteSet(N) /\ Cardinality(N) = Cardinality(S)
  BY <1>1, FS_Interval
<1>3. f \in [S -> N]
  BY RankRange
<1>4. ASSUME NEW i \in S, NEW j \in S, f[i] = f[j]
      PROVE  i = j
  <2>1. Rank(S, i) = Rank(S, j)
    BY <1>4
  <2>. QED BY <2>1, RankTells
<1>5. f \in Injection(S, N)
  BY <1>3, <1>4, Fun_IsInj, Zenon
<1>6. f \in Surjection(S, N)
  BY <1>2, <1>5, FS_Injection
<1>7. \E i \in S : f[i] = n
  BY <1>6 DEF Surjection
<1>. QED BY <1>7

LEMMA NthFacts ==
    ASSUME NEW S, S \subseteq Int, IsFiniteSet(S)
    PROVE  /\ Cardinality(S) \in Nat
           /\ \A n \in 1..Cardinality(S) : Nth(S, n) \in S /\ Rank(S, Nth(S, n)) = n
           /\ \A i \in S : Rank(S, i) \in 1..Cardinality(S) /\ Nth(S, Rank(S, i)) = i
           /\ \A m, n \in 1..Cardinality(S) : m < n => Nth(S, m) < Nth(S, n)
<1>1. Cardinality(S) \in Nat
  BY FS_CardinalityType
<1>2. ASSUME NEW n \in 1..Cardinality(S)
      PROVE  Nth(S, n) \in S /\ Rank(S, Nth(S, n)) = n
  BY RankOnto DEF Nth
<1>4. ASSUME NEW i \in S
      PROVE  Rank(S, i) \in 1..Cardinality(S) /\ Nth(S, Rank(S, i)) = i
  <2>1. Rank(S, i) \in 1..Cardinality(S)
    BY RankRange
  <2>. QED BY <2>1, <1>2, RankTells
<1>5. ASSUME NEW m \in 1..Cardinality(S), NEW n \in 1..Cardinality(S), m < n
      PROVE  Nth(S, m) < Nth(S, n)
  <2>1. /\ Nth(S, m) \in S /\ Rank(S, Nth(S, m)) = m
        /\ Nth(S, n) \in S /\ Rank(S, Nth(S, n)) = n
    BY <1>2
  <2>2. Nth(S, m) \in Int /\ Nth(S, n) \in Int /\ m \in Int /\ n \in Int /\ m # n
    <3>1. Nth(S, m) \in Int /\ Nth(S, n) \in Int
      BY <2>1
    <3>2. m \in Int /\ n \in Int /\ m # n
      BY <1>1, <1>5
    <3>. QED BY <3>1, <3>2
  <2>3. ASSUME Nth(S, n) < Nth(S, m) PROVE FALSE
    <3>1. Rank(S, Nth(S, n)) < Rank(S, Nth(S, m))
      BY <2>1, <2>3, RankGrows
    <3>. QED BY <3>1, <2>1, <2>2, <1>5
  <2>4. Nth(S, n) # Nth(S, m)
    BY <2>1, <2>2
  <2>. QED BY <2>2, <2>3, <2>4
<1>. QED BY <1>1, <1>2, <1>4, <1>5

-----------------------------------------------------------------------------
\* f maps the positions S of s to the positions T of t, in their order.
Corresponds(f, s, S, t, T) ==
    /\ f \in [S -> T]
    /\ \A i, j \in S : f[i] = f[j] => i = j
    /\ \A k \in T : \E i \in S : f[i] = k
    /\ \A i, j \in S : i <= j <=> f[i] <= f[j]
    /\ \A i \in S : s[i] = t[f[i]]

\* Two selections are the same if their positions correspond.
LEMMA SamePicked ==
    ASSUME NEW S, S \subseteq Int, IsFiniteSet(S), NEW T, T \subseteq Int, IsFiniteSet(T),
           NEW s, NEW t, NEW f, Corresponds(f, s, S, t, T)
    PROVE  Picked(s, S) = Picked(t, T)
<1>0. /\ f \in [S -> T]
      /\ \A i, j \in S : f[i] = f[j] => i = j
      /\ \A k \in T : \E i \in S : f[i] = k
      /\ \A i, j \in S : i <= j <=> f[i] <= f[j]
      /\ \A i \in S : s[i] = t[f[i]]
  BY DEF Corresponds
<1>1. Cardinality(S) = Cardinality(T)
  <2>1. f \in Bijection(S, T)
    BY <1>0, Fun_IsBij
  <2>2. ExistsBijection(S, T)
    BY <2>1 DEF ExistsBijection
  <2>. QED BY <2>2, FS_Bijection
<1>2. ASSUME NEW i \in S
      PROVE  Rank(T, f[i]) = Rank(S, i)
  <2>. DEFINE A == {j \in S : j <= i}
              B == {j \in T : j <= f[i]}
              g == [j \in A |-> f[j]]
  <2>1. g \in [A -> B]
    BY <1>0
  <2>2. \A j, k \in A : g[j] = g[k] => j = k
    BY <1>0
  <2>3. ASSUME NEW k \in B PROVE \E j \in A : g[j] = k
    <3>1. PICK j \in S : f[j] = k
      BY <1>0
    <3>2. j \in A
      BY <1>0, <3>1
    <3>. QED BY <3>1, <3>2
  <2>4. IsFiniteSet(A)
    BY FS_Subset
  <2>5. Rank(S, i) = Cardinality(A) /\ Rank(T, f[i]) = Cardinality(B)
    BY DEF Rank
  <2>. HIDE DEF A, B, g
  <2>6. g \in Bijection(A, B)
    BY <2>1, <2>2, <2>3, Fun_IsBij
  <2>7. ExistsBijection(A, B)
    BY <2>6 DEF ExistsBijection
  <2>. QED BY <2>4, <2>5, <2>7, FS_Bijection
<1>3. ASSUME NEW n \in 1..Cardinality(S)
      PROVE  s[Nth(S, n)] = t[Nth(T, n)]
  <2>1. Nth(S, n) \in S /\ Rank(S, Nth(S, n)) = n
    BY NthFacts
  <2>2. PICK i \in S : i = Nth(S, n) /\ Rank(S, i) = n
    BY <2>1
  <2>3. PICK j \in T : j = f[i] /\ Rank(T, j) = n
    BY <1>0, <1>2, <2>2
  <2>4. n \in 1..Cardinality(T)
    BY <1>1
  <2>5. PICK k \in T : k = Nth(T, n) /\ Rank(T, k) = n
    BY <2>4, NthFacts
  <2>6. j = k
    BY <2>3, <2>5, RankTells
  <2>7. s[i] = t[f[i]]
    BY <1>0
  <2>. QED BY Zenon, <2>2, <2>3, <2>5, <2>6, <2>7
<1>. QED BY <1>1, <1>3 DEF Picked

\* A function on 1..n is a sequence of length n.
LEMMA ListOfLength ==
    ASSUME NEW S, NEW n \in Nat, NEW q \in [1..n -> S]
    PROVE  q \in Seq(S) /\ Len(q) = n /\ DOMAIN q = 1..n
<1>1. q \in Seq(S)
  BY SeqDef, Zenon
<1>2. DOMAIN q = 1..n /\ DOMAIN q = 1..Len(q) /\ Len(q) \in Nat
  BY <1>1, LenProperties
<1>3. PICK m : m = Len(q)
  OBVIOUS
<1>4. m \in Nat /\ 1..m = 1..n
  BY <1>2, <1>3
<1>5. m = n
  <2>1. n = 0 => m = 0
    <3>1. ASSUME n = 0, m # 0 PROVE FALSE
      <4>1. 1 \in 1..m /\ 1 \notin 1..n
        BY <1>4, <3>1
      <4>. QED BY <1>4, <4>1
    <3>. QED BY <3>1
  <2>2. n # 0 => n \in 1..m
    BY <1>4
  <2>3. m # 0 => m \in 1..n
    BY <1>4
  <2>. QED BY <1>4, <2>1, <2>2, <2>3
<1>. QED BY <1>1, <1>2, <1>3, <1>5

\* What RemoveAt and InsertAt of the community modules make of a sequence
LEMMA RemovedAt ==
    ASSUME NEW S, NEW q \in Seq(S), NEW i \in 1..Len(q)
    PROVE  /\ RemoveAt(q, i) \in Seq(S) /\ Len(RemoveAt(q, i)) = Len(q) - 1
           /\ \A k \in 1..(i - 1) : RemoveAt(q, i)[k] = q[k]
           /\ \A k \in i..(Len(q) - 1) : RemoveAt(q, i)[k] = q[k + 1]
<1>. DEFINE n == Len(q)
            a == SubSeq(q, 1, i - 1)
            b == SubSeq(q, i + 1, n)
            p == RemoveAt(q, i)
<1>1. n \in Nat /\ i \in Nat /\ 1 <= i /\ i <= n /\ \A k \in 1..n : q[k] \in S
  BY LenProperties, ElementOfSeq
<1>2. a \in Seq(S) /\ Len(a) = i - 1 /\ \A k \in 1..(i - 1) : a[k] = q[k]
  <2>1. \A k \in 1..(i - 1) : q[k] \in S
    BY <1>1
  <2>2. /\ a \in Seq(S) /\ Len(a) = IF 1 <= i - 1 THEN (i - 1) - 1 + 1 ELSE 0
        /\ \A k \in 1..((i - 1) - 1 + 1) : a[k] = q[1 + k - 1]
    BY <1>1, <2>1, SubSeqProperties
  <2>. QED
    BY <1>1, <2>2
<1>3. b \in Seq(S) /\ Len(b) = n - i /\ \A k \in 1..(n - i) : b[k] = q[i + k]
  <2>1. \A k \in (i + 1)..n : q[k] \in S
    BY <1>1
  <2>2. /\ b \in Seq(S) /\ Len(b) = IF i + 1 <= n THEN n - (i + 1) + 1 ELSE 0
        /\ \A k \in 1..(n - (i + 1) + 1) : b[k] = q[(i + 1) + k - 1]
    BY <1>1, <2>1, SubSeqProperties
  <2>. QED
    BY <1>1, <2>2
<1>4. p = a \o b
  BY DEF RemoveAt
<1>. HIDE DEF a, b, p, n
<1>5. /\ p \in Seq(S) /\ Len(p) = Len(a) + Len(b)
      /\ \A k \in 1..(Len(a) + Len(b)) : p[k] = IF k <= Len(a) THEN a[k] ELSE b[k - Len(a)]
  BY <1>2, <1>3, <1>4, ConcatProperties
<1>6. Len(p) = n - 1
  BY <1>1, <1>2, <1>3, <1>5
<1>7. ASSUME NEW k \in 1..(i - 1) PROVE p[k] = q[k]
  BY <1>1, <1>2, <1>3, <1>5
<1>8. ASSUME NEW k \in i..(n - 1) PROVE p[k] = q[k + 1]
  <2>1. k \in 1..(Len(a) + Len(b)) /\ ~(k <= Len(a)) /\ k - Len(a) \in 1..(n - i)
        /\ i + (k - Len(a)) = k + 1
    BY <1>1, <1>2, <1>3
  <2>2. p[k] = b[k - Len(a)]
    BY <1>5, <2>1
  <2>3. b[k - Len(a)] = q[i + (k - Len(a))]
    BY <1>3, <2>1
  <2>. QED BY <2>1, <2>2, <2>3
<1>. QED BY <1>5, <1>6, <1>7, <1>8 DEF p, n

LEMMA InsertedAt ==
    ASSUME NEW S, NEW q \in Seq(S), NEW e \in S, NEW i \in 1..(Len(q) + 1)
    PROVE  /\ InsertAt(q, i, e) \in Seq(S) /\ Len(InsertAt(q, i, e)) = Len(q) + 1
           /\ InsertAt(q, i, e)[i] = e
           /\ \A k \in 1..(i - 1) : InsertAt(q, i, e)[k] = q[k]
           /\ \A k \in i..Len(q) : InsertAt(q, i, e)[k + 1] = q[k]
<1>. DEFINE n == Len(q)
            a == SubSeq(q, 1, i - 1)
            b == SubSeq(q, i, n)
            c == Append(a, e)
            p == InsertAt(q, i, e)
<1>1. n \in Nat /\ i \in Nat /\ 1 <= i /\ i <= n + 1 /\ \A k \in 1..n : q[k] \in S
  BY LenProperties, ElementOfSeq
<1>2. a \in Seq(S) /\ Len(a) = i - 1 /\ \A k \in 1..(i - 1) : a[k] = q[k]
  <2>1. \A k \in 1..(i - 1) : q[k] \in S
    BY <1>1
  <2>2. /\ a \in Seq(S) /\ Len(a) = IF 1 <= i - 1 THEN (i - 1) - 1 + 1 ELSE 0
        /\ \A k \in 1..((i - 1) - 1 + 1) : a[k] = q[1 + k - 1]
    BY <1>1, <2>1, SubSeqProperties
  <2>. QED
    BY <1>1, <2>2
<1>3. b \in Seq(S) /\ Len(b) = n - i + 1 /\ \A k \in 1..(n - i + 1) : b[k] = q[i + k - 1]
  <2>1. \A k \in i..n : q[k] \in S
    BY <1>1
  <2>2. /\ b \in Seq(S) /\ Len(b) = IF i <= n THEN n - i + 1 ELSE 0
        /\ \A k \in 1..(n - i + 1) : b[k] = q[i + k - 1]
    BY <1>1, <2>1, SubSeqProperties
  <2>. QED
    BY <1>1, <2>2
<1>. HIDE DEF a, b, n
<1>4. /\ c \in Seq(S) /\ Len(c) = i /\ c[i] = e
      /\ \A k \in 1..(i - 1) : c[k] = q[k]
  <2>1. /\ c \in Seq(S) /\ Len(c) = Len(a) + 1
        /\ \A k \in 1..Len(a) : c[k] = a[k]
        /\ c[Len(a) + 1] = e
    BY <1>2, AppendProperties
  <2>. HIDE DEF c
  <2>. QED BY <1>1, <1>2, <2>1
<1>5. p = c \o b
  <2>1. a \o <<e>> = c
    BY <1>2, AppendIsConcat
  <2>2. p = (a \o <<e>>) \o b
    BY DEF InsertAt, a, b, n
  <2>. QED BY <2>1, <2>2
<1>. HIDE DEF c, p
<1>6. /\ p \in Seq(S) /\ Len(p) = Len(c) + Len(b)
      /\ \A k \in 1..(Len(c) + Len(b)) : p[k] = IF k <= Len(c) THEN c[k] ELSE b[k - Len(c)]
  BY <1>3, <1>4, <1>5, ConcatProperties
<1>7. Len(p) = n + 1
  BY <1>1, <1>3, <1>4, <1>6
<1>8. p[i] = e
  BY <1>1, <1>3, <1>4, <1>6
<1>9. ASSUME NEW k \in 1..(i - 1) PROVE p[k] = q[k]
  BY <1>1, <1>3, <1>4, <1>6
<1>10. ASSUME NEW k \in i..n PROVE p[k + 1] = q[k]
  <2>1. k + 1 \in 1..(Len(c) + Len(b)) /\ ~(k + 1 <= Len(c)) /\ k + 1 - Len(c) \in 1..(n - i + 1)
        /\ i + (k + 1 - Len(c)) - 1 = k
    BY <1>1, <1>3, <1>4
  <2>2. p[k + 1] = b[k + 1 - Len(c)]
    BY <1>6, <2>1
  <2>3. b[k + 1 - Len(c)] = q[i + (k + 1 - Len(c)) - 1]
    BY <1>3, <2>1
  <2>. QED BY <2>1, <2>2, <2>3
<1>. QED BY <1>6, <1>7, <1>8, <1>9, <1>10 DEF p, n

-----------------------------------------------------------------------------
(* The rank of any number, in S or not                                       *)

LEMMA RankUpTo ==
    ASSUME NEW S, S \subseteq Int, IsFiniteSet(S), NEW i \in Int, NEW j \in Int, i <= j
    PROVE  /\ Rank(S, i) \in Nat /\ Rank(S, i) <= Cardinality(S) /\ Cardinality(S) \in Nat
           /\ Rank(S, i) <= Rank(S, j)
           /\ \A k \in S : i < k /\ k <= j => Rank(S, i) < Rank(S, j)
<1>. DEFINE low == {k \in S : k <= i}
            high == {k \in S : k <= j}
<1>0. \A k \in S : k \in Int
  OBVIOUS
<1>1. low \in SUBSET high /\ high \in SUBSET S /\ low \in SUBSET S
  <2>1. ASSUME NEW k \in S, k <= i PROVE k <= j
    BY <1>0, <2>1
  <2>. QED BY <2>1
<1>2. IsFiniteSet(high) /\ IsFiniteSet(low)
  BY <1>1, FS_Subset
<1>3. /\ Cardinality(low) <= Cardinality(high) /\ (Cardinality(high) = Cardinality(low) => high = low)
      /\ Cardinality(low) <= Cardinality(S)
  BY <1>1, <1>2, FS_Subset
<1>4. Cardinality(low) \in Nat /\ Cardinality(high) \in Nat /\ Cardinality(S) \in Nat
  BY <1>2, FS_CardinalityType
<1>5. Rank(S, i) = Cardinality(low) /\ Rank(S, j) = Cardinality(high)
  BY DEF Rank
<1>6. ASSUME NEW k \in S, i < k, k <= j PROVE low # high
  <2>1. k \in high /\ k \notin low
    BY <1>0, <1>6
  <2>. QED BY <2>1
<1>. HIDE DEF low, high
<1>7. ASSUME NEW k \in S, i < k, k <= j PROVE Rank(S, i) < Rank(S, j)
  BY <1>3, <1>4, <1>5, <1>6, <1>7
<1>. QED BY <1>3, <1>4, <1>5, <1>7
=============================================================================
