------------------------- MODULE SubsequenceProofs --------------------------
(***************************************************************************)
(* Numbers and sequences: what Only keeps of a queue, and sequences        *)
(* without repetition that are joined, extended and split.                 *)
(***************************************************************************)
EXTENDS Subsequences, Functions, FunctionTheorems, FiniteSetTheorems,
        SequenceTheorems, WellFoundedInduction, TLAPS

\* A set of natural numbers has a least element, if it has any.
LEMMA LeastNumber ==
  ASSUME NEW T \in SUBSET Nat, T # {}
  PROVE  \E x \in T : \A y \in T : x <= y
<1>1. PICK x \in T : \A y \in T : <<y, x>> \notin OpToRel(<, Nat)
  BY NatLessThanWellFounded, WFMin
<1>2. \A y \in T : ~ (y < x)
  BY <1>1 DEF OpToRel
<1> QED BY <1>2

\* Compared with a quotient, a number is compared with its multiple.
LEMMA AtMostQuotient ==
  ASSUME NEW n \in Int, NEW d \in Nat \ {0}, NEW k \in Int
  PROVE  k <= n \div d <=> k * d <= n
<1> DEFINE q == n \div d
<1>1. n \div d \in Int /\ n % d \in 0 .. d - 1 /\ n = d * (n \div d) + (n % d)
  OBVIOUS
<1>2. q \in Int /\ d * q <= n /\ n < d * q + d
  BY <1>1
<1> HIDE DEF q
<1>3. CASE k <= q
  <2>1. k * d <= q * d
    BY <1>2, <1>3
  <2> QED BY <1>2, <1>3, <2>1
<1>4. CASE k > q
  <2>1. k * d >= (q + 1) * d
    BY <1>2, <1>4
  <2>2. (q + 1) * d = d * q + d
    BY <1>2
  <2>3. k * d > n
    BY <1>2, <2>1, <2>2
  <2> QED BY <1>2, <1>4, <2>3
<1> QED BY <1>2, <1>3, <1>4 DEF q

(* The n-th smallest element of a finite set of integers exists: ranking a *)
(* set is a bijection onto 1 .. its size.                                  *)
LEMMA RankIsBijection ==
  ASSUME NEW K, K \subseteq Int, IsFiniteSet(K)
  PROVE  /\ Cardinality(K) \in Nat
         /\ \A i \in K : Cardinality({j \in K : j <= i}) \in 1 .. Cardinality(K)
         /\ \A n \in 1 .. Cardinality(K) :
              \E i \in K : Cardinality({j \in K : j <= i}) = n
         /\ \A i, k \in K :
              Cardinality({j \in K : j <= i}) = Cardinality({j \in K : j <= k}) => i = k
         /\ \A i, k \in K :
              i < k => Cardinality({j \in K : j <= i}) < Cardinality({j \in K : j <= k})
<1> DEFINE upto(i) == {j \in K : j <= i}
           rank == [i \in K |-> Cardinality(upto(i))]
<1>1. \A i \in K : /\ upto(i) \in SUBSET K /\ i \in upto(i)
                   /\ IsFiniteSet(upto(i)) /\ Cardinality(upto(i)) \in Nat
                   /\ Cardinality(upto(i)) <= Cardinality(K)
  BY FS_Subset, FS_CardinalityType
<1>2. Cardinality(K) \in Nat
  BY FS_CardinalityType
<1>3. \A i \in K : Cardinality(upto(i)) \in 1 .. Cardinality(K)
  BY <1>1, <1>2, FS_EmptySet
<1>4. \A i, k \in K : i < k => Cardinality(upto(i)) < Cardinality(upto(k))
  <2> SUFFICES ASSUME NEW i \in K, NEW k \in K, i < k
               PROVE  Cardinality(upto(i)) < Cardinality(upto(k))
    OBVIOUS
  <2>1. \A j \in K : j \in Int
    OBVIOUS
  <2>2. /\ \A j \in K : j <= i => j <= k
        /\ k <= k /\ ~(k <= i)
    BY <2>1
  <2>3. upto(i) \in SUBSET upto(k) /\ upto(i) # upto(k)
    BY <2>2
  <2> HIDE DEF upto
  <2>4. /\ Cardinality(upto(i)) <= Cardinality(upto(k))
        /\ Cardinality(upto(i)) # Cardinality(upto(k))
    BY <1>1, <2>3, FS_Subset
  <2> QED BY <1>1, <2>4
<1>5. rank \in Injection(K, 1 .. Cardinality(K))
  <2>1. rank \in [K -> 1 .. Cardinality(K)]
    BY <1>3
  <2>2. ASSUME NEW a \in K, NEW b \in K, rank[a] = rank[b]
        PROVE  a = b
    <3> HIDE DEF upto
    <3> QED BY <2>2, <1>4, <1>1
  <2> HIDE DEF rank
  <2> QED BY <2>1, <2>2, Fun_IsInj
<1>6. rank \in Surjection(K, 1 .. Cardinality(K))
  <2>1. IsFiniteSet(1 .. Cardinality(K)) /\ Cardinality(1 .. Cardinality(K)) = Cardinality(K)
    BY <1>2, FS_Interval
  <2> HIDE DEF rank
  <2> QED BY <1>5, <2>1, FS_Injection
<1>7. /\ \A n \in 1 .. Cardinality(K) : \E i \in K : rank[i] = n
      /\ \A i, k \in K : rank[i] = rank[k] => i = k
  <2> HIDE DEF rank
  <2>1. \A n \in 1 .. Cardinality(K) : \E i \in K : rank[i] = n
    BY <1>6, Fun_SurjectionProperties
  <2>2. \A i, k \in K : rank[i] = rank[k] => i = k
    BY <1>5, Fun_InjectionProperties
  <2> QED BY <2>1, <2>2
<1> QED BY <1>2, <1>3, <1>4, <1>7

(* What Only keeps of a sequence: its elements that are in S, no more often *)
(* than they were.                                                          *)
LEMMA OnlyProperties ==
  ASSUME NEW T, NEW s \in Seq(T), NEW S
  PROVE  /\ Only(s, S) \in Seq(T)
         /\ Range(Only(s, S)) = Range(s) \cap S
         /\ IsInjective(s) => IsInjective(Only(s, S))
         /\ (\A i, j \in DOMAIN s : s[i] = s[j] /\ s[i] \in S => i = j) => IsInjective(Only(s, S))
<1> DEFINE kept == {i \in DOMAIN s : s[i] \in S}
           rank(i) == Cardinality({j \in kept : j <= i})
           Nth(n) == CHOOSE i \in kept : rank(i) = n
           N == Cardinality(kept)
<1>1. DOMAIN s = 1 .. Len(s) /\ Len(s) \in Nat /\ \A i \in DOMAIN s : s[i] \in T
  BY LenProperties, ElementOfSeq
<1>2. kept \subseteq Int /\ IsFiniteSet(kept)
  <2>1. IsFiniteSet(1 .. Len(s)) /\ kept \in SUBSET (1 .. Len(s))
    BY <1>1, FS_Interval
  <2> QED BY <2>1, FS_Subset, <1>1
<1>3. /\ N \in Nat
      /\ \A i \in kept : rank(i) \in 1 .. N
      /\ \A n \in 1 .. N : \E i \in kept : rank(i) = n
      /\ \A i, k \in kept : rank(i) = rank(k) => i = k
  <2> HIDE DEF kept
  <2> QED BY <1>2, RankIsBijection
<1>4. \A n \in 1 .. N : Nth(n) \in kept /\ rank(Nth(n)) = n
  <2> HIDE DEF kept, rank, N
  <2> QED BY <1>3
<1>5. Only(s, S) = [n \in 1 .. N |-> s[Nth(n)]]
  BY DEF Only
<1>6. \A i \in kept : Nth(rank(i)) = i
  <2> HIDE DEF kept, rank, N, Nth
  <2> QED BY <1>3, <1>4
<1> HIDE DEF rank, Nth, N
<1>7. \A n \in 1 .. N : s[Nth(n)] \in T /\ s[Nth(n)] \in S
  BY <1>1, <1>4
<1>8. Only(s, S) \in Seq(T) /\ DOMAIN Only(s, S) = 1 .. N
  BY <1>3, <1>5, <1>7
<1>9. Range(Only(s, S)) \subseteq Range(s) \cap S
  BY <1>4, <1>5, <1>7, <1>8 DEF Range
<1>10. ASSUME NEW x \in Range(s) \cap S PROVE x \in Range(Only(s, S))
  <2>1. PICK i \in kept : s[i] = x
    BY DEF Range
  <2>2. rank(i) \in 1 .. N
    BY <1>3
  <2>3. Only(s, S)[rank(i)] = x
    BY <1>5, <1>6, <2>1, <2>2
  <2> QED BY <1>8, <2>2, <2>3 DEF Range
<1>11. (\A i, j \in DOMAIN s : s[i] = s[j] /\ s[i] \in S => i = j) => IsInjective(Only(s, S))
  <2> SUFFICES ASSUME \A i, j \in DOMAIN s : s[i] = s[j] /\ s[i] \in S => i = j,
                      NEW m \in 1 .. N, NEW n \in 1 .. N, s[Nth(m)] = s[Nth(n)]
               PROVE  m = n
    BY <1>5, <1>8 DEF IsInjective
  <2>1. Nth(m) = Nth(n)
    BY <1>4
  <2> QED BY <1>4, <2>1
<1>12. IsInjective(s) => IsInjective(Only(s, S))
  BY <1>11 DEF IsInjective
<1> QED BY <1>8, <1>9, <1>10, <1>11, <1>12
(* Only keeps the order: what comes later in it came later in the sequence, *)
(* and what is kept of the sequence comes in the same order.                *)
LEMMA OnlyKeepsOrder ==
  ASSUME NEW T, NEW s \in Seq(T), NEW S
  PROVE  /\ \A m, n \in DOMAIN Only(s, S) : m < n =>
              \E i, j \in DOMAIN s : i < j /\ s[i] = Only(s, S)[m] /\ s[j] = Only(s, S)[n]
         /\ \A i, j \in DOMAIN s : i < j /\ s[i] \in S /\ s[j] \in S =>
              \E m, n \in DOMAIN Only(s, S) :
                m < n /\ Only(s, S)[m] = s[i] /\ Only(s, S)[n] = s[j]
<1> DEFINE kept == {i \in DOMAIN s : s[i] \in S}
           rank(i) == Cardinality({j \in kept : j <= i})
           Nth(n) == CHOOSE i \in kept : rank(i) = n
           N == Cardinality(kept)
<1>1. DOMAIN s = 1 .. Len(s) /\ Len(s) \in Nat
  BY LenProperties
<1>2. kept \subseteq Int /\ IsFiniteSet(kept)
  <2>1. IsFiniteSet(1 .. Len(s)) /\ kept \in SUBSET (1 .. Len(s))
    BY <1>1, FS_Interval
  <2> QED BY <2>1, FS_Subset, <1>1
<1>3. /\ N \in Nat
      /\ \A i \in kept : rank(i) \in 1 .. N
      /\ \A n \in 1 .. N : \E i \in kept : rank(i) = n
      /\ \A i, k \in kept : rank(i) = rank(k) => i = k
      /\ \A i, k \in kept : i < k => rank(i) < rank(k)
  <2> HIDE DEF kept
  <2> QED BY <1>2, RankIsBijection
<1>4. \A n \in 1 .. N : Nth(n) \in kept /\ rank(Nth(n)) = n
  <2> HIDE DEF kept, rank, N
  <2> QED BY <1>3
<1>5. Only(s, S) = [n \in 1 .. N |-> s[Nth(n)]]
  BY DEF Only
<1>6. \A i \in kept : Nth(rank(i)) = i
  <2> HIDE DEF kept, rank, N, Nth
  <2> QED BY <1>3, <1>4
<1>7. ASSUME NEW m \in 1 .. N, NEW n \in 1 .. N, m < n
      PROVE  Nth(m) \in DOMAIN s /\ Nth(n) \in DOMAIN s /\ Nth(m) < Nth(n)
  <2>1. /\ Nth(m) \in kept /\ Nth(n) \in kept /\ Nth(m) \in DOMAIN s /\ Nth(n) \in DOMAIN s
        /\ rank(Nth(m)) = m /\ rank(Nth(n)) = n
    BY <1>4
  <2> HIDE DEF kept, rank, Nth
  <2>2. Nth(n) # Nth(m) /\ ~ (Nth(n) < Nth(m))
    BY <1>3, <1>7, <2>1
  <2> QED BY <1>2, <2>1, <2>2
<1>8. ASSUME NEW i \in kept, NEW j \in kept, i < j
      PROVE  /\ rank(i) \in 1 .. N /\ rank(j) \in 1 .. N /\ rank(i) < rank(j)
             /\ Only(s, S)[rank(i)] = s[i] /\ Only(s, S)[rank(j)] = s[j]
  <2> HIDE DEF kept, rank, N, Nth
  <2> QED BY <1>3, <1>5, <1>6, <1>8
<1>9. DOMAIN Only(s, S) = 1 .. N
  BY <1>5
<1>10. \A i, j \in DOMAIN s : s[i] \in S /\ s[j] \in S => i \in kept /\ j \in kept
  OBVIOUS
<1> HIDE DEF kept, rank, N, Nth
<1>11. ASSUME NEW m \in DOMAIN Only(s, S), NEW n \in DOMAIN Only(s, S), m < n
       PROVE  \E i, j \in DOMAIN s : i < j /\ s[i] = Only(s, S)[m] /\ s[j] = Only(s, S)[n]
  <2>1. Only(s, S)[m] = s[Nth(m)] /\ Only(s, S)[n] = s[Nth(n)]
    BY <1>5, <1>9
  <2> QED BY <1>7, <1>9, <1>11, <2>1
<1>12. ASSUME NEW i \in DOMAIN s, NEW j \in DOMAIN s, i < j, s[i] \in S, s[j] \in S
       PROVE  \E m, n \in DOMAIN Only(s, S) :
                m < n /\ Only(s, S)[m] = s[i] /\ Only(s, S)[n] = s[j]
  BY <1>8, <1>9, <1>10, <1>12
<1> QED BY <1>11, <1>12
-----------------------------------------------------------------------------
\* Sequences without repetition and nothing in common, one after the other.
LEMMA ConcatInjective ==
  ASSUME NEW T, NEW s \in Seq(T), NEW t \in Seq(T), IsInjective(s), IsInjective(t),
         Range(s) \cap Range(t) = {}
  PROVE  IsInjective(s \o t)
<1>1. /\ DOMAIN (s \o t) = 1 .. Len(s) + Len(t) /\ Len(s) \in Nat /\ Len(t) \in Nat
      /\ DOMAIN s = 1 .. Len(s) /\ DOMAIN t = 1 .. Len(t)
      /\ \A i \in DOMAIN (s \o t) :
           (s \o t)[i] = IF i <= Len(s) THEN s[i] ELSE t[i - Len(s)]
  BY ConcatProperties, LenProperties
<1> SUFFICES ASSUME NEW i \in DOMAIN (s \o t), NEW j \in DOMAIN (s \o t),
                    (s \o t)[i] = (s \o t)[j]
             PROVE  i = j
  BY DEF IsInjective
<1>2. CASE i <= Len(s) /\ j <= Len(s)
  BY <1>1, <1>2 DEF IsInjective
<1>3. CASE i > Len(s) /\ j > Len(s)
  <2>1. i - Len(s) \in DOMAIN t /\ j - Len(s) \in DOMAIN t /\ t[i - Len(s)] = t[j - Len(s)]
    BY <1>1, <1>3
  <2>2. i - Len(s) = j - Len(s)
    BY <2>1 DEF IsInjective
  <2> QED BY <1>1, <2>2
<1>4. CASE (i <= Len(s) /\ j > Len(s)) \/ (i > Len(s) /\ j <= Len(s))
  <2>1. \A k \in DOMAIN s, l \in DOMAIN t : s[k] # t[l]
    BY DEF Range
  <2>2. ASSUME NEW k \in DOMAIN (s \o t), NEW l \in DOMAIN (s \o t), k <= Len(s), l > Len(s)
        PROVE  (s \o t)[k] # (s \o t)[l]
    <3>1. k \in DOMAIN s /\ l - Len(s) \in DOMAIN t
      BY <1>1, <2>2
    <3> QED BY <1>1, <2>1, <2>2, <3>1
  <2> QED BY <1>4, <2>2
<1> QED BY <1>1, <1>2, <1>3, <1>4

\* One element more at the end.
LEMMA AppendRange ==
  ASSUME NEW T, NEW s \in Seq(T), NEW e \in T
  PROVE  /\ Append(s, e) \in Seq(T)
         /\ Range(Append(s, e)) = Range(s) \cup {e}
         /\ IsInjective(s) /\ e \notin Range(s) => IsInjective(Append(s, e))
<1>1. Append(s, e) = s \o <<e>> /\ <<e>> \in Seq(T) /\ Append(s, e) \in Seq(T)
  BY AppendIsConcat
<1>2. Range(<<e>>) = {e} /\ IsInjective(<<e>>)
  BY DEF Range, IsInjective
<1>3. Range(s \o <<e>>) = Range(s) \cup {e}
  <2> DEFINE one == <<e>>
  <2>1. one \in Seq(T) /\ Range(one) = {e}
    BY <1>1, <1>2
  <2> HIDE DEF one
  <2>2. Range(s \o one) = Range(s) \cup {e}
    BY <2>1, RangeConcatenation
  <2> QED BY <2>2 DEF one
<1>4. IsInjective(s) /\ e \notin Range(s) => IsInjective(s \o <<e>>)
  <2>1. e \notin Range(s) => Range(s) \cap Range(<<e>>) = {}
    BY <1>2
  <2> QED BY <1>1, <1>2, <2>1, ConcatInjective
<1> QED BY <1>1, <1>3, <1>4

(* The last p elements of a sequence and the ones before them. *)
LEMMA SplitProperties ==
  ASSUME NEW T, NEW s \in Seq(T), NEW p \in 0 .. Len(s)
  PROVE  LET front == SubSeq(s, 1, Len(s) - p)
             back  == SubSeq(s, Len(s) - p + 1, Len(s))
         IN /\ front \in Seq(T) /\ back \in Seq(T)
            /\ Range(front) \cup Range(back) = Range(s)
            /\ p = 0 => front = s /\ back = <<>>
            /\ IsInjective(s) => /\ IsInjective(front) /\ IsInjective(back)
                                 /\ Range(front) \cap Range(back) = {}
<1> DEFINE m == Len(s) - p
           front == SubSeq(s, 1, m)
           back  == SubSeq(s, m + 1, Len(s))
<1>1. Len(s) \in Nat /\ DOMAIN s = 1 .. Len(s) /\ m \in 0 .. Len(s)
      /\ \A i \in 1 .. Len(s) : s[i] \in T
  BY LenProperties, ElementOfSeq
<1>2. front \in Seq(T) /\ Len(front) = m /\ \A i \in 1 .. m : front[i] = s[i]
  <2>1. \A i \in 1 .. m : s[i] \in T
    BY <1>1
  <2> HIDE DEF m
  <2>2. /\ SubSeq(s, 1, m) \in Seq(T)
        /\ Len(SubSeq(s, 1, m)) = IF 1 <= m THEN m - 1 + 1 ELSE 0
        /\ \A i \in 1 .. m - 1 + 1 : SubSeq(s, 1, m)[i] = s[1 + i - 1]
    BY <1>1, <2>1, SubSeqProperties
  <2> QED BY <1>1, <2>2
<1>3. /\ back \in Seq(T) /\ Len(back) = p
      /\ \A i \in 1 .. p : back[i] = s[m + i]
  <2>1. \A i \in m + 1 .. Len(s) : s[i] \in T
    BY <1>1
  <2>2. /\ back \in Seq(T)
        /\ Len(back) = IF m + 1 <= Len(s) THEN Len(s) - (m + 1) + 1 ELSE 0
        /\ \A i \in 1 .. Len(s) - (m + 1) + 1 : back[i] = s[(m + 1) + i - 1]
    <3> HIDE DEF m
    <3> QED BY <1>1, <2>1, SubSeqProperties
  <2> QED BY <1>1, <2>2
<1>4. DOMAIN front = 1 .. m /\ DOMAIN back = 1 .. p
  BY <1>2, <1>3, LenProperties
<1> HIDE DEF front, back
<1>5. Range(front) \cup Range(back) = Range(s)
  <2>1. Range(front) \subseteq Range(s) /\ Range(back) \subseteq Range(s)
    <3>1. \A i \in 1 .. p : m + i \in DOMAIN s /\ back[i] = s[m + i]
      BY <1>1, <1>3
    <3>2. \A i \in 1 .. m : i \in DOMAIN s /\ front[i] = s[i]
      BY <1>1, <1>2
    <3> HIDE DEF m
    <3> QED BY <1>4, <3>1, <3>2 DEF Range
  <2>2. ASSUME NEW i \in DOMAIN s PROVE s[i] \in Range(front) \cup Range(back)
    <3>1. CASE i <= m
      BY <1>1, <1>2, <1>4, <3>1 DEF Range
    <3>2. CASE i > m
      <4>1. i - m \in 1 .. p /\ m + (i - m) = i
        BY <1>1, <3>2
      <4> QED BY <1>3, <1>4, <4>1 DEF Range
    <3> QED BY <1>1, <3>1, <3>2
  <2> QED BY <2>1, <2>2 DEF Range
<1>6. p = 0 => front = s /\ back = <<>>
  BY <1>1, <1>2, <1>3, SeqEqual, EmptySeq
<1>7. ASSUME IsInjective(s)
      PROVE  IsInjective(front) /\ IsInjective(back) /\ Range(front) \cap Range(back) = {}
  <2>1. \A i, j \in 1 .. Len(s) : s[i] = s[j] => i = j
    BY <1>1, <1>7 DEF IsInjective
  <2>2. \A i, j \in 1 .. m : front[i] = front[j] => i = j
    BY <1>1, <1>2, <2>1
  <2>3. \A i, j \in 1 .. p : back[i] = back[j] => i = j
    <3> SUFFICES ASSUME NEW i \in 1 .. p, NEW j \in 1 .. p, back[i] = back[j]
                 PROVE  i = j
      OBVIOUS
    <3>1. m + i \in 1 .. Len(s) /\ m + j \in 1 .. Len(s) /\ s[m + i] = s[m + j]
      <4>1. m + i \in 1 .. Len(s) /\ m + j \in 1 .. Len(s)
        BY <1>1
      <4>2. back[i] = s[m + i] /\ back[j] = s[m + j]
        BY <1>3
      <4> QED BY <4>1, <4>2
    <3>2. m + i = m + j
      BY <2>1, <3>1
    <3> QED BY <1>1, <3>2
  <2>4. \A i \in 1 .. m, j \in 1 .. p : front[i] # back[j]
    <3> SUFFICES ASSUME NEW i \in 1 .. m, NEW j \in 1 .. p
                 PROVE  front[i] # back[j]
      OBVIOUS
    <3>1. i \in 1 .. Len(s) /\ m + j \in 1 .. Len(s) /\ i # m + j
      BY <1>1
    <3>2. front[i] = s[i] /\ back[j] = s[m + j]
      BY <1>2, <1>3
    <3> QED BY <2>1, <3>1, <3>2
  <2> QED BY <1>4, <2>2, <2>3, <2>4 DEF IsInjective, Range
<1> QED BY <1>2, <1>3, <1>5, <1>6, <1>7 DEF front, back

\* Of a sequence without repetition, so are the parts.
LEMMA ConcatInjectiveParts ==
  ASSUME NEW T, NEW s \in Seq(T), NEW t \in Seq(T), IsInjective(s \o t)
  PROVE  IsInjective(s) /\ IsInjective(t) /\ Range(s) \cap Range(t) = {}
<1>1. /\ DOMAIN (s \o t) = 1 .. Len(s) + Len(t) /\ Len(s) \in Nat /\ Len(t) \in Nat
      /\ DOMAIN s = 1 .. Len(s) /\ DOMAIN t = 1 .. Len(t)
      /\ \A i \in DOMAIN (s \o t) :
           (s \o t)[i] = IF i <= Len(s) THEN s[i] ELSE t[i - Len(s)]
  BY ConcatProperties, LenProperties
<1>2. \A i \in DOMAIN s : i \in DOMAIN (s \o t) /\ (s \o t)[i] = s[i]
  BY <1>1
<1>3. \A j \in DOMAIN t : Len(s) + j \in DOMAIN (s \o t) /\ (s \o t)[Len(s) + j] = t[j]
  BY <1>1
<1>4. IsInjective(s)
  BY <1>2 DEF IsInjective
<1>5. IsInjective(t)
  <2> SUFFICES ASSUME NEW i \in DOMAIN t, NEW j \in DOMAIN t, t[i] = t[j] PROVE i = j
    BY DEF IsInjective
  <2>1. Len(s) + i = Len(s) + j
    BY <1>3 DEF IsInjective
  <2> QED BY <1>1, <2>1
<1>6. \A i \in DOMAIN s, j \in DOMAIN t : s[i] # t[j]
  <2> SUFFICES ASSUME NEW i \in DOMAIN s, NEW j \in DOMAIN t, s[i] = t[j] PROVE FALSE
    OBVIOUS
  <2>1. i = Len(s) + j
    BY <1>2, <1>3 DEF IsInjective
  <2> QED BY <1>1, <2>1
<1> QED BY <1>4, <1>5, <1>6 DEF Range

\* A sequence without repetition is as long as the set of its elements.
LEMMA LengthIsCardinality ==
  ASSUME NEW T, NEW s \in Seq(T), IsInjective(s)
  PROVE  IsFiniteSet(Range(s)) /\ Cardinality(Range(s)) = Len(s)
<1>1. Len(s) \in Nat /\ DOMAIN s = 1 .. Len(s) /\ s \in [1 .. Len(s) -> T]
  BY LenProperties
<1>2. s \in Surjection(1 .. Len(s), Range(s)) /\ s \in Injection(1 .. Len(s), Range(s))
  BY <1>1 DEF Surjection, Injection, Range, IsInjective
<1>3. IsFiniteSet(1 .. Len(s)) /\ Cardinality(1 .. Len(s)) = Len(s)
  BY <1>1, FS_Interval
<1> QED BY <1>2, <1>3, FS_Surjection

\* Two sequences that share only what is taken out of both.
LEMMA ConcatOnlyInjective ==
  ASSUME NEW T, NEW s \in Seq(T), NEW t \in Seq(T), IsInjective(s), IsInjective(t),
         NEW S, Range(s) \cap Range(t) \cap S = {}
  PROVE  IsInjective(Only(s \o t, S))
<1>1. /\ s \o t \in Seq(T) /\ DOMAIN (s \o t) = 1 .. Len(s) + Len(t)
      /\ Len(s) \in Nat /\ Len(t) \in Nat
      /\ DOMAIN s = 1 .. Len(s) /\ DOMAIN t = 1 .. Len(t)
      /\ \A i \in DOMAIN (s \o t) :
           (s \o t)[i] = IF i <= Len(s) THEN s[i] ELSE t[i - Len(s)]
  BY ConcatProperties, LenProperties
<1> DEFINE st == s \o t
<1> HIDE DEF st
<1>2. ASSUME NEW i \in DOMAIN st, NEW j \in DOMAIN st, st[i] = st[j], st[i] \in S
      PROVE  i = j
  <2>1. i \in 1 .. Len(s) + Len(t) /\ j \in 1 .. Len(s) + Len(t)
    BY <1>1 DEF st
  <2>2. CASE i <= Len(s) /\ j <= Len(s)
    <3>1. i \in DOMAIN s /\ j \in DOMAIN s /\ s[i] = s[j]
      BY <1>1, <1>2, <2>1, <2>2 DEF st
    <3> QED BY <3>1 DEF IsInjective
  <2>3. CASE ~(i <= Len(s)) /\ ~(j <= Len(s))
    <3>1. /\ i - Len(s) \in DOMAIN t /\ j - Len(s) \in DOMAIN t
          /\ t[i - Len(s)] = t[j - Len(s)]
      BY <1>1, <1>2, <2>1, <2>3 DEF st
    <3>2. i - Len(s) = j - Len(s)
      BY <3>1 DEF IsInjective
    <3> QED BY <1>1, <2>1, <3>2
  <2>4. CASE i <= Len(s) /\ ~(j <= Len(s))
    <3>1. i \in DOMAIN s /\ j - Len(s) \in DOMAIN t /\ s[i] = t[j - Len(s)] /\ s[i] \in S
      BY <1>1, <1>2, <2>1, <2>4 DEF st
    <3> QED BY <3>1 DEF Range
  <2>5. CASE ~(i <= Len(s)) /\ j <= Len(s)
    <3>1. j \in DOMAIN s /\ i - Len(s) \in DOMAIN t /\ s[j] = t[i - Len(s)] /\ s[j] \in S
      BY <1>1, <1>2, <2>1, <2>5 DEF st
    <3> QED BY <3>1 DEF Range
  <2> QED BY <2>2, <2>3, <2>4, <2>5
<1> QED BY <1>1, <1>2, OnlyProperties DEF st
=============================================================================
