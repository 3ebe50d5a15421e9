-------------------------- MODULE SubsequenceFacts --------------------------
(***************************************************************************)
(* What the subsequences of Subsequences hold, and in which order, for     *)
(* every sequence; and the same of concatenations.                         *)
(*                                                                         *)
(* The indices kept are picked by rank, so the proofs begin with ranks; a  *)
(* rank exists for every position because a set of naturals has a least    *)
(* element.                                                                *)
(***************************************************************************)
EXTENDS Subsequences, SequencesExt, FiniteSetTheorems, SequenceTheorems,
        WellFoundedInduction, TLAPS

----------------------------------------------------------------------------
(* A non-empty set of naturals has a least element.  The intervals below   *)
(* its elements are finite sets, which strict inclusion orders well.       *)
LEMMA LeastNatural ==
  ASSUME NEW M \in SUBSET Nat, M # {}
  PROVE  \E m \in M : \A k \in M : m <= k
<1> DEFINE T == {1..m : m \in M}
           R == StrictSubsetOrdering(Nat)
<1>1. IsWellFoundedOn(R, FiniteSubsetsOf(Nat))
  BY FS_StrictSubsetOrderingWellFounded
<1>2. T \subseteq FiniteSubsetsOf(Nat) /\ T # {}
  <2>1. ASSUME NEW m \in M  PROVE 1..m \in FiniteSubsetsOf(Nat)
    BY <2>1, FS_Interval DEF FiniteSubsetsOf
  <2> QED BY <2>1
<1>3. PICK x \in T : \A y \in T : <<y, x>> \notin R
  BY <1>1, <1>2, WFMin
<1>4. PICK m \in M : x = 1..m
  OBVIOUS
<1>5. ASSUME NEW k \in M, k < m  PROVE FALSE
  <2>1. 1..k \in T
    OBVIOUS
  <2>2. 1..k \in SUBSET Nat /\ 1..m \in SUBSET Nat /\ 1..k \subseteq 1..m
    BY <1>5
  <2>3. m \in 1..m /\ m \notin 1..k
    BY <1>5
  <2>4. <<1..k, 1..m>> \in R
    BY <2>2, <2>3 DEF StrictSubsetOrdering
  <2> QED BY <1>3, <1>4, <2>1, <2>4
<1> QED BY <1>5

----------------------------------------------------------------------------
(* The indices up to m are finitely many, so ranks are naturals.           *)
LEMMA UptoFinite ==
  ASSUME NEW n \in Nat, NEW I \in SUBSET (1..n), NEW m \in Nat
  PROVE  IsFiniteSet({k \in I : k <= m}) /\ Rank(I, m) \in Nat
<1>1. IsFiniteSet(1..n)
  BY FS_Interval
<1>2. IsFiniteSet(I)
  BY <1>1, FS_Subset
<1>3. IsFiniteSet({k \in I : k <= m})
  BY <1>2, FS_Subset
<1> QED BY <1>3, FS_CardinalityType DEF Rank

(* The rank grows by one at an index of I and nowhere else.                *)
LEMMA RankStep ==
  ASSUME NEW n \in Nat, NEW I \in SUBSET (1..n), NEW m \in 1..n
  PROVE  Rank(I, m) = Rank(I, m - 1) + (IF m \in I THEN 1 ELSE 0)
<1> DEFINE Upto(k) == {i \in I : i <= k}
<1>1. m - 1 \in Nat
  OBVIOUS
<1>2. IsFiniteSet(Upto(m - 1)) /\ Rank(I, m - 1) \in Nat
  BY <1>1, UptoFinite
<1>3. \A k \in I : k \in Int /\ (k <= m <=> k <= m - 1 \/ k = m) /\ ~(m <= m - 1)
  OBVIOUS
<1>4. CASE m \in I
  <2>1. Upto(m) = Upto(m - 1) \cup {m} /\ m \notin Upto(m - 1)
    BY <1>3, <1>4, Zenon
  <2>2. Cardinality(Upto(m - 1) \cup {m}) = Cardinality(Upto(m - 1)) + 1
    BY <1>2, <2>1, FS_AddElement
  <2> QED BY <1>4, <2>1, <2>2 DEF Rank
<1>5. CASE m \notin I
  <2>1. Upto(m) = Upto(m - 1)
    BY <1>3, <1>5, Zenon
  <2> QED BY <1>2, <1>5, <2>1 DEF Rank
<1> QED BY <1>4, <1>5

(* Every rank up to the number of indices is the rank of some index.       *)
LEMMA RankSurjective ==
  ASSUME NEW n \in Nat, NEW I \in SUBSET (1..n), NEW j \in 1..Cardinality(I)
  PROVE  \E i \in I : Rank(I, i) = j
<1> DEFINE M == {m \in 1..n : j <= Rank(I, m)}
<1>1. \A k \in I : k <= n /\ ~(k <= 0)
  OBVIOUS
<1>2. {k \in I : k <= n} = I /\ {k \in I : k <= 0} = {}
  BY <1>1, Zenon
<1>3. Rank(I, n) = Cardinality(I) /\ Rank(I, 0) = 0
  BY <1>2, FS_EmptySet DEF Rank
<1>4. j \in Int /\ 1 <= j /\ j <= Rank(I, n)
  BY <1>3, UptoFinite
<1>5. n \in M
  <2>1. n # 0
    BY <1>3, <1>4
  <2> QED BY <2>1, <1>4
<1>6. PICK m \in M : \A k \in M : m <= k
  <2>1. M \in SUBSET Nat /\ M # {}
    BY <1>5
  <2> QED BY <2>1, LeastNatural
<1>7. m \in 1..n /\ j <= Rank(I, m)
  OBVIOUS
<1>8. Rank(I, m - 1) \in Nat /\ Rank(I, m) \in Nat
  <2>1. m - 1 \in Nat /\ m \in Nat
    BY <1>7
  <2> QED BY <2>1, UptoFinite
<1>9. Rank(I, m - 1) < j
  <2>1. CASE m = 1
    BY <2>1, <1>3, <1>4
  <2>2. CASE m # 1
    <3>1. m - 1 \in 1..n /\ ~(m <= m - 1)
      BY <1>7, <2>2
    <3>2. m - 1 \notin M
      BY <1>6, <3>1, Zenon
    <3> QED BY <3>1, <3>2, <1>4, <1>8
  <2> QED BY <2>1, <2>2
<1>10. Rank(I, m) = Rank(I, m - 1) + (IF m \in I THEN 1 ELSE 0)
  BY <1>7, RankStep
<1>11. m \in I /\ Rank(I, m) = j
  BY <1>4, <1>7, <1>8, <1>9, <1>10
<1> QED BY <1>11

(* Only the first index has rank one when it is kept.                      *)
LEMMA RankOne ==
  ASSUME NEW n \in Nat, NEW I \in SUBSET (1..n), 1 \in I
  PROVE  /\ Rank(I, 1) = 1
         /\ \A i \in I : Rank(I, i) = 1 => i = 1
<1>1. Rank(I, 1) = 1
  <2>1. \A k \in I : k <= 1 <=> k = 1
    OBVIOUS
  <2>2. {k \in I : k <= 1} = {1}
    BY <2>1, Zenon
  <2> QED BY <2>2, FS_Singleton DEF Rank
<1>2. ASSUME NEW i \in I, i # 1  PROVE Rank(I, i) # 1
  <2>1. i \in Nat /\ 1 <= i
    OBVIOUS
  <2>2. IsFiniteSet({k \in I : k <= i}) /\ Rank(I, i) \in Nat
    BY <2>1, UptoFinite
  <2>3. {1} \cup {i} \subseteq {k \in I : k <= i}
    BY <2>1
  <2>4. Cardinality({1} \cup {i}) = 2
    <3>1. IsFiniteSet({1}) /\ Cardinality({1}) = 1 /\ i \notin {1}
      BY <1>2, FS_Singleton
    <3> QED BY <3>1, FS_AddElement
  <2>5. 2 <= Rank(I, i)
    BY <2>2, <2>3, <2>4, FS_Subset DEF Rank
  <2> QED BY <2>2, <2>5
<1> QED BY <1>1, <1>2

----------------------------------------------------------------------------
(* What is kept of a sequence is a sequence over the same set.             *)
LEMMA AtType ==
  ASSUME NEW S, NEW s \in Seq(S), NEW I \in SUBSET DOMAIN s
  PROVE  At(s, I) \in Seq(S) /\ Len(At(s, I)) = Cardinality(I)
<1> DEFINE n == Len(s)
           pick(j) == CHOOSE i \in I : Rank(I, i) = j
<1>1. n \in Nat /\ I \in SUBSET (1..n)
  OBVIOUS
<1>2. IsFiniteSet(1..n)
  BY <1>1, FS_Interval
<1>3. IsFiniteSet(I)
  BY <1>1, <1>2, FS_Subset
<1>4. Cardinality(I) \in Nat
  BY <1>3, FS_CardinalityType
<1>5. ASSUME NEW j \in 1..Cardinality(I)  PROVE s[pick(j)] \in S
  <2>1. \E i \in I : Rank(I, i) = j
    BY <1>1, RankSurjective
  <2>2. pick(j) \in I
    BY <2>1
  <2> QED BY <1>1, <2>2
<1>6. At(s, I) = [j \in 1..Cardinality(I) |-> s[pick(j)]]
  BY DEF At
<1>7. At(s, I) \in [1..Cardinality(I) -> S]
  BY <1>5, <1>6
<1> QED BY <1>4, <1>7

(* The first element stays first when it is kept.                          *)
LEMMA AtHead ==
  ASSUME NEW S, NEW s \in Seq(S), NEW I \in SUBSET DOMAIN s, 1 \in I
  PROVE  At(s, I) # <<>> /\ Head(At(s, I)) = s[1]
<1>1. Len(s) \in Nat /\ I \in SUBSET (1..Len(s))
  OBVIOUS
<1>2. Rank(I, 1) = 1 /\ \A i \in I : Rank(I, i) = 1 => i = 1
  BY <1>1, RankOne
<1>3. (CHOOSE i \in I : Rank(I, i) = 1) = 1
  BY <1>2
<1>4. Cardinality(I) \in Nat /\ Cardinality(I) # 0
  <2>1. IsFiniteSet(1..Len(s))
    BY <1>1, FS_Interval
  <2>2. IsFiniteSet(I)
    BY <1>1, <2>1, FS_Subset
  <2> QED BY <2>2, FS_CardinalityType, FS_EmptySet
<1>5. 1 \in 1..Cardinality(I)
  BY <1>4
<1>6. At(s, I)[1] = s[1]
  BY <1>3, <1>5 DEF At
<1>7. At(s, I) \in Seq(S) /\ Len(At(s, I)) = Cardinality(I)
  BY AtType
<1> QED BY <1>4, <1>6, <1>7

----------------------------------------------------------------------------
(* Selecting by element.                                                   *)
LEMMA KeepType ==
  ASSUME NEW S, NEW s \in Seq(S), NEW K
  PROVE  Keep(s, K) \in Seq(S)
<1>1. KeptAt(s, K) \in SUBSET DOMAIN s
  BY DEF KeptAt
<1> QED BY <1>1, AtType DEF Keep

----------------------------------------------------------------------------
(* What an edit keeps, and in which order.  An index of I is picked at its *)
(* own rank, and ranks grow with the indices.                              *)
LEMMA RankRange ==
  ASSUME NEW n \in Nat, NEW I \in SUBSET (1..n), NEW i \in I
  PROVE  Rank(I, i) \in 1..Cardinality(I)
<1>1. IsFiniteSet(1..n)
  BY FS_Interval
<1>2. IsFiniteSet(I)
  BY <1>1, FS_Subset
<1>3. i \in Nat
  OBVIOUS
<1>4. IsFiniteSet({k \in I : k <= i}) /\ Rank(I, i) \in Nat
  BY <1>3, UptoFinite
<1>5. Rank(I, i) <= Cardinality(I) /\ Cardinality(I) \in Nat
  <2>1. {k \in I : k <= i} \subseteq I
    OBVIOUS
  <2> QED BY <1>2, <2>1, FS_Subset, FS_CardinalityType DEF Rank
<1>6. Rank(I, i) # 0
  <2>1. i \in {k \in I : k <= i}
    BY <1>3
  <2>2. {k \in I : k <= i} # {}
    BY <2>1
  <2> QED BY <1>4, <2>2, FS_EmptySet DEF Rank
<1> QED BY <1>4, <1>5, <1>6

LEMMA RankGrows ==
  ASSUME NEW n \in Nat, NEW I \in SUBSET (1..n), NEW i \in I, NEW k \in I, i < k
  PROVE  Rank(I, i) < Rank(I, k)
<1> DEFINE Upto(m) == {j \in I : j <= m}
<1>1. i \in Nat /\ k \in Nat
  OBVIOUS
<1>2. IsFiniteSet(Upto(i)) /\ IsFiniteSet(Upto(k))
      /\ Rank(I, i) \in Nat /\ Rank(I, k) \in Nat
  BY <1>1, UptoFinite
<1>3. k \notin Upto(i) /\ Upto(i) \cup {k} \subseteq Upto(k)
  <2>1. ~(k <= i) /\ k <= k /\ \A j \in I : j <= i => j <= k
    BY <1>1
  <2> QED BY <2>1, Zenon
<1>4. /\ IsFiniteSet(Upto(i) \cup {k})
      /\ Cardinality(Upto(i) \cup {k}) = Cardinality(Upto(i)) + 1
  BY <1>2, <1>3, FS_AddElement
<1>5. Cardinality(Upto(i) \cup {k}) <= Cardinality(Upto(k))
  BY <1>2, <1>3, FS_Subset
<1> QED BY <1>2, <1>4, <1>5 DEF Rank

(* Every position holds the element of the index of that rank.             *)
LEMMA AtRank ==
  ASSUME NEW S, NEW s \in Seq(S), NEW I \in SUBSET DOMAIN s
  PROVE  /\ \A i \in I : Rank(I, i) \in DOMAIN At(s, I) /\ At(s, I)[Rank(I, i)] = s[i]
         /\ \A j \in DOMAIN At(s, I) : \E i \in I : Rank(I, i) = j
<1> DEFINE pick(j) == CHOOSE i \in I : Rank(I, i) = j
<1>1. Len(s) \in Nat /\ I \in SUBSET (1..Len(s))
  OBVIOUS
<1>2. DOMAIN At(s, I) = 1..Cardinality(I)
  BY DEF At
<1>3. ASSUME NEW j \in DOMAIN At(s, I)
      PROVE  \E i \in I : Rank(I, i) = j
  BY <1>1, <1>2, RankSurjective
<1>4. ASSUME NEW i \in I
      PROVE  Rank(I, i) \in DOMAIN At(s, I) /\ At(s, I)[Rank(I, i)] = s[i]
  <2>1. Rank(I, i) \in 1..Cardinality(I)
    BY <1>1, RankRange
  <2>2. pick(Rank(I, i)) \in I /\ Rank(I, pick(Rank(I, i))) = Rank(I, i)
    OBVIOUS
  <2>3. ASSUME NEW k \in I, Rank(I, k) = Rank(I, i)  PROVE k = i
    <3>1. i \in Nat /\ k \in Nat /\ Rank(I, i) \in Nat
      BY <1>1, <2>1
    <3>2. ASSUME i < k  PROVE FALSE
      <4>1. Rank(I, i) < Rank(I, k)
        BY <1>1, <3>2, RankGrows
      <4> QED BY <2>3, <3>1, <4>1
    <3>3. ASSUME k < i  PROVE FALSE
      <4>1. Rank(I, k) < Rank(I, i)
        BY <1>1, <3>3, RankGrows
      <4> QED BY <2>3, <3>1, <4>1
    <3> QED BY <3>1, <3>2, <3>3
  <2>4. pick(Rank(I, i)) = i
    BY <2>2, <2>3
  <2>5. At(s, I)[Rank(I, i)] = s[pick(Rank(I, i))]
    BY <2>1 DEF At
  <2> QED BY <1>2, <2>1, <2>4, <2>5
<1> QED BY <1>3, <1>4

LEMMA AtContents ==
  ASSUME NEW S, NEW s \in Seq(S), NEW I \in SUBSET DOMAIN s
  PROVE  ToSet(At(s, I)) = {s[i] : i \in I}
BY AtRank DEF ToSet

LEMMA AtInjective ==
  ASSUME NEW S, NEW s \in Seq(S), NEW I \in SUBSET DOMAIN s,
         \A i, k \in I : s[i] = s[k] => i = k
  PROVE  IsInjective(At(s, I))
<1> SUFFICES ASSUME NEW a \in DOMAIN At(s, I), NEW b \in DOMAIN At(s, I),
                    At(s, I)[a] = At(s, I)[b]
             PROVE  a = b
  BY DEF IsInjective
<1>1. PICK i \in I : Rank(I, i) = a
  BY AtRank
<1>2. PICK k \in I : Rank(I, k) = b
  BY AtRank
<1>3. s[i] = s[k]
  BY <1>1, <1>2, AtRank
<1> QED BY <1>1, <1>2, <1>3

(* What comes later was later before.                                      *)
LEMMA AtOrder ==
  ASSUME NEW S, NEW s \in Seq(S), NEW I \in SUBSET DOMAIN s,
         NEW a \in DOMAIN At(s, I), NEW b \in DOMAIN At(s, I), a < b
  PROVE  \E i, k \in I : i < k /\ At(s, I)[a] = s[i] /\ At(s, I)[b] = s[k]
<1>1. PICK i \in I : Rank(I, i) = a
  BY AtRank
<1>2. PICK k \in I : Rank(I, k) = b
  BY AtRank
<1>3. Len(s) \in Nat /\ I \in SUBSET (1..Len(s)) /\ i \in Nat /\ k \in Nat
  OBVIOUS
<1>4. i < k
  <2>1. a \in Nat /\ b \in Nat
    BY <1>1, <1>2, <1>3, UptoFinite
  <2>2. ASSUME k < i  PROVE FALSE
    <3>1. Rank(I, k) < Rank(I, i)
      BY <1>3, <2>2, RankGrows
    <3> QED BY <1>1, <1>2, <2>1, <3>1
  <2>3. i # k
    BY <1>1, <1>2, <2>1
  <2> QED BY <1>3, <2>2, <2>3
<1> QED BY <1>1, <1>2, <1>4, AtRank

(* What is kept of a sequence: its elements in K, each as often as before. *)
LEMMA KeepContents ==
  ASSUME NEW S, NEW s \in Seq(S), NEW K
  PROVE  /\ ToSet(Keep(s, K)) = ToSet(s) \cap K
         /\ IsInjective(s) => IsInjective(Keep(s, K))
<1>1. KeptAt(s, K) \in SUBSET DOMAIN s
  BY DEF KeptAt
<1>2. ToSet(Keep(s, K)) = {s[i] : i \in KeptAt(s, K)}
  BY <1>1, AtContents DEF Keep
<1>3. {s[i] : i \in KeptAt(s, K)} = ToSet(s) \cap K
  BY DEF KeptAt, ToSet
<1>4. ASSUME IsInjective(s)  PROVE IsInjective(Keep(s, K))
  <2>1. \A i, k \in KeptAt(s, K) : s[i] = s[k] => i = k
    BY <1>1, <1>4 DEF IsInjective
  <2> QED BY <1>1, <2>1, AtInjective DEF Keep
<1> QED BY <1>2, <1>3, <1>4

LEMMA KeepOrder ==
  ASSUME NEW S, NEW s \in Seq(S), NEW K,
         NEW a \in DOMAIN Keep(s, K), NEW b \in DOMAIN Keep(s, K), a < b
  PROVE  \E i, k \in DOMAIN s :
           i < k /\ Keep(s, K)[a] = s[i] /\ Keep(s, K)[b] = s[k]
<1>1. KeptAt(s, K) \in SUBSET DOMAIN s
  BY DEF KeptAt
<1> QED BY <1>1, AtOrder DEF Keep

(* What is kept of a longer sequence: the new last element joins what was  *)
(* kept before it, or does not.                                            *)
LEMMA KeepAppend ==
  ASSUME NEW S, NEW s \in Seq(S), NEW x \in S, NEW K
  PROVE  Keep(Append(s, x), K) = IF x \in K THEN Append(Keep(s, K), x) ELSE Keep(s, K)
<1> DEFINE n == Len(s)
           t == Append(s, x)
           I == KeptAt(s, K)
           J == KeptAt(t, K)
<1>1. /\ n \in Nat /\ DOMAIN s = 1..n /\ t \in Seq(S) /\ DOMAIN t = 1..(n + 1)
      /\ t[n + 1] = x /\ \A i \in 1..n : t[i] = s[i]
  OBVIOUS
<1>2. I \in SUBSET (1..n) /\ I = {i \in 1..n : s[i] \in K}
  BY <1>1 DEF KeptAt
<1>3. J = {i \in 1..(n + 1) : t[i] \in K}
  BY <1>1 DEF KeptAt
<1>4. Keep(s, K) = At(s, I) /\ Keep(t, K) = At(t, J)
  BY DEF Keep
<1> HIDE DEF n, t, I, J
<1>5. J = IF x \in K THEN I \cup {n + 1} ELSE I
  BY <1>1, <1>2, <1>3
<1>6. J \in SUBSET (1..(n + 1)) /\ n + 1 \in Nat /\ n + 1 \notin I
  BY <1>1, <1>2, <1>3
<1>7. IsFiniteSet(I) /\ Cardinality(I) \in Nat
  <2>1. IsFiniteSet(1..n)
    BY <1>1, FS_Interval
  <2>2. IsFiniteSet(I)
    BY <1>2, <2>1, FS_Subset
  <2> QED BY <2>2, FS_CardinalityType
<1>8. /\ At(s, I) \in Seq(S) /\ Len(At(s, I)) = Cardinality(I)
      /\ At(t, J) \in Seq(S) /\ Len(At(t, J)) = Cardinality(J)
  BY <1>1, <1>2, <1>6, AtType
<1>9. ASSUME NEW i \in I  PROVE Rank(J, i) = Rank(I, i)
  <2>1. i <= n /\ n < n + 1 /\ ~(n + 1 <= i)
    BY <1>1, <1>2
  <2>2. {k \in J : k <= i} = {k \in I : k <= i}
    BY <1>5, <2>1
  <2> QED BY <2>2 DEF Rank
<1>10. ASSUME NEW j \in 1..Cardinality(I)
       PROVE  At(s, I)[j] = At(t, J)[j]
  <2>1. PICK i \in I : Rank(I, i) = j
    BY <1>1, <1>2, RankSurjective
  <2>2. At(s, I)[j] = s[i]
    BY <1>1, <1>2, <2>1, AtRank
  <2>3. i \in J /\ At(t, J)[Rank(J, i)] = t[i]
    BY <1>1, <1>5, <1>6, AtRank
  <2> QED BY <1>1, <1>2, <1>9, <2>1, <2>2, <2>3
<1>11. CASE x \notin K
  <2>1. Len(At(t, J)) = Len(At(s, I))
    BY <1>5, <1>8, <1>11
  <2>2. At(t, J) = At(s, I)
    BY <1>8, <1>10, <2>1, SeqEqual
  <2> QED BY <1>4, <1>11, <2>2 DEF t
<1>12. CASE x \in K
  <2> DEFINE c == Cardinality(I)
             u == At(t, J)
             v == Append(At(s, I), x)
  <2>1. Cardinality(J) = c + 1
    BY <1>5, <1>6, <1>7, <1>12, FS_AddElement
  <2>2. /\ v \in Seq(S) /\ Len(v) = c + 1 /\ v[c + 1] = x
        /\ \A j \in 1..c : v[j] = At(s, I)[j]
    <3>1. PICK w \in Seq(S) : w = At(s, I) /\ Len(w) = c
      BY <1>8
    <3>2. /\ Append(w, x) \in Seq(S) /\ Len(Append(w, x)) = Len(w) + 1
          /\ Append(w, x)[Len(w) + 1] = x
          /\ \A j \in 1..Len(w) : Append(w, x)[j] = w[j]
      OBVIOUS
    <3> QED BY <3>1, <3>2
  <2>3. Rank(J, n + 1) = c + 1 /\ n + 1 \in J
    <3>1. {k \in J : k <= n + 1} = J
      <4>1. \A k \in J : k <= n + 1
        BY <1>1, <1>6
      <4> QED BY <4>1
    <3> QED BY <1>5, <1>12, <2>1, <3>1 DEF Rank
  <2>4. u[c + 1] = x
    <3>1. PICK k : k = n + 1
      OBVIOUS
    <3>2. J \in SUBSET DOMAIN t /\ k \in J /\ t \in Seq(S)
      BY <1>1, <1>6, <2>3, <3>1
    <3>3. At(t, J)[Rank(J, k)] = t[k]
      BY <3>2, AtRank
    <3> QED BY <1>1, <2>3, <3>1, <3>3
  <2>5. u \in Seq(S) /\ Len(u) = c + 1
    BY <1>8, <2>1
  <2>6. \A j \in 1..c : u[j] = v[j]
    BY <1>10, <2>2
  <2> HIDE DEF c, u, v
  <2>7. c \in Nat
    BY <1>7 DEF c
  <2>8. \A j \in 1..(c + 1) : u[j] = v[j]
    BY <2>2, <2>4, <2>6, <2>7
  <2>9. u = v
    BY <2>2, <2>5, <2>8, SeqEqual
  <2> QED BY <1>4, <1>12, <2>9 DEF u, v, t
<1> QED BY <1>11, <1>12

LEMMA IntervalSize ==
  ASSUME NEW n \in Nat
  PROVE  IsFiniteSet(1..n) /\ Cardinality(1..n) = n
BY FS_Interval

(* All positions but one, in their order.                                  *)
LEMMA AtAllButOne ==
  ASSUME NEW S, NEW q \in Seq(S), NEW t \in Seq(S), Len(t) = Len(q) + 1,
         NEW i \in 1..Len(t),
         \A n \in 1..(i - 1) : t[n] = q[n],
         \A n \in i..Len(q) : t[n + 1] = q[n]
  PROVE  At(t, (1..Len(t)) \ {i}) = q
<1> DEFINE m == Len(q)
           I == (1..(m + 1)) \ {i}
<1>1. m \in Nat /\ i \in 1..(m + 1) /\ DOMAIN t = 1..(m + 1) /\ I \in SUBSET DOMAIN t
  OBVIOUS
<1> HIDE DEF I, m
<1>2. Cardinality(I) = m
  <2>1. IsFiniteSet(1..(m + 1)) /\ Cardinality(1..(m + 1)) = m + 1
    BY <1>1, IntervalSize
  <2>2. Cardinality((1..(m + 1)) \ {i}) = Cardinality(1..(m + 1)) - 1
    BY <1>1, <2>1, FS_RemoveElement
  <2> QED BY <1>1, <2>1, <2>2 DEF I
<1>3. At(t, I) \in Seq(S) /\ Len(At(t, I)) = m
  BY <1>1, <1>2, AtType
<1>4. ASSUME NEW j \in 1..m  PROVE At(t, I)[j] = q[j]
  <2>1. CASE j < i
    <3>1. j \in I /\ {k \in I : k <= j} = 1..j /\ j \in 1..(i - 1)
      BY <1>1, <2>1 DEF I
    <3>2. Rank(I, j) = j
      <4>1. Rank(I, j) = Cardinality({k \in I : k <= j})
        BY DEF Rank
      <4>2. Cardinality(1..j) = j
        BY IntervalSize
      <4> QED BY <3>1, <4>1, <4>2
    <3>3. At(t, I)[j] = t[j]
      BY <1>1, <3>1, <3>2, AtRank
    <3> QED BY <3>1, <3>3
  <2>2. CASE ~(j < i)
    <3>1. /\ j + 1 \in I /\ {k \in I : k <= j + 1} = (1..(j + 1)) \ {i}
          /\ j \in i..m /\ i \in 1..(j + 1)
      BY <1>1, <2>2 DEF I
    <3>2. Rank(I, j + 1) = j
      <4>1. IsFiniteSet(1..(j + 1)) /\ Cardinality(1..(j + 1)) = j + 1
        BY IntervalSize
      <4>2. Cardinality((1..(j + 1)) \ {i}) = Cardinality(1..(j + 1)) - 1
        BY <3>1, <4>1, FS_RemoveElement
      <4>3. Rank(I, j + 1) = Cardinality({k \in I : k <= j + 1})
        BY DEF Rank
      <4>4. Cardinality((1..(j + 1)) \ {i}) = j
        <5>1. (j + 1) - 1 = j
          BY <1>1
        <5> QED BY <4>1, <4>2, <5>1
      <4> QED BY <3>1, <4>3, <4>4
    <3>3. At(t, I)[j] = t[j + 1]
      BY <1>1, <3>1, <3>2, AtRank
    <3> QED BY <3>1, <3>3 DEF m
  <2> QED BY <2>1, <2>2
<1>5. At(t, I) = q
  BY <1>3, <1>4, SeqEqual DEF m
<1> QED BY <1>5 DEF I, m

(* What follows a non-empty sequence does not change its head.             *)
LEMMA ConcatHead ==
  ASSUME NEW S, NEW s \in Seq(S), NEW t \in Seq(S), s # <<>>
  PROVE  s \o t \in Seq(S) /\ s \o t # <<>> /\ Head(s \o t) = Head(s)
<1>1. Len(s \o t) = Len(s) + Len(t) /\ Len(s) >= 1
  OBVIOUS
<1>2. (s \o t)[1] = s[1]
  BY <1>1
<1> QED BY <1>1, <1>2

(* Concatenation, at either end of which an insertion is a special case.   *)
LEMMA ConcatContents ==
  ASSUME NEW S, NEW s \in Seq(S), NEW t \in Seq(S)
  PROVE  /\ ToSet(s \o t) = ToSet(s) \cup ToSet(t)
         /\ IsInjective(s \o t) <=> /\ IsInjective(s) /\ IsInjective(t)
                                    /\ ToSet(s) \cap ToSet(t) = {}
<1> DEFINE m == Len(s)
           n == Len(t)
<1>1. m \in Nat /\ n \in Nat /\ DOMAIN s = 1..m /\ DOMAIN t = 1..n
  OBVIOUS
<1>2. /\ s \o t \in Seq(S) /\ Len(s \o t) = m + n
      /\ \A i \in 1..(m + n) : (s \o t)[i] = IF i <= m THEN s[i] ELSE t[i - m]
  BY ConcatProperties
<1>3. DOMAIN (s \o t) = 1..(m + n)
  BY <1>2
<1>4. \A i \in 1..m : i \in 1..(m + n) /\ (s \o t)[i] = s[i]
  BY <1>1, <1>2
<1>5. \A j \in 1..n : m + j \in 1..(m + n) /\ (s \o t)[m + j] = t[j]
  <2>1. ASSUME NEW j \in 1..n
        PROVE  m + j \in 1..(m + n) /\ ~(m + j <= m) /\ m + j - m = j
    BY <1>1
  <2> QED BY <1>2, <2>1
<1>6. \A i \in 1..(m + n) : i \in 1..m \/ \E j \in 1..n : i = m + j
  <2>1. ASSUME NEW i \in 1..(m + n), i \notin 1..m
        PROVE  i - m \in 1..n /\ i = m + (i - m)
    BY <1>1, <2>1
  <2> QED BY <2>1
<1> HIDE DEF m, n
<1> DEFINE c == s \o t
<1>7. ToSet(c) = ToSet(s) \cup ToSet(t)
  <2>1. ASSUME NEW x \in ToSet(c)  PROVE x \in ToSet(s) \cup ToSet(t)
    <3>1. PICK i \in 1..(m + n) : x = c[i]
      BY <1>3 DEF ToSet
    <3>2. CASE i \in 1..m
      BY <1>1, <1>4, <3>1, <3>2 DEF ToSet
    <3>3. CASE \E j \in 1..n : i = m + j
      BY <1>1, <1>5, <3>1, <3>3 DEF ToSet
    <3> QED BY <1>6, <3>2, <3>3
  <2>2. ASSUME NEW x \in ToSet(s)  PROVE x \in ToSet(c)
    BY <1>1, <1>3, <1>4 DEF ToSet
  <2>3. ASSUME NEW x \in ToSet(t)  PROVE x \in ToSet(c)
    BY <1>1, <1>3, <1>5 DEF ToSet
  <2> QED BY <2>1, <2>2, <2>3
<1>8. ASSUME IsInjective(c)
      PROVE  IsInjective(s) /\ IsInjective(t) /\ ToSet(s) \cap ToSet(t) = {}
  <2>1. \A i, k \in 1..(m + n) : c[i] = c[k] => i = k
    BY <1>3, <1>8 DEF IsInjective
  <2>2. IsInjective(s)
    BY <1>1, <1>4, <2>1 DEF IsInjective
  <2>3. \A j, k \in 1..n : m + j = m + k => j = k
    BY <1>1
  <2>4. IsInjective(t)
    BY <1>1, <1>5, <2>1, <2>3 DEF IsInjective
  <2>5. ASSUME NEW x \in ToSet(s) \cap ToSet(t)  PROVE FALSE
    <3>1. PICK i \in 1..m, j \in 1..n : x = s[i] /\ x = t[j]
      BY <1>1 DEF ToSet
    <3>2. i # m + j
      BY <1>1
    <3> QED BY <1>4, <1>5, <2>1, <3>1, <3>2
  <2> QED BY <2>2, <2>4, <2>5
<1>9. ASSUME IsInjective(s), IsInjective(t), ToSet(s) \cap ToSet(t) = {}
      PROVE  IsInjective(c)
  <2>1. \A i \in 1..m, j \in 1..n : s[i] # t[j]
    BY <1>1, <1>9 DEF ToSet
  <2> SUFFICES ASSUME NEW a \in 1..(m + n), NEW b \in 1..(m + n), c[a] = c[b]
               PROVE  a = b
    BY <1>3 DEF IsInjective
  <2>2. CASE a \in 1..m /\ b \in 1..m
    BY <1>1, <1>4, <1>9, <2>2 DEF IsInjective
  <2>3. ASSUME NEW j \in 1..n, a = m + j, b \in 1..m  PROVE FALSE
    BY <1>4, <1>5, <2>1, <2>3
  <2>4. ASSUME NEW k \in 1..n, a \in 1..m, b = m + k  PROVE FALSE
    BY <1>4, <1>5, <2>1, <2>4
  <2>5. ASSUME NEW j \in 1..n, NEW k \in 1..n, a = m + j, b = m + k
        PROVE  a = b
    BY <1>1, <1>5, <1>9, <2>5 DEF IsInjective
  <2> QED BY <1>6, <2>2, <2>3, <2>4, <2>5
<1> QED BY <1>7, <1>8, <1>9

(* One element.                                                            *)
LEMMA SingleContents ==
  ASSUME NEW p
  PROVE  ToSet(<<p>>) = {p} /\ IsInjective(<<p>>)
BY DEF ToSet, IsInjective

LEMMA EmptyContents == ToSet(<<>>) = {} /\ IsInjective(<<>>)
BY DEF ToSet, IsInjective

(* A sequence that is not empty has an element.                            *)
LEMMA SomeContents ==
  ASSUME NEW S, NEW s \in Seq(S)
  PROVE  /\ s # <<>> => Head(s) \in ToSet(s)
         /\ s = <<>> <=> ToSet(s) = {}
         /\ ToSet(s) \subseteq S
<1>1. s # <<>> => 1 \in DOMAIN s /\ Head(s) = s[1]
  OBVIOUS
<1>2. s = <<>> => DOMAIN s = {}
  OBVIOUS
<1>3. ToSet(s) \subseteq S
  BY DEF ToSet
<1> QED BY <1>1, <1>2, <1>3 DEF ToSet

(* Nothing keeps nothing.                                                  *)
LEMMA KeepNothing ==
  ASSUME NEW K
  PROVE  Keep(<<>>, K) = <<>>
<1> DEFINE kept == Keep(<<>>, K)
<1>1. <<>> \in Seq({})
  OBVIOUS
<1>2. ToSet(<<>>) = {}
  BY EmptyContents
<1>3. kept \in Seq({})
  BY <1>1, KeepType
<1>4. ToSet(kept) = ToSet(<<>>) \cap K
  BY <1>1, KeepContents
<1> HIDE DEF kept
<1>5. ToSet(kept) = {}
  BY <1>2, <1>4
<1>6. kept = <<>>
  BY <1>3, <1>5, SomeContents
<1> QED BY <1>6 DEF kept

(* A prompt at the back.                                                   *)
LEMMA AppendContents ==
  ASSUME NEW S, NEW s \in Seq(S), NEW p \in S
  PROVE  /\ ToSet(Append(s, p)) = ToSet(s) \cup {p}
         /\ IsInjective(s) /\ p \notin ToSet(s) => IsInjective(Append(s, p))
<1> DEFINE one == <<p>>
<1>1. Append(s, p) = s \o one /\ one \in Seq(S)
  BY AppendIsConcat
<1>2. ToSet(one) = {p} /\ IsInjective(one)
  BY SingleContents
<1> HIDE DEF one
<1>3. /\ ToSet(s \o one) = ToSet(s) \cup ToSet(one)
      /\ IsInjective(s \o one) <=> /\ IsInjective(s) /\ IsInjective(one)
                                   /\ ToSet(s) \cap ToSet(one) = {}
  BY <1>1, ConcatContents
<1> QED BY <1>1, <1>2, <1>3

(* The head and the rest.                                                  *)
LEMMA TailContents ==
  ASSUME NEW S, NEW s \in Seq(S), s # <<>>
  PROVE  /\ ToSet(s) = {Head(s)} \cup ToSet(Tail(s))
         /\ IsInjective(s) => IsInjective(Tail(s)) /\ Head(s) \notin ToSet(Tail(s))
<1>1. Head(s) \in S /\ Tail(s) \in Seq(S) /\ <<Head(s)>> \in Seq(S)
  BY HeadTailProperties
<1>2. s = <<Head(s)>> \o Tail(s)
  OBVIOUS
<1> HIDE <1>2
<1> DEFINE h == <<Head(s)>>
           t == Tail(s)
<1>3. h \in Seq(S) /\ t \in Seq(S) /\ s = h \o t
  BY <1>1, <1>2
<1>4. ToSet(h) = {Head(s)}
  BY SingleContents
<1> HIDE DEF h, t
<1>5. /\ ToSet(h \o t) = ToSet(h) \cup ToSet(t)
      /\ IsInjective(h \o t) <=> /\ IsInjective(h) /\ IsInjective(t)
                                 /\ ToSet(h) \cap ToSet(t) = {}
  BY <1>3, ConcatContents
<1>6. /\ ToSet(s) = {Head(s)} \cup ToSet(t)
      /\ IsInjective(s) => IsInjective(t) /\ Head(s) \notin ToSet(t)
  BY <1>3, <1>4, <1>5
<1> QED BY <1>6 DEF t

(* Two positions of a concatenation are in its two parts, or in one of them *)
(* in their order.                                                          *)
InParts(c, s, t) ==
  \A a, b \in DOMAIN c : a < b =>
    \/ c[a] \in ToSet(s) /\ c[b] \in ToSet(t)
    \/ \E i, k \in DOMAIN s : i < k /\ c[a] = s[i] /\ c[b] = s[k]
    \/ \E i, k \in DOMAIN t : i < k /\ c[a] = t[i] /\ c[b] = t[k]

LEMMA ConcatPositions ==
  ASSUME NEW S, NEW s \in Seq(S), NEW t \in Seq(S),
         NEW c, c = s \o t
  PROVE  InParts(c, s, t)
<1> SUFFICES ASSUME NEW a \in DOMAIN c, NEW b \in DOMAIN c, a < b
             PROVE  \/ c[a] \in ToSet(s) /\ c[b] \in ToSet(t)
                    \/ \E i, k \in DOMAIN s : i < k /\ c[a] = s[i] /\ c[b] = s[k]
                    \/ \E i, k \in DOMAIN t : i < k /\ c[a] = t[i] /\ c[b] = t[k]
  BY DEF InParts
<1> DEFINE m == Len(s)
           n == Len(t)
<1>1. m \in Nat /\ n \in Nat /\ DOMAIN s = 1..m /\ DOMAIN t = 1..n
  OBVIOUS
<1>2. /\ c \in Seq(S) /\ Len(c) = m + n
      /\ \A i \in 1..(m + n) : c[i] = IF i <= m THEN s[i] ELSE t[i - m]
  BY ConcatProperties
<1>3. a \in 1..(m + n) /\ b \in 1..(m + n)
  BY <1>2
<1> HIDE DEF m, n
<1>4. CASE b <= m
  <2>1. a \in 1..m /\ b \in 1..m /\ c[a] = s[a] /\ c[b] = s[b]
    BY <1>1, <1>2, <1>3, <1>4
  <2> QED BY <1>1, <2>1
<1>5. CASE a <= m /\ ~(b <= m)
  <2>1. a \in 1..m /\ b - m \in 1..n /\ c[a] = s[a] /\ c[b] = t[b - m]
    BY <1>1, <1>2, <1>3, <1>5
  <2> QED BY <1>1, <2>1 DEF ToSet
<1>6. CASE ~(a <= m)
  <2>1. /\ a - m \in 1..n /\ b - m \in 1..n /\ a - m < b - m
        /\ c[a] = t[a - m] /\ c[b] = t[b - m]
    <3>1. m < a /\ m < b /\ a <= m + n /\ b <= m + n /\ ~(a <= m) /\ ~(b <= m)
      BY <1>1, <1>3, <1>6
    <3>2. a - m \in 1..n /\ b - m \in 1..n /\ a - m < b - m
      BY <1>1, <1>3, <3>1
    <3>3. c[a] = t[a - m] /\ c[b] = t[b - m]
      BY <1>2, <1>3, <3>1
    <3> QED BY <3>2, <3>3
  <2> QED BY <1>1, <2>1
<1> QED BY <1>1, <1>3, <1>4, <1>5, <1>6
=============================================================================
