---------------------------- MODULE MiningProofs ----------------------------
(***************************************************************************)
(* Proofs about the mem pool, for any senders, transactions, balances and  *)
(* limits, and whether or not state lookups fail and nonces jump; about    *)
(* the requests that mine what it holds, for any senders, transactions,    *)
(* base fees and gas limits; and about the mutual exclusion of requests    *)
(* and interval miners.  They rest on what the operators of Vecs return,   *)
(* which comes first.                                                      *)
(***************************************************************************)
EXTENDS AutoMine, IntervalMining, FunctionTheorems, FiniteSetTheorems, WellFoundedInduction, TLAPS

(* Ranking a finite set of positions numbers its elements from 1. *)
LEMMA RankNumbers ==
  ASSUME NEW n \in Nat, NEW K \in SUBSET (1 .. n)
  PROVE  /\ IsFiniteSet(K) /\ Cardinality(K) \in Nat
         /\ \A i \in K : Rank(K, i) \in 1 .. Cardinality(K)
         /\ \A i, j \in K : Rank(K, i) = Rank(K, j) => i = j
         /\ \A k \in 1 .. Cardinality(K) : \E i \in K : Rank(K, i) = k
<1> DEFINE Upto(i) == {j \in K : j <= i}
           c == Cardinality(K)
           rank == [i \in K |-> Rank(K, i)]
<1>0. \A i : Rank(K, i) = Cardinality(Upto(i))
  BY DEF Rank
<1>1. IsFiniteSet(K) /\ c \in Nat
  <2>1. IsFiniteSet(1 .. n)
    BY FS_Interval
  <2>2. IsFiniteSet(K)
    BY <2>1, FS_Subset
  <2> QED
    BY <2>2, FS_CardinalityType
<1>2. \A i \in K : IsFiniteSet(Upto(i)) /\ Cardinality(Upto(i)) \in 1 .. c
  <2> TAKE i \in K
  <2>1. IsFiniteSet(Upto(i)) /\ Cardinality(Upto(i)) <= c
    BY <1>1, FS_Subset
  <2>2. Upto(i) # {}
    BY DEF Upto
  <2>3. Cardinality(Upto(i)) \in Nat /\ Cardinality(Upto(i)) # 0
    BY <2>1, <2>2, FS_CardinalityType, FS_EmptySet
  <2> QED
    BY <1>1, <2>1, <2>3
<1>3. \A i, j \in K : i < j => Cardinality(Upto(i)) # Cardinality(Upto(j))
  <2>0. \A i \in K : i \in Int
    OBVIOUS
  <2> TAKE i, j \in K
  <2> HAVE i < j
  <2>1. /\ \A x \in Upto(i) : x \in Upto(j)
        /\ j \in Upto(j) /\ j \notin Upto(i)
    BY <2>0 DEF Upto
  <2>2. Upto(i) \in SUBSET Upto(j) /\ Upto(i) # Upto(j)
    BY <2>1
  <2> HIDE DEF Upto
  <2> QED
    BY <2>2, <1>2, FS_Subset
<1>4. rank \in [K -> 1 .. c]
  BY <1>0, <1>2
<1>5. \A i, j \in K : rank[i] = rank[j] => i = j
  <2>0. \A i \in K : i \in Int
    OBVIOUS
  <2> HIDE DEF Upto
  <2> QED
    BY <1>0, <1>3, <2>0 DEF rank
<1>6. Cardinality(1 .. c) = c /\ IsFiniteSet(1 .. c)
  BY <1>1, FS_Interval
<1>7. \A k \in 1 .. c : \E i \in K : rank[i] = k
  <2> HIDE DEF rank
  <2>1. rank \in Injection(K, 1 .. c)
    BY <1>4, <1>5, Fun_IsInj
  <2>2. rank \in Surjection(K, 1 .. c)
    BY <2>1, <1>6, FS_Injection
  <2> QED
    BY <2>2, Fun_SurjectionProperties
<1> QED
  BY <1>1, <1>4, <1>5, <1>7

(* NthSmallest enumerates a set of positions without repetition. *)
LEMMA NthSmallestEnumerates ==
  ASSUME NEW n \in Nat, NEW K \in SUBSET (1 .. n)
  PROVE  /\ Cardinality(K) \in Nat
         /\ \A k \in 1 .. Cardinality(K) : NthSmallest(K, k) \in K
         /\ \A k, l \in 1 .. Cardinality(K) : NthSmallest(K, k) = NthSmallest(K, l) => k = l
         /\ \A i \in K : \E k \in 1 .. Cardinality(K) : NthSmallest(K, k) = i
<1> DEFINE c == Cardinality(K)
<1>1. /\ c \in Nat
      /\ \A i \in K : Rank(K, i) \in 1 .. c
      /\ \A i, j \in K : Rank(K, i) = Rank(K, j) => i = j
      /\ \A k \in 1 .. c : \E i \in K : Rank(K, i) = k
  BY RankNumbers
<1>2. \A k \in 1 .. c : NthSmallest(K, k) \in K /\ Rank(K, NthSmallest(K, k)) = k
  BY <1>1 DEF NthSmallest
<1>3. \A i \in K : Rank(K, i) \in 1 .. c /\ NthSmallest(K, Rank(K, i)) = i
  BY <1>1, <1>2
<1> QED
  BY <1>1, <1>2, <1>3

(* NthSmallest goes up. *)
LEMMA NthSmallestIncreases ==
  ASSUME NEW n \in Nat, NEW K \in SUBSET (1 .. n),
         NEW k \in 1 .. Cardinality(K), NEW l \in 1 .. Cardinality(K), k < l
  PROVE  NthSmallest(K, k) < NthSmallest(K, l)
<1> DEFINE c == Cardinality(K)
           i == NthSmallest(K, k)
           j == NthSmallest(K, l)
           Upto(x) == {y \in K : y <= x}
<1>1. /\ IsFiniteSet(K) /\ c \in Nat
      /\ \A x \in 1 .. c : \E y \in K : Rank(K, y) = x
  BY RankNumbers
<1>2. i \in K /\ Rank(K, i) = k /\ j \in K /\ Rank(K, j) = l
  BY <1>1 DEF NthSmallest
<1> HIDE DEF i, j
<1>3. i \in Int /\ j \in Int /\ k \in Int /\ l \in Int /\ \A x \in K : x \in Int
  BY <1>1, <1>2
<1>4. Cardinality(Upto(i)) = k /\ Cardinality(Upto(j)) = l
  BY <1>2 DEF Rank
<1>5. ASSUME j <= i PROVE FALSE
  <2>0. \A x \in K : x <= j => x <= i
    BY <1>3, <1>5
  <2>1. Upto(j) \in SUBSET Upto(i)
    BY <2>0, Zenon
  <2>2. IsFiniteSet(Upto(i))
    BY <1>1, FS_Subset
  <2> HIDE DEF Upto
  <2>3. Cardinality(Upto(j)) <= Cardinality(Upto(i))
    BY <2>1, <2>2, FS_Subset
  <2> QED
    BY <1>3, <1>4, <2>3
<1> QED
  BY <1>3, <1>5 DEF i, j

(* First returns the least of a set of positions. *)
LEMMA FirstLeast ==
  ASSUME NEW n \in Nat, NEW K \in SUBSET (1 .. n), K # {}
  PROVE  First(K) \in K /\ \A j \in K : First(K) <= j
<1> DEFINE Upto(i) == {j \in K : j <= i}
<1>1. IsFiniteSet(K) /\ Cardinality(K) \in Nat
  BY RankNumbers
<1>2. 1 \in 1 .. Cardinality(K)
  BY <1>1, FS_EmptySet
<1>3. PICK i \in K : Cardinality(Upto(i)) = 1
  <2>1. \E i \in K : Rank(K, i) = 1
    BY <1>2, RankNumbers
  <2> QED
    BY <2>1 DEF Rank
<1>4. \A j \in K : j \in Int
  OBVIOUS
<1>5. PICK x : Upto(i) = {x}
  <2>1. IsFiniteSet(Upto(i))
    BY <1>1, FS_Subset
  <2> QED
    BY <2>1, <1>3, FS_Singleton
<1>6. \A j \in K : j <= i => j = i
  BY <1>4, <1>5
<1>7. \A j \in K : i <= j
  BY <1>4, <1>6
<1> QED
  BY <1>7 DEF First

(* Keep returns the entries at the positions K, each of them once. *)
LEMMA KeepProperties ==
  ASSUME NEW S, NEW s \in Seq(S), NEW K \in SUBSET DOMAIN s
  PROVE  LET r == Keep(s, K)
         IN  /\ r \in Seq(S)
             /\ \A k \in DOMAIN r : NthSmallest(K, k) \in K /\ r[k] = s[NthSmallest(K, k)]
             /\ \A k, l \in DOMAIN r : NthSmallest(K, k) = NthSmallest(K, l) => k = l
             /\ \A i \in K : \E k \in DOMAIN r : r[k] = s[i] /\ NthSmallest(K, k) = i
<1> DEFINE r == Keep(s, K)
<1>1. Len(s) \in Nat /\ DOMAIN s = 1 .. Len(s)
  OBVIOUS
<1>2. /\ Cardinality(K) \in Nat
      /\ \A k \in 1 .. Cardinality(K) : NthSmallest(K, k) \in K
      /\ \A k, l \in 1 .. Cardinality(K) : NthSmallest(K, k) = NthSmallest(K, l) => k = l
      /\ \A i \in K : \E k \in 1 .. Cardinality(K) : NthSmallest(K, k) = i
  BY <1>1, NthSmallestEnumerates, ZenonT(30)
<1>3. DOMAIN r = 1 .. Cardinality(K)
  BY DEF Keep
<1>4. \A k \in DOMAIN r : r[k] = s[NthSmallest(K, k)] /\ r[k] \in S
  BY <1>1, <1>2, <1>3 DEF Keep
<1>5. r \in Seq(S)
  BY <1>2, <1>4 DEF Keep
<1> QED
  BY <1>2, <1>3, <1>4, <1>5

-----------------------------------------------------------------------------
(* The elements of the vectors the operations build, and that they stay distinct. *)

(* Vec::retain *)
LEMMA KeepElements ==
  ASSUME NEW S, NEW s \in Seq(S), NEW K \in SUBSET DOMAIN s
  PROVE  /\ Keep(s, K) \in Seq(S)
         /\ Elements(Keep(s, K)) = {s[i] : i \in K}
         /\ Distinct(s) => Distinct(Keep(s, K))
<1> DEFINE r == Keep(s, K)
<1>1. /\ r \in Seq(S)
      /\ \A k \in DOMAIN r : NthSmallest(K, k) \in K /\ r[k] = s[NthSmallest(K, k)]
      /\ \A k, l \in DOMAIN r : NthSmallest(K, k) = NthSmallest(K, l) => k = l
      /\ \A i \in K : \E k \in DOMAIN r : r[k] = s[i] /\ NthSmallest(K, k) = i
  BY KeepProperties
<1> HIDE DEF r
<1>2. Elements(r) = {s[i] : i \in K}
  BY <1>1 DEF Elements
<1>3. Distinct(s) => Distinct(r)
  BY <1>1 DEF Distinct
<1> QED
  BY <1>1, <1>2, <1>3 DEF r

(* Keep keeps the order. *)
LEMMA KeepOrder ==
  ASSUME NEW S, NEW s \in Seq(S), NEW K \in SUBSET DOMAIN s
  PROVE  \A k, l \in DOMAIN Keep(s, K) : k < l =>
           \E i, j \in K : i < j /\ Keep(s, K)[k] = s[i] /\ Keep(s, K)[l] = s[j]
<1> DEFINE r == Keep(s, K)
<1>1. DOMAIN r = 1 .. Cardinality(K) /\ K \in SUBSET (1 .. Len(s)) /\ Len(s) \in Nat
  BY DEF Keep
<1>2. \A k \in DOMAIN r : NthSmallest(K, k) \in K /\ r[k] = s[NthSmallest(K, k)]
  BY KeepProperties
<1> HIDE DEF r
<1> SUFFICES ASSUME NEW k \in DOMAIN r, NEW l \in DOMAIN r, k < l
             PROVE  \E i, j \in K : i < j /\ r[k] = s[i] /\ r[l] = s[j]
  BY DEF r
<1>3. NthSmallest(K, k) < NthSmallest(K, l)
  BY <1>1, NthSmallestIncreases
<1> QED
  BY <1>2, <1>3

(* Vec::push *)
LEMMA AppendElements ==
  ASSUME NEW S, NEW s \in Seq(S), NEW e \in S
  PROVE  /\ Append(s, e) \in Seq(S)
         /\ Elements(Append(s, e)) = Elements(s) \cup {e}
         /\ Distinct(s) /\ e \notin Elements(s) => Distinct(Append(s, e))
<1>1. /\ Append(s, e) \in Seq(S)
      /\ DOMAIN s = 1 .. Len(s) /\ Len(s) \in Nat
      /\ DOMAIN Append(s, e) = 1 .. Len(s) + 1
      /\ \A i \in DOMAIN s : Append(s, e)[i] = s[i]
      /\ Append(s, e)[Len(s) + 1] = e
  OBVIOUS
<1> QED
  BY <1>1 DEF Elements, Distinct

(* Vec::extend *)
LEMMA ConcatElements ==
  ASSUME NEW S, NEW s \in Seq(S), NEW t \in Seq(S)
  PROVE  /\ s \o t \in Seq(S)
         /\ Elements(s \o t) = Elements(s) \cup Elements(t)
         /\ Distinct(s) /\ Distinct(t) /\ Elements(s) \cap Elements(t) = {}
              => Distinct(s \o t)
<1>1. /\ s \o t \in Seq(S)
      /\ DOMAIN s = 1 .. Len(s) /\ Len(s) \in Nat
      /\ DOMAIN t = 1 .. Len(t) /\ Len(t) \in Nat
      /\ DOMAIN (s \o t) = 1 .. Len(s) + Len(t)
      /\ \A i \in DOMAIN s : i \in DOMAIN (s \o t) /\ (s \o t)[i] = s[i]
      /\ \A i \in DOMAIN t : Len(s) + i \in DOMAIN (s \o t) /\ (s \o t)[Len(s) + i] = t[i]
  OBVIOUS
<1>2. \A i \in DOMAIN (s \o t) :
        i \in DOMAIN s \/ (i > Len(s) /\ i - Len(s) \in DOMAIN t /\ (s \o t)[i] = t[i - Len(s)])
  BY <1>1
<1>3. Elements(s \o t) = Elements(s) \cup Elements(t)
  <2>1. ASSUME NEW i \in DOMAIN (s \o t)
        PROVE  (s \o t)[i] \in Elements(s) \cup Elements(t)
    BY <1>1, <1>2 DEF Elements
  <2>2. \A i \in DOMAIN s : s[i] \in Elements(s \o t)
    BY <1>1 DEF Elements
  <2>3. ASSUME NEW i \in DOMAIN t
        PROVE  t[i] \in Elements(s \o t)
    <3>1. Len(s) + i \in DOMAIN (s \o t) /\ (s \o t)[Len(s) + i] = t[i]
      BY <1>1
    <3> QED
      BY <3>1 DEF Elements
  <2> QED
    BY <2>1, <2>2, <2>3 DEF Elements
<1>4. ASSUME Distinct(s), Distinct(t), Elements(s) \cap Elements(t) = {}
      PROVE  Distinct(s \o t)
  <2> SUFFICES ASSUME NEW i \in DOMAIN (s \o t), NEW j \in DOMAIN (s \o t),
                      (s \o t)[i] = (s \o t)[j]
               PROVE  i = j
    BY DEF Distinct
  <2>1. CASE i \in DOMAIN s /\ j \in DOMAIN s
    BY <1>1, <1>4, <2>1 DEF Distinct
  <2>2. CASE i \notin DOMAIN s /\ j \notin DOMAIN s
    <3>1. i - Len(s) = j - Len(s)
      BY <1>2, <1>4, <2>2 DEF Distinct
    <3> QED
      BY <1>1, <3>1
  <2>3. CASE i \in DOMAIN s /\ j \notin DOMAIN s
    BY <1>1, <1>2, <1>4, <2>3, ZenonT(30) DEF Elements
  <2>4. CASE i \notin DOMAIN s /\ j \in DOMAIN s
    BY <1>1, <1>2, <1>4, <2>4, ZenonT(30) DEF Elements
  <2> QED
    BY <2>1, <2>2, <2>3, <2>4
<1> QED
  BY <1>1, <1>3, <1>4

(* The two parts of a vector. *)
LEMMA SplitElements ==
  ASSUME NEW S, NEW s \in Seq(S), NEW k \in 0 .. Len(s)
  PROVE  /\ Front(s, k) \in Seq(S) /\ Rest(s, k) \in Seq(S)
         /\ DOMAIN Front(s, k) = 1 .. k
         /\ \A i \in 1 .. k : Front(s, k)[i] = s[i]
         /\ Elements(Front(s, k)) = {s[i] : i \in 1 .. k}
         /\ Elements(Rest(s, k)) = {s[i] : i \in k + 1 .. Len(s)}
         /\ Distinct(s) => Distinct(Front(s, k)) /\ Distinct(Rest(s, k))
<1>1. /\ Len(s) \in Nat /\ DOMAIN s = 1 .. Len(s)
      /\ Front(s, k) \in Seq(S)
      /\ DOMAIN Front(s, k) = 1 .. k
      /\ \A i \in 1 .. k : Front(s, k)[i] = s[i]
  BY DEF Front
<1>2. /\ Rest(s, k) \in Seq(S)
      /\ DOMAIN Rest(s, k) = 1 .. Len(s) - k
      /\ \A i \in 1 .. Len(s) - k : Rest(s, k)[i] = s[k + i]
  BY <1>1 DEF Rest
<1>3. Elements(Front(s, k)) = {s[i] : i \in 1 .. k}
  BY <1>1 DEF Elements
<1>4. Elements(Rest(s, k)) = {s[i] : i \in k + 1 .. Len(s)}
  <2>1. \A i \in 1 .. Len(s) - k : k + i \in k + 1 .. Len(s)
    BY <1>1
  <2>2. \A i \in k + 1 .. Len(s) : i - k \in 1 .. Len(s) - k /\ k + (i - k) = i
    BY <1>1
  <2>3. ASSUME NEW i \in k + 1 .. Len(s)
        PROVE  s[i] \in Elements(Rest(s, k))
    <3>1. i - k \in DOMAIN Rest(s, k) /\ Rest(s, k)[i - k] = s[i]
      BY <1>2, <2>2
    <3> QED
      BY <3>1 DEF Elements
  <2>4. ASSUME NEW i \in DOMAIN Rest(s, k)
        PROVE  Rest(s, k)[i] \in {s[j] : j \in k + 1 .. Len(s)}
    BY <1>2, <2>1
  <2> QED
    BY <2>3, <2>4 DEF Elements
<1>5. ASSUME Distinct(s)
      PROVE  Distinct(Front(s, k)) /\ Distinct(Rest(s, k))
  <2>1. Distinct(Front(s, k))
    BY <1>1, <1>5 DEF Distinct
  <2>2. ASSUME NEW i \in DOMAIN Rest(s, k), NEW j \in DOMAIN Rest(s, k),
               Rest(s, k)[i] = Rest(s, k)[j]
        PROVE  i = j
    <3>1. k + i \in DOMAIN s /\ k + j \in DOMAIN s /\ s[k + i] = s[k + j]
      BY <1>1, <1>2, <2>2
    <3>2. k + i = k + j
      BY <3>1, <1>5 DEF Distinct
    <3> QED
      BY <1>1, <1>2, <3>2
  <2> QED
    BY <2>1, <2>2 DEF Distinct
<1> QED
  BY <1>1, <1>2, <1>3, <1>4, <1>5

(* Vec::split_off makes two vectors of one. *)
LEMMA SplitOff ==
  ASSUME NEW S, NEW s \in Seq(S), NEW k \in 0 .. Len(s), Distinct(s)
  PROVE  /\ Front(s, k) \in Seq(S) /\ Rest(s, k) \in Seq(S)
         /\ Distinct(Front(s, k)) /\ Distinct(Rest(s, k))
         /\ Elements(Front(s, k)) \cap Elements(Rest(s, k)) = {}
         /\ Elements(Front(s, k)) \cup Elements(Rest(s, k)) = Elements(s)
<1>1. Len(s) \in Nat /\ DOMAIN s = 1 .. Len(s)
  OBVIOUS
<1>2. /\ Front(s, k) \in Seq(S) /\ Rest(s, k) \in Seq(S)
      /\ Distinct(Front(s, k)) /\ Distinct(Rest(s, k))
      /\ Elements(Front(s, k)) = {s[i] : i \in 1 .. k}
      /\ Elements(Rest(s, k)) = {s[i] : i \in k + 1 .. Len(s)}
  BY <1>1, SplitElements
<1>3. \A i \in 1 .. k, j \in k + 1 .. Len(s) : i \in DOMAIN s /\ j \in DOMAIN s /\ i # j
  BY <1>1
<1>4. \A i \in DOMAIN s : i \in 1 .. k \/ i \in k + 1 .. Len(s)
  BY <1>1
<1>5. \A i \in 1 .. k : i \in DOMAIN s
  BY <1>1
<1>6. \A i \in k + 1 .. Len(s) : i \in DOMAIN s
  BY <1>1
<1>7. Elements(Front(s, k)) \cap Elements(Rest(s, k)) = {}
  BY <1>2, <1>3 DEF Distinct
<1>8. Elements(Front(s, k)) \cup Elements(Rest(s, k)) = Elements(s)
  BY <1>2, <1>4, <1>5, <1>6 DEF Elements
<1> QED
  BY <1>2, <1>7, <1>8

(* What lies before and after an entry. *)
LEMMA SplitAround ==
  ASSUME NEW S, NEW s \in Seq(S), NEW i \in DOMAIN s, Distinct(s)
  PROVE  /\ Front(s, i - 1) \in Seq(S) /\ Rest(s, i) \in Seq(S)
         /\ Distinct(Front(s, i - 1)) /\ Distinct(Rest(s, i))
         /\ Elements(Front(s, i - 1)) \cap Elements(Rest(s, i)) = {}
         /\ Elements(Front(s, i - 1)) \cup Elements(Rest(s, i)) = Elements(s) \ {s[i]}
<1>1. Len(s) \in Nat /\ DOMAIN s = 1 .. Len(s) /\ i - 1 \in 0 .. Len(s) /\ i \in 0 .. Len(s)
  OBVIOUS
<1>2. /\ Front(s, i - 1) \in Seq(S) /\ Rest(s, i) \in Seq(S)
      /\ Distinct(Front(s, i - 1)) /\ Distinct(Rest(s, i))
      /\ Elements(Front(s, i - 1)) = {s[j] : j \in 1 .. i - 1}
      /\ Elements(Rest(s, i)) = {s[j] : j \in i + 1 .. Len(s)}
  BY <1>1, SplitElements
<1>3. \A j \in 1 .. i - 1 : j \in DOMAIN s /\ j # i /\ j \notin i + 1 .. Len(s)
  BY <1>1
<1>4. \A j \in i + 1 .. Len(s) : j \in DOMAIN s /\ j # i
  BY <1>1
<1>5. \A j \in DOMAIN s : j = i \/ j \in 1 .. i - 1 \/ j \in i + 1 .. Len(s)
  BY <1>1
<1>6. Elements(Front(s, i - 1)) \cap Elements(Rest(s, i)) = {}
  BY <1>2, <1>3, <1>4 DEF Distinct
<1>7. Elements(Front(s, i - 1)) \cup Elements(Rest(s, i)) = Elements(s) \ {s[i]}
  <2>1. \A j \in DOMAIN s : j # i => s[j] # s[i]
    BY DEF Distinct
  <2>2. \A x \in Elements(s) \ {s[i]} : x \in Elements(Front(s, i - 1)) \cup Elements(Rest(s, i))
    BY <1>2, <1>5 DEF Elements
  <2>3. \A x \in Elements(Front(s, i - 1)) : x \in Elements(s) \ {s[i]}
    BY <1>2, <1>3, <2>1 DEF Elements
  <2>4. \A x \in Elements(Rest(s, i)) : x \in Elements(s) \ {s[i]}
    BY <1>2, <1>4, <2>1 DEF Elements
  <2> QED
    BY <2>2, <2>3, <2>4
<1> QED
  BY <1>2, <1>6, <1>7

(* An entry is replaced. *)
LEMMA ReplaceElements ==
  ASSUME NEW S, NEW s \in Seq(S), NEW i \in DOMAIN s, NEW e \in S,
         Distinct(s), e \notin Elements(s),
         NEW r, r = [s EXCEPT ![i] = e]
  PROVE  /\ r \in Seq(S) /\ Distinct(r)
         /\ Elements(r) = (Elements(s) \ {s[i]}) \cup {e}
  BY DEF Elements, Distinct

-----------------------------------------------------------------------------
(* What is stored under a key after an operation on the map. *)

(* IndexMap::insert *)
LEMMA PutLookup ==
  ASSUME NEW m, NEW a, NEW s, NEW b
  PROVE  At(Put(m, a, s), b) = IF b = a THEN s ELSE At(m, b)
  BY DEF At, Put

(* A key is removed. *)
LEMMA WithoutLookup ==
  ASSUME NEW m, NEW D, NEW b
  PROVE  At(Without(m, D), b) = IF b \in D THEN <<>> ELSE At(m, b)
  BY DEF At, Without

(* Keys with nothing under them are removed. *)
LEMMA NonEmptyLookup ==
  ASSUME NEW m, NEW b
  PROVE  At(NonEmpty(m), b) = At(m, b)
  BY WithoutLookup DEF NonEmpty, At

(* A vector is put back, or its key removed. *)
LEMMA PutBackLookup ==
  ASSUME NEW m, NEW a, NEW s, NEW b
  PROVE  At(PutBack(m, a, s), b) = IF b = a THEN s ELSE At(m, b)
  BY WithoutLookup, PutLookup DEF PutBack

-----------------------------------------------------------------------------
(* Where Consecutive stops: at the end, or at the first nonce that does not fit. *)
LEMMA ConsecutiveProperties ==
  ASSUME NEW q \in Seq(OrderedTransaction), NEW n \in Nat
  PROVE  /\ Consecutive(q, n) \in 0 .. Len(q)
         /\ \A i \in 1 .. Consecutive(q, n) : q[i].transaction.nonce = n + i - 1
         /\ Consecutive(q, n) < Len(q) =>
              q[Consecutive(q, n) + 1].transaction.nonce # n + Consecutive(q, n)
<1> DEFINE Fits(i) == q[i].transaction.nonce = n + i - 1
           Bad == {i \in 1 .. Len(q) : ~ Fits(i)}
           Stop(k) == (\A i \in 1 .. k : Fits(i)) /\ (k < Len(q) => ~ Fits(k + 1))
<1>0. Len(q) \in Nat
  OBVIOUS
<1>1. Consecutive(q, n) = CHOOSE k \in 0 .. Len(q) : Stop(k)
  <2>1. \A k \in Nat : n + (k + 1) - 1 = n + k
    OBVIOUS
  <2> QED
    BY <1>0, <2>1 DEF Consecutive
<1> HIDE DEF Fits
<1>2. \E k \in 0 .. Len(q) : Stop(k)
  <2>1. CASE Bad = {}
    <3>1. Stop(Len(q))
      BY <1>0, <2>1
    <3> QED
      BY <1>0, <3>1
  <2>2. CASE Bad # {}
    <3>1. Bad \in SUBSET (1 .. Len(q))
      OBVIOUS
    <3> DEFINE i == First(Bad)
    <3>2. i \in Bad /\ \A j \in Bad : i <= j
      BY <1>0, <3>1, <2>2, FirstLeast
    <3> HIDE DEF i
    <3>3. i \in Nat /\ i - 1 \in 0 .. Len(q) /\ (i - 1) + 1 = i
      BY <1>0, <3>2
    <3>4. Stop(i - 1)
      BY <1>0, <3>2, <3>3
    <3> QED
      BY <3>3, <3>4
  <2> QED
    BY <2>1, <2>2
<1>3. Consecutive(q, n) \in 0 .. Len(q) /\ Stop(Consecutive(q, n))
  BY <1>1, <1>2
<1> HIDE DEF Bad
<1>4. n + (Consecutive(q, n) + 1) - 1 = n + Consecutive(q, n)
  BY <1>0, <1>3
<1> QED
  BY <1>3, <1>4 DEF Fits

(* What the constants guarantee of a transaction and of a queued one. *)
LEMMA Fields ==
  /\ \A tx \in Transactions : tx.caller \in Address /\ tx.nonce \in Nat
  /\ \A ot \in OrderedTransaction : ot.transaction \in Transactions /\ ot.order_id \in Nat
  BY MemPoolAssumption DEF TransactionType, OrderedTransaction

IsHashes(hashes) ==
  /\ DOMAIN hashes \subseteq Transactions
  /\ \A tx \in DOMAIN hashes : hashes[tx] \in OrderedTransaction

(* The inductive invariant. *)
IInv == TypeOK /\ HashMapExact /\ PendingConsecutive

-----------------------------------------------------------------------------
(* Only the queues of account a change, and the hashes of its transactions. *)
ChangedAt(a, m, o, h, m2, o2, h2) ==
  /\ a \in Address
  /\ \A b \in Address : b # a => At(m2, b) = At(m, b) /\ At(o2, b) = At(o, b)
  /\ \A x \in Transactions : x.caller # a =>
       (x \in DOMAIN h2 <=> x \in DOMAIN h) /\ (x \in DOMAIN h => h2[x] = h[x])
  /\ AccountExact(a, At(m2, a), At(o2, a), h2)
  /\ \A x \in DOMAIN h2 : x.caller = a =>
       /\ h2[x].transaction = x
       /\ h2[x] \in Elements(At(m2, a)) \cup Elements(At(o2, a))

(* The hash map stays exact when the queues of one account change. *)
LEMMA ChangeOne ==
  ASSUME NEW m, NEW o, NEW h, NEW m2, NEW o2, NEW h2, NEW a,
         IsHashes(h), IsHashes(h2), Exact(m, o, h), ChangedAt(a, m, o, h, m2, o2, h2)
  PROVE  Exact(m2, o2, h2)
<1> USE DEF ChangedAt
<1>1. ASSUME NEW b \in Address, b # a
      PROVE  AccountExact(b, At(m2, b), At(o2, b), h2)
  <2>1. AccountExact(b, At(m, b), At(o, b), h)
    BY DEF Exact
  <2>2. \A ot \in Elements(At(m, b)) \cup Elements(At(o, b)) :
          ot.transaction \in DOMAIN h2 /\ h2[ot.transaction] = ot
    BY <1>1, <2>1 DEF AccountExact, IsHashes
  <2> QED
    BY <1>1, <2>1, <2>2 DEF AccountExact
<1>2. ASSUME NEW x \in DOMAIN h2
      PROVE  /\ h2[x].transaction = x
             /\ h2[x] \in Elements(At(m2, x.caller)) \cup Elements(At(o2, x.caller))
  <2>1. x \in Transactions /\ x.caller \in Address
    BY Fields DEF IsHashes
  <2>2. CASE x.caller = a
    BY <2>2
  <2>3. CASE x.caller # a
    <3>1. x \in DOMAIN h /\ h2[x] = h[x]
      BY <2>1, <2>3
    <3> QED
      BY <2>1, <2>3, <3>1 DEF Exact
  <2> QED
    BY <2>2, <2>3
<1> QED
  BY <1>1, <1>2 DEF Exact

(* Of the pending and the future queues one is m, the other one o. *)
LEMMA ExactSymmetric ==
  ASSUME NEW m, NEW o, NEW h, Exact(m, o, h)
  PROVE  Exact(o, m, h)
  BY DEF Exact, AccountExact

(* Entry i of account a is replaced, and its hash. *)
ReplacedIn(m, h, a, i, ot, m2, h2) ==
  /\ a = ot.transaction.caller /\ a \in DOMAIN m /\ i \in DOMAIN m[a]
  /\ m2 = [m EXCEPT ![a] = [m[a] EXCEPT ![i] = ot]]
  /\ h2 = Put(Without(h, {m[a][i].transaction}), ot.transaction, ot)

(* Replacing an entry and its hash. *)
LEMMA ReplaceExact ==
  ASSUME NEW m, NEW o, NEW h, IsQueues(m), IsQueues(o), IsHashes(h), Exact(m, o, h),
         NEW ot \in OrderedTransaction, ot.transaction \notin DOMAIN h,
         NEW a, NEW i, NEW m2, NEW h2, ReplacedIn(m, h, a, i, ot, m2, h2)
  PROVE  IsQueues(m2) /\ IsHashes(h2) /\ Exact(m2, o, h2)
<1> DEFINE tx == ot.transaction
           s == m[a]
           old == s[i].transaction
           r == [s EXCEPT ![i] = ot]
<1>1. /\ tx \in Transactions /\ a \in Address
      /\ s \in Seq(OrderedTransaction) /\ At(m, a) = s
      /\ At(o, a) \in Seq(OrderedTransaction)
      /\ i \in DOMAIN s /\ s[i] \in OrderedTransaction /\ old \in Transactions
  BY Fields DEF IsQueues, At, ReplacedIn
<1>2. AccountExact(a, s, At(o, a), h)
  BY <1>1 DEF Exact
<1>3. Distinct(s) /\ s[i] \in Elements(s) /\ ot \notin Elements(s) /\ ot \notin Elements(At(o, a))
  BY <1>1, <1>2 DEF AccountExact, Elements
<1>4. r \in Seq(OrderedTransaction) /\ Distinct(r) /\ Elements(r) = (Elements(s) \ {s[i]}) \cup {ot}
  BY <1>1, <1>3, ReplaceElements
<1>5. \A b : At(m2, b) = IF b = a THEN r ELSE At(m, b)
  BY DEF At, ReplacedIn
<1>6. DOMAIN m2 = DOMAIN m
  BY DEF ReplacedIn
<1>7. IsQueues(m2)
  BY <1>4, <1>5, <1>6 DEF IsQueues
<1>8. /\ DOMAIN h2 = (DOMAIN h \ {old}) \cup {tx}
      /\ h2[tx] = ot
      /\ \A x \in DOMAIN h \ {old} : h2[x] = h[x]
  BY DEF Put, Without, ReplacedIn
<1>9. IsHashes(h2)
  BY <1>1, <1>8 DEF IsHashes
<1>10. old.caller = a /\ old \in DOMAIN h /\ h[old] = s[i]
  BY <1>2, <1>3 DEF AccountExact
<1> HIDE DEF tx, s, old, r
<1>11. AccountExact(a, r, At(o, a), h2)
  <2>1. \A e \in (Elements(s) \ {s[i]}) \cup Elements(At(o, a)) :
          e.transaction.caller = a /\ e.transaction \in DOMAIN h2 /\ h2[e.transaction] = e
    BY <1>2, <1>3, <1>8, <1>10 DEF AccountExact
  <2>2. ot.transaction.caller = a /\ ot.transaction \in DOMAIN h2 /\ h2[ot.transaction] = ot
    BY <1>1, <1>8 DEF tx, ReplacedIn
  <2> QED
    BY <1>2, <1>3, <1>4, <2>1, <2>2 DEF AccountExact
<1>12. \A x \in Transactions : x.caller # a =>
         (x \in DOMAIN h2 <=> x \in DOMAIN h) /\ (x \in DOMAIN h => h2[x] = h[x])
  BY <1>8, <1>10 DEF tx, ReplacedIn
<1>13. \A x \in DOMAIN h2 : x.caller = a =>
         h2[x].transaction = x /\ h2[x] \in Elements(r) \cup Elements(At(o, a))
  <2>1. \A x \in DOMAIN h : /\ h[x].transaction = x
                            /\ x.caller = a => h[x] \in Elements(s) \cup Elements(At(o, a))
    BY <1>1 DEF Exact
  <2>2. \A x \in DOMAIN h \ {old} : h[x] # s[i]
    BY <2>1 DEF old
  <2> QED
    BY <1>4, <1>8, <2>1, <2>2 DEF tx
<1>14. ChangedAt(a, m, o, h, m2, o, h2)
  BY <1>1, <1>5, <1>11, <1>12, <1>13 DEF ChangedAt
<1>15. Exact(m2, o, h2)
  BY <1>9, <1>14, ChangeOne
<1> QED
  BY <1>7, <1>9, <1>15

(* The queues of account a hold other entries than before: E. *)
RearrangedAt(a, m, o, m2, o2, E) ==
  /\ a \in Address
  /\ \A b \in Address : b # a => At(m2, b) = At(m, b) /\ At(o2, b) = At(o, b)
  /\ Distinct(At(m2, a)) /\ Distinct(At(o2, a))
  /\ Elements(At(m2, a)) \cap Elements(At(o2, a)) = {}
  /\ Elements(At(m2, a)) \cup Elements(At(o2, a)) = E

(* Queueing a new entry, whatever else moves between the queues of its sender. *)
LEMMA InsertExact ==
  ASSUME NEW m, NEW o, NEW h, NEW m2, NEW o2, IsHashes(h), Exact(m, o, h),
         NEW ot \in OrderedTransaction, ot.transaction \notin DOMAIN h,
         NEW a, a = ot.transaction.caller,
         RearrangedAt(a, m, o, m2, o2, Elements(At(m, a)) \cup Elements(At(o, a)) \cup {ot})
  PROVE  /\ IsHashes(Put(h, ot.transaction, ot))
         /\ Exact(m2, o2, Put(h, ot.transaction, ot))
<1> USE DEF RearrangedAt
<1> DEFINE h2 == Put(h, ot.transaction, ot)
<1>1. /\ DOMAIN h2 = DOMAIN h \cup {ot.transaction}
      /\ h2[ot.transaction] = ot
      /\ \A x \in DOMAIN h : h2[x] = h[x]
  BY DEF Put
<1> HIDE DEF h2
<1>2. IsHashes(h2)
  BY <1>1, Fields DEF IsHashes
<1>3. AccountExact(a, At(m, a), At(o, a), h)
  BY DEF Exact
<1>4. AccountExact(a, At(m2, a), At(o2, a), h2)
  BY <1>1, <1>3 DEF AccountExact
<1>5. \A x \in DOMAIN h2 : x.caller = a =>
        /\ h2[x].transaction = x
        /\ h2[x] \in Elements(At(m2, a)) \cup Elements(At(o2, a))
  BY <1>1 DEF Exact
<1>6. ChangedAt(a, m, o, h, m2, o2, h2)
  BY <1>1, <1>4, <1>5 DEF ChangedAt
<1>7. Exact(m2, o2, h2)
  BY <1>2, <1>6, ChangeOne
<1> QED
  BY <1>2, <1>7 DEF h2

(* Dropping one entry, whatever else moves between the queues of its sender. *)
LEMMA RemoveExact ==
  ASSUME NEW m, NEW o, NEW h, NEW m2, NEW o2, IsHashes(h), Exact(m, o, h),
         NEW tx \in DOMAIN h, NEW a, a = tx.caller,
         RearrangedAt(a, m, o, m2, o2, (Elements(At(m, a)) \cup Elements(At(o, a))) \ {h[tx]})
  PROVE  /\ IsHashes(Without(h, {tx}))
         /\ Exact(m2, o2, Without(h, {tx}))
<1> USE DEF RearrangedAt
<1> DEFINE h2 == Without(h, {tx})
<1>1. /\ DOMAIN h2 = DOMAIN h \ {tx}
      /\ \A x \in DOMAIN h2 : h2[x] = h[x]
  BY DEF Without
<1> HIDE DEF h2
<1>2. IsHashes(h2)
  BY <1>1 DEF IsHashes
<1>3. AccountExact(a, At(m, a), At(o, a), h)
  BY DEF Exact
<1>4. AccountExact(a, At(m2, a), At(o2, a), h2)
  BY <1>1, <1>3 DEF AccountExact
<1>5. \A x \in DOMAIN h2 : x.caller = a =>
        /\ h2[x].transaction = x
        /\ h2[x] \in Elements(At(m2, a)) \cup Elements(At(o2, a))
  <2> SUFFICES ASSUME NEW x \in DOMAIN h2, x.caller = a
               PROVE  /\ h2[x].transaction = x
                      /\ h2[x] \in Elements(At(m2, a)) \cup Elements(At(o2, a))
    OBVIOUS
  <2>1. x \in DOMAIN h /\ h2[x] = h[x] /\ x # tx
    BY <1>1
  <2>2. h[x].transaction = x /\ h[tx].transaction = tx
    BY <2>1 DEF Exact
  <2>3. h[x] \in Elements(At(m, a)) \cup Elements(At(o, a))
    BY <2>1 DEF Exact
  <2> QED
    BY <2>1, <2>2, <2>3
<1>6. ChangedAt(a, m, o, h, m2, o2, h2)
  BY <1>1, <1>4, <1>5 DEF ChangedAt
<1>7. Exact(m2, o2, h2)
  BY <1>2, <1>6, ChangeOne
<1> QED
  BY <1>2, <1>7 DEF h2

-----------------------------------------------------------------------------
(* The part of the invariant that is about the queues and the hashes. *)
PoolOK ==
  /\ IsQueues(pending_transactions) /\ IsQueues(future_transactions)
  /\ IsHashes(hash_to_transaction)
  /\ HashMapExact

(* The position of a transaction to be replaced. *)
LEMMA ReplacedAtProperties ==
  ASSUME NEW q \in Seq(OrderedTransaction), NEW tx, SameNonce(q, tx) # {}
  PROVE  ReplacedAt(q, tx) \in DOMAIN q /\ q[ReplacedAt(q, tx)].transaction.nonce = tx.nonce
<1>1. SameNonce(q, tx) \in SUBSET (1 .. Len(q)) /\ Len(q) \in Nat
  BY DEF SameNonce
<1>2. ReplacedAt(q, tx) = First(SameNonce(q, tx))
  BY DEF ReplacedAt, Find, SameNonce
<1> QED
  BY <1>1, <1>2, FirstLeast DEF SameNonce

(* A replacement in the queues m, the other queues o staying as they are. *)
LEMMA ReplaceInExact ==
  ASSUME NEW m, NEW o, IsQueues(m), IsQueues(o), IsHashes(hash_to_transaction),
         Exact(m, o, hash_to_transaction),
         NEW ot \in OrderedTransaction, ot.transaction \notin DOMAIN hash_to_transaction,
         ReplacementAccepted(m, ot.transaction)
  PROVE  /\ IsQueues(ReplaceIn(m, ot)) /\ IsHashes(ReplacedHash(m, ot))
         /\ Exact(ReplaceIn(m, ot), o, ReplacedHash(m, ot))
         /\ DOMAIN ReplaceIn(m, ot) = DOMAIN m
<1> DEFINE tx == ot.transaction
           a == tx.caller
           i == ReplacedAt(m[a], tx)
<1>1. a \in DOMAIN m /\ m[a] \in Seq(OrderedTransaction) /\ SameNonce(m[a], tx) # {}
  BY Fields DEF ReplacementAccepted, At, SameNonce, IsQueues
<1>2. i \in DOMAIN m[a]
  BY <1>1, ReplacedAtProperties
<1> HIDE DEF i
<1>3. ReplaceIn(m, ot) = [m EXCEPT ![a] = [m[a] EXCEPT ![i] = ot]]
  BY DEF ReplaceIn, i
<1>4. ReplacedHash(m, ot) = Put(Without(hash_to_transaction, {m[a][i].transaction}), tx, ot)
  BY DEF ReplacedHash, i
<1>5. DOMAIN ReplaceIn(m, ot) = DOMAIN m
  BY <1>3
<1>6. ReplacedIn(m, hash_to_transaction, a, i, ot, ReplaceIn(m, ot), ReplacedHash(m, ot))
  BY <1>1, <1>2, <1>3, <1>4 DEF ReplacedIn
<1> QED
  BY <1>5, <1>6, ReplaceExact

(* insert_future_transaction keeps the queues and the hashes in agreement. *)
LEMMA InsertFutureExact ==
  ASSUME PoolOK, NEW ot \in OrderedTransaction,
         ot.transaction \notin DOMAIN hash_to_transaction, InsertFuture(ot)
  PROVE  PoolOK'
<1> DEFINE tx == ot.transaction
           a == tx.caller
           p == pending_transactions
           f == future_transactions
           h == hash_to_transaction
<1>0. a \in Address /\ Exact(p, f, h) /\ IsQueues(p) /\ IsQueues(f) /\ IsHashes(h) /\ p' = p
  BY Fields DEF PoolOK, HashMapExact, InsertFuture
<1>1. CASE ReplacementAccepted(f, tx) /\ f' = ReplaceIn(f, ot) /\ h' = ReplacedHash(f, ot)
  <2>1. Exact(f, p, h)
    BY <1>0, ExactSymmetric
  <2>2. IsQueues(f') /\ IsHashes(h') /\ Exact(f', p, h')
    BY <1>0, <1>1, <2>1, ReplaceInExact
  <2>3. Exact(p, f', h')
    BY <2>2, ExactSymmetric
  <2> QED
    BY <1>0, <2>2, <2>3 DEF PoolOK, HashMapExact, IsHashes, IsQueues
<1>2. CASE f' = Put(f, a, Append(At(f, a), ot)) /\ h' = Known(ot)
  <2> DEFINE s == At(f, a)
             f2 == Put(f, a, Append(s, ot))
  <2>1. s \in Seq(OrderedTransaction)
    BY <1>0 DEF IsQueues
  <2>2. AccountExact(a, At(p, a), s, h)
    BY <1>0 DEF Exact
  <2>3. ot \notin Elements(s) /\ ot \notin Elements(At(p, a)) /\ Distinct(s) /\ Distinct(At(p, a))
    BY <2>2 DEF AccountExact
  <2>4. /\ Append(s, ot) \in Seq(OrderedTransaction)
        /\ Elements(Append(s, ot)) = Elements(s) \cup {ot}
        /\ Distinct(Append(s, ot))
    BY <2>1, <2>3, AppendElements
  <2>5. \A b : At(f2, b) = IF b = a THEN Append(s, ot) ELSE At(f, b)
    BY PutLookup
  <2>6. IsQueues(f2)
    <3>1. DOMAIN f2 = DOMAIN f \cup {a}
      BY DEF Put
    <3> HIDE DEF f2
    <3> QED
      BY <1>0, <2>4, <2>5, <3>1 DEF IsQueues
  <2> HIDE DEF f2
  <2>7. RearrangedAt(a, p, f, p, f2, Elements(At(p, a)) \cup Elements(At(f, a)) \cup {ot})
    BY <1>0, <2>2, <2>3, <2>4, <2>5 DEF AccountExact, RearrangedAt
  <2>8. IsHashes(Put(h, tx, ot)) /\ Exact(p, f2, Put(h, tx, ot))
    BY <1>0, <2>7, InsertExact
  <2> QED
    BY <1>0, <1>2, <2>6, <2>8 DEF PoolOK, HashMapExact, Known, f2, IsQueues, IsHashes
<1> QED
  BY <1>1, <1>2 DEF InsertFuture

(* The promoted nonces follow n without a gap, and each has an entry. *)
LEMMA PromotionProperties ==
  ASSUME NEW q \in Seq(OrderedTransaction), NEW n \in Nat
  PROVE  /\ Cardinality(PromotedNonces(q, n)) \in Nat
         /\ PromotedNonces(q, n) = n + 1 .. n + Cardinality(PromotedNonces(q, n))
         /\ \A k \in PromotedNonces(q, n) :
              PromotedAt(q, k) \in DOMAIN q /\ q[PromotedAt(q, k)].transaction.nonce = k
<1> DEFINE Has(k) == \E i \in DOMAIN q : q[i].transaction.nonce = k
           run == PromotedNonces(q, n)
           Gap == {j \in 1 .. Len(q) : ~ Has(n + j)}
<1>0. Len(q) \in Nat
  OBVIOUS
<1>1. run = {k \in n + 1 .. n + Len(q) : \A l \in n + 1 .. k : Has(l)}
  BY DEF PromotedNonces, Found
<1>2. ASSUME NEW k \in run
      PROVE  PromotedAt(q, k) \in DOMAIN q /\ q[PromotedAt(q, k)].transaction.nonce = k
  <2> DEFINE K == {i \in DOMAIN q : q[i].transaction.nonce = k}
  <2>1. Has(k)
    BY <1>0, <1>1, <1>2
  <2>2. K # {} /\ K \in SUBSET (1 .. Len(q))
    BY <2>1
  <2>3. PromotedAt(q, k) = First(K)
    BY DEF PromotedAt, Find
  <2>4. First(K) \in K
    BY <1>0, <2>2, FirstLeast
  <2> QED
    BY <2>3, <2>4
<1> HIDE DEF Has, run
<1>3. \E b \in 0 .. Len(q) : run = n + 1 .. n + b
  <2>1. CASE Gap = {}
    <3>1. \A l \in n + 1 .. n + Len(q) : Has(l)
      <4> TAKE l \in n + 1 .. n + Len(q)
      <4>1. l - n \in 1 .. Len(q) /\ n + (l - n) = l
        BY <1>0
      <4>2. Has(n + (l - n))
        BY <2>1, <4>1
      <4> QED
        BY <4>1, <4>2
    <3>2. run = n + 1 .. n + Len(q)
      BY <1>0, <1>1, <3>1
    <3> QED
      BY <1>0, <3>2
  <2>2. CASE Gap # {}
    <3>1. Gap \in SUBSET (1 .. Len(q))
      OBVIOUS
    <3> DEFINE g == First(Gap)
    <3>2. g \in Gap /\ \A j \in Gap : g <= j
      BY <1>0, <2>2, <3>1, FirstLeast
    <3> HIDE DEF g
    <3>3. g \in 1 .. Len(q) /\ ~ Has(n + g)
      BY <3>2
    <3>4. \A l \in n + 1 .. n + (g - 1) : Has(l)
      <4> TAKE l \in n + 1 .. n + (g - 1)
      <4>1. l - n \in 1 .. Len(q) /\ n + (l - n) = l /\ ~ (g <= l - n)
        BY <1>0, <3>3
      <4>2. l - n \notin Gap
        BY <3>2, <4>1
      <4> HIDE DEF Gap
      <4>3. Has(n + (l - n))
        BY <4>1, <4>2 DEF Gap
      <4> QED
        BY <4>1, <4>3
    <3>5. \A k \in n + 1 .. n + Len(q) : k \in run <=> k <= n + (g - 1)
      <4> TAKE k \in n + 1 .. n + Len(q)
      <4>1. k <= n + (g - 1) => \A l \in n + 1 .. k : l \in n + 1 .. n + (g - 1)
        BY <1>0, <3>3
      <4>2. ~ (k <= n + (g - 1)) => n + g \in n + 1 .. k
        BY <1>0, <3>3
      <4> QED
        BY <1>1, <3>3, <3>4, <4>1, <4>2
    <3>6. run \subseteq n + 1 .. n + Len(q)
      BY <1>1
    <3>7. g - 1 \in 0 .. Len(q) /\ \A k \in n + 1 .. n + (g - 1) : k \in n + 1 .. n + Len(q)
      BY <1>0, <3>3
    <3>8. \A k \in run : k \in n + 1 .. n + (g - 1)
      BY <1>0, <3>3, <3>5, <3>6
    <3>9. \A k \in n + 1 .. n + (g - 1) : k \in run
      BY <1>0, <3>3, <3>5, <3>7
    <3> QED
      BY <3>7, <3>8, <3>9
  <2> QED
    BY <2>1, <2>2
<1>4. PICK b \in 0 .. Len(q) : run = n + 1 .. n + b
  BY <1>3
<1>5. Cardinality(n + 1 .. n + b) = b
  BY <1>0, FS_Interval
<1> QED
  BY <1>0, <1>2, <1>4, <1>5 DEF run

(* What insert_pending_transaction takes out of a future queue and what it leaves. *)
Promotion(q, n, promoted, left) ==
  LET run == PromotedNonces(q, n)
  IN  /\ promoted = [k \in 1 .. Cardinality(run) |-> q[PromotedAt(q, n + k)]]
      /\ left = Keep(q, DOMAIN q \ {PromotedAt(q, k) : k \in run})

(* The promoted entries and the ones left behind make up the future queue. *)
LEMMA PromotionSplits ==
  ASSUME NEW q \in Seq(OrderedTransaction), NEW n \in Nat, Distinct(q),
         NEW promoted, NEW left, Promotion(q, n, promoted, left)
  PROVE  /\ promoted \in Seq(OrderedTransaction) /\ left \in Seq(OrderedTransaction)
         /\ Distinct(promoted) /\ Distinct(left)
         /\ Elements(promoted) \cap Elements(left) = {}
         /\ Elements(promoted) \cup Elements(left) = Elements(q)
         /\ \A k \in DOMAIN promoted : promoted[k].transaction.nonce = n + k
<1> DEFINE run == PromotedNonces(q, n)
           c == Cardinality(run)
           I == {PromotedAt(q, k) : k \in run}
<1>1. /\ c \in Nat /\ run = n + 1 .. n + c
      /\ \A k \in run : PromotedAt(q, k) \in DOMAIN q /\ q[PromotedAt(q, k)].transaction.nonce = k
  BY PromotionProperties
<1>a. promoted = [k \in 1 .. c |-> q[PromotedAt(q, n + k)]] /\ left = Keep(q, DOMAIN q \ I)
  BY DEF Promotion
<1> HIDE DEF run, c
<1>2. \A k \in 1 .. c : n + k \in run
  BY <1>1
<1>3. DOMAIN promoted = 1 .. c
  BY <1>a
<1>4. \A k \in 1 .. c : promoted[k] = q[PromotedAt(q, n + k)]
  BY <1>a
<1>5. \A k \in 1 .. c : /\ promoted[k] \in OrderedTransaction
                        /\ promoted[k].transaction.nonce = n + k
  BY <1>1, <1>2, <1>4
<1>6. promoted \in Seq(OrderedTransaction)
  BY <1>1, <1>5, <1>a
<1>7. Distinct(promoted)
  <2> SUFFICES ASSUME NEW k \in DOMAIN promoted, NEW l \in DOMAIN promoted,
                      promoted[k] = promoted[l]
               PROVE  k = l
    BY Zenon DEF Distinct
  <2>1. k \in 1 .. c /\ l \in 1 .. c
    BY <1>3
  <2>2. n + k = n + l
    BY <1>5, <2>1
  <2> QED
    BY <1>1, <2>1, <2>2
<1>8. I \in SUBSET DOMAIN q
  BY <1>1
<1>9. Elements(promoted) = {q[i] : i \in I}
  <2>1. \A k \in 1 .. c : promoted[k] \in {q[i] : i \in I}
    BY <1>2, <1>4
  <2>2. \A k \in run : q[PromotedAt(q, k)] \in Elements(promoted)
    <3> TAKE k \in run
    <3>1. k - n \in 1 .. c /\ n + (k - n) = k
      BY <1>1
    <3>2. promoted[k - n] = q[PromotedAt(q, k)]
      BY <1>4, <3>1
    <3> QED
      BY <1>3, <3>1, <3>2 DEF Elements
  <2>3. \A x \in Elements(promoted) : x \in {q[i] : i \in I}
    BY <1>3, <2>1 DEF Elements
  <2>4. \A i \in I : q[i] \in Elements(promoted)
    BY <2>2
  <2> QED
    BY <2>3, <2>4
<1> HIDE DEF I
<1>10. /\ left \in Seq(OrderedTransaction)
       /\ Elements(left) = {q[i] : i \in DOMAIN q \ I}
       /\ Distinct(left)
  BY <1>a, <1>8, KeepElements
<1>11. Elements(promoted) \cap Elements(left) = {}
  BY <1>8, <1>9, <1>10 DEF Distinct
<1>12. Elements(promoted) \cup Elements(left) = Elements(q)
  BY <1>8, <1>9, <1>10 DEF Elements
<1> QED
  BY <1>3, <1>5, <1>6, <1>7, <1>10, <1>11, <1>12

(* insert_pending_transaction keeps the queues and the hashes in agreement. *)
LEMMA InsertPendingExact ==
  ASSUME PoolOK, NEW ot \in OrderedTransaction,
         ot.transaction \notin DOMAIN hash_to_transaction, InsertPending(ot)
  PROVE  PoolOK'
<1> DEFINE tx == ot.transaction
           a == tx.caller
           p == pending_transactions
           f == future_transactions
           h == hash_to_transaction
           q == At(f, a)
           run == PromotedNonces(q, tx.nonce)
           promoted == [k \in 1 .. Cardinality(run) |-> q[PromotedAt(q, tx.nonce + k)]]
           left == Keep(q, DOMAIN q \ {PromotedAt(q, k) : k \in run})
           s == Append(At(p, a), ot)
<1>0. /\ tx \in Transactions /\ a \in Address /\ tx.nonce \in Nat
      /\ Exact(p, f, h) /\ IsQueues(p) /\ IsQueues(f) /\ IsHashes(h)
      /\ q \in Seq(OrderedTransaction) /\ At(p, a) \in Seq(OrderedTransaction)
  BY Fields DEF PoolOK, HashMapExact, IsQueues
<1>1. CASE ReplacementAccepted(p, tx) /\ p' = ReplaceIn(p, ot) /\ h' = ReplacedHash(p, ot) /\ f' = f
  <2>1. IsQueues(p') /\ IsHashes(h') /\ Exact(p', f, h')
    BY <1>0, <1>1, ReplaceInExact
  <2> QED
    BY <1>0, <1>1, <2>1 DEF PoolOK, HashMapExact, IsHashes, IsQueues
<1>2. CASE /\ p' = Put(p, a, s \o promoted)
           /\ f' = IF a \in DOMAIN f THEN PutBack(f, a, left) ELSE f
           /\ h' = Known(ot)
  <2>1. AccountExact(a, At(p, a), q, h)
    BY <1>0 DEF Exact
  <2>2. ot \notin Elements(At(p, a)) /\ ot \notin Elements(q) /\ Distinct(At(p, a)) /\ Distinct(q)
    BY <2>1 DEF AccountExact
  <2>3. /\ promoted \in Seq(OrderedTransaction) /\ left \in Seq(OrderedTransaction)
        /\ Distinct(promoted) /\ Distinct(left)
        /\ Elements(promoted) \cap Elements(left) = {}
        /\ Elements(promoted) \cup Elements(left) = Elements(q)
    <3>1. Promotion(q, tx.nonce, promoted, left)
      BY DEF Promotion
    <3> HIDE DEF promoted, left
    <3> QED
      BY <1>0, <2>2, <3>1, PromotionSplits
  <2> HIDE DEF promoted, left
  <2>4. /\ s \in Seq(OrderedTransaction) /\ Distinct(s)
        /\ Elements(s) = Elements(At(p, a)) \cup {ot}
    BY <1>0, <2>2, AppendElements
  <2> HIDE DEF s
  <2>5. Elements(s) \cap Elements(promoted) = {} /\ Elements(s) \cap Elements(left) = {}
    BY <2>1, <2>2, <2>3, <2>4 DEF AccountExact
  <2>6. /\ s \o promoted \in Seq(OrderedTransaction) /\ Distinct(s \o promoted)
        /\ Elements(s \o promoted) = Elements(s) \cup Elements(promoted)
    BY <2>3, <2>4, <2>5, ConcatElements
  <2>7. \A b : At(p', b) = IF b = a THEN s \o promoted ELSE At(p, b)
    BY <1>2, PutLookup
  <2>8. \A b : At(f', b) = IF b = a THEN left ELSE At(f, b)
    <3>1. CASE a \in DOMAIN f
      BY <1>2, <3>1, PutBackLookup
    <3>2. CASE a \notin DOMAIN f
      <4>1. q = <<>>
        BY <3>2 DEF At
      <4>2. Elements(left) = {}
        BY <2>3, <4>1 DEF Elements
      <4>3. left = <<>>
        BY <2>3, <4>2 DEF Elements
      <4> QED
        BY <1>2, <3>2, <4>1, <4>3
    <3> QED
      BY <3>1, <3>2
  <2>9. IsQueues(p') /\ IsQueues(f')
    <3>1. DOMAIN p' \subseteq DOMAIN p \cup {a}
      BY <1>2 DEF Put
    <3>2. DOMAIN f' \subseteq DOMAIN f \cup {a}
      BY <1>2 DEF Put, PutBack, Without
    <3> QED
      BY <1>0, <2>3, <2>6, <2>7, <2>8, <3>1, <3>2 DEF IsQueues
  <2>10. RearrangedAt(a, p, f, p', f', Elements(At(p, a)) \cup Elements(At(f, a)) \cup {ot})
    BY <1>0, <2>3, <2>4, <2>5, <2>6, <2>7, <2>8 DEF RearrangedAt
  <2>11. IsHashes(Put(h, tx, ot)) /\ Exact(p', f', Put(h, tx, ot))
    BY <1>0, <2>10, InsertExact
  <2> QED
    BY <1>2, <2>9, <2>11 DEF PoolOK, HashMapExact, Known, IsQueues, IsHashes
<1> QED
  BY <1>1, <1>2 DEF InsertPending

(* A new pending transaction continues the queue, or replaces its equal. *)
LEMMA InsertPendingConsecutive ==
  ASSUME TypeOK, HashMapExact, PendingConsecutive, NEW ot \in OrderedTransaction,
         NEW a \in Address, a = ot.transaction.caller,
         ot.transaction.nonce >= state[a].nonce,
         ot.transaction.nonce <= account_next_nonce(a),
         ~ empty_queue_panics(a), InsertPending(ot), state' = state
  PROVE  PendingConsecutive'
<1> DEFINE tx == ot.transaction
           p == pending_transactions
           s == At(p, a)
           q == At(future_transactions, a)
           run == PromotedNonces(q, tx.nonce)
           promoted == [k \in 1 .. Cardinality(run) |-> q[PromotedAt(q, tx.nonce + k)]]
<1>0. /\ tx \in Transactions /\ tx.nonce \in Nat /\ state[a].nonce \in Nat
      /\ s \in Seq(OrderedTransaction) /\ q \in Seq(OrderedTransaction)
      /\ ConsecutiveUpTo(s, state[a].nonce)
      /\ \A i \in DOMAIN s : s[i].transaction.nonce \in Nat
  BY Fields DEF TypeOK, IsQueues, PendingConsecutive
<1>1. CASE ReplacementAccepted(p, tx) /\ p' = ReplaceIn(p, ot)
  <2> DEFINE i == ReplacedAt(s, tx)
             r == [s EXCEPT ![i] = ot]
  <2>1. a \in DOMAIN p /\ s = p[a] /\ SameNonce(s, tx) # {}
    BY <1>1 DEF ReplacementAccepted, At, SameNonce
  <2>2. i \in DOMAIN s /\ s[i].transaction.nonce = tx.nonce
    BY <1>0, <2>1, ReplacedAtProperties
  <2>3. p' = [p EXCEPT ![a] = r]
    BY <1>1, <2>1 DEF ReplaceIn
  <2> HIDE DEF i
  <2>4. DOMAIN r = DOMAIN s /\ \A j \in DOMAIN s : r[j].transaction.nonce = s[j].transaction.nonce
    BY <2>2
  <2>5. \A j \in DOMAIN s : 1 \in DOMAIN s
    BY <1>0
  <2>6. ConsecutiveUpTo(r, state[a].nonce)
    <3> HIDE DEF r
    <3> QED
      BY <1>0, <2>4, <2>5 DEF ConsecutiveUpTo
  <2>7. \A b \in Address : At(p', b) = IF b = a THEN r ELSE At(p, b)
    BY <2>1, <2>3 DEF At
  <2> QED
    BY <2>6, <2>7 DEF PendingConsecutive
<1>2. CASE SameNonce(s, tx) = {} /\ p' = Put(p, a, Append(s, ot) \o promoted)
  <2> DEFINE r == Append(s, ot) \o promoted
             n == Len(s)
             first == IF n = 0 THEN tx.nonce ELSE s[1].transaction.nonce
  <2>1. Distinct(q)
    BY DEF HashMapExact, Exact, AccountExact
  <2>2. /\ promoted \in Seq(OrderedTransaction)
        /\ \A k \in DOMAIN promoted : promoted[k].transaction.nonce = tx.nonce + k
    <3> DEFINE left == Keep(q, DOMAIN q \ {PromotedAt(q, k) : k \in run})
    <3>1. Promotion(q, tx.nonce, promoted, left)
      BY DEF Promotion
    <3> HIDE DEF promoted, left
    <3> QED
      BY <1>0, <2>1, <3>1, PromotionSplits
  <2> HIDE DEF promoted
  <2>3. n \in Nat /\ DOMAIN s = 1 .. n
    BY <1>0
  <2>4. first \in Nat /\ first <= state[a].nonce /\ tx.nonce = first + n
    <3>1. CASE n = 0
      <4>1. s = <<>> /\ a \notin DOMAIN p
        BY <1>0, <3>1 DEF empty_queue_panics, At
      <4>2. account_next_nonce(a) = state[a].nonce
        BY <4>1 DEF account_next_nonce
      <4> QED
        BY <1>0, <3>1, <4>2
    <3>2. CASE n # 0
      <4>1. a \in DOMAIN p /\ s = p[a]
        BY <2>3, <3>2 DEF At
      <4>2. 1 \in DOMAIN s /\ n \in DOMAIN s
        BY <2>3, <3>2
      <4>3. account_next_nonce(a) = s[n].transaction.nonce + 1
        BY <4>1 DEF account_next_nonce
      <4>4. /\ \A i \in DOMAIN s : s[i].transaction.nonce = first + i - 1
            /\ first <= state[a].nonce /\ first \in Nat
        BY <1>0, <3>2, <4>2 DEF ConsecutiveUpTo
      <4> HIDE DEF first
      <4>5. tx.nonce <= first + n
        <5>1. s[n].transaction.nonce = first + n - 1
          BY <4>2, <4>4
        <5>2. first + n - 1 + 1 = first + n
          BY <2>3, <4>4
        <5> QED
          BY <4>3, <5>1, <5>2
      <4>6. ASSUME tx.nonce < first + n PROVE FALSE
        <5>1. tx.nonce - first + 1 \in DOMAIN s
          BY <1>0, <2>3, <4>4, <4>6
        <5>2. s[tx.nonce - first + 1].transaction.nonce = tx.nonce
          BY <1>0, <4>4, <5>1
        <5> QED
          BY <1>2, <5>1, <5>2 DEF SameNonce
      <4>7. tx.nonce = first + n
        <5> HIDE DEF tx, n
        <5>1. tx.nonce \in Nat /\ first \in Nat /\ n \in Nat
          BY <1>0, <2>3, <4>4
        <5> QED
          BY <5>1, <4>5, <4>6
      <4> QED
        BY <4>4, <4>7
    <3> QED
      BY <3>1, <3>2
  <2>5. \A i \in DOMAIN s : s[i].transaction.nonce = first + i - 1
    BY <1>0, <2>3 DEF ConsecutiveUpTo
  <2>6. /\ Len(promoted) \in Nat /\ DOMAIN promoted = 1 .. Len(promoted)
        /\ DOMAIN r = 1 .. n + 1 + Len(promoted)
        /\ \A i \in 1 .. n : r[i] = s[i]
        /\ r[n + 1] = ot
        /\ \A k \in DOMAIN promoted : r[n + 1 + k] = promoted[k]
    BY <1>0, <2>2, SMTT(30)
  <2> HIDE DEF r, n, first
  <2>7. ASSUME NEW i \in DOMAIN r PROVE r[i].transaction.nonce = first + i - 1
    <3>1. CASE i \in 1 .. n
      BY <2>3, <2>5, <2>6, <3>1
    <3>2. CASE i = n + 1
      BY <2>3, <2>4, <2>6, <3>2
    <3>3. CASE i > n + 1
      <4>1. i - n - 1 \in DOMAIN promoted /\ n + 1 + (i - n - 1) = i
        BY <2>3, <2>6, <3>3, SMTT(30)
      <4>2. r[i].transaction.nonce = tx.nonce + (i - n - 1)
        BY <2>2, <2>6, <4>1
      <4> QED
        BY <2>3, <2>4, <2>6, <4>2
    <3> QED
      BY <2>3, <2>6, <3>1, <3>2, <3>3
  <2>8. 1 \in DOMAIN r
    BY <2>3, <2>6
  <2>9. ConsecutiveUpTo(r, state[a].nonce)
    <3>1. r[1].transaction.nonce = first
      BY <2>4, <2>7, <2>8
    <3> QED
      BY <2>4, <2>7, <3>1 DEF ConsecutiveUpTo
  <2>10. \A b : At(p', b) = IF b = a THEN r ELSE At(p, b)
    BY <1>2, PutLookup DEF r
  <2> QED
    BY <2>9, <2>10 DEF PendingConsecutive
<1> QED
  BY <1>1, <1>2 DEF InsertPending

-----------------------------------------------------------------------------
(* The position of the transaction to be dropped. *)
LEMMA HashAtProperties ==
  ASSUME NEW q \in Seq(OrderedTransaction), NEW tx,
         Found(q, LAMBDA ot : ot.transaction = tx)
  PROVE  HashAt(q, tx) \in DOMAIN q /\ q[HashAt(q, tx)].transaction = tx
<1> DEFINE K == {i \in DOMAIN q : q[i].transaction = tx}
<1>1. K # {} /\ K \in SUBSET (1 .. Len(q)) /\ Len(q) \in Nat
  BY DEF Found
<1>2. HashAt(q, tx) = First(K)
  BY DEF HashAt, Find
<1>3. First(K) \in K
  BY <1>1, FirstLeast
<1> QED
  BY <1>2, <1>3

(* remove_transaction keeps the queues and the hashes in agreement, when the
   transaction is pending and the ones behind it move to the future queue. *)
LEMMA RemovePendingExact ==
  ASSUME PoolOK, NEW tx \in DOMAIN hash_to_transaction, RemovePending(tx),
         hash_to_transaction' = Without(hash_to_transaction, {tx})
  PROVE  PoolOK'
<1> DEFINE a == tx.caller
           p == pending_transactions
           f == future_transactions
           h == hash_to_transaction
           q == p[a]
           i == HashAt(q, tx)
           front == Front(q, i - 1)
           rest == Rest(q, i)
<1>0. /\ tx \in Transactions /\ a \in Address
      /\ Exact(p, f, h) /\ IsQueues(p) /\ IsQueues(f) /\ IsHashes(h)
      /\ At(f, a) \in Seq(OrderedTransaction) /\ At(p, a) \in Seq(OrderedTransaction)
  BY Fields DEF PoolOK, HashMapExact, IsQueues, IsHashes
<1>1. a \in DOMAIN p /\ q = At(p, a) /\ Found(q, LAMBDA ot : ot.transaction = tx)
  BY DEF RemovePending, Found, At
<1>2. i \in DOMAIN q /\ q[i].transaction = tx
  BY <1>0, <1>1, HashAtProperties
<1>3. AccountExact(a, q, At(f, a), h)
  BY <1>0, <1>1 DEF Exact
<1>4. q[i] = h[tx] /\ Distinct(q) /\ Distinct(At(f, a)) /\ Elements(q) \cap Elements(At(f, a)) = {}
  <2>1. q[i] \in Elements(q)
    BY <1>2 DEF Elements
  <2> QED
    BY <1>2, <1>3, <2>1 DEF AccountExact
<1>5. h[tx] \in Elements(q)
  BY <1>2, <1>4 DEF Elements
<1>6. /\ p' = PutBack(p, a, front)
      /\ f' = Put(f, a, At(f, a) \o rest)
  BY DEF RemovePending
<1>7. /\ front \in Seq(OrderedTransaction) /\ rest \in Seq(OrderedTransaction)
      /\ Distinct(front) /\ Distinct(rest)
      /\ Elements(front) \cap Elements(rest) = {}
      /\ Elements(front) \cup Elements(rest) = Elements(q) \ {q[i]}
  <2> HIDE DEF i
  <2> QED
    BY <1>0, <1>1, <1>2, <1>4, SplitAround
<1> HIDE DEF front, rest, i, q
<1>8. Elements(At(f, a)) \cap Elements(rest) = {}
  BY <1>4, <1>7
<1>9. /\ At(f, a) \o rest \in Seq(OrderedTransaction) /\ Distinct(At(f, a) \o rest)
      /\ Elements(At(f, a) \o rest) = Elements(At(f, a)) \cup Elements(rest)
  BY <1>0, <1>4, <1>7, <1>8, ConcatElements
<1>10. \A b : At(p', b) = IF b = a THEN front ELSE At(p, b)
  BY <1>6, PutBackLookup
<1>11. \A b : At(f', b) = IF b = a THEN At(f, a) \o rest ELSE At(f, b)
  BY <1>6, PutLookup
<1>12. IsQueues(p') /\ IsQueues(f')
  <2>1. DOMAIN p' \subseteq DOMAIN p \cup {a} /\ DOMAIN f' \subseteq DOMAIN f \cup {a}
    BY <1>6 DEF Put, PutBack, Without
  <2> QED
    BY <1>0, <1>7, <1>9, <1>10, <1>11, <2>1 DEF IsQueues
<1>13. RearrangedAt(a, p, f, p', f', (Elements(At(p, a)) \cup Elements(At(f, a))) \ {h[tx]})
  <2>1. At(p', a) = front /\ At(f', a) = At(f, a) \o rest /\ At(p, a) = q
    BY <1>1, <1>10, <1>11
  <2>2. Elements(front) \cap Elements(At(f, a) \o rest) = {}
    BY <1>4, <1>7, <1>9
  <2>3. Elements(front) \cup Elements(At(f, a) \o rest)
          = (Elements(q) \cup Elements(At(f, a))) \ {h[tx]}
    BY <1>4, <1>5, <1>7, <1>9
  <2>4. \A b \in Address : b # a => At(p', b) = At(p, b) /\ At(f', b) = At(f, b)
    BY <1>10, <1>11
  <2> QED
    BY <1>0, <1>7, <1>9, <2>1, <2>2, <2>3, <2>4 DEF RearrangedAt
<1>14. IsHashes(Without(h, {tx})) /\ Exact(p', f', Without(h, {tx}))
  BY <1>0, <1>13, RemoveExact
<1> QED
  BY <1>12, <1>14 DEF PoolOK, HashMapExact, IsQueues, IsHashes

(* The same when the transaction is a future one. *)
LEMMA RemoveFutureExact ==
  ASSUME PoolOK, NEW tx \in DOMAIN hash_to_transaction, RemoveFuture(tx),
         hash_to_transaction' = Without(hash_to_transaction, {tx})
  PROVE  PoolOK'
<1> DEFINE a == tx.caller
           p == pending_transactions
           f == future_transactions
           h == hash_to_transaction
           q == f[a]
           i == HashAt(q, tx)
           r == Keep(q, DOMAIN q \ {i})
<1>0. /\ tx \in Transactions /\ a \in Address /\ p' = p
      /\ Exact(p, f, h) /\ IsQueues(p) /\ IsQueues(f) /\ IsHashes(h)
      /\ At(f, a) \in Seq(OrderedTransaction) /\ At(p, a) \in Seq(OrderedTransaction)
  BY Fields DEF PoolOK, HashMapExact, IsQueues, IsHashes, RemoveFuture
<1>1. a \in DOMAIN f /\ q = At(f, a) /\ Found(q, LAMBDA ot : ot.transaction = tx)
  BY DEF RemoveFuture, Found, At
<1>2. i \in DOMAIN q /\ q[i].transaction = tx
  BY <1>0, <1>1, HashAtProperties
<1>3. AccountExact(a, At(p, a), q, h)
  BY <1>0, <1>1 DEF Exact
<1>4. q[i] = h[tx] /\ Distinct(q) /\ Distinct(At(p, a)) /\ Elements(At(p, a)) \cap Elements(q) = {}
  <2>1. q[i] \in Elements(q)
    BY <1>2 DEF Elements
  <2> QED
    BY <1>2, <1>3, <2>1 DEF AccountExact
<1>5. f' = PutBack(f, a, r)
  BY DEF RemoveFuture
<1> HIDE DEF i, q
<1>6. /\ r \in Seq(OrderedTransaction) /\ Distinct(r)
      /\ Elements(r) = {q[j] : j \in DOMAIN q \ {i}}
  BY <1>0, <1>1, <1>4, KeepElements
<1>7. Elements(r) = Elements(q) \ {h[tx]} /\ h[tx] \in Elements(q)
  <2>1. \A j \in DOMAIN q : j # i => q[j] # h[tx]
    BY <1>2, <1>4 DEF Distinct
  <2>2. \A x \in Elements(r) : x \in Elements(q) \ {h[tx]}
    BY <1>6, <2>1 DEF Elements
  <2>3. \A x \in Elements(q) \ {h[tx]} : x \in Elements(r)
    BY <1>4, <1>6 DEF Elements
  <2> QED
    BY <1>2, <1>4, <2>2, <2>3 DEF Elements
<1> HIDE DEF r
<1>8. \A b : At(f', b) = IF b = a THEN r ELSE At(f, b)
  BY <1>5, PutBackLookup
<1>9. IsQueues(f')
  <2>1. DOMAIN f' \subseteq DOMAIN f \cup {a}
    BY <1>5 DEF Put, PutBack, Without
  <2> QED
    BY <1>0, <1>6, <1>8, <2>1 DEF IsQueues
<1>10. RearrangedAt(a, p, f, p, f', (Elements(At(p, a)) \cup Elements(At(f, a))) \ {h[tx]})
  <2>1. At(f', a) = r /\ At(f, a) = q
    BY <1>1, <1>8
  <2>2. /\ Elements(At(p, a)) \cap Elements(r) = {}
        /\ Elements(At(p, a)) \cup Elements(r) = (Elements(At(p, a)) \cup Elements(q)) \ {h[tx]}
    BY <1>4, <1>7
  <2>3. \A b \in Address : b # a => At(f', b) = At(f, b)
    BY <1>8
  <2> QED
    BY <1>0, <1>4, <1>6, <2>1, <2>2, <2>3 DEF RearrangedAt
<1>11. IsHashes(Without(h, {tx})) /\ Exact(p, f', Without(h, {tx}))
  BY <1>0, <1>10, RemoveExact
<1> QED
  BY <1>0, <1>9, <1>11 DEF PoolOK, HashMapExact, IsQueues, IsHashes

(* What is left in front of a dropped transaction is still consecutive. *)
LEMMA RemovePendingConsecutive ==
  ASSUME TypeOK, PendingConsecutive, NEW tx \in Transactions, RemovePending(tx), state' = state
  PROVE  PendingConsecutive'
<1> DEFINE a == tx.caller
           p == pending_transactions
           q == p[a]
           i == HashAt(q, tx)
           front == Front(q, i - 1)
<1>0. a \in Address /\ At(p, a) \in Seq(OrderedTransaction)
  BY Fields DEF TypeOK, IsQueues
<1>1. a \in DOMAIN p /\ q = At(p, a) /\ Found(q, LAMBDA ot : ot.transaction = tx)
  BY DEF RemovePending, Found, At
<1>2. i \in DOMAIN q /\ q \in Seq(OrderedTransaction)
  BY <1>0, <1>1, HashAtProperties
<1>3. p' = PutBack(p, a, front)
  BY DEF RemovePending
<1> HIDE DEF i, q
<1>4. i - 1 \in 0 .. Len(q)
  BY <1>2
<1>5. DOMAIN front = 1 .. i - 1 /\ \A j \in 1 .. i - 1 : front[j] = q[j]
  BY <1>2, <1>4, SplitElements
<1>6. ConsecutiveUpTo(q, state[a].nonce)
  BY <1>0, <1>1 DEF PendingConsecutive
<1>7. ConsecutiveUpTo(front, state[a].nonce)
  <2> HIDE DEF front
  <2>1. \A j \in 1 .. i - 1 : j \in DOMAIN q /\ 1 \in 1 .. i - 1
    BY <1>2
  <2> QED
    BY <1>5, <1>6, <2>1 DEF ConsecutiveUpTo
<1> HIDE DEF front
<1>8. \A b : At(p', b) = IF b = a THEN front ELSE At(p, b)
  BY <1>3, PutBackLookup
<1> QED
  BY <1>7, <1>8 DEF PendingConsecutive

-----------------------------------------------------------------------------
(* Of the queues p and f exactly the transactions D are gone. *)
KeptOnly(p, f, D, p2, f2) ==
  \A a \in Address :
    /\ Distinct(At(p2, a)) /\ Distinct(At(f2, a))
    /\ Elements(At(p2, a)) \cap Elements(At(f2, a)) = {}
    /\ Elements(At(p2, a)) \cup Elements(At(f2, a))
         = {ot \in Elements(At(p, a)) \cup Elements(At(f, a)) : ot.transaction \notin D}

(* Dropping the same transactions from the queues and from the hashes. *)
LEMMA DropExact ==
  ASSUME NEW p, NEW f, NEW h, NEW D, NEW p2, NEW f2,
         IsHashes(h), Exact(p, f, h), KeptOnly(p, f, D, p2, f2)
  PROVE  IsHashes(Without(h, D)) /\ Exact(p2, f2, Without(h, D))
<1> DEFINE h2 == Without(h, D)
<1>1. DOMAIN h2 = DOMAIN h \ D /\ \A x \in DOMAIN h2 : h2[x] = h[x]
  BY DEF Without
<1> HIDE DEF h2
<1>2. IsHashes(h2)
  BY <1>1 DEF IsHashes
<1>3. ASSUME NEW a \in Address
      PROVE  AccountExact(a, At(p2, a), At(f2, a), h2)
  <2>1. AccountExact(a, At(p, a), At(f, a), h)
    BY DEF Exact
  <2>2. \A ot \in Elements(At(p2, a)) \cup Elements(At(f2, a)) :
          /\ ot \in Elements(At(p, a)) \cup Elements(At(f, a))
          /\ ot.transaction \notin D
    BY DEF KeptOnly
  <2> QED
    BY <1>1, <2>1, <2>2 DEF AccountExact, KeptOnly
<1>4. ASSUME NEW x \in DOMAIN h2
      PROVE  /\ h2[x].transaction = x
             /\ h2[x] \in Elements(At(p2, x.caller)) \cup Elements(At(f2, x.caller))
  <2>1. x \in DOMAIN h /\ x \notin D /\ h2[x] = h[x] /\ x.caller \in Address
    BY <1>1, Fields DEF IsHashes
  <2>2. /\ h[x].transaction = x
        /\ h[x] \in Elements(At(p, x.caller)) \cup Elements(At(f, x.caller))
    BY <2>1 DEF Exact
  <2> QED
    BY <2>1, <2>2 DEF KeptOnly
<1>5. Exact(p2, f2, h2)
  BY <1>3, <1>4 DEF Exact
<1> QED
  BY <1>2, <1>5 DEF h2

(* Vec::retain with the validity test. *)
LEMMA RetainedProperties ==
  ASSUME NEW q \in Seq(OrderedTransaction), NEW limit, NEW sender
  PROVE  /\ Retained(q, limit, sender) \in Seq(OrderedTransaction)
         /\ Elements(Retained(q, limit, sender))
              = {o \in Elements(q) : is_valid_tx(o.transaction, limit, sender)}
         /\ Distinct(q) => Distinct(Retained(q, limit, sender))
<1> DEFINE K == {i \in DOMAIN q : is_valid_tx(q[i].transaction, limit, sender)}
<1>1. K \in SUBSET DOMAIN q
  OBVIOUS
<1>2. Retained(q, limit, sender) = Keep(q, K)
  BY DEF Retained, Retain
<1>3. /\ Keep(q, K) \in Seq(OrderedTransaction)
      /\ Elements(Keep(q, K)) = {q[i] : i \in K}
      /\ Distinct(q) => Distinct(Keep(q, K))
  <2> HIDE DEF K
  <2> QED
    BY <1>1, KeepElements
<1>4. {q[i] : i \in K} = {o \in Elements(q) : is_valid_tx(o.transaction, limit, sender)}
  BY DEF Elements
<1> QED
  BY <1>2, <1>3, <1>4

(* What the two loops of `update` make of the pending queue P and the future
   queue Q of the account a: the pending queue p2; the future queue f1 after
   the first loop, and f2 after the second. *)
Treated(P, Q, a, S, F, limit, sender, p2, f1, f2) ==
  LET R == Retained(P, limit, sender)
      k == Consecutive(R, sender.nonce)
  IN  /\ p2 = IF a \in S THEN Front(R, k) ELSE P
      /\ f1 = Q \o (IF a \in S THEN Rest(R, k) ELSE <<>>)
      /\ f2 = IF a \in F THEN Retained(f1, limit, sender) ELSE f1

(* The entries of the account that the loops drop. *)
Gone(o, P, a, S, F, limit, sender, f1) ==
  /\ ~ is_valid_tx(o.transaction, limit, sender)
  /\ (a \in S /\ o \in Elements(P)) \/ (a \in F /\ o \in Elements(f1))

(* What the loops guarantee. *)
TreatedWell(P, Q, a, S, F, limit, sender, p2, f1, f2) ==
  /\ p2 \in Seq(OrderedTransaction) /\ f2 \in Seq(OrderedTransaction)
  /\ Distinct(p2) /\ Distinct(f2) /\ Elements(p2) \cap Elements(f2) = {}
  /\ Elements(p2) \cup Elements(f2)
       = {o \in Elements(P) \cup Elements(Q) : ~ Gone(o, P, a, S, F, limit, sender, f1)}
  /\ Elements(f1) \subseteq Elements(P) \cup Elements(Q)
  /\ a \in S => ConsecutiveUpTo(p2, sender.nonce)

(* An entry is dropped, or it is in exactly one of the two queues; what stays
   pending starts at the nonce of the account. *)
LEMMA TreatedProperties ==
  ASSUME NEW P \in Seq(OrderedTransaction), NEW Q \in Seq(OrderedTransaction),
         Distinct(P), Distinct(Q), Elements(P) \cap Elements(Q) = {},
         NEW a, NEW S, NEW F, NEW limit, NEW sender, sender.nonce \in Nat,
         NEW p2, NEW f1, NEW f2, Treated(P, Q, a, S, F, limit, sender, p2, f1, f2)
  PROVE  TreatedWell(P, Q, a, S, F, limit, sender, p2, f1, f2)
<1> DEFINE R == Retained(P, limit, sender)
           k == Consecutive(R, sender.nonce)
           rest == IF a \in S THEN Rest(R, k) ELSE <<>>
           valid(o) == is_valid_tx(o.transaction, limit, sender)
<1>1. /\ R \in Seq(OrderedTransaction) /\ Distinct(R)
      /\ Elements(R) = {o \in Elements(P) : valid(o)}
  BY RetainedProperties
<1> HIDE DEF R
<1>2. /\ k \in 0 .. Len(R)
      /\ \A i \in 1 .. k : R[i].transaction.nonce = sender.nonce + i - 1
  BY <1>1, ConsecutiveProperties
<1>3. /\ p2 = IF a \in S THEN Front(R, k) ELSE P
      /\ f1 = Q \o rest
      /\ f2 = IF a \in F THEN Retained(f1, limit, sender) ELSE f1
  BY DEF Treated, R
<1> HIDE DEF k
<1>4. /\ Front(R, k) \in Seq(OrderedTransaction) /\ Rest(R, k) \in Seq(OrderedTransaction)
      /\ Distinct(Front(R, k)) /\ Distinct(Rest(R, k))
      /\ Elements(Front(R, k)) \cap Elements(Rest(R, k)) = {}
      /\ Elements(Front(R, k)) \cup Elements(Rest(R, k)) = Elements(R)
  BY <1>1, <1>2, SplitOff
<1>5. /\ DOMAIN Front(R, k) = 1 .. k
      /\ \A i \in 1 .. k : Front(R, k)[i] = R[i]
  BY <1>1, <1>2, SplitElements
<1>6. <<>> \in Seq(OrderedTransaction) /\ Distinct(<<>>) /\ Elements(<<>>) = {}
  BY DEF Distinct, Elements
<1>7. /\ p2 \in Seq(OrderedTransaction) /\ rest \in Seq(OrderedTransaction)
      /\ Distinct(p2) /\ Distinct(rest) /\ Elements(p2) \cap Elements(rest) = {}
      /\ Elements(p2) \cup Elements(rest)
           = {o \in Elements(P) : ~ (a \in S /\ ~ valid(o))}
  <2>1. CASE a \in S
    BY <1>1, <1>3, <1>4, <2>1
  <2>2. CASE a \notin S
    BY <1>3, <1>6, <2>2
  <2> QED
    BY <2>1, <2>2
<1> HIDE DEF rest
<1>8. Elements(Q) \cap Elements(rest) = {}
  BY <1>7
<1>9. /\ f1 \in Seq(OrderedTransaction) /\ Distinct(f1)
      /\ Elements(f1) = Elements(Q) \cup Elements(rest)
  BY <1>3, <1>7, <1>8, ConcatElements
<1>10. /\ f2 \in Seq(OrderedTransaction) /\ Distinct(f2)
       /\ Elements(f2) = {o \in Elements(f1) : ~ (a \in F /\ ~ valid(o))}
  <2>1. CASE a \in F
    <3>1. /\ Retained(f1, limit, sender) \in Seq(OrderedTransaction)
          /\ Distinct(Retained(f1, limit, sender))
          /\ Elements(Retained(f1, limit, sender)) = {o \in Elements(f1) : valid(o)}
      BY <1>9, RetainedProperties
    <3> QED
      BY <1>3, <2>1, <3>1
  <2>2. CASE a \notin F
    BY <1>3, <1>9, <2>2
  <2> QED
    BY <2>1, <2>2
<1> HIDE DEF valid
<1>11. Elements(p2) \cap Elements(f2) = {}
  BY <1>7, <1>9, <1>10
<1>12. \A o : Gone(o, P, a, S, F, limit, sender, f1) <=>
         ~ valid(o) /\ ((a \in S /\ o \in Elements(P)) \/ (a \in F /\ o \in Elements(f1)))
  BY DEF Gone, valid
<1>13. a \in S => \A o \in Elements(rest) : valid(o)
  BY <1>7
<1>14. Elements(p2) \cup Elements(f2)
         = {o \in Elements(P) \cup Elements(Q) : ~ Gone(o, P, a, S, F, limit, sender, f1)}
  <2>1. ASSUME NEW o \in Elements(p2) \cup Elements(f2)
        PROVE  o \in Elements(P) \cup Elements(Q) /\ ~ Gone(o, P, a, S, F, limit, sender, f1)
    BY <1>7, <1>9, <1>10, <1>12, <2>1
  <2>2. ASSUME NEW o \in Elements(P) \cup Elements(Q),
               ~ Gone(o, P, a, S, F, limit, sender, f1)
        PROVE  o \in Elements(p2) \cup Elements(f2)
    BY <1>7, <1>9, <1>10, <1>12, <2>2
  <2> QED
    BY <2>1, <2>2
<1>15. a \in S => ConsecutiveUpTo(p2, sender.nonce)
  <2> SUFFICES ASSUME a \in S, NEW i \in DOMAIN p2
               PROVE  /\ p2[i].transaction.nonce = p2[1].transaction.nonce + i - 1
                      /\ p2[1].transaction.nonce <= sender.nonce
    BY DEF ConsecutiveUpTo
  <2>1. i \in 1 .. k /\ 1 \in 1 .. k
    BY <1>2, <1>3, <1>5
  <2>2. p2[i].transaction.nonce = sender.nonce + i - 1 /\ p2[1].transaction.nonce = sender.nonce + 1 - 1
    BY <1>2, <1>3, <1>5, <2>1
  <2> QED
    BY <2>1, <2>2
<1> QED
  BY <1>7, <1>9, <1>10, <1>11, <1>14, <1>15 DEF TreatedWell

(* `update`, complete or cut short, treats every account that way. *)
LEMMA UpdateTreats ==
  ASSUME NEW S, NEW F, NEW limit, NEW st,
         S \subseteq DOMAIN pending_transactions,
         F \subseteq DOMAIN ThenFuture(S, limit, st), UpdateUpTo(S, F, limit, st),
         NEW a \in Address,
         At(future_transactions, a) \in Seq(OrderedTransaction)
  PROVE  Treated(At(pending_transactions, a), At(future_transactions, a), a, S, F, limit, st[a],
                 At(pending_transactions', a), At(ThenFuture(S, limit, st), a),
                 At(future_transactions', a))
<1> DEFINE p == pending_transactions
           f == future_transactions
           P == At(p, a)
           R == Retained(P, limit, st[a])
           k == Consecutive(R, st[a].nonce)
           p2 == StillPending(S, limit, st)
           f1 == ThenFuture(S, limit, st)
           g == [b \in DOMAIN f1 |-> IF b \in F THEN Retained(f1[b], limit, st[b]) ELSE f1[b]]
<1>1. At(p2, a) = IF a \in S THEN Front(R, k) ELSE P
  BY DEF StillPending, At
<1>2. At(f1, a) = At(f, a) \o (IF a \in S THEN Rest(R, k) ELSE <<>>)
  <2>1. a \in S => Invalidated(a, limit, st) = Rest(R, k)
    BY DEF Invalidated, At
  <2> DEFINE moved == {b \in S : Invalidated(b, limit, st) # <<>>}
  <2>2. f1 = [b \in DOMAIN f \cup moved |->
                At(f, b) \o (IF b \in moved THEN Invalidated(b, limit, st) ELSE <<>>)]
    BY DEF ThenFuture
  <2>3. a \in moved <=> a \in S /\ Rest(R, k) # <<>>
    BY <2>1
  <2> HIDE DEF moved, R, k, f1
  <2>4. CASE a \in DOMAIN f \cup moved
    <3>1. At(f1, a) = At(f, a) \o (IF a \in moved THEN Invalidated(a, limit, st) ELSE <<>>)
      BY <2>2, <2>4 DEF At
    <3> QED
      BY <2>1, <2>3, <3>1
  <2>5. CASE a \notin DOMAIN f \cup moved
    <3>1. At(f1, a) = <<>> /\ At(f, a) = <<>>
      BY <2>2, <2>5 DEF At
    <3>2. (IF a \in S THEN Rest(R, k) ELSE <<>>) = <<>>
      BY <2>3, <2>5
    <3>3. <<>> \o <<>> = <<>>
      OBVIOUS
    <3> QED
      BY <3>1, <3>2, <3>3
  <2> QED
    BY <2>4, <2>5
<1>3. At(p', a) = At(p2, a)
  <2>1. p' = NonEmpty(p2) \/ p' = p2
    BY DEF UpdateUpTo
  <2> QED
    BY <2>1, NonEmptyLookup
<1>4. At(f', a) = At(g, a)
  <2>1. f' = NonEmpty(g) \/ f' = g
    BY DEF UpdateUpTo
  <2> QED
    BY <2>1, NonEmptyLookup
<1>5. At(g, a) = IF a \in F THEN Retained(At(f1, a), limit, st[a]) ELSE At(f1, a)
  BY DEF At
<1> QED
  BY <1>1, <1>2, <1>3, <1>4, <1>5 DEF Treated

(* `update`, complete or cut short, keeps the queues and the hashes in
   agreement and the pending queues consecutive. *)
LEMMA UpdatePreserves ==
  ASSUME PoolOK, PendingConsecutive, NEW S, NEW F, NEW limit, NEW st,
         S \subseteq DOMAIN pending_transactions,
         F \subseteq DOMAIN ThenFuture(S, limit, st), UpdateUpTo(S, F, limit, st),
         \A a \in Address : /\ state[a].nonce \in Nat /\ st[a].nonce \in Nat
                            /\ state'[a].nonce \in Nat
                            /\ state[a].nonce <= state'[a].nonce
                            /\ st[a].nonce <= state'[a].nonce
  PROVE  PoolOK' /\ PendingConsecutive'
<1> DEFINE p == pending_transactions
           f == future_transactions
           h == hash_to_transaction
           f1 == ThenFuture(S, limit, st)
           D == UNION ({Dropped(p[a], limit, st[a]) : a \in S}
                       \cup {Dropped(f1[a], limit, st[a]) : a \in F})
           Lost(o, a) == Gone(o, At(p, a), a, S, F, limit, st[a], At(f1, a))
<1>0. Exact(p, f, h) /\ IsQueues(p) /\ IsQueues(f) /\ IsHashes(h)
  BY DEF PoolOK, HashMapExact
<1>1. \A a \in Address :
        /\ At(p, a) \in Seq(OrderedTransaction) /\ At(f, a) \in Seq(OrderedTransaction)
        /\ AccountExact(a, At(p, a), At(f, a), h)
        /\ Distinct(At(p, a)) /\ Distinct(At(f, a))
        /\ Elements(At(p, a)) \cap Elements(At(f, a)) = {}
  BY <1>0 DEF IsQueues, Exact, AccountExact
<1>2. ASSUME NEW a \in Address
      PROVE  /\ At(p', a) \in Seq(OrderedTransaction) /\ At(f', a) \in Seq(OrderedTransaction)
             /\ Distinct(At(p', a)) /\ Distinct(At(f', a))
             /\ Elements(At(p', a)) \cap Elements(At(f', a)) = {}
             /\ Elements(At(p', a)) \cup Elements(At(f', a))
                  = {o \in Elements(At(p, a)) \cup Elements(At(f, a)) : ~ Lost(o, a)}
             /\ Elements(At(f1, a)) \subseteq Elements(At(p, a)) \cup Elements(At(f, a))
             /\ a \in S => ConsecutiveUpTo(At(p', a), st[a].nonce)
  <2>1. Treated(At(p, a), At(f, a), a, S, F, limit, st[a], At(p', a), At(f1, a), At(f', a))
    BY <1>1, UpdateTreats
  <2> DEFINE P == At(p, a)
             Q == At(f, a)
             sender == st[a]
             p2 == At(p', a)
             g1 == At(f1, a)
             f2 == At(f', a)
  <2>2. /\ P \in Seq(OrderedTransaction) /\ Q \in Seq(OrderedTransaction)
        /\ Distinct(P) /\ Distinct(Q) /\ Elements(P) \cap Elements(Q) = {}
        /\ sender.nonce \in Nat
        /\ Treated(P, Q, a, S, F, limit, sender, p2, g1, f2)
    BY <1>1, <2>1
  <2> HIDE DEF P, Q, sender, p2, g1, f2
  <2>3. TreatedWell(P, Q, a, S, F, limit, sender, p2, g1, f2)
    BY <2>2, TreatedProperties
  <2> QED
    BY <2>3 DEF TreatedWell, P, Q, sender, p2, g1, f2
<1>3. /\ h' = Without(h, D)
      /\ DOMAIN p' \subseteq DOMAIN p /\ DOMAIN f' \subseteq DOMAIN f1
      /\ \A a \in Address : a \notin S => At(p', a) = At(p, a)
      /\ DOMAIN f1 \subseteq DOMAIN f \cup S
  <2>1. h' = Without(h, D)
    BY DEF UpdateUpTo
  <2>2. DOMAIN p' \subseteq DOMAIN p
    BY DEF UpdateUpTo, StillPending, NonEmpty, Without
  <2>3. DOMAIN f' \subseteq DOMAIN f1
    BY DEF UpdateUpTo, NonEmpty, Without
  <2>4. ASSUME NEW a \in Address, a \notin S PROVE At(p', a) = At(p, a)
    <3>1. Treated(At(p, a), At(f, a), a, S, F, limit, st[a], At(p', a), At(f1, a), At(f', a))
      BY <1>1, UpdateTreats
    <3> QED
      BY <2>4, <3>1 DEF Treated
  <2>5. DOMAIN f1 \subseteq DOMAIN f \cup S
    BY DEF ThenFuture
  <2> QED
    BY <2>1, <2>2, <2>3, <2>4, <2>5
<1>4. ASSUME NEW a \in Address, NEW o \in Elements(At(p, a)) \cup Elements(At(f, a))
      PROVE  o.transaction \in D <=> Lost(o, a)
  <2>1. \A b \in Address : \A e \in Elements(At(p, b)) \cup Elements(At(f, b)) :
          e.transaction = o.transaction => e = o /\ b = a
    BY <1>1, <1>4 DEF AccountExact
  <2>2. \A b \in S : b \in Address /\ p[b] = At(p, b)
    BY <1>0 DEF IsQueues, At
  <2>3. \A b \in F : b \in Address /\ f1[b] = At(f1, b)
    <3>1. \A b \in F : b \in DOMAIN f1
      OBVIOUS
    <3> HIDE DEF f1
    <3> QED
      BY <1>0, <1>3, <2>2, <3>1 DEF IsQueues, At
  <2> HIDE DEF f1
  <2>4. ASSUME o.transaction \in D PROVE Lost(o, a)
    <3>1. CASE \E b \in S : o.transaction \in Dropped(p[b], limit, st[b])
      <4>1. PICK b \in S : o.transaction \in Dropped(p[b], limit, st[b])
        BY <3>1
      <4>2. PICK e \in Elements(At(p, b)) : /\ e.transaction = o.transaction
                                            /\ ~ is_valid_tx(e.transaction, limit, st[b])
        BY <2>2, <4>1 DEF Dropped
      <4>3. e = o /\ b = a
        BY <2>1, <2>2, <4>2
      <4> QED
        BY <4>1, <4>2, <4>3 DEF Gone
    <3>2. CASE \E b \in F : o.transaction \in Dropped(f1[b], limit, st[b])
      <4>1. PICK b \in F : o.transaction \in Dropped(f1[b], limit, st[b])
        BY <3>2
      <4>2. PICK e \in Elements(At(f1, b)) : /\ e.transaction = o.transaction
                                             /\ ~ is_valid_tx(e.transaction, limit, st[b])
        BY <2>3, <4>1 DEF Dropped
      <4>3. e = o /\ b = a
        BY <1>2, <2>1, <2>3, <4>2
      <4> QED
        BY <4>1, <4>2, <4>3 DEF Gone
    <3> QED
      BY <2>4, <3>1, <3>2
  <2>5. ASSUME Lost(o, a) PROVE o.transaction \in D
    <3>1. CASE a \in S /\ o \in Elements(At(p, a))
      <4>1. o.transaction \in Dropped(p[a], limit, st[a])
        BY <2>2, <2>5, <3>1 DEF Gone, Dropped
      <4> QED
        BY <3>1, <4>1
    <3>2. CASE a \in F /\ o \in Elements(At(f1, a))
      <4>1. o.transaction \in Dropped(f1[a], limit, st[a])
        BY <2>3, <2>5, <3>2 DEF Gone, Dropped
      <4> QED
        BY <3>2, <4>1
    <3> QED
      BY <2>5, <3>1, <3>2 DEF Gone
  <2> QED
    BY <2>4, <2>5
<1> HIDE DEF f1, D, Lost
<1>5. KeptOnly(p, f, D, p', f')
  <2> SUFFICES ASSUME NEW a \in Address
               PROVE  /\ Distinct(At(p', a)) /\ Distinct(At(f', a))
                      /\ Elements(At(p', a)) \cap Elements(At(f', a)) = {}
                      /\ Elements(At(p', a)) \cup Elements(At(f', a))
                           = {o \in Elements(At(p, a)) \cup Elements(At(f, a)) :
                                o.transaction \notin D}
    BY DEF KeptOnly
  <2> QED
    BY <1>2, <1>4
<1>6. IsHashes(h') /\ Exact(p', f', h')
  BY <1>0, <1>3, <1>5, DropExact
<1>7. IsQueues(p') /\ IsQueues(f')
  BY <1>0, <1>2, <1>3 DEF IsQueues
<1>8. PendingConsecutive'
  <2> SUFFICES ASSUME NEW a \in Address
               PROVE  ConsecutiveUpTo(At(p', a), state'[a].nonce)
    BY DEF PendingConsecutive
  <2>1. \A i \in DOMAIN At(p', a) :
          1 \in DOMAIN At(p', a) /\ At(p', a)[1].transaction.nonce \in Nat
    BY <1>2, Fields
  <2>2. CASE a \in S
    BY <1>2, <2>1, <2>2 DEF ConsecutiveUpTo
  <2>3. CASE a \notin S
    <3>1. ConsecutiveUpTo(At(p', a), state[a].nonce)
      BY <1>3, <2>3 DEF PendingConsecutive
    <3> QED
      BY <2>1, <3>1 DEF ConsecutiveUpTo
  <2> QED
    BY <2>2, <2>3
<1> QED
  BY <1>6, <1>7, <1>8 DEF PoolOK, HashMapExact, IsQueues, IsHashes

-----------------------------------------------------------------------------
(* The state that is adopted is a state, lowers no nonce, and is not behind the
   state that `update` validates against. *)
Advances(st) ==
  /\ state' \in [Address -> [nonce : Nat, balance : Nat]]
  /\ \A a \in Address : /\ st[a].nonce \in Nat
                        /\ state[a].nonce <= state'[a].nonce
                        /\ st[a].nonce <= state'[a].nonce

(* `update` called by a handler, whether it succeeds or fails. *)
LEMMA UpdateInductive ==
  ASSUME IInv, NEW limit, NEW st, Advances(st),
         Update(limit, st) \/ UpdateFails(limit, st),
         block_gas_limit' \in {None} \cup Nat, next_order_id' \in Nat, faulty' = faulty
  PROVE  IInv'
<1>1. PICK S, F : /\ S \subseteq DOMAIN pending_transactions
                  /\ F \subseteq DOMAIN ThenFuture(S, limit, st)
                  /\ UpdateUpTo(S, F, limit, st)
  <2>1. CASE Update(limit, st)
    BY <2>1 DEF Update
  <2>2. CASE UpdateFails(limit, st)
    BY <2>2 DEF UpdateFails
  <2> QED
    BY <2>1, <2>2
<1>2. PoolOK /\ PendingConsecutive
  BY DEF IInv, TypeOK, PoolOK, IsHashes
<1>3. \A a \in Address : /\ state[a].nonce \in Nat /\ st[a].nonce \in Nat
                         /\ state'[a].nonce \in Nat
                         /\ state[a].nonce <= state'[a].nonce
                         /\ st[a].nonce <= state'[a].nonce
  BY DEF IInv, TypeOK, Advances
<1>4. PoolOK' /\ PendingConsecutive'
  BY <1>1, <1>2, <1>3, UpdatePreserves
<1> QED
  BY <1>4 DEF IInv, TypeOK, PoolOK, IsHashes, Advances

LEMMA Initial == Init => IInv
<1> SUFFICES ASSUME Init PROVE IInv
  OBVIOUS
<1>1. \A a : At(EmptyMap, a) = <<>>
  BY DEF At, EmptyMap
<1>2. Elements(<<>>) = {} /\ Distinct(<<>>)
  BY DEF Elements, Distinct
<1>3. DOMAIN EmptyMap = {}
  BY DEF EmptyMap
<1>4. IsQueues(EmptyMap)
  <2>1. <<>> \in Seq(OrderedTransaction)
    OBVIOUS
  <2> HIDE DEF EmptyMap
  <2> QED
    BY <1>1, <1>3, <2>1 DEF IsQueues
<1>5. block_gas_limit \in {None} \cup Nat
  BY MemPoolAssumption DEF Init
<1>6. state \in [Address -> [nonce : Nat, balance : Nat]]
  <2>1. Balances \subseteq Nat
    BY MemPoolAssumption
  <2>2. ASSUME NEW r \in [nonce : {0}, balance : Balances]
        PROVE  r \in [nonce : Nat, balance : Nat]
    <3>1. r = [nonce |-> r.nonce, balance |-> r.balance] /\ r.nonce = 0 /\ r.balance \in Balances
      OBVIOUS
    <3>2. r.balance \in Nat
      BY <2>1, <3>1, Zenon
    <3> QED
      BY <3>1, <3>2
  <2>3. state \in [Address -> [nonce : {0}, balance : Balances]]
    BY DEF Init
  <2> QED
    BY <2>2, <2>3
<1>7. TypeOK
  BY <1>3, <1>4, <1>5, <1>6, MemPoolAssumption DEF Init, TypeOK
<1>8. Exact(EmptyMap, EmptyMap, EmptyMap)
  BY <1>1, <1>2, <1>3 DEF Exact, AccountExact
<1>9. HashMapExact
  BY <1>8 DEF HashMapExact, Init
<1>10. PendingConsecutive
  BY <1>1 DEF PendingConsecutive, ConsecutiveUpTo, Init
<1> QED
  BY <1>7, <1>9, <1>10 DEF IInv

LEMMA AddInductive ==
  ASSUME IInv, NEW tx \in Transactions, AddTransaction(tx), faulty' = faulty
  PROVE  IInv'
<1> DEFINE a == tx.caller
           ot == [order_id |-> next_order_id, transaction |-> tx]
<1>1. a \in Address /\ ot \in OrderedTransaction /\ ot.transaction = tx
  BY Fields DEF IInv, TypeOK, OrderedTransaction
<1>2. /\ tx \notin DOMAIN hash_to_transaction
      /\ tx.nonce >= state[a].nonce
      /\ ~ empty_queue_panics(a)
      /\ \/ tx.nonce >  account_next_nonce(a) /\ InsertFuture(ot)
         \/ tx.nonce <= account_next_nonce(a) /\ InsertPending(ot)
      /\ next_order_id' = next_order_id + 1
      /\ block_gas_limit' = block_gas_limit /\ state' = state
  BY DEF AddTransaction
<1> HIDE DEF ot
<1>3. PoolOK
  BY DEF IInv, TypeOK, PoolOK, IsHashes
<1>4. PoolOK' /\ PendingConsecutive'
  <2>1. CASE InsertFuture(ot)
    <3>1. PoolOK'
      BY <1>1, <1>2, <1>3, <2>1, InsertFutureExact
    <3>2. pending_transactions' = pending_transactions
      BY <2>1 DEF InsertFuture
    <3> QED
      BY <1>2, <3>1, <3>2 DEF IInv, PendingConsecutive
  <2>2. CASE tx.nonce <= account_next_nonce(a) /\ InsertPending(ot)
    <3>1. PoolOK'
      BY <1>1, <1>2, <1>3, <2>2, InsertPendingExact
    <3>2. PendingConsecutive'
      BY <1>1, <1>2, <2>2, InsertPendingConsecutive DEF IInv
    <3> QED
      BY <3>1, <3>2
  <2> QED
    BY <1>2, <2>1, <2>2
<1> QED
  BY <1>2, <1>4 DEF IInv, TypeOK, PoolOK, IsHashes

LEMMA RemoveInductive ==
  ASSUME IInv, NEW tx \in Transactions, RemoveTransaction(tx), faulty' = faulty
  PROVE  IInv'
<1>1. /\ tx \in DOMAIN hash_to_transaction
      /\ hash_to_transaction' = Without(hash_to_transaction, {tx})
      /\ RemovePending(tx) \/ RemoveFuture(tx)
      /\ block_gas_limit' = block_gas_limit /\ next_order_id' = next_order_id /\ state' = state
  BY DEF RemoveTransaction
<1>2. PoolOK
  BY DEF IInv, TypeOK, PoolOK, IsHashes
<1>3. PoolOK'
  BY <1>1, <1>2, RemovePendingExact, RemoveFutureExact
<1>4. PendingConsecutive'
  <2>1. CASE RemovePending(tx)
    BY <1>1, <2>1, RemovePendingConsecutive DEF IInv
  <2>2. CASE RemoveFuture(tx)
    <3>1. pending_transactions' = pending_transactions
      BY <2>2 DEF RemoveFuture
    <3> QED
      BY <1>1, <3>1 DEF IInv, PendingConsecutive
  <2> QED
    BY <1>1, <2>1, <2>2
<1> QED
  BY <1>1, <1>3, <1>4 DEF IInv, TypeOK, PoolOK, IsHashes

(* The state after a block is st: no nonce went down, and a sender whose nonce
   only its own transactions advance got at most past its pending queue. *)
MinedTo(st) ==
  /\ st \in [Address -> [nonce : Nat, balance : Nat]] /\ state' = st
  /\ Update(block_gas_limit, st) \/ UpdateFails(block_gas_limit, st)
  /\ block_gas_limit' = block_gas_limit /\ next_order_id' = next_order_id
  /\ \A a \in Address : st[a].nonce \in Nat /\ state[a].nonce <= st[a].nonce
  /\ \A a \in Address \ Authorities :
       st[a].nonce <= state[a].nonce + Len(At(pending_transactions, a))

LEMMA MineBlockUpdates ==
  ASSUME IInv, MineBlock
  PROVE  \E st : MinedTo(st)
<1>1. PICK gone \in [Address -> 0 .. MaxOrderId], bumped \in SUBSET Authorities,
           balance \in [Address -> Balances] :
        LET st == [a \in Address |->
                     [nonce   |-> state[a].nonce + gone[a] + (IF a \in bumped THEN 1 ELSE 0),
                      balance |-> balance[a]]]
        IN  /\ \A a \in Address : gone[a] <= Len(At(pending_transactions, a))
            /\ Update(block_gas_limit, st) \/ UpdateFails(block_gas_limit, st)
            /\ state' = st
            /\ UNCHANGED <<block_gas_limit, next_order_id>>
  BY DEF MineBlock
<1> DEFINE st == [a \in Address |->
                    [nonce   |-> state[a].nonce + gone[a] + (IF a \in bumped THEN 1 ELSE 0),
                     balance |-> balance[a]]]
<1>2. /\ Update(block_gas_limit, st) \/ UpdateFails(block_gas_limit, st)
      /\ block_gas_limit' = block_gas_limit /\ next_order_id' = next_order_id
      /\ state' = st
      /\ \A a \in Address : gone[a] <= Len(At(pending_transactions, a))
  BY <1>1
<1>3. \A a \in Address : /\ state[a].nonce \in Nat /\ gone[a] \in Nat
                         /\ balance[a] \in Nat /\ Len(At(pending_transactions, a)) \in Nat
  <2>1. MaxOrderId \in Nat /\ Balances \subseteq Nat
    BY MemPoolAssumption
  <2>2. \A a \in Address : gone[a] \in 0 .. MaxOrderId /\ balance[a] \in Balances
    OBVIOUS
  <2>3. \A a \in Address : balance[a] \in Nat
    BY <2>1, <2>2, Zenon
  <2>4. \A a \in Address : gone[a] \in Nat
    BY <2>1, <2>2
  <2>5. \A a \in Address : state[a].nonce \in Nat /\ Len(At(pending_transactions, a)) \in Nat
    BY DEF IInv, TypeOK, IsQueues
  <2> QED
    BY <2>3, <2>4, <2>5
<1>4. /\ st \in [Address -> [nonce : Nat, balance : Nat]]
      /\ \A a \in Address : /\ st[a].nonce \in Nat /\ state[a].nonce <= st[a].nonce
                            /\ a \notin Authorities => st[a].nonce = state[a].nonce + gone[a]
  BY <1>3
<1> HIDE DEF st
<1>5. \A a \in Address \ Authorities :
        st[a].nonce <= state[a].nonce + Len(At(pending_transactions, a))
  BY <1>2, <1>3, <1>4
<1>6. MinedTo(st)
  BY <1>2, <1>4, <1>5 DEF MinedTo
<1> QED
  BY <1>6

(* Every step preserves the invariant. *)
LEMMA Inductive == IInv /\ [Next]_vars => IInv'
<1> SUFFICES ASSUME IInv, [Next]_vars PROVE IInv'
  OBVIOUS
<1>0. /\ state \in [Address -> [nonce : Nat, balance : Nat]]
      /\ block_gas_limit \in {None} \cup Nat /\ next_order_id \in Nat
      /\ faulty' = faulty
  BY DEF IInv, TypeOK, Next, vars
<1>1. ASSUME NEW tx \in Transactions, AddTransaction(tx) PROVE IInv'
  BY <1>0, <1>1, AddInductive
<1>2. ASSUME NEW tx \in Transactions, RemoveTransaction(tx) PROVE IInv'
  BY <1>0, <1>2, RemoveInductive
<1>3. ASSUME NEW limit \in BlockGasLimits, SetBlockGasLimit(limit) PROVE IInv'
  <2>1. /\ block_gas_limit' = limit /\ next_order_id' = next_order_id /\ state' = state
        /\ Update(limit, state) \/ UpdateFails(limit, state)
    BY <1>3 DEF SetBlockGasLimit
  <2>2. limit \in {None} \cup Nat
    BY MemPoolAssumption
  <2>3. Advances(state)
    BY <1>0, <2>1 DEF Advances
  <2> QED
    BY <1>0, <2>1, <2>2, <2>3, UpdateInductive
<1>4. ASSUME NEW a \in Address, NEW balance \in Balances, SetBalance(a, balance) PROVE IInv'
  <2> DEFINE st == [state EXCEPT ![a].balance = balance]
  <2>1. /\ block_gas_limit' = block_gas_limit /\ next_order_id' = next_order_id
        /\ Update(block_gas_limit, st) \/ UpdateFails(block_gas_limit, st)
        /\ state' = st \/ state' = state
    BY <1>4 DEF SetBalance
  <2>2. balance \in Nat
    BY MemPoolAssumption
  <2>3. /\ st \in [Address -> [nonce : Nat, balance : Nat]]
        /\ \A b \in Address : st[b].nonce = state[b].nonce /\ state[b].nonce \in Nat
    BY <1>0, <2>2
  <2> HIDE DEF st
  <2>4. Advances(st)
    BY <1>0, <2>1, <2>3 DEF Advances
  <2> QED
    BY <1>0, <2>1, <2>4, UpdateInductive
<1>5. ASSUME NEW a \in Address, NEW nonce \in 0 .. MaxNonce, SetNonce(a, nonce) PROVE IInv'
  <2> DEFINE st == [state EXCEPT ![a].nonce = nonce]
  <2>1. /\ block_gas_limit' = block_gas_limit /\ next_order_id' = next_order_id
        /\ Update(block_gas_limit, st) /\ state' = st /\ nonce >= state[a].nonce
    BY <1>5 DEF SetNonce
  <2>2. nonce \in Nat
    BY MemPoolAssumption
  <2>3. /\ st \in [Address -> [nonce : Nat, balance : Nat]]
        /\ \A b \in Address : st[b].nonce \in Nat /\ state[b].nonce <= st[b].nonce
    BY <1>0, <2>1, <2>2
  <2> HIDE DEF st
  <2>4. Advances(st)
    BY <2>1, <2>3 DEF Advances
  <2> QED
    BY <1>0, <2>1, <2>4, UpdateInductive
<1>6. ASSUME MineBlock PROVE IInv'
  <2>1. PICK st : MinedTo(st)
    BY <1>6, MineBlockUpdates
  <2>2. Advances(st)
    BY <2>1 DEF Advances, MinedTo
  <2> QED
    BY <1>0, <2>1, <2>2, UpdateInductive DEF MinedTo
<1>7. CASE UNCHANGED vars
  <2>1. /\ block_gas_limit' = block_gas_limit /\ next_order_id' = next_order_id /\ state' = state
        /\ pending_transactions' = pending_transactions
        /\ future_transactions' = future_transactions
        /\ hash_to_transaction' = hash_to_transaction
    BY <1>7 DEF vars, pool
  <2> QED
    BY <1>0, <2>1 DEF IInv, TypeOK, HashMapExact, PendingConsecutive
<1> QED
  BY <1>1, <1>2, <1>3, <1>4, <1>5, <1>6, <1>7 DEF Next

(* The fields of the pool keep their types. *)
THEOREM TypeCorrect == Spec => []TypeOK
<1>1. IInv => TypeOK
  BY DEF IInv
<1> QED
  BY <1>1, Initial, Inductive, PTL DEF Spec

(* The three views of the pool agree after every sequence of requests, blocks
   and failing state lookups: what is queued is what is known by its hash, and
   nothing is queued twice. *)
THEOREM HashMapAgrees == Spec => []HashMapExact
<1>1. IInv => HashMapExact
  BY DEF IInv
<1> QED
  BY <1>1, Initial, Inductive, PTL DEF Spec

(* A pending queue never has a gap and never runs ahead of its account, even
   when updates were cut short by failing lookups. *)
THEOREM PendingNeverAhead == Spec => []PendingConsecutive
<1>1. IInv => PendingConsecutive
  BY DEF IInv
<1> QED
  BY <1>1, Initial, Inductive, PTL DEF Spec

-----------------------------------------------------------------------------
(***************************************************************************)
(* While every lookup succeeds.  What is known by its hash is valid; the   *)
(* future queue Q of an account whose pending queue P starts at n holds    *)
(* different nonces, all of them past the next one.                        *)
(***************************************************************************)
Waiting(P, Q, n) ==
  /\ \A o \in Elements(Q) : o.transaction.nonce > n + Len(P)
  /\ \A x, y \in Elements(Q) : x.transaction.nonce = y.transaction.nonce => x = y

OwnWaiting ==
  \A a \in Address \ Authorities :
    Waiting(At(pending_transactions, a), At(future_transactions, a), state[a].nonce)

HashesValid ==
  \A tx \in DOMAIN hash_to_transaction :
    is_valid_tx(tx, block_gas_limit, state[tx.caller])

Steady == OwnWaiting /\ HashesValid /\ NoEmptyPendingQueue

(* The inductive invariant, with what holds only while every lookup succeeds. *)
RInv == IInv /\ (Reliable => Steady)

StartsAt(P, n) == \A i \in DOMAIN P : P[i].transaction.nonce = n + i - 1

(* A queue that is consecutive and valid starts at the nonce of its account. *)
LEMMA ValidStartsAt ==
  ASSUME IInv, HashesValid, NEW a \in Address
  PROVE  /\ StartsAt(At(pending_transactions, a), state[a].nonce)
         /\ \A ot \in Queued(a) : is_valid_tx(ot.transaction, block_gas_limit, state[a])
<1> DEFINE P == At(pending_transactions, a)
           n == state[a].nonce
<1>1. AccountExact(a, P, At(future_transactions, a), hash_to_transaction)
  BY DEF IInv, HashMapExact, Exact
<1>2. \A ot \in Queued(a) : is_valid_tx(ot.transaction, block_gas_limit, state[a])
  BY <1>1 DEF HashesValid, AccountExact, Queued
<1>3. /\ P \in Seq(OrderedTransaction) /\ n \in Nat /\ ConsecutiveUpTo(P, n)
      /\ \A i \in DOMAIN P : P[i].transaction.nonce \in Nat /\ i \in Nat /\ 1 \in DOMAIN P
  BY Fields DEF IInv, TypeOK, IsQueues, PendingConsecutive
<1>4. \A i \in DOMAIN P : P[i].transaction.nonce >= n
  BY <1>2 DEF is_valid_tx, Queued, Elements
<1>5. StartsAt(P, n)
  <2> HIDE DEF P, n
  <2> SUFFICES ASSUME NEW i \in DOMAIN P PROVE P[i].transaction.nonce = n + i - 1
    BY DEF StartsAt
  <2>1. 1 \in DOMAIN P
    BY <1>3
  <2>2. /\ P[i].transaction.nonce = P[1].transaction.nonce + i - 1
        /\ P[1].transaction.nonce <= n
    BY <1>3 DEF ConsecutiveUpTo
  <2>3. P[1].transaction.nonce \in Nat /\ P[1].transaction.nonce >= n
    BY <1>3, <1>4, <2>1
  <2>4. P[1].transaction.nonce = n
    BY <1>3, <2>2, <2>3
  <2> QED
    BY <2>2, <2>4
<1> QED
  BY <1>2, <1>5

(* After both loops of `update` the future queue waits again. *)
LEMMA TreatedWaits ==
  ASSUME NEW P \in Seq(OrderedTransaction), NEW Q \in Seq(OrderedTransaction),
         NEW n \in Nat, StartsAt(P, n), Waiting(P, Q, n),
         NEW a, NEW S, NEW F, NEW limit, NEW sender, sender.nonce \in Nat,
         \A o \in Elements(Q) : sender.nonce <= n + Len(P),
         a \notin S => P = <<>>,
         NEW p2, NEW f1, NEW f2, Treated(P, Q, a, S, F, limit, sender, p2, f1, f2)
  PROVE  Waiting(p2, f2, sender.nonce)
<1> DEFINE R == Retained(P, limit, sender)
           s == sender.nonce
           k == Consecutive(R, s)
           rest == IF a \in S THEN Rest(R, k) ELSE <<>>
           K == {i \in DOMAIN P : is_valid_tx(P[i].transaction, limit, sender)}
<1>0. /\ Len(P) \in Nat /\ DOMAIN P = 1 .. Len(P) /\ s \in Nat
      /\ \A o \in OrderedTransaction : o.transaction.nonce \in Nat
  BY Fields
<1>1. R = Keep(P, K) /\ K \in SUBSET DOMAIN P
  BY DEF Retained, Retain
<1>2. /\ R \in Seq(OrderedTransaction)
      /\ Elements(R) = {o \in Elements(P) : is_valid_tx(o.transaction, limit, sender)}
  BY RetainedProperties
<1>3. \A i, j \in DOMAIN R : i < j => R[i].transaction.nonce < R[j].transaction.nonce
  <2> TAKE i, j \in DOMAIN R
  <2> HAVE i < j
  <2> HIDE DEF K
  <2>1. PICK x \in K, y \in K : x < y /\ R[i] = P[x] /\ R[j] = P[y]
    BY <1>1, KeepOrder
  <2>2. x \in 1 .. Len(P) /\ y \in 1 .. Len(P)
    BY <1>0, <1>1
  <2>3. R[i].transaction.nonce = n + x - 1 /\ R[j].transaction.nonce = n + y - 1
    BY <1>0, <2>1, <2>2 DEF StartsAt
  <2> QED
    BY <1>0, <2>1, <2>2, <2>3
<1>4. \A i \in DOMAIN R : /\ R[i].transaction.nonce \in Nat
                          /\ R[i].transaction.nonce >= s
                          /\ R[i].transaction.nonce < n + Len(P)
  <2> TAKE i \in DOMAIN R
  <2>1. R[i] \in Elements(R)
    BY DEF Elements
  <2>2. PICK j \in DOMAIN P : R[i] = P[j] /\ is_valid_tx(P[j].transaction, limit, sender)
    BY <1>2, <2>1 DEF Elements
  <2>3. P[j].transaction.nonce = n + j - 1 /\ P[j].transaction.nonce >= s /\ j \in 1 .. Len(P)
    BY <1>0, <2>2 DEF StartsAt, is_valid_tx
  <2> QED
    BY <1>0, <2>2, <2>3
<1> HIDE DEF R
<1>5. /\ k \in 0 .. Len(R)
      /\ \A i \in 1 .. k : R[i].transaction.nonce = s + i - 1
      /\ k < Len(R) => R[k + 1].transaction.nonce # s + k
  BY <1>0, <1>2, ConsecutiveProperties
<1>6. /\ p2 = IF a \in S THEN Front(R, k) ELSE P
      /\ f1 = Q \o rest
      /\ f2 = IF a \in F THEN Retained(f1, limit, sender) ELSE f1
  BY DEF Treated, R
<1> HIDE DEF k, s
<1>7. Len(R) \in Nat /\ DOMAIN R = 1 .. Len(R) /\ k \in Nat
  BY <1>2, <1>5
<1>8. \A i \in k + 1 .. Len(R) : R[i].transaction.nonce > s + k
  <2> TAKE i \in k + 1 .. Len(R)
  <2>1. k + 1 \in DOMAIN R /\ i \in DOMAIN R /\ i \in Nat /\ k + 1 <= i /\ k < Len(R)
    BY <1>7
  <2>2. R[k + 1].transaction.nonce # s + k
    BY <1>5, <2>1
  <2>3. R[k + 1].transaction.nonce >= s + k
    <3>1. CASE k = 0
      BY <1>0, <1>4, <2>1, <3>1
    <3>2. CASE k # 0
      <4>1. k \in DOMAIN R /\ k \in 1 .. k /\ k < k + 1
        BY <1>7, <2>1, <3>2
      <4>2. R[k].transaction.nonce < R[k + 1].transaction.nonce
        BY <1>3, <2>1, <4>1
      <4>3. R[k].transaction.nonce = s + k - 1
        BY <1>5, <4>1
      <4> QED
        BY <1>0, <1>4, <1>7, <2>1, <4>2, <4>3
    <3> QED
      BY <3>1, <3>2
  <2>4. R[k + 1].transaction.nonce \in Nat /\ R[i].transaction.nonce \in Nat
    BY <1>4, <2>1
  <2>5. i = k + 1 \/ R[k + 1].transaction.nonce < R[i].transaction.nonce
    BY <1>3, <1>7, <2>1
  <2> QED
    <3> DEFINE x == R[k + 1].transaction.nonce
               y == R[i].transaction.nonce
    <3>1. x > s + k
      <4> HIDE DEF x
      <4> QED
        BY <1>0, <1>7, <2>2, <2>3, <2>4 DEF x
    <3>2. y = x \/ x < y
      BY <2>5
    <3> HIDE DEF x, y
    <3>3. y > s + k
      BY <1>0, <1>7, <2>4, <3>1, <3>2 DEF x, y
    <3> QED
      BY <3>3 DEF y
<1>9. /\ Front(R, k) \in Seq(OrderedTransaction) /\ Rest(R, k) \in Seq(OrderedTransaction)
      /\ DOMAIN Front(R, k) = 1 .. k
      /\ Elements(Rest(R, k)) = {R[i] : i \in k + 1 .. Len(R)}
  BY <1>2, <1>5, SplitElements
<1>10. Len(Front(R, k)) = k
  BY <1>7, <1>9
<1>11. Elements(<<>>) = {} /\ <<>> \in Seq(OrderedTransaction) /\ Len(<<>>) = 0
  BY DEF Elements
<1>12. /\ rest \in Seq(OrderedTransaction) /\ Len(p2) \in Nat
       /\ \A o \in Elements(rest) : /\ o.transaction.nonce > s + Len(p2)
                                    /\ o.transaction.nonce < n + Len(P)
       /\ \A x, y \in Elements(rest) : x.transaction.nonce = y.transaction.nonce => x = y
       /\ \A o \in Elements(Q) : s + Len(p2) <= n + Len(P)
  <2>1. CASE a \notin S
    <3>1. p2 = <<>> /\ rest = <<>> /\ P = <<>> /\ Len(P) = 0
      BY <1>6, <1>11, <2>1
    <3>2. \A o \in Elements(Q) : s <= n + Len(P)
      BY DEF s
    <3> HIDE DEF rest
    <3>3. Elements(rest) = {} /\ rest \in Seq(OrderedTransaction)
      BY <1>11, <3>1, Zenon
    <3>4. Len(p2) = 0 /\ s + 0 = s
      BY <1>0, <1>11, <3>1
    <3> QED
      BY <3>2, <3>3, <3>4
  <2>2. CASE a \in S
    <3>1. p2 = Front(R, k) /\ rest = Rest(R, k) /\ Len(p2) = k
      BY <1>6, <1>10, <2>2
    <3>2. \A o \in Elements(rest) : o.transaction.nonce > s + k /\ o.transaction.nonce < n + Len(P)
      <4>1. \A i \in k + 1 .. Len(R) : i \in DOMAIN R
        BY <1>7
      <4> QED
        BY <1>4, <1>8, <1>9, <3>1, <4>1
    <3>3. \A x, y \in Elements(rest) : x.transaction.nonce = y.transaction.nonce => x = y
      <4> TAKE x, y \in Elements(rest)
      <4> HAVE x.transaction.nonce = y.transaction.nonce
      <4>1. PICK i \in k + 1 .. Len(R), j \in k + 1 .. Len(R) : x = R[i] /\ y = R[j]
        BY <1>9, <3>1
      <4>2. i \in DOMAIN R /\ j \in DOMAIN R /\ i \in Nat /\ j \in Nat
        BY <1>7
      <4>3. ~ (i < j) /\ ~ (j < i)
        BY <1>3, <1>4, <4>1, <4>2
      <4>4. i = j
        BY <4>2, <4>3
      <4> QED
        BY <4>1, <4>4
    <3>4. \A o \in Elements(Q) : s + k <= n + Len(P)
      <4>1. CASE k = 0
        <5>1. \A o \in Elements(Q) : s <= n + Len(P)
          BY DEF s
        <5> QED
          BY <1>0, <4>1, <5>1
      <4>2. CASE k # 0
        <5>1. k \in 1 .. k /\ k \in DOMAIN R
          BY <1>5, <1>7, <4>2
        <5>2. R[k].transaction.nonce = s + k - 1 /\ R[k].transaction.nonce < n + Len(P)
          BY <1>4, <1>5, <5>1
        <5> QED
          BY <1>0, <1>7, <5>2
      <4> QED
        BY <4>1, <4>2
    <3> QED
      BY <1>7, <1>9, <3>1, <3>2, <3>3, <3>4
  <2> QED
    BY <2>1, <2>2
<1> HIDE DEF rest
<1>13. f1 \in Seq(OrderedTransaction) /\ Elements(f1) = Elements(Q) \cup Elements(rest)
  BY <1>6, <1>12, ConcatElements
<1>14. Elements(f2) \subseteq Elements(f1)
  <2>1. Elements(Retained(f1, limit, sender)) \subseteq Elements(f1)
    BY <1>13, RetainedProperties
  <2> QED
    BY <1>6, <2>1
<1>15. \A o \in Elements(Q) \cup Elements(rest) : o.transaction.nonce \in Nat
  BY <1>0, <1>12 DEF Elements
<1>16. \A o \in Elements(Q) : /\ o.transaction.nonce > s + Len(p2)
                              /\ o.transaction.nonce > n + Len(P)
  BY <1>0, <1>12, <1>15 DEF Waiting
<1>17. \A x, y \in Elements(f1) : x.transaction.nonce = y.transaction.nonce => x = y
  <2>1. \A x \in Elements(Q), y \in Elements(rest) : x.transaction.nonce # y.transaction.nonce
    BY <1>0, <1>12, <1>15, <1>16
  <2> QED
    BY <1>12, <1>13, <2>1 DEF Waiting
<1> QED
  BY <1>12, <1>13, <1>14, <1>16, <1>17 DEF Waiting, s

(* A nonce has not jumped past transactions that wait. *)
NotJumped(st) ==
  \A a \in Address \ Authorities :
    At(future_transactions, a) # <<>> =>
      st[a].nonce <= state[a].nonce + Len(At(pending_transactions, a))

(* `update` with every lookup succeeding, in the state that is adopted. *)
LEMMA UpdateSteady ==
  ASSUME IInv, Steady, NEW limit, NEW st, Update(limit, st), NotJumped(st),
         \A a \in Address : st[a].nonce \in Nat,
         state' = st, block_gas_limit' = limit
  PROVE  Steady'
<1> DEFINE p == pending_transactions
           f == future_transactions
           h == hash_to_transaction
           S == DOMAIN p
           f1 == ThenFuture(S, limit, st)
           F == DOMAIN f1
           D == UNION ({Dropped(p[a], limit, st[a]) : a \in S}
                       \cup {Dropped(f1[a], limit, st[a]) : a \in F})
<1>0. /\ UpdateUpTo(S, F, limit, st) /\ Exact(p, f, h) /\ IsQueues(p) /\ IsQueues(f)
      /\ \A a \in Address : /\ At(p, a) \in Seq(OrderedTransaction)
                            /\ At(f, a) \in Seq(OrderedTransaction)
                            /\ state[a].nonce \in Nat
      /\ DOMAIN h \subseteq Transactions
  BY DEF Update, IInv, TypeOK, HashMapExact, IsQueues
<1>1. \A a \in Address :
        Treated(At(p, a), At(f, a), a, S, F, limit, st[a], At(p', a), At(f1, a), At(f', a))
  <2> TAKE a \in Address
  <2> HIDE DEF p, f, S, F, f1
  <2> QED
    BY <1>0, UpdateTreats DEF p, f, S, F, f1
<1>2. OwnWaiting'
  <2> SUFFICES ASSUME NEW a \in Address \ Authorities
               PROVE  Waiting(At(p', a), At(f', a), st[a].nonce)
    BY DEF OwnWaiting
  <2> DEFINE P == At(p, a)
             Q == At(f, a)
             n == state[a].nonce
             sender == st[a]
             p2 == At(p', a)
             g1 == At(f1, a)
             f2 == At(f', a)
  <2>1. StartsAt(P, n) /\ Waiting(P, Q, n)
    BY ValidStartsAt DEF Steady, OwnWaiting
  <2>2. a \notin S => P = <<>>
    BY DEF At
  <2>3. \A o \in Elements(Q) : sender.nonce <= n + Len(P)
    <3>1. \A o \in Elements(Q) : Q # <<>>
      BY DEF Elements
    <3> QED
      BY <3>1 DEF NotJumped
  <2>4. /\ P \in Seq(OrderedTransaction) /\ Q \in Seq(OrderedTransaction) /\ n \in Nat
        /\ sender.nonce \in Nat /\ Treated(P, Q, a, S, F, limit, sender, p2, g1, f2)
    BY <1>0, <1>1
  <2> HIDE DEF P, Q, n, sender, p2, g1, f2, S, F
  <2>5. Waiting(p2, f2, sender.nonce)
    BY <2>1, <2>2, <2>3, <2>4, TreatedWaits
  <2> QED
    BY <2>5 DEF p2, f2, sender
<1>3. HashesValid'
  <2>1. h' = Without(h, D)
    BY <1>0 DEF UpdateUpTo
  <2>2. DOMAIN h' = DOMAIN h \ D
    BY <2>1 DEF Without
  <2> SUFFICES ASSUME NEW x \in DOMAIN h, x \notin D
               PROVE  is_valid_tx(x, limit, st[x.caller])
    BY <2>2 DEF HashesValid
  <2> DEFINE a == x.caller
             o == h[x]
  <2>3. a \in Address /\ o.transaction = x /\ o \in Elements(At(p, a)) \cup Elements(At(f, a))
    BY <1>0, Fields DEF Exact
  <2> HIDE DEF a, o
  <2>4. CASE o \in Elements(At(p, a))
    <3>1. a \in S /\ p[a] = At(p, a)
      BY <2>4 DEF At, Elements
    <3>2. x \notin Dropped(p[a], limit, st[a])
      BY <3>1
    <3> QED
      BY <2>3, <2>4, <3>1, <3>2 DEF Dropped, a
  <2>5. CASE o \in Elements(At(f, a))
    <3>1. o \in Elements(At(f1, a))
      <4> DEFINE R == Retained(At(p, a), limit, st[a])
                 k == Consecutive(R, st[a].nonce)
                 rest == IF a \in S THEN Rest(R, k) ELSE <<>>
      <4>1. At(f1, a) = At(f, a) \o rest
        BY <1>1, <2>3 DEF Treated
      <4>2. rest \in Seq(OrderedTransaction)
        <5>1. R \in Seq(OrderedTransaction) /\ st[a].nonce \in Nat
          BY <1>0, <2>3, RetainedProperties
        <5> HIDE DEF R
        <5>2. k \in 0 .. Len(R)
          BY <5>1, ConsecutiveProperties
        <5> HIDE DEF k
        <5>3. Rest(R, k) \in Seq(OrderedTransaction)
          BY <5>1, <5>2, SplitElements
        <5> QED
          BY <5>3
      <4> HIDE DEF rest, f1
      <4>3. Elements(At(f, a) \o rest) = Elements(At(f, a)) \cup Elements(rest)
        BY <1>0, <2>3, <4>2, ConcatElements
      <4> QED
        BY <2>5, <4>1, <4>3
    <3> HIDE DEF f1
    <3>2. a \in F /\ f1[a] = At(f1, a)
      BY <3>1 DEF At, Elements
    <3>3. x \notin Dropped(f1[a], limit, st[a])
      BY <3>2
    <3> QED
      BY <2>3, <3>1, <3>2, <3>3 DEF Dropped, a
  <2> QED
    BY <2>3, <2>4, <2>5
<1>4. NoEmptyPendingQueue'
  <2> DEFINE p2 == StillPending(S, limit, st)
  <2>1. S = DOMAIN p2
    BY DEF StillPending
  <2>2. p' = NonEmpty(p2)
    BY <1>0, <2>1 DEF UpdateUpTo
  <2> HIDE DEF p2
  <2> QED
    BY <2>2 DEF NonEmpty, Without, NoEmptyPendingQueue
<1> QED
  BY <1>2, <1>3, <1>4 DEF Steady

-----------------------------------------------------------------------------
(* The promotion stops at a gap: no entry has the nonce after the last promoted. *)
LEMMA PromotionStops ==
  ASSUME NEW q \in Seq(OrderedTransaction), NEW n \in Nat
  PROVE  \A i \in DOMAIN q :
           q[i].transaction.nonce # n + Cardinality(PromotedNonces(q, n)) + 1
<1> DEFINE run == PromotedNonces(q, n)
           c == Cardinality(run)
<1> SUFFICES ASSUME NEW i \in DOMAIN q, q[i].transaction.nonce = n + c + 1
             PROVE  FALSE
  OBVIOUS
<1>1. /\ c \in Nat /\ run = n + 1 .. n + c
      /\ \A k \in run : PromotedAt(q, k) \in DOMAIN q /\ q[PromotedAt(q, k)].transaction.nonce = k
  BY PromotionProperties
<1>2. Len(q) \in Nat /\ DOMAIN q = 1 .. Len(q)
  OBVIOUS
<1>3. run = {m \in n + 1 .. n + Len(q) :
               \A k \in n + 1 .. m : \E j \in DOMAIN q : q[j].transaction.nonce = k}
  BY DEF PromotedNonces, Found
<1> HIDE DEF run, c
<1> DEFINE at == [k \in 1 .. c + 1 |-> IF k = c + 1 THEN i ELSE PromotedAt(q, n + k)]
<1>4. \A k \in 1 .. c + 1 : at[k] \in 1 .. Len(q) /\ q[at[k]].transaction.nonce = n + k
  <2> TAKE k \in 1 .. c + 1
  <2>1. CASE k = c + 1
    BY <1>1, <1>2, <2>1
  <2>2. CASE k # c + 1
    <3>1. n + k \in run
      BY <1>1, <2>2
    <3> QED
      BY <1>1, <1>2, <2>2, <3>1
  <2> QED
    BY <2>1, <2>2
<1>5. at \in [1 .. c + 1 -> 1 .. Len(q)]
  BY <1>4
<1> HIDE DEF at
<1>6. \A k, l \in 1 .. c + 1 : at[k] = at[l] => k = l
  <2> TAKE k, l \in 1 .. c + 1
  <2> HAVE at[k] = at[l]
  <2>1. n + k = n + l
    BY <1>4
  <2> QED
    BY <1>1, <2>1
<1>7. at \in Injection(1 .. c + 1, 1 .. Len(q))
  BY <1>5, <1>6, Fun_IsInj
<1>8. ExistsInjection(1 .. c + 1, 1 .. Len(q))
  BY <1>7, Fun_ExistsInj
<1>9. c + 1 <= Len(q)
  BY <1>1, <1>2, <1>8, Fun_NatInjLeq
<1>10. \A k \in n + 1 .. n + (c + 1) : \E j \in DOMAIN q : q[j].transaction.nonce = k
  <2> TAKE k \in n + 1 .. n + (c + 1)
  <2>1. k - n \in 1 .. c + 1 /\ n + (k - n) = k
    BY <1>1
  <2> QED
    BY <1>2, <1>4, <2>1
<1>11. n + (c + 1) \in run
  <2>1. n + (c + 1) \in n + 1 .. n + Len(q)
    BY <1>1, <1>2, <1>9
  <2> QED
    BY <1>3, <1>10, <2>1
<1> QED
  BY <1>1, <1>11

(* The same nonces at the same positions. *)
LEMMA SameNoncesWait ==
  ASSUME NEW P, NEW Q, NEW n, Waiting(P, Q, n), Distinct(Q),
         NEW P2, NEW Q2, Len(P2) = Len(P), DOMAIN Q2 = DOMAIN Q,
         \A i \in DOMAIN Q : Q2[i].transaction.nonce = Q[i].transaction.nonce
  PROVE  Waiting(P2, Q2, n)
<1>1. \A o \in Elements(Q2) : o.transaction.nonce > n + Len(P2)
  BY DEF Waiting, Elements
<1>2. \A x, y \in Elements(Q2) : x.transaction.nonce = y.transaction.nonce => x = y
  <2> SUFFICES ASSUME NEW i \in DOMAIN Q, NEW j \in DOMAIN Q,
                      Q2[i].transaction.nonce = Q2[j].transaction.nonce
               PROVE  Q2[i] = Q2[j]
    BY DEF Elements
  <2>1. Q[i] = Q[j]
    BY DEF Waiting, Elements
  <2>2. i = j
    BY <2>1 DEF Distinct
  <2> QED
    BY <2>2
<1> QED
  BY <1>1, <1>2 DEF Waiting

(* What the account has to send next. *)
LEMMA NextNonce ==
  ASSUME IInv, HashesValid, NEW a \in Address, ~ empty_queue_panics(a)
  PROVE  account_next_nonce(a) = state[a].nonce + Len(At(pending_transactions, a))
<1> DEFINE P == At(pending_transactions, a)
           n == state[a].nonce
<1>1. /\ P \in Seq(OrderedTransaction) /\ n \in Nat /\ Len(P) \in Nat
      /\ DOMAIN P = 1 .. Len(P)
  BY DEF IInv, TypeOK, IsQueues
<1>2. StartsAt(P, n)
  BY ValidStartsAt
<1>3. CASE a \in DOMAIN pending_transactions
  <2>1. P = pending_transactions[a] /\ P # <<>>
    BY <1>3 DEF At, empty_queue_panics
  <2>2. account_next_nonce(a) = P[Len(P)].transaction.nonce + 1
    BY <1>3, <2>1 DEF account_next_nonce
  <2> HIDE DEF P, n
  <2>3. Len(P) \in DOMAIN P
    BY <1>1, <2>1
  <2>4. P[Len(P)].transaction.nonce = n + Len(P) - 1
    BY <1>2, <2>3 DEF StartsAt
  <2> QED
    BY <1>1, <2>2, <2>4 DEF P, n
<1>4. CASE a \notin DOMAIN pending_transactions
  BY <1>1, <1>4 DEF At, account_next_nonce
<1> QED
  BY <1>3, <1>4

(* What a promotion leaves behind waits for a later nonce. *)
LEMMA PromotionWaits ==
  ASSUME NEW P \in Seq(OrderedTransaction), NEW Q \in Seq(OrderedTransaction),
         NEW n \in Nat, Waiting(P, Q, n), Distinct(Q),
         NEW m, m = n + Len(P),
         NEW promoted, NEW left, Promotion(Q, m, promoted, left),
         NEW P2, Len(P2) = Len(P) + 1 + Len(promoted)
  PROVE  Waiting(P2, left, n)
<1> DEFINE run == PromotedNonces(Q, m)
           c == Cardinality(run)
<1>0. Len(P) \in Nat /\ m \in Nat
  OBVIOUS
<1>1. /\ promoted \in Seq(OrderedTransaction)
      /\ Elements(promoted) \cap Elements(left) = {}
      /\ Elements(promoted) \cup Elements(left) = Elements(Q)
      /\ \A k \in DOMAIN promoted : promoted[k].transaction.nonce = m + k
  BY <1>0, PromotionSplits
<1>2. c \in Nat /\ DOMAIN promoted = 1 .. c /\ Len(promoted) = c
  <2>1. c \in Nat
    BY <1>0, PromotionProperties
  <2>2. DOMAIN promoted = 1 .. c
    BY DEF Promotion
  <2> HIDE DEF c
  <2> QED
    BY <1>1, <2>1, <2>2
<1>3. \A i \in DOMAIN Q : Q[i].transaction.nonce # m + c + 1
  BY <1>0, PromotionStops
<1> HIDE DEF run, c
<1>4. ASSUME NEW o \in Elements(left)
      PROVE  o.transaction.nonce > n + Len(P2)
  <2> DEFINE x == o.transaction.nonce
  <2>1. o \in Elements(Q) /\ o \notin Elements(promoted)
    BY <1>1, <1>4
  <2>2. PICK i \in DOMAIN Q : o = Q[i]
    BY <2>1 DEF Elements
  <2>3. x \in Nat /\ x > m /\ x # m + c + 1
    BY <1>3, <2>1, <2>2, Fields DEF Waiting
  <2>4. \A k \in 1 .. c : x # m + k
    <3> SUFFICES ASSUME NEW k \in 1 .. c, x = m + k PROVE FALSE
      OBVIOUS
    <3>1. /\ promoted[k] \in Elements(promoted)
          /\ promoted[k].transaction.nonce = o.transaction.nonce
      BY <1>1, <1>2 DEF Elements
    <3>2. promoted[k] = o
      BY <1>1, <2>1, <3>1 DEF Waiting
    <3> QED
      BY <2>1, <3>1, <3>2
  <2> HIDE DEF x
  <2>5. x > m + c + 1
    <3>1. ASSUME x <= m + c PROVE FALSE
      <4>1. x - m \in 1 .. c /\ m + (x - m) = x
        BY <1>0, <1>2, <2>3, <3>1
      <4> QED
        BY <2>4, <4>1
    <3> QED
      BY <1>0, <1>2, <2>3, <3>1
  <2>6. n + Len(P2) = m + c + 1
    BY <1>0, <1>2
  <2> QED
    BY <2>5, <2>6 DEF x
<1>5. \A x, y \in Elements(left) : x.transaction.nonce = y.transaction.nonce => x = y
  BY <1>1 DEF Waiting
<1> QED
  BY <1>4, <1>5 DEF Waiting

(* Only the queues of account a change. *)
LEMMA WaitsAt ==
  ASSUME OwnWaiting, NEW a \in Address, state' = state,
         \A b \in Address : b # a =>
           /\ At(pending_transactions', b) = At(pending_transactions, b)
           /\ At(future_transactions', b) = At(future_transactions, b),
         a \notin Authorities =>
           Waiting(At(pending_transactions', a), At(future_transactions', a), state[a].nonce)
  PROVE  OwnWaiting'
<1> SUFFICES ASSUME NEW b \in Address \ Authorities
             PROVE  Waiting(At(pending_transactions', b), At(future_transactions', b),
                            state[b].nonce)
  BY DEF OwnWaiting
<1>1. CASE b = a
  BY <1>1
<1>2. CASE b # a
  BY <1>2 DEF OwnWaiting
<1> QED
  BY <1>1, <1>2

(* hardhat_dropTransaction moves what it leaves behind past the next nonce. *)
LEMMA RemoveSteady ==
  ASSUME IInv, Steady, NEW tx \in Transactions, RemoveTransaction(tx)
  PROVE  Steady'
<1> DEFINE a == tx.caller
           p == pending_transactions
           f == future_transactions
           P == At(p, a)
           Q == At(f, a)
           n == state[a].nonce
<1>0. /\ a \in Address /\ P \in Seq(OrderedTransaction) /\ Q \in Seq(OrderedTransaction)
      /\ n \in Nat /\ Len(P) \in Nat /\ DOMAIN P = 1 .. Len(P)
      /\ \A o \in OrderedTransaction : o.transaction.nonce \in Nat
  BY Fields DEF IInv, TypeOK, IsQueues
<1>1. /\ hash_to_transaction' = Without(hash_to_transaction, {tx})
      /\ RemovePending(tx) \/ RemoveFuture(tx)
      /\ state' = state /\ block_gas_limit' = block_gas_limit
  BY DEF RemoveTransaction
<1>2. HashesValid'
  BY <1>1 DEF Without, HashesValid, Steady
<1>3. OwnWaiting' /\ NoEmptyPendingQueue'
  <2>1. CASE RemovePending(tx)
    <3> DEFINE i == HashAt(P, tx)
               front == Front(P, i - 1)
               rest == Rest(P, i)
    <3>1. a \in DOMAIN p /\ P = p[a] /\ Found(P, LAMBDA ot : ot.transaction = tx)
      BY <2>1 DEF RemovePending, Found, At
    <3>2. i \in DOMAIN P
      BY <1>0, <3>1, HashAtProperties
    <3>3. p' = PutBack(p, a, front) /\ f' = Put(f, a, Q \o rest)
      BY <2>1, <3>1 DEF RemovePending
    <3> HIDE DEF i
    <3>4. i \in Nat /\ i - 1 \in 0 .. Len(P) /\ i \in 0 .. Len(P)
      BY <1>0, <3>2
    <3>5. DOMAIN front = 1 .. i - 1 /\ front \in Seq(OrderedTransaction)
      BY <1>0, <3>4, SplitElements
    <3>6. /\ rest \in Seq(OrderedTransaction)
          /\ Elements(rest) = {P[j] : j \in i + 1 .. Len(P)}
      BY <1>0, <3>4, SplitElements
    <3> HIDE DEF front, rest
    <3>7. Len(front) = i - 1
      BY <3>4, <3>5
    <3>8. /\ \A b : At(p', b) = IF b = a THEN front ELSE At(p, b)
          /\ \A b : At(f', b) = IF b = a THEN Q \o rest ELSE At(f, b)
      BY <3>3, PutBackLookup, PutLookup
    <3>9. Elements(Q \o rest) = Elements(Q) \cup Elements(rest)
      BY <1>0, <3>6, ConcatElements
    <3>10. ASSUME a \notin Authorities PROVE Waiting(front, Q \o rest, n)
      <4>1. StartsAt(P, n) /\ Waiting(P, Q, n)
        BY <1>0, <3>10, ValidStartsAt DEF Steady, OwnWaiting
      <4> HIDE DEF P, Q, n, p, f, a
      <4>2. \A j \in i + 1 .. Len(P) : /\ j \in Nat /\ i < j /\ j <= Len(P)
                                       /\ P[j].transaction.nonce = n + j - 1
        <5> TAKE j \in i + 1 .. Len(P)
        <5>1. j \in Nat /\ i < j /\ j <= Len(P) /\ j \in DOMAIN P
          BY <1>0, <3>4
        <5>2. P[j].transaction.nonce = n + j - 1
          BY <4>1, <5>1 DEF StartsAt
        <5> QED
          BY <5>1, <5>2
      <4>3. \A o \in Elements(rest) : /\ o.transaction.nonce \in Nat
                                      /\ o.transaction.nonce > n + (i - 1)
                                      /\ o.transaction.nonce < n + Len(P)
        BY <1>0, <3>4, <3>6, <4>2
      <4>4. \A o \in Elements(Q) : /\ o.transaction.nonce \in Nat
                                   /\ o.transaction.nonce > n + Len(P)
                                   /\ o.transaction.nonce > n + (i - 1)
        <5> TAKE o \in Elements(Q)
        <5>1. o.transaction.nonce \in Nat
          BY <1>0 DEF Elements
        <5>2. o.transaction.nonce > n + Len(P)
          BY <4>1 DEF Waiting
        <5>3. i - 1 \in Nat /\ i - 1 <= Len(P)
          BY <1>0, <3>4
        <5> QED
          BY <1>0, <5>1, <5>2, <5>3
      <4>5. \A x, y \in Elements(rest) : x.transaction.nonce = y.transaction.nonce => x = y
        <5> TAKE x, y \in Elements(rest)
        <5> HAVE x.transaction.nonce = y.transaction.nonce
        <5>1. PICK j \in i + 1 .. Len(P), k \in i + 1 .. Len(P) : x = P[j] /\ y = P[k]
          BY <3>6
        <5>2. j = k
          BY <1>0, <4>2, <5>1
        <5> QED
          BY <5>1, <5>2
      <4>6. \A x \in Elements(Q), y \in Elements(rest) : x.transaction.nonce # y.transaction.nonce
        BY <1>0, <4>3, <4>4
      <4>7. \A x, y \in Elements(Q) : x.transaction.nonce = y.transaction.nonce => x = y
        BY <4>1 DEF Waiting
      <4> QED
        BY <3>7, <3>9, <4>3, <4>4, <4>5, <4>6, <4>7 DEF Waiting
    <3>11. OwnWaiting'
      BY <1>0, <1>1, <3>8, <3>10, WaitsAt DEF Steady
    <3>12. NoEmptyPendingQueue'
      BY <3>3 DEF Steady, NoEmptyPendingQueue, PutBack, Put, Without
    <3> QED
      BY <3>11, <3>12
  <2>2. CASE RemoveFuture(tx)
    <3> DEFINE K == DOMAIN Q \ {HashAt(Q, tx)}
               left == Keep(Q, K)
    <3>1. a \in DOMAIN f /\ Q = f[a]
      BY <2>2 DEF RemoveFuture, Found, At
    <3>2. p' = p /\ f' = PutBack(f, a, left)
      BY <2>2, <3>1 DEF RemoveFuture
    <3>3. K \in SUBSET DOMAIN Q
      OBVIOUS
    <3> HIDE DEF K
    <3>4. Elements(left) = {Q[i] : i \in K}
      BY <1>0, <3>3, KeepElements
    <3>5. Elements(left) \subseteq Elements(Q)
      BY <3>3, <3>4 DEF Elements
    <3> HIDE DEF left
    <3>6. /\ \A b : At(p', b) = At(p, b)
          /\ \A b : At(f', b) = IF b = a THEN left ELSE At(f, b)
      BY <3>2, PutBackLookup
    <3>7. a \notin Authorities => Waiting(P, left, n)
      <4>1. a \notin Authorities => Waiting(P, Q, n)
        BY <1>0 DEF Steady, OwnWaiting
      <4> HIDE DEF P, Q, n, p, f, a
      <4> QED
        BY <3>5, <4>1 DEF Waiting
    <3>8. OwnWaiting'
      BY <1>0, <1>1, <3>6, <3>7, WaitsAt DEF Steady
    <3> QED
      BY <3>2, <3>8 DEF Steady, NoEmptyPendingQueue
  <2> QED
    BY <1>1, <2>1, <2>2
<1> QED
  BY <1>2, <1>3 DEF Steady

(* The queues m2 hold the nonces of m, those of other accounts as they were. *)
NoncesKept(m, m2, a) ==
  /\ DOMAIN m2 = DOMAIN m
  /\ \A b : b # a => At(m2, b) = At(m, b)
  /\ DOMAIN At(m2, a) = DOMAIN At(m, a) /\ Len(At(m2, a)) = Len(At(m, a))
  /\ At(m2, a) # <<>>
  /\ \A j \in DOMAIN At(m, a) :
       At(m2, a)[j].transaction.nonce = At(m, a)[j].transaction.nonce

(* A replacement keeps the nonces where they are. *)
LEMMA ReplaceKeepsNonces ==
  ASSUME NEW m, IsQueues(m), NEW ot \in OrderedTransaction,
         ReplacementAccepted(m, ot.transaction), NEW a, a = ot.transaction.caller
  PROVE  NoncesKept(m, ReplaceIn(m, ot), a)
<1> DEFINE tx == ot.transaction
           s == m[a]
           i == ReplacedAt(s, tx)
           r == [s EXCEPT ![i] = ot]
<1>1. a \in DOMAIN m /\ At(m, a) = s /\ s \in Seq(OrderedTransaction) /\ SameNonce(s, tx) # {}
  BY Fields DEF ReplacementAccepted, At, SameNonce, IsQueues
<1>2. i \in DOMAIN s /\ s[i].transaction.nonce = tx.nonce
  BY <1>1, ReplacedAtProperties
<1>3. ReplaceIn(m, ot) = [m EXCEPT ![a] = r]
  BY DEF ReplaceIn
<1> HIDE DEF i, s, tx
<1>4. /\ DOMAIN r = DOMAIN s /\ r \in Seq(OrderedTransaction) /\ s # <<>> /\ r # <<>>
      /\ Len(r) = Len(s)
      /\ \A j \in DOMAIN s : r[j].transaction.nonce = s[j].transaction.nonce
  BY <1>1, <1>2 DEF tx
<1> HIDE DEF r
<1>5. /\ \A b : At(ReplaceIn(m, ot), b) = IF b = a THEN r ELSE At(m, b)
      /\ DOMAIN ReplaceIn(m, ot) = DOMAIN m
  BY <1>1, <1>3 DEF At
<1> QED
  BY <1>1, <1>4, <1>5 DEF NoncesKept

(* eth_sendTransaction: the new transaction waits, or ends the wait of others. *)
LEMMA AddSteady ==
  ASSUME IInv, Steady, NEW tx \in Transactions, AddTransaction(tx)
  PROVE  Steady'
<1> DEFINE a == tx.caller
           ot == [order_id |-> next_order_id, transaction |-> tx]
           p == pending_transactions
           f == future_transactions
           P == At(p, a)
           Q == At(f, a)
           n == state[a].nonce
<1>0. /\ a \in Address /\ P \in Seq(OrderedTransaction) /\ Q \in Seq(OrderedTransaction)
      /\ n \in Nat /\ Len(P) \in Nat /\ DOMAIN P = 1 .. Len(P) /\ tx.nonce \in Nat
      /\ IsQueues(p) /\ IsQueues(f) /\ Distinct(Q)
  BY Fields DEF IInv, TypeOK, IsQueues, HashMapExact, Exact, AccountExact
<1>1. ot \in OrderedTransaction /\ ot.transaction = tx
  BY DEF IInv, TypeOK, OrderedTransaction
<1>2. /\ is_valid_tx(tx, block_gas_limit, state[a])
      /\ tx.nonce >= n
      /\ ~ empty_queue_panics(a)
      /\ \/ tx.nonce >  account_next_nonce(a) /\ InsertFuture(ot)
         \/ tx.nonce <= account_next_nonce(a) /\ InsertPending(ot)
      /\ block_gas_limit' = block_gas_limit /\ state' = state
  BY DEF AddTransaction, is_valid_tx
<1> HIDE DEF ot
<1>3. HashesValid'
  <2>1. DOMAIN hash_to_transaction' \subseteq DOMAIN hash_to_transaction \cup {tx}
    BY <1>1, <1>2 DEF InsertFuture, InsertPending, Known, ReplacedHash, Put, Without
  <2> QED
    BY <1>2, <2>1 DEF HashesValid, Steady
<1>4. account_next_nonce(a) = n + Len(P)
  BY <1>0, <1>2, NextNonce DEF Steady
<1>5. a \notin Authorities => Waiting(P, Q, n)
  BY <1>0 DEF Steady, OwnWaiting
<1>6. OwnWaiting' /\ NoEmptyPendingQueue'
  <2>1. CASE tx.nonce > account_next_nonce(a) /\ InsertFuture(ot)
    <3>1. p' = p
      BY <2>1 DEF InsertFuture
    <3>2. CASE ReplacementAccepted(f, tx) /\ f' = ReplaceIn(f, ot)
      <4>1. /\ \A b : b # a => At(f', b) = At(f, b)
            /\ DOMAIN At(f', a) = DOMAIN Q
            /\ \A j \in DOMAIN Q : At(f', a)[j].transaction.nonce = Q[j].transaction.nonce
        <5>1. NoncesKept(f, ReplaceIn(f, ot), a)
          BY <1>0, <1>1, <3>2, ReplaceKeepsNonces
        <5> QED
          BY <3>2, <5>1 DEF NoncesKept
      <4> DEFINE Q2 == At(f', a)
      <4>2. ASSUME a \notin Authorities PROVE Waiting(P, Q2, n)
        <5> HIDE DEF Q2, P, Q, n
        <5>1. /\ Waiting(P, Q, n) /\ Distinct(Q) /\ DOMAIN Q2 = DOMAIN Q
              /\ \A j \in DOMAIN Q : Q2[j].transaction.nonce = Q[j].transaction.nonce
          BY <1>0, <1>5, <4>1, <4>2 DEF Q2
        <5> QED
          BY <5>1, SameNoncesWait
      <4>3. \A b \in Address : b # a => At(p', b) = At(p, b) /\ At(f', b) = At(f, b)
        BY <3>1, <4>1
      <4>4. a \notin Authorities => Waiting(At(p', a), At(f', a), n)
        BY <3>1, <4>2
      <4>5. OwnWaiting'
        BY <1>0, <1>2, <4>3, <4>4, WaitsAt DEF Steady
      <4> QED
        BY <3>1, <4>5 DEF Steady, NoEmptyPendingQueue
    <3>3. CASE SameNonce(Q, tx) = {} /\ f' = Put(f, a, Append(Q, ot))
      <4>1. \A b : At(f', b) = IF b = a THEN Append(Q, ot) ELSE At(f, b)
        BY <3>3, PutLookup
      <4>2. Elements(Append(Q, ot)) = Elements(Q) \cup {ot}
        BY <1>0, <1>1, AppendElements
      <4>3. \A o \in Elements(Q) : o.transaction.nonce # tx.nonce
        BY <3>3 DEF Elements, SameNonce
      <4>4. tx.nonce > n + Len(P)
        BY <1>4, <2>1
      <4>5. a \notin Authorities => Waiting(P, Append(Q, ot), n)
        <5> HIDE DEF P, Q, n
        <5> QED
          BY <1>1, <1>5, <4>2, <4>3, <4>4 DEF Waiting
      <4> QED
        BY <1>0, <1>2, <3>1, <4>1, <4>5, WaitsAt DEF Steady, NoEmptyPendingQueue
    <3>4. \/ ReplacementAccepted(f, tx) /\ f' = ReplaceIn(f, ot)
          \/ SameNonce(Q, tx) = {} /\ f' = Put(f, a, Append(Q, ot))
      BY <1>1, <2>1 DEF InsertFuture
    <3> QED
      BY <3>2, <3>3, <3>4
  <2>2. CASE tx.nonce <= account_next_nonce(a) /\ InsertPending(ot)
    <3> DEFINE run == PromotedNonces(Q, tx.nonce)
               promoted == [k \in 1 .. Cardinality(run) |-> Q[PromotedAt(Q, tx.nonce + k)]]
               left == Keep(Q, DOMAIN Q \ {PromotedAt(Q, m) : m \in run})
    <3>1. CASE ReplacementAccepted(p, tx) /\ p' = ReplaceIn(p, ot) /\ f' = f
      <4>1. /\ \A b : b # a => At(p', b) = At(p, b)
            /\ DOMAIN p' = DOMAIN p
            /\ Len(At(p', a)) = Len(P) /\ At(p', a) # <<>>
        <5>1. NoncesKept(p, ReplaceIn(p, ot), a)
          BY <1>0, <1>1, <3>1, ReplaceKeepsNonces
        <5> QED
          BY <3>1, <5>1 DEF NoncesKept
      <4>2. a \notin Authorities => Waiting(At(p', a), Q, n)
        BY <1>5, <4>1 DEF Waiting
      <4>3. OwnWaiting'
        BY <1>0, <1>2, <3>1, <4>1, <4>2, WaitsAt DEF Steady
      <4>4. NoEmptyPendingQueue'
        BY <4>1 DEF Steady, NoEmptyPendingQueue, At
      <4> QED
        BY <4>3, <4>4
    <3>2. CASE /\ SameNonce(P, tx) = {}
               /\ p' = Put(p, a, Append(P, ot) \o promoted)
               /\ f' = IF a \in DOMAIN f THEN PutBack(f, a, left) ELSE f
      <4>1. tx.nonce = n + Len(P)
        <5>1. StartsAt(P, n)
          BY <1>0, ValidStartsAt DEF Steady
        <5> HIDE DEF P, n
        <5>2. ASSUME tx.nonce < n + Len(P) PROVE FALSE
          <6>1. tx.nonce - n + 1 \in DOMAIN P
            BY <1>0, <1>2, <5>2
          <6>2. P[tx.nonce - n + 1].transaction.nonce = tx.nonce
            BY <1>0, <5>1, <6>1 DEF StartsAt
          <6> QED
            BY <3>2, <6>1, <6>2 DEF SameNonce
        <5>3. tx.nonce <= n + Len(P)
          BY <1>4, <2>2
        <5> QED
          BY <1>0, <5>2, <5>3
      <4>2. Promotion(Q, tx.nonce, promoted, left)
        BY DEF Promotion
      <4> HIDE DEF promoted, left
      <4>3. promoted \in Seq(OrderedTransaction) /\ left \in Seq(OrderedTransaction)
            /\ Elements(left) \subseteq Elements(Q)
        BY <1>0, <4>2, PromotionSplits
      <4> DEFINE P2 == Append(P, ot) \o promoted
      <4>4. Len(P2) = Len(P) + 1 + Len(promoted) /\ P2 # <<>>
        BY <1>0, <1>1, <4>3
      <4>5. \A b : At(p', b) = IF b = a THEN P2 ELSE At(p, b)
        BY <3>2, PutLookup
      <4>6. \A b : At(f', b) = IF b = a THEN left ELSE At(f, b)
        <5>1. CASE a \in DOMAIN f
          BY <3>2, <5>1, PutBackLookup
        <5>2. CASE a \notin DOMAIN f
          <6>1. Q = <<>> /\ f' = f
            BY <3>2, <5>2 DEF At
          <6>2. left = <<>>
            <7>1. \A i \in DOMAIN left : left[i] \in Elements(Q)
              BY <4>3 DEF Elements
            <7>2. DOMAIN left = {}
              BY <6>1, <7>1 DEF Elements
            <7> HIDE DEF Q
            <7> QED
              BY <4>3, <7>2
          <6> QED
            BY <6>1, <6>2
        <5> QED
          BY <5>1, <5>2
      <4> HIDE DEF P2
      <4>7. ASSUME a \notin Authorities PROVE Waiting(P2, left, n)
        <5> HIDE DEF P, Q, n
        <5> QED
          BY <1>0, <1>5, <4>1, <4>2, <4>4, <4>7, PromotionWaits
      <4>8. OwnWaiting'
        BY <1>0, <1>2, <4>5, <4>6, <4>7, WaitsAt DEF Steady
      <4>9. NoEmptyPendingQueue'
        <5>1. DOMAIN p' = DOMAIN p \cup {a}
          BY <3>2 DEF Put
        <5> QED
          BY <4>4, <4>5, <5>1 DEF Steady, NoEmptyPendingQueue, At
      <4> QED
        BY <4>8, <4>9
    <3>3. \/ ReplacementAccepted(p, tx) /\ p' = ReplaceIn(p, ot) /\ f' = f
          \/ /\ SameNonce(P, tx) = {}
             /\ p' = Put(p, a, Append(P, ot) \o promoted)
             /\ f' = IF a \in DOMAIN f THEN PutBack(f, a, left) ELSE f
      BY <1>1, <2>2 DEF InsertPending
    <3> QED
      BY <3>1, <3>2, <3>3
  <2> QED
    BY <1>2, <2>1, <2>2
<1> QED
  BY <1>3, <1>6 DEF Steady

-----------------------------------------------------------------------------
LEMMA ReliableInitial == Init => RInv
<1> SUFFICES ASSUME Init PROVE RInv
  OBVIOUS
<1>1. IInv
  BY Initial
<1>2. DOMAIN EmptyMap = {} /\ \A a : At(EmptyMap, a) = <<>>
  BY DEF EmptyMap, At
<1>3. Elements(<<>>) = {}
  BY DEF Elements
<1>4. /\ pending_transactions = EmptyMap /\ future_transactions = EmptyMap
      /\ hash_to_transaction = EmptyMap
  BY DEF Init
<1>5. Steady
  <2> HIDE DEF EmptyMap
  <2> QED
    BY <1>2, <1>3, <1>4 DEF Steady, OwnWaiting, Waiting, HashesValid, NoEmptyPendingQueue
<1> QED
  BY <1>1, <1>5 DEF RInv

(* While every lookup succeeds, every step keeps the pool steady. *)
LEMMA ReliableInductive == RInv /\ [Next]_vars => RInv'
<1> SUFFICES ASSUME RInv, [Next]_vars PROVE RInv'
  OBVIOUS
<1>0. IInv /\ IInv' /\ faulty' = faulty
  BY Inductive DEF RInv, Next, vars
<1> SUFFICES ASSUME faulty = {} PROVE Steady'
  BY <1>0 DEF RInv, Reliable
<1>a. Steady
  BY DEF RInv, Reliable
<1>b. \A limit, st : ~ UpdateFails(limit, st)
  BY DEF UpdateFails
<1>c. /\ state \in [Address -> [nonce : Nat, balance : Nat]]
      /\ \A a \in Address : Len(At(pending_transactions, a)) \in Nat
  BY <1>0 DEF IInv, TypeOK, IsQueues
<1>1. ASSUME NEW tx \in Transactions, AddTransaction(tx) PROVE Steady'
  BY <1>0, <1>a, <1>1, AddSteady
<1>2. ASSUME NEW tx \in Transactions, RemoveTransaction(tx) PROVE Steady'
  BY <1>0, <1>a, <1>2, RemoveSteady
<1>3. ASSUME NEW limit \in BlockGasLimits, SetBlockGasLimit(limit) PROVE Steady'
  <2>1. block_gas_limit' = limit /\ state' = state /\ Update(limit, state)
    BY <1>b, <1>3 DEF SetBlockGasLimit
  <2>2. NotJumped(state) /\ \A a \in Address : state[a].nonce \in Nat
    BY <1>c DEF NotJumped
  <2> QED
    BY <1>0, <1>a, <2>1, <2>2, UpdateSteady
<1>4. ASSUME NEW a \in Address, NEW balance \in Balances, SetBalance(a, balance) PROVE Steady'
  <2> DEFINE st == [state EXCEPT ![a].balance = balance]
  <2>1. block_gas_limit' = block_gas_limit /\ state' = st /\ Update(block_gas_limit, st)
    BY <1>b, <1>4 DEF SetBalance
  <2>2. \A b \in Address : st[b].nonce = state[b].nonce /\ state[b].nonce \in Nat
    BY <1>c
  <2> HIDE DEF st
  <2>3. NotJumped(st) /\ \A b \in Address : st[b].nonce \in Nat
    BY <1>c, <2>2 DEF NotJumped
  <2> QED
    BY <1>0, <1>a, <2>1, <2>3, UpdateSteady
<1>5. ASSUME NEW a \in Address, NEW nonce \in 0 .. MaxNonce, SetNonce(a, nonce) PROVE Steady'
  <2> DEFINE st == [state EXCEPT ![a].nonce = nonce]
  <2>1. /\ block_gas_limit' = block_gas_limit /\ state' = st /\ Update(block_gas_limit, st)
        /\ DOMAIN future_transactions = {}
    BY <1>5 DEF SetNonce, has_transactions
  <2>2. \A b \in Address : st[b].nonce \in Nat
    BY <1>c, MemPoolAssumption
  <2> HIDE DEF st
  <2>3. NotJumped(st)
    BY <2>1 DEF NotJumped, At
  <2> QED
    BY <1>0, <1>a, <2>1, <2>2, <2>3, UpdateSteady
<1>6. ASSUME MineBlock PROVE Steady'
  <2>1. PICK st : MinedTo(st)
    BY <1>0, <1>6, MineBlockUpdates
  <2>2. NotJumped(st) /\ Update(block_gas_limit, st) /\ \A a \in Address : st[a].nonce \in Nat
    BY <1>b, <2>1 DEF NotJumped, MinedTo
  <2> QED
    BY <1>0, <1>a, <2>1, <2>2, UpdateSteady DEF MinedTo
<1>7. CASE UNCHANGED vars
  <2>1. /\ block_gas_limit' = block_gas_limit /\ state' = state
        /\ pending_transactions' = pending_transactions
        /\ future_transactions' = future_transactions
        /\ hash_to_transaction' = hash_to_transaction
    BY <1>7 DEF vars, pool
  <2> QED
    BY <1>a, <2>1 DEF Steady, OwnWaiting, HashesValid, NoEmptyPendingQueue
<1> QED
  BY <1>1, <1>2, <1>3, <1>4, <1>5, <1>6, <1>7 DEF Next

LEMMA ReliableAlways == Spec => []RInv
  BY ReliableInitial, ReliableInductive, PTL DEF Spec

(* While no lookup fails the miner finds every pending queue executable from
   the first transaction to the last. *)
THEOREM PendingExecutable == Spec => []ReliablyContiguous
<1>1. RInv => ReliablyContiguous
  BY ValidStartsAt DEF RInv, Steady, ReliablyContiguous, PendingContiguous, StartsAt
<1> QED
  BY <1>1, ReliableAlways, PTL

(* While no lookup fails, nothing of a sender whose nonce only its own
   transactions advance is stuck behind a gap that has been filled. *)
THEOREM FutureTrulyWaits == Spec => []ReliablyWaits
<1>1. RInv => ReliablyWaits
  <2> SUFFICES ASSUME IInv, Steady, NEW a \in Address \ Authorities PROVE FutureIsAhead(a)
    BY DEF RInv, ReliablyWaits, OwnFutureWaits
  <2>1. ~ empty_queue_panics(a)
    BY DEF Steady, NoEmptyPendingQueue, empty_queue_panics
  <2>2. account_next_nonce(a) = state[a].nonce + Len(At(pending_transactions, a))
    BY <2>1, NextNonce DEF Steady
  <2> QED
    BY <2>2 DEF Steady, OwnWaiting, Waiting, FutureIsAhead, Elements, At
<1> QED
  BY <1>1, ReliableAlways, PTL

(* While no lookup fails, everything queued could be accepted again now. *)
THEOREM QueuedStaysValid == Spec => []ReliablyValid
<1>1. RInv => ReliablyValid
  BY ValidStartsAt DEF RInv, Steady, ReliablyValid, QueuedValid
<1> QED
  BY <1>1, ReliableAlways, PTL

(* While no lookup fails, last_pending_nonce and the miner's iterator never
   meet an empty queue, which would end the process. *)
THEOREM NoEmptyQueue == Spec => []ReliablyNonEmpty
<1>1. RInv => ReliablyNonEmpty
  BY DEF RInv, Steady, ReliablyNonEmpty
<1> QED
  BY <1>1, ReliableAlways, PTL

-----------------------------------------------------------------------------
(* 110% of a fee can be computed without wrapping. *)
FeesFit ==
  \A tx \in Transactions : /\ 110 * tx.gas_price < FeeModulus
                           /\ 110 * priority_fee(tx) < FeeModulus

(* min_new_fee is at least 110% of the fee. *)
LEMMA MinNewFee ==
  ASSUME NEW fee \in Nat, 110 * fee < FeeModulus, NEW bid \in Nat, bid >= min_new_fee(fee)
  PROVE  100 * bid >= 110 * fee
<1>1. FeeModulus \in Nat \ {0}
  BY MemPoolAssumption
<1> DEFINE product == (fee * 110) % FeeModulus
<1>2. product = 110 * fee
  BY <1>1
<1>3. min_new_fee(fee) = product \div 100 + (IF product % 100 = 0 THEN 0 ELSE 1)
  BY DEF min_new_fee
<1> HIDE DEF product
<1>4. product \in Nat
  BY <1>2
<1>5. 100 * (product \div 100 + (IF product % 100 = 0 THEN 0 ELSE 1)) >= product
  BY <1>4
<1>6. min_new_fee(fee) \in Nat /\ 100 * min_new_fee(fee) >= 110 * fee
  BY <1>2, <1>3, <1>4, <1>5
<1> QED
  BY <1>6

(* A replacement that is accepted outbids what it replaces. *)
LEMMA ReplacementOutbids ==
  ASSUME FeesFit, NEW old \in Transactions, NEW new \in Transactions,
         old.caller = new.caller, old.nonce = new.nonce,
         validate_replacement_transaction(old, new)
  PROVE  OutbidBy(old, new)
<1>1. \A tx \in Transactions : tx.gas_price \in Nat /\ priority_fee(tx) \in Nat
  BY MemPoolAssumption DEF TransactionType, priority_fee
<1>2. 100 * new.gas_price >= 110 * old.gas_price
  BY <1>1, MinNewFee DEF validate_replacement_transaction, FeesFit
<1>3. 100 * priority_fee(new) >= 110 * priority_fee(old)
  BY <1>1, MinNewFee DEF validate_replacement_transaction, FeesFit
<1> QED
  BY <1>2, <1>3 DEF OutbidBy

(* What the hash map loses in a replacement was outbid. *)
LEMMA ReplaceLoses ==
  ASSUME FeesFit, NEW m, IsQueues(m), NEW o, NEW tx \in Transactions,
         Exact(m, o, hash_to_transaction) \/ Exact(o, m, hash_to_transaction),
         NEW ot \in OrderedTransaction, ot.transaction = tx, ReplacementAccepted(m, tx),
         NEW x \in DOMAIN hash_to_transaction, x \notin DOMAIN ReplacedHash(m, ot)
  PROVE  OutbidBy(x, tx) /\ tx \in DOMAIN ReplacedHash(m, ot)
<1> DEFINE a == tx.caller
           q == m[a]
           i == ReplacedAt(q, tx)
           old == q[i].transaction
<1>1. /\ a \in Address /\ a \in DOMAIN m /\ At(m, a) = q /\ q \in Seq(OrderedTransaction)
      /\ SameNonce(q, tx) # {} /\ validate_replacement_transaction(old, tx)
  BY Fields DEF ReplacementAccepted, At, SameNonce, IsQueues
<1>2. i \in DOMAIN q /\ old.nonce = tx.nonce
  BY <1>1, ReplacedAtProperties
<1>3. ReplacedHash(m, ot) = Put(Without(hash_to_transaction, {old}), tx, ot)
  BY DEF ReplacedHash
<1> HIDE DEF i
<1>4. q[i] \in Elements(At(m, a)) /\ old \in Transactions
  BY <1>1, <1>2, Fields DEF Elements
<1>5. old.caller = a
  BY <1>1, <1>4 DEF Exact, AccountExact
<1> HIDE DEF old
<1>6. DOMAIN ReplacedHash(m, ot) = (DOMAIN hash_to_transaction \ {old}) \cup {tx}
  BY <1>3 DEF Put, Without
<1>7. x = old
  BY <1>6
<1> QED
  BY <1>1, <1>2, <1>4, <1>5, <1>6, <1>7, ReplacementOutbids

(* What `update` drops is invalid in the state it validates against. *)
LEMMA UpdateLoses ==
  ASSUME IInv, NEW limit, NEW st, Update(limit, st),
         \A a \in Address : st[a].nonce \in Nat,
         NEW x \in DOMAIN hash_to_transaction, x \notin DOMAIN hash_to_transaction'
  PROVE  ~ is_valid_tx(x, limit, st[x.caller])
<1> DEFINE p == pending_transactions
           f == future_transactions
           h == hash_to_transaction
           S == DOMAIN p
           f1 == ThenFuture(S, limit, st)
           F == DOMAIN f1
           D == UNION ({Dropped(p[a], limit, st[a]) : a \in S}
                       \cup {Dropped(f1[a], limit, st[a]) : a \in F})
<1>0. /\ UpdateUpTo(S, F, limit, st) /\ IsQueues(p) /\ IsQueues(f)
      /\ \A a \in Address :
           /\ At(p, a) \in Seq(OrderedTransaction) /\ At(f, a) \in Seq(OrderedTransaction)
           /\ AccountExact(a, At(p, a), At(f, a), h)
  BY DEF Update, IInv, TypeOK, HashMapExact, Exact, IsQueues
<1>1. x \in D
  <2>1. h' = Without(h, D)
    BY <1>0 DEF UpdateUpTo
  <2> HIDE DEF D
  <2> QED
    BY <2>1 DEF Without
<1>2. \A a \in S : a \in Address /\ p[a] = At(p, a)
  BY <1>0 DEF IsQueues, At
<1>3. \A a \in F : a \in Address /\ f1[a] = At(f1, a)
  <2>1. F \subseteq DOMAIN f \cup S
    BY DEF ThenFuture
  <2> HIDE DEF f1
  <2> QED
    BY <1>0, <1>2, <2>1 DEF IsQueues, At
<1>4. ASSUME NEW a \in Address
      PROVE  Elements(At(f1, a)) \subseteq Elements(At(p, a)) \cup Elements(At(f, a))
  <2> DEFINE P == At(p, a)
             Q == At(f, a)
             sender == st[a]
             p2 == At(p', a)
             g1 == At(f1, a)
             f2 == At(f', a)
  <2>1. Treated(P, Q, a, S, F, limit, sender, p2, g1, f2)
    BY <1>0, UpdateTreats
  <2>2. /\ P \in Seq(OrderedTransaction) /\ Q \in Seq(OrderedTransaction)
        /\ Distinct(P) /\ Distinct(Q) /\ Elements(P) \cap Elements(Q) = {}
        /\ sender.nonce \in Nat
    BY <1>0 DEF AccountExact
  <2> HIDE DEF P, Q, sender, p2, g1, f2, S, F
  <2>3. TreatedWell(P, Q, a, S, F, limit, sender, p2, g1, f2)
    BY <2>1, <2>2, TreatedProperties
  <2> QED
    BY <2>3 DEF TreatedWell, P, Q, g1
<1> HIDE DEF f1
<1>5. CASE \E a \in S : x \in Dropped(p[a], limit, st[a])
  <2>1. PICK a \in S : x \in Dropped(p[a], limit, st[a])
    BY <1>5
  <2>2. PICK e \in Elements(At(p, a)) : e.transaction = x /\ ~ is_valid_tx(x, limit, st[a])
    BY <1>2, <2>1 DEF Dropped
  <2>3. x.caller = a
    BY <1>0, <1>2, <2>1, <2>2 DEF AccountExact
  <2> QED
    BY <2>2, <2>3
<1>6. CASE \E a \in F : x \in Dropped(f1[a], limit, st[a])
  <2>1. PICK a \in F : x \in Dropped(f1[a], limit, st[a])
    BY <1>6
  <2>2. PICK e \in Elements(At(f1, a)) : e.transaction = x /\ ~ is_valid_tx(x, limit, st[a])
    BY <1>3, <2>1 DEF Dropped
  <2>3. x.caller = a
    BY <1>0, <1>3, <1>4, <2>1, <2>2 DEF AccountExact
  <2> QED
    BY <2>2, <2>3
<1> QED
  BY <1>1, <1>5, <1>6

(* add_transaction loses only what the new transaction outbids. *)
LEMMA AddLoses ==
  ASSUME FeesFit, IInv, NEW tx \in Transactions, AddTransaction(tx),
         NEW x \in DOMAIN hash_to_transaction, x \notin DOMAIN hash_to_transaction'
  PROVE  OutbidBy(x, tx) /\ tx \in DOMAIN hash_to_transaction' \ DOMAIN hash_to_transaction
<1> DEFINE ot == [order_id |-> next_order_id, transaction |-> tx]
           p == pending_transactions
           f == future_transactions
           h == hash_to_transaction
<1>1. /\ ot \in OrderedTransaction /\ ot.transaction = tx
      /\ IsQueues(p) /\ IsQueues(f) /\ Exact(p, f, h)
  BY DEF IInv, TypeOK, OrderedTransaction, HashMapExact
<1>2. tx \notin DOMAIN h /\ (InsertFuture(ot) \/ InsertPending(ot))
  BY DEF AddTransaction
<1> HIDE DEF ot
<1>3. \/ h' = Known(ot)
      \/ ReplacementAccepted(f, tx) /\ h' = ReplacedHash(f, ot)
      \/ ReplacementAccepted(p, tx) /\ h' = ReplacedHash(p, ot)
  BY <1>1, <1>2 DEF InsertFuture, InsertPending
<1>4. h' # Known(ot)
  BY DEF Known, Put
<1>5. CASE ReplacementAccepted(f, tx) /\ h' = ReplacedHash(f, ot)
  BY <1>1, <1>2, <1>5, ReplaceLoses
<1>6. CASE ReplacementAccepted(p, tx) /\ h' = ReplacedHash(p, ot)
  BY <1>1, <1>2, <1>6, ReplaceLoses
<1> QED
  BY <1>3, <1>4, <1>5, <1>6

(* A step that cannot fail in its lookups loses nothing silently. *)
LEMMA NextKeeps ==
  ASSUME FeesFit, IInv, faulty = {}, Next
  PROVE  NothingLost
<1> SUFFICES ASSUME NEW x \in DOMAIN hash_to_transaction, x \notin DOMAIN hash_to_transaction'
             PROVE  \/ RemoveTransaction(x)
                    \/ ~ is_valid_tx(x, block_gas_limit', state'[x.caller])
                    \/ \E new \in DOMAIN hash_to_transaction' \ DOMAIN hash_to_transaction :
                         OutbidBy(x, new)
  BY DEF NothingLost
<1>a. \A limit, st : ~ UpdateFails(limit, st)
  BY DEF UpdateFails
<1>b. \A a \in Address : state[a].nonce \in Nat
  BY DEF IInv, TypeOK
<1>c. state \in [Address -> [nonce : Nat, balance : Nat]]
  BY DEF IInv, TypeOK
<1>1. ASSUME NEW tx \in Transactions, AddTransaction(tx)
      PROVE  \E new \in DOMAIN hash_to_transaction' \ DOMAIN hash_to_transaction : OutbidBy(x, new)
  BY <1>1, AddLoses
<1>2. ASSUME NEW tx \in Transactions, RemoveTransaction(tx)
      PROVE  RemoveTransaction(x)
  <2>1. x = tx
    BY <1>2 DEF RemoveTransaction, Without
  <2> QED
    BY <1>2, <2>1
<1>3. ASSUME NEW limit \in BlockGasLimits, SetBlockGasLimit(limit)
      PROVE  ~ is_valid_tx(x, block_gas_limit', state'[x.caller])
  <2>1. block_gas_limit' = limit /\ state' = state /\ Update(limit, state)
    BY <1>a, <1>3 DEF SetBlockGasLimit
  <2> QED
    BY <1>b, <2>1, UpdateLoses
<1>4. ASSUME NEW a \in Address, NEW balance \in Balances, SetBalance(a, balance)
      PROVE  ~ is_valid_tx(x, block_gas_limit', state'[x.caller])
  <2> DEFINE st == [state EXCEPT ![a].balance = balance]
  <2>1. block_gas_limit' = block_gas_limit /\ state' = st /\ Update(block_gas_limit, st)
    BY <1>a, <1>4 DEF SetBalance
  <2>2. \A b \in Address : st[b].nonce \in Nat
    BY <1>c
  <2> HIDE DEF st
  <2> QED
    BY <2>1, <2>2, UpdateLoses
<1>5. ASSUME NEW a \in Address, NEW nonce \in 0 .. MaxNonce, SetNonce(a, nonce)
      PROVE  ~ is_valid_tx(x, block_gas_limit', state'[x.caller])
  <2> DEFINE st == [state EXCEPT ![a].nonce = nonce]
  <2>1. block_gas_limit' = block_gas_limit /\ state' = st /\ Update(block_gas_limit, st)
    BY <1>5 DEF SetNonce
  <2>2. \A b \in Address : st[b].nonce \in Nat
    BY <1>c, MemPoolAssumption
  <2> HIDE DEF st
  <2> QED
    BY <2>1, <2>2, UpdateLoses
<1>6. ASSUME MineBlock
      PROVE  ~ is_valid_tx(x, block_gas_limit', state'[x.caller])
  <2>1. PICK st : MinedTo(st)
    BY <1>6, MineBlockUpdates
  <2>2. Update(block_gas_limit, st) /\ \A a \in Address : st[a].nonce \in Nat
    BY <1>a, <2>1 DEF MinedTo
  <2> QED
    BY <2>1, <2>2, UpdateLoses DEF MinedTo
<1> QED
  BY <1>1, <1>2, <1>3, <1>4, <1>5, <1>6 DEF Next

(* While no lookup fails and 110% of no fee exceeds the integer type, a
   transaction leaves the pool only by request, because the state adopted
   makes it invalid, or because it was outbid by 10% in both fees. *)
THEOREM NothingSilentlyLost == FeesFit /\ Spec => ReliablyKept
<1>1. ASSUME FeesFit, IInv, [Next]_vars
      PROVE  [Reliable => NothingLost]_vars
  BY <1>1, NextKeeps DEF Reliable
<1>2. FeesFit /\ Spec => []IInv
  BY Initial, Inductive, PTL DEF Spec
<1>3. FeesFit => [](FeesFit)
  OBVIOUS
<1> QED
  BY <1>1, <1>2, <1>3, PTL DEF Spec, ReliablyKept

-----------------------------------------------------------------------------
(* The requests that mine. *)

(* A provider whose lookups of accounts do not fail and whose transactions
   bring no authorizations, and whose blocks have a limit that leaves them a
   gas target: a transaction alone uses more gas than the multiplier. *)
Ordinary ==
  /\ Faulty = {} /\ Authorities = {}
  /\ BlockGasLimits \subseteq Nat
  /\ \A limit \in BlockGasLimits : limit >= elasticity_multiplier

(* Order ids tell transactions apart, and the next one is new. *)
Ordered(h, n) ==
  /\ \A x \in DOMAIN h : h[x].order_id < n
  /\ \A x, y \in DOMAIN h : h[x].order_id = h[y].order_id => x = y

(* What the proofs about the pool show of it, as a fact about a limit, queues,
   hashes, a next order id and a state: those of the provider or of a snapshot. *)
Sound(limit, p, f, h, n, st) ==
  /\ Ordinary /\ limit \in BlockGasLimits
  /\ IsQueues(p) /\ IsQueues(f) /\ IsHashes(h) /\ n \in Nat
  /\ st \in [Address -> [nonce : Nat, balance : Nat]]
  /\ Exact(p, f, h) /\ Ordered(h, n)
  /\ \A a \in Address : /\ ConsecutiveUpTo(At(p, a), st[a].nonce)
                        /\ Waiting(At(p, a), At(f, a), st[a].nonce)
  /\ \A tx \in DOMAIN h : is_valid_tx(tx, limit, st[tx.caller])
  /\ \A a \in DOMAIN p : p[a] # <<>>

SoundNow ==
  Sound(block_gas_limit, pending_transactions, future_transactions, hash_to_transaction,
        next_order_id, state)

(* It is what the proofs about the pool start from ... *)
LEMMA SoundGives ==
  ASSUME SoundNow, faulty = {}
  PROVE  IInv /\ Steady
<1>1. block_gas_limit \in {None} \cup Nat
  BY MemPoolAssumption DEF SoundNow, Sound
<1>2. TypeOK
  BY <1>1 DEF SoundNow, Sound, TypeOK, IsHashes
<1>3. HashMapExact /\ PendingConsecutive
  BY DEF SoundNow, Sound, HashMapExact, PendingConsecutive
<1>4. Steady
  BY DEF SoundNow, Sound, Steady, OwnWaiting, HashesValid, NoEmptyPendingQueue
<1> QED
  BY <1>2, <1>3, <1>4 DEF IInv

(* ... and what they end with, ... *)
LEMMA SoundFrom ==
  ASSUME Ordinary, IInv, Steady, block_gas_limit \in BlockGasLimits,
         Ordered(hash_to_transaction, next_order_id)
  PROVE  SoundNow
<1>1. \A a \in Address : Waiting(At(pending_transactions, a), At(future_transactions, a),
                                 state[a].nonce)
  BY DEF Ordinary, Steady, OwnWaiting
<1> QED
  BY <1>1 DEF SoundNow, Sound, IInv, TypeOK, HashMapExact, PendingConsecutive, Steady,
              HashesValid, NoEmptyPendingQueue, IsHashes

(* ... after a step as well. *)
LEMMA SoundFromNext ==
  ASSUME Ordinary, IInv', Steady', block_gas_limit' \in BlockGasLimits,
         Ordered(hash_to_transaction', next_order_id')
  PROVE  SoundNow'
<1>1. \A a \in Address : Waiting(At(pending_transactions', a), At(future_transactions', a),
                                 state'[a].nonce)
  BY DEF Ordinary, Steady, OwnWaiting
<1> QED
  BY <1>1 DEF SoundNow, Sound, IInv, TypeOK, HashMapExact, PendingConsecutive, Steady,
              HashesValid, NoEmptyPendingQueue, IsHashes

-----------------------------------------------------------------------------
(* The operations of the pool. *)

(* A map after a removal and an insertion. *)
LEMMA PutKnown ==
  ASSUME NEW h, NEW D, NEW x, NEW o, NEW m, m = Put(Without(h, D), x, o)
  PROVE  \A y \in DOMAIN m : (y = x /\ m[y] = o) \/ (y \in DOMAIN h /\ m[y] = h[y])
<1>1. DOMAIN m = (DOMAIN h \ D) \cup {x}
  BY DEF Put, Without
<1>2. \A y \in DOMAIN m : m[y] = IF y = x THEN o ELSE Without(h, D)[y]
  BY DEF Put
<1>3. \A y \in DOMAIN h \ D : Without(h, D)[y] = h[y]
  BY DEF Without
<1> QED
  BY <1>1, <1>2, <1>3

(* What is known by its hash afterwards was known before, or is the new entry. *)
LEMMA AddOrdered ==
  ASSUME IInv, Ordered(hash_to_transaction, next_order_id),
         NEW tx \in Transactions, AddTransaction(tx)
  PROVE  Ordered(hash_to_transaction', next_order_id')
<1> DEFINE ot == [order_id |-> next_order_id, transaction |-> tx]
           p == pending_transactions
           f == future_transactions
           h == hash_to_transaction
           n == next_order_id
<1>1. /\ ot \in OrderedTransaction /\ ot.transaction = tx /\ ot.order_id = n /\ n \in Nat
      /\ \A x \in DOMAIN h : h[x].order_id \in Nat
  BY Fields DEF IInv, TypeOK, OrderedTransaction
<1>2. tx \notin DOMAIN h /\ (InsertFuture(ot) \/ InsertPending(ot)) /\ n' = n + 1
  BY DEF AddTransaction
<1> HIDE DEF ot
<1>3. h' = Known(ot) \/ h' = ReplacedHash(f, ot) \/ h' = ReplacedHash(p, ot)
  BY <1>1, <1>2 DEF InsertFuture, InsertPending
<1>4. \A x \in DOMAIN h' : (x = tx /\ h'[x] = ot) \/ (x \in DOMAIN h /\ h'[x] = h[x])
  <2>1. \E old : h' = Put(Without(h, old), tx, ot)
    <3>1. Put(h, tx, ot) = Put(Without(h, {}), tx, ot)
      BY DEF Put, Without
    <3>2. Known(ot) = Put(h, tx, ot)
      BY <1>1 DEF Known
    <3>3. \A m : \E old : ReplacedHash(m, ot) = Put(Without(h, old), tx, ot)
      BY <1>1 DEF ReplacedHash
    <3> QED
      BY <1>3, <3>1, <3>2, <3>3
  <2>2. PICK old : h' = Put(Without(h, old), tx, ot)
    BY <2>1
  <2> QED
    BY <2>2, PutKnown
<1> HIDE DEF h, n
<1>5. /\ \A x \in DOMAIN h : h[x].order_id < n
      /\ \A x, y \in DOMAIN h : h[x].order_id = h[y].order_id => x = y
  BY DEF Ordered, h, n
<1>6. \A x \in DOMAIN h' : h'[x].order_id < n + 1
  BY <1>1, <1>4, <1>5
<1>7. \A x, y \in DOMAIN h' : h'[x].order_id = h'[y].order_id => x = y
  BY <1>1, <1>4, <1>5
<1> QED
  BY <1>2, <1>6, <1>7 DEF Ordered, h, n

(* Taking transactions out keeps the rest apart. *)
LEMMA WithoutOrdered ==
  ASSUME NEW h, NEW n, Ordered(h, n), NEW D
  PROVE  Ordered(Without(h, D), n)
BY DEF Ordered, Without

(* A transaction is added. *)
LEMMA AddSound ==
  ASSUME SoundNow, faulty = {}, faulty' = faulty, NEW tx \in Transactions, AddTransaction(tx)
  PROVE  SoundNow'
<1>1. IInv /\ Steady
  BY SoundGives
<1>2. /\ Ordered(hash_to_transaction, next_order_id) /\ block_gas_limit \in BlockGasLimits
      /\ Ordinary
  BY DEF SoundNow, Sound
<1>3. IInv' /\ Steady'
  BY <1>1, AddInductive, AddSteady
<1>4. Ordered(hash_to_transaction', next_order_id')
  BY <1>1, <1>2, AddOrdered
<1>5. block_gas_limit' = block_gas_limit
  BY DEF AddTransaction
<1> QED
  BY <1>2, <1>3, <1>4, <1>5, SoundFromNext

(* A transaction is dropped. *)
LEMMA RemoveSound ==
  ASSUME SoundNow, faulty = {}, faulty' = faulty, NEW tx \in Transactions, RemoveTransaction(tx)
  PROVE  SoundNow'
<1>1. IInv /\ Steady
  BY SoundGives
<1>2. /\ Ordered(hash_to_transaction, next_order_id) /\ block_gas_limit \in BlockGasLimits
      /\ Ordinary
  BY DEF SoundNow, Sound
<1>3. IInv' /\ Steady'
  BY <1>1, RemoveInductive, RemoveSteady
<1>4. /\ block_gas_limit' = block_gas_limit /\ next_order_id' = next_order_id
      /\ hash_to_transaction' = Without(hash_to_transaction, {tx})
  BY DEF RemoveTransaction
<1>5. Ordered(hash_to_transaction', next_order_id')
  BY <1>2, <1>4, WithoutOrdered
<1> QED
  BY <1>2, <1>3, <1>4, <1>5, SoundFromNext

(* The pool is updated for a state in which no nonce went down or jumped. *)
LEMMA UpdateSound ==
  ASSUME SoundNow, faulty = {}, faulty' = faulty,
         NEW st \in [Address -> [nonce : Nat, balance : Nat]],
         \A a \in Address : /\ state[a].nonce <= st[a].nonce
                            /\ st[a].nonce <= state[a].nonce + Len(At(pending_transactions, a)),
         Update(block_gas_limit, st), state' = st,
         block_gas_limit' = block_gas_limit, next_order_id' = next_order_id
  PROVE  SoundNow'
<1>1. IInv /\ Steady
  BY SoundGives
<1>2. /\ Ordered(hash_to_transaction, next_order_id) /\ block_gas_limit \in BlockGasLimits
      /\ Ordinary
  BY DEF SoundNow, Sound
<1>3. /\ block_gas_limit \in {None} \cup Nat /\ next_order_id \in Nat
      /\ \A a \in Address : st[a].nonce \in Nat
  BY <1>1 DEF IInv, TypeOK
<1>4. Advances(st) /\ NotJumped(st)
  BY <1>3 DEF Advances, NotJumped
<1>5. IInv'
  BY <1>1, <1>3, <1>4, UpdateInductive
<1>6. Steady'
  BY <1>1, <1>3, <1>4, UpdateSteady
<1>7. PICK D : hash_to_transaction' = Without(hash_to_transaction, D)
  BY DEF Update, UpdateUpTo
<1>8. Ordered(hash_to_transaction', next_order_id')
  BY <1>2, <1>7, WithoutOrdered
<1> QED
  BY <1>2, <1>5, <1>6, <1>8, SoundFromNext

-----------------------------------------------------------------------------
(* Fees, and the order in which the miner takes the senders. *)

(* The amounts of a transaction are natural numbers. *)
LEMMA Amounts ==
  \A tx \in Transactions : /\ tx.gas_limit \in Nat /\ tx.gas_price \in Nat /\ tx.value \in Nat
                           /\ priority_fee(tx) \in Nat
  BY MemPoolAssumption DEF TransactionType, priority_fee

(* A natural number divided by a positive one. *)
LEMMA Quotient ==
  ASSUME NEW m \in Nat, NEW d \in Nat \ {0}
  PROVE  m \div d \in Nat
OBVIOUS

(* A product of numbers, which is zero only if one of them is. *)
LEMMA Product ==
  ASSUME NEW m \in Nat, NEW n \in Nat
  PROVE  m * n \in Nat /\ (m # 0 /\ n # 0 => m * n # 0)
OBVIOUS

IsParent(header) == header \in Headers /\ header.gas_limit >= elasticity_multiplier

(* The next base fee is a number: the gas target is not zero. *)
LEMMA NextBaseFeeType ==
  ASSUME NEW parent, IsParent(parent)
  PROVE  calculate_next_base_fee_per_gas(parent) \in Nat
<1> DEFINE target == parent.gas_limit \div elasticity_multiplier
           d == target * max_change_denominator
           fee == parent.base_fee
           used == parent.gas_used
           Change(gas) == (fee * gas) \div d
<1>1. /\ fee \in Nat /\ used \in Nat /\ parent.gas_limit \in Nat
      /\ parent.gas_limit >= elasticity_multiplier
  BY DEF IsParent, Headers
<1>2. elasticity_multiplier \in Nat \ {0} /\ max_change_denominator \in Nat \ {0}
  BY AutoMineAssumption
<1>3. target \in Nat \ {0}
  <2>1. \A g \in Nat, e \in Nat \ {0} : g >= e => g \div e # 0
    OBVIOUS
  <2>2. target # 0
    BY <1>1, <1>2, <2>1
  <2> QED
    BY <1>1, <1>2, <2>2, Quotient
<1> HIDE DEF target
<1>4. d \in Nat \ {0}
  BY <1>2, <1>3, Product
<1>5. \A gas \in Nat : Change(gas) \in Nat
  <2> SUFFICES ASSUME NEW gas \in Nat PROVE Change(gas) \in Nat
    OBVIOUS
  <2>1. fee * gas \in Nat
    BY <1>1, Product
  <2> HIDE DEF d, fee
  <2> QED
    BY <1>4, <2>1, Quotient
<1>6. CASE used = target
  BY <1>1, <1>6 DEF calculate_next_base_fee_per_gas, target
<1>7. CASE used > target
  <2>1. calculate_next_base_fee_per_gas(parent) = fee + MaxOf(1, Change(used - target))
    BY <1>1, <1>3, <1>7 DEF calculate_next_base_fee_per_gas, target
  <2>2. used - target \in Nat
    BY <1>1, <1>3, <1>7
  <2>3. Change(used - target) \in Nat
    BY <1>5, <2>2
  <2> HIDE DEF Change, fee
  <2> QED
    BY <1>1, <2>1, <2>3 DEF MaxOf
<1>8. CASE used < target
  <2>1. calculate_next_base_fee_per_gas(parent) = MaxOf(0, fee - Change(target - used))
    BY <1>1, <1>3, <1>8 DEF calculate_next_base_fee_per_gas, target
  <2>2. target - used \in Nat
    BY <1>1, <1>3, <1>8
  <2>3. Change(target - used) \in Nat
    BY <1>5, <2>2
  <2> HIDE DEF Change, fee
  <2> QED
    BY <1>1, <2>1, <2>3 DEF MaxOf
<1> QED
  BY <1>1, <1>3, <1>6, <1>7, <1>8

(* What the miner gets is an amount. *)
LEMMA MinerFeeType ==
  ASSUME NEW tx \in Transactions, NEW base_fee \in Nat
  PROVE  effective_miner_fee(tx, base_fee) \in 0 .. FeeModulus - 1
<1>1. FeeModulus \in Nat \ {0}
  BY MemPoolAssumption
<1>2. (tx.gas_price - base_fee) % FeeModulus \in 0 .. FeeModulus - 1
  <2>1. tx.gas_price - base_fee \in Int
    BY Amounts
  <2> QED
    BY <1>1, <2>1
<1> QED
  BY <1>1, <1>2, Amounts DEF effective_miner_fee, MinOf

(* A set of natural numbers that is not empty has a least element. *)
LEMMA LeastNumber ==
  ASSUME NEW T \in SUBSET Nat, T # {}
  PROVE  \E x \in T : \A y \in T : x <= y
<1>1. PICK x \in T : \A y \in T : ~ (<<y, x>> \in OpToRel(<, Nat))
  BY NatLessThanWellFounded, WFMin
<1>2. \A y \in T : ~ (y < x)
  BY <1>1 DEF OpToRel
<1> QED
  BY <1>2

(* The first entries of the queues have order ids of their own. *)
HeadsDiffer(qs) ==
  /\ \A a \in DOMAIN qs : qs[a][1] \in OrderedTransaction
  /\ \A a, b \in DOMAIN qs : qs[a][1].order_id = qs[b][1].order_id => a = b

(* There is always one sender whose first transaction comes before the others'. *)
LEMMA CallerExists ==
  ASSUME NEW qs, DOMAIN qs # {}, HeadsDiffer(qs), NEW base_fee \in Nat
  PROVE  NextCaller(qs, base_fee) \in DOMAIN qs
<1> DEFINE D == DOMAIN qs
           id(a) == qs[a][1].order_id
           fee(a) == effective_miner_fee(qs[a][1].transaction, base_fee)
<1>1. \A a \in D : id(a) \in Nat /\ fee(a) \in Nat /\ fee(a) < FeeModulus
  <2> TAKE a \in D
  <2>1. qs[a][1].transaction \in Transactions /\ id(a) \in Nat
    BY Fields DEF HeadsDiffer
  <2>2. fee(a) \in 0 .. FeeModulus - 1 /\ FeeModulus \in Nat
    BY <2>1, MinerFeeType, MemPoolAssumption
  <2> HIDE DEF fee
  <2> QED
    BY <2>1, <2>2
<1>2. \A a, b \in D : id(a) = id(b) => a = b
  BY DEF HeadsDiffer
<1>3. \A a, b \in D : ComesBefore(qs[a][1], qs[b][1], base_fee)
                      <=> IF mine_ordering = "Fifo" \/ fee(a) = fee(b)
                          THEN id(a) < id(b) ELSE fee(a) > fee(b)
  BY DEF ComesBefore
<1> HIDE DEF fee, id
<1>4. ASSUME NEW E \in SUBSET D, E # {}
      PROVE  \E a \in E : \A b \in E \ {a} : id(a) < id(b)
  <2> DEFINE T == {id(a) : a \in E}
  <2>1. T \in SUBSET Nat /\ T # {}
    BY <1>1, <1>4
  <2>2. PICK x \in T : \A y \in T : x <= y
    BY <2>1, LeastNumber
  <2>3. PICK a \in E : x = id(a)
    BY <2>2
  <2>4. ASSUME NEW b \in E \ {a} PROVE id(a) < id(b)
    <3>1. id(b) \in T /\ a \in D /\ b \in D
      BY <1>4
    <3>2. id(a) <= id(b) /\ id(a) # id(b)
      BY <1>2, <2>2, <2>3, <3>1
    <3> QED
      BY <1>1, <3>1, <3>2
  <2> QED
    BY <2>4
<1>5. \E a \in D : \A b \in D : fee(b) <= fee(a)
  <2> DEFINE T == {FeeModulus - fee(a) : a \in D}
  <2>0. FeeModulus \in Nat
    BY MemPoolAssumption
  <2>1. T \in SUBSET Nat /\ T # {}
    BY <1>1, <2>0
  <2>2. PICK x \in T : \A y \in T : x <= y
    BY <2>1, LeastNumber
  <2>3. PICK a \in D : x = FeeModulus - fee(a)
    BY <2>2
  <2>4. \A b \in D : FeeModulus - fee(a) <= FeeModulus - fee(b)
    BY <2>2, <2>3
  <2> QED
    BY <1>1, <2>0, <2>4
<1>6. \E a \in D : \A b \in D \ {a} : ComesBefore(qs[a][1], qs[b][1], base_fee)
  <2>1. CASE mine_ordering = "Fifo"
    <3>1. PICK a \in D : \A b \in D \ {a} : id(a) < id(b)
      BY <1>4
    <3> QED
      BY <1>3, <2>1, <3>1
  <2>2. CASE mine_ordering # "Fifo"
    <3>1. PICK m \in D : \A b \in D : fee(b) <= fee(m)
      BY <1>5
    <3> DEFINE E == {a \in D : fee(a) = fee(m)}
    <3>2. E \in SUBSET D /\ E # {}
      OBVIOUS
    <3>3. PICK a \in E : \A b \in E \ {a} : id(a) < id(b)
      BY <1>4, <3>2
    <3>4. ASSUME NEW b \in D \ {a} PROVE ComesBefore(qs[a][1], qs[b][1], base_fee)
      <4>1. CASE fee(b) = fee(m)
        BY <1>3, <3>3, <4>1
      <4>2. CASE fee(b) # fee(m)
        <5>1. fee(a) > fee(b) /\ fee(a) # fee(b)
          BY <1>1, <3>1, <3>3, <4>2
        <5> QED
          BY <1>3, <2>2, <3>3, <5>1
      <4> QED
        BY <4>1, <4>2
    <3> QED
      BY <3>4
  <2> QED
    BY <2>1, <2>2
<1> QED
  BY <1>6 DEF NextCaller

-----------------------------------------------------------------------------
(* The block being built. *)

(* q is what is left of the queue P after its first d entries. *)
Continues(q, P, d) ==
  /\ q \in Seq(OrderedTransaction) /\ q # <<>>
  /\ Len(P) = d + Len(q)
  /\ \A i \in DOMAIN q : q[i] = P[d + i]

(* The sender a with pending queue P had the nonce n before the block and has k
   now: the entries in between are in the block, what is left continues there. *)
Built(a, P, n, k, qs, txs) ==
  /\ n <= k /\ k <= n + Len(P)
  /\ \A i \in DOMAIN P : n + i <= k => P[i].transaction \in txs
  /\ a \in DOMAIN qs => Continues(qs[a], P, k - n)

BuildOK(qs, txs, bst, header, p, st) ==
  /\ DOMAIN qs \subseteq DOMAIN p
  /\ txs \subseteq Transactions /\ IsParent(header)
  /\ bst \in [Address -> [nonce : Nat, balance : Nat]]
  /\ \A a \in Address : Built(a, At(p, a), st[a].nonce, bst[a].nonce, qs, txs)

BuilderOK(b, p, st) ==
  \E qs, txs, bst, header :
    /\ b = [queues |-> qs, txs |-> txs, st |-> bst, header |-> header]
    /\ BuildOK(qs, txs, bst, header, p, st)

(* A block starts with everything that is pending. *)
LEMMA StartsBuilt ==
  ASSUME SoundNow, NEW header, IsParent(header)
  PROVE  BuildOK(pending_transactions, {}, state, header, pending_transactions, state)
<1> DEFINE p == pending_transactions
<1>1. /\ DOMAIN p \subseteq Address /\ \A a \in DOMAIN p : p[a] # <<>>
      /\ \A a \in Address : At(p, a) \in Seq(OrderedTransaction)
      /\ state \in [Address -> [nonce : Nat, balance : Nat]]
  BY DEF SoundNow, Sound, IsQueues
<1>2. ASSUME NEW a \in Address
      PROVE  Built(a, At(p, a), state[a].nonce, state[a].nonce, p, {})
  <2> DEFINE P == At(p, a)
             n == state[a].nonce
  <2>1. P \in Seq(OrderedTransaction) /\ n \in Nat /\ Len(P) \in Nat /\ DOMAIN P = 1 .. Len(P)
    BY <1>1
  <2>2. a \in DOMAIN p => p[a] = P /\ P # <<>>
    BY <1>1 DEF At
  <2> HIDE DEF P, n
  <2>3. \A i \in DOMAIN P : ~ (n + i <= n)
    BY <2>1
  <2>4. P # <<>> => Continues(P, P, n - n)
    BY <2>1 DEF Continues
  <2> QED
    BY <2>1, <2>2, <2>3, <2>4 DEF Built, P, n
<1> QED
  BY <1>1, <1>2 DEF BuildOK

(* What is left of a sender's queue: entries of its pending queue, with the
   nonces that follow the one the sender has reached. *)
LEMMA LeftOver ==
  ASSUME SoundNow, faulty = {}, NEW qs, NEW txs, NEW bst, NEW header,
         BuildOK(qs, txs, bst, header, pending_transactions, state), NEW a \in DOMAIN qs
  PROVE  /\ a \in Address /\ qs[a] \in Seq(OrderedTransaction) /\ 1 \in DOMAIN qs[a]
         /\ \A i \in DOMAIN qs[a] :
              /\ qs[a][i] \in Elements(At(pending_transactions, a))
              /\ qs[a][i].transaction.nonce = bst[a].nonce + i - 1
<1> DEFINE P == At(pending_transactions, a)
           q == qs[a]
           n == state[a].nonce
           k == bst[a].nonce
<1>1. IInv /\ HashesValid
  BY SoundGives DEF Steady
<1>2. a \in Address
  BY DEF BuildOK, SoundNow, Sound, IsQueues
<1>3. /\ P \in Seq(OrderedTransaction) /\ n \in Nat /\ k \in Nat
      /\ Len(P) \in Nat /\ DOMAIN P = 1 .. Len(P)
  BY <1>1, <1>2 DEF IInv, TypeOK, IsQueues, BuildOK
<1>4. StartsAt(P, n)
  BY <1>1, <1>2, ValidStartsAt
<1>5. n <= k /\ k <= n + Len(P) /\ Continues(q, P, k - n)
  BY <1>2 DEF BuildOK, Built
<1> HIDE DEF P, q, n, k
<1>6. /\ q \in Seq(OrderedTransaction) /\ q # <<>> /\ Len(P) = k - n + Len(q)
      /\ \A i \in DOMAIN q : q[i] = P[k - n + i]
  BY <1>5 DEF Continues
<1>7. 1 \in DOMAIN q /\ Len(q) \in Nat /\ DOMAIN q = 1 .. Len(q)
  BY <1>6
<1>8. ASSUME NEW i \in DOMAIN q
      PROVE  q[i] \in Elements(P) /\ q[i].transaction.nonce = k + i - 1
  <2>1. k - n + i \in DOMAIN P
    BY <1>3, <1>5, <1>6, <1>7
  <2>2. q[i] = P[k - n + i]
    BY <1>6
  <2>3. P[k - n + i].transaction.nonce = n + (k - n + i) - 1
    BY <1>4, <2>1 DEF StartsAt
  <2>4. n + (k - n + i) - 1 = k + i - 1
    BY <1>3, <1>7
  <2>5. P[k - n + i] \in Elements(P)
    BY <2>1 DEF Elements
  <2> QED
    BY <2>2, <2>3, <2>4, <2>5
<1> QED
  BY <1>2, <1>6, <1>7, <1>8 DEF P, q, k

(* The candidate is the first transaction that is left of some sender. *)
LEMMA CandidateIs ==
  ASSUME SoundNow, faulty = {}, NEW qs, NEW txs, NEW bst, NEW header,
         builder = [queues |-> qs, txs |-> txs, st |-> bst, header |-> header],
         BuildOK(qs, txs, bst, header, pending_transactions, state), DOMAIN qs # {}
  PROVE  \E a \in DOMAIN qs :
           /\ Candidate = qs[a][1].transaction /\ Candidate \in Transactions
           /\ Candidate.caller = a
<1>1. ASSUME NEW a \in DOMAIN qs
      PROVE  /\ a \in Address /\ qs[a][1] \in OrderedTransaction
             /\ qs[a][1] \in Elements(At(pending_transactions, a))
  BY LeftOver
<1>2. \A a \in Address : AccountExact(a, At(pending_transactions, a), At(future_transactions, a),
                                      hash_to_transaction)
  BY DEF SoundNow, Sound, Exact
<1>3. Ordered(hash_to_transaction, next_order_id)
  BY DEF SoundNow, Sound
<1>4. ASSUME NEW a \in DOMAIN qs
      PROVE  /\ qs[a][1].transaction.caller = a
             /\ qs[a][1].transaction \in DOMAIN hash_to_transaction
             /\ hash_to_transaction[qs[a][1].transaction] = qs[a][1]
  BY <1>1, <1>2 DEF AccountExact
<1>5. HeadsDiffer(qs)
  <2>1. ASSUME NEW a \in DOMAIN qs, NEW b \in DOMAIN qs,
               qs[a][1].order_id = qs[b][1].order_id
        PROVE  a = b
    <3>1. qs[a][1].transaction = qs[b][1].transaction
      BY <1>3, <1>4, <2>1 DEF Ordered
    <3> QED
      BY <1>4, <3>1
  <2> QED
    BY <1>1, <2>1 DEF HeadsDiffer
<1>6. header.base_fee \in Nat
  BY DEF BuildOK, IsParent, Headers
<1>7. builder.queues = qs /\ builder.header = header
  OBVIOUS
<1> DEFINE c == NextCaller(qs, header.base_fee)
<1>8. c \in DOMAIN qs
  BY <1>5, <1>6, CallerExists
<1>9. Candidate = qs[c][1].transaction
  BY <1>7 DEF Candidate
<1> HIDE DEF c
<1>10. Candidate \in Transactions
  BY <1>1, <1>8, <1>9, Fields
<1> QED
  BY <1>4, <1>8, <1>9, <1>10

(* Passing over a sender leaves what is left of the others. *)
LEMMA SkipBuilt ==
  ASSUME SoundNow, faulty = {}, BuilderOK(builder, pending_transactions, state),
         DOMAIN builder.queues # {}, Skip
  PROVE  BuilderOK(builder', pending_transactions, state)
<1>1. PICK qs, txs, bst, header :
        /\ builder = [queues |-> qs, txs |-> txs, st |-> bst, header |-> header]
        /\ BuildOK(qs, txs, bst, header, pending_transactions, state)
  BY DEF BuilderOK
<1> DEFINE c == Candidate.caller
           left == remove_caller(qs, c)
<1>2. builder' = [queues |-> left, txs |-> txs, st |-> bst, header |-> header]
  BY <1>1 DEF Skip
<1>3. /\ DOMAIN left \subseteq DOMAIN qs
      /\ \A b \in DOMAIN left : left[b] = qs[b]
  BY DEF remove_caller, Without
<1> HIDE DEF left
<1>4. BuildOK(left, txs, bst, header, pending_transactions, state)
  BY <1>1, <1>3 DEF BuildOK, Built
<1> QED
  BY <1>2, <1>4 DEF BuilderOK

CanPay(tx, sender) ==
  /\ tx.gas_limit * tx.gas_price < FeeModulus
  /\ upfront_cost(tx) <= sender.balance

(* What a transaction costs its sender is at most what is required up front. *)
LEMMA ExecutedType ==
  ASSUME NEW tx \in Transactions, NEW sender \in [nonce : Nat, balance : Nat],
         NEW base_fee \in Nat, NEW used \in 1 .. tx.gas_limit, NEW sent \in {0, tx.value},
         CanPay(tx, sender)
  PROVE  /\ Executed(sender, tx, used, sent, base_fee) \in [nonce : Nat, balance : Nat]
         /\ Executed(sender, tx, used, sent, base_fee).nonce = sender.nonce + 1
<1> DEFINE price == effective_gas_price(tx, base_fee)
<1>1. /\ tx.gas_limit \in Nat /\ tx.gas_price \in Nat /\ tx.value \in Nat
      /\ priority_fee(tx) \in Nat
  BY Amounts
<1>2. price \in Nat /\ price <= tx.gas_price
  BY <1>1 DEF effective_gas_price, MinOf
<1>3. upfront_cost(tx) = tx.gas_limit * tx.gas_price + tx.value
  BY DEF CanPay, upfront_cost, max_cost
<1> HIDE DEF price
<1>4. \A g, u, x, y \in Nat : u <= g /\ x <= y => u * x <= g * y
  <2> TAKE g, u, x, y \in Nat
  <2> HAVE u <= g /\ x <= y
  <2>1. u * x <= u * y
    OBVIOUS
  <2>2. u * y <= g * y
    OBVIOUS
  <2>3. u * x \in Nat /\ u * y \in Nat /\ g * y \in Nat
    BY Product
  <2> QED
    BY <2>1, <2>2, <2>3
<1>5. used \in Nat /\ used <= tx.gas_limit
  BY <1>1
<1>6. /\ used * price <= tx.gas_limit * tx.gas_price
      /\ used * price \in Nat /\ tx.gas_limit * tx.gas_price \in Nat
  BY <1>1, <1>2, <1>4, <1>5, Product
<1>7. sent \in Nat /\ sent <= tx.value
  BY <1>1
<1>8. \A cost, most, balance \in Nat :
        cost <= most /\ most + tx.value <= balance => balance - cost - sent \in Nat
  BY <1>1, <1>7
<1>9. sender.balance - used * price - sent \in Nat
  BY <1>3, <1>6, <1>8 DEF CanPay
<1>10. Executed(sender, tx, used, sent, base_fee)
         = [nonce |-> sender.nonce + 1, balance |-> sender.balance - used * price - sent]
  BY DEF Executed, price
<1> QED
  BY <1>9, <1>10

(* A transaction is included: its sender's nonce and queue advance together. *)
LEMMA IncludeBuilt ==
  ASSUME SoundNow, faulty = {}, BuilderOK(builder, pending_transactions, state),
         DOMAIN builder.queues # {}, Include
  PROVE  BuilderOK(builder', pending_transactions, state)
<1> DEFINE p == pending_transactions
           tx == Candidate
           a == tx.caller
<1>1. PICK qs, txs, bst, header :
        /\ builder = [queues |-> qs, txs |-> txs, st |-> bst, header |-> header]
        /\ BuildOK(qs, txs, bst, header, p, state)
  BY DEF BuilderOK
<1>2. /\ builder.queues = qs /\ builder.txs = txs /\ builder.st = bst
      /\ builder.header = header
  BY <1>1
<1>3. /\ a \in DOMAIN qs /\ tx = qs[a][1].transaction /\ tx \in Transactions
      /\ a \in Address /\ qs[a] \in Seq(OrderedTransaction) /\ 1 \in DOMAIN qs[a]
  BY <1>1, <1>2, CandidateIs, LeftOver
<1>4. /\ ~ IsInvalid(tx)
      /\ \E used \in 1 .. tx.gas_limit, sent \in {0, tx.value} :
           builder' =
             [builder EXCEPT
                !.queues = TakeFirst(@, a),
                !.txs = @ \cup {tx},
                !.st[a] = Executed(@, tx, used, sent, builder.header.base_fee),
                !.header.gas_used = @ + used]
  BY DEF Include
<1> HIDE DEF tx, a
<1>5. PICK used \in 1 .. tx.gas_limit, sent \in {0, tx.value} :
        builder' =
          [builder EXCEPT
             !.queues = TakeFirst(@, a),
             !.txs = @ \cup {tx},
             !.st[a] = Executed(@, tx, used, sent, builder.header.base_fee),
             !.header.gas_used = @ + used]
  BY <1>4
<1> DEFINE left == TakeFirst(qs, a)
           txs2 == txs \cup {tx}
           sender == Executed(bst[a], tx, used, sent, header.base_fee)
           bst2 == [bst EXCEPT ![a] = sender]
           header2 == [header EXCEPT !.gas_used = @ + used]
<1>6. builder' = [queues |-> left, txs |-> txs2, st |-> bst2, header |-> header2]
  BY <1>1, <1>2, <1>5
<1>7. /\ txs \subseteq Transactions /\ header \in Headers
      /\ header.gas_limit >= elasticity_multiplier
      /\ bst \in [Address -> [nonce : Nat, balance : Nat]] /\ DOMAIN qs \subseteq DOMAIN p
      /\ \A b \in Address : Built(b, At(p, b), state[b].nonce, bst[b].nonce, qs, txs)
  BY <1>1 DEF BuildOK, IsParent
<1>8. sender \in [nonce : Nat, balance : Nat] /\ sender.nonce = bst[a].nonce + 1
  <2>1. /\ tx.gas_limit * tx.gas_price < FeeModulus
        /\ upfront_cost(tx) <= bst[a].balance
    <3>1. /\ tx.gas_limit \in Nat /\ tx.gas_price \in Nat /\ tx.value \in Nat
          /\ FeeModulus \in Nat /\ bst[a].balance \in Nat
      BY <1>3, <1>7, Amounts, MemPoolAssumption
    <3>2. upfront_cost(tx) \in Int /\ tx.gas_limit * tx.gas_price \in Int
      BY <3>1 DEF upfront_cost, max_cost
    <3>3. /\ ~ (tx.gas_limit * tx.gas_price >= FeeModulus)
          /\ ~ (upfront_cost(tx) > bst[a].balance)
      BY <1>2, <1>4 DEF IsInvalid, a
    <3> QED
      BY <3>1, <3>2, <3>3
  <2>2. bst[a] \in [nonce : Nat, balance : Nat] /\ header.base_fee \in Nat
    BY <1>3, <1>7 DEF Headers
  <2>3. PICK t, account, fee : t = tx /\ account = bst[a] /\ fee = header.base_fee
    OBVIOUS
  <2>4. /\ t \in Transactions /\ account \in [nonce : Nat, balance : Nat] /\ fee \in Nat
        /\ used \in 1 .. t.gas_limit /\ sent \in {0, t.value}
    BY <1>3, <2>2, <2>3
  <2>5. CanPay(t, account)
    BY <2>1, <2>3 DEF CanPay
  <2> HIDE DEF sender
  <2>6. /\ Executed(account, t, used, sent, fee) \in [nonce : Nat, balance : Nat]
        /\ Executed(account, t, used, sent, fee).nonce = account.nonce + 1
    BY <2>4, <2>5, ExecutedType
  <2>7. sender = Executed(account, t, used, sent, fee) /\ account.nonce = bst[a].nonce
    BY <2>3 DEF sender
  <2> QED
    BY <2>6, <2>7
<1> HIDE DEF sender
<1>9. header2 \in Headers /\ header2.gas_limit >= elasticity_multiplier
  <2>1. used \in Nat
    BY <1>3, <1>5, Amounts
  <2> QED
    BY <1>7, <2>1 DEF Headers
<1>10. /\ bst2 \in [Address -> [nonce : Nat, balance : Nat]]
       /\ bst2[a].nonce = bst[a].nonce + 1
       /\ \A b \in Address : b # a => bst2[b] = bst[b]
  BY <1>3, <1>7, <1>8
<1> DEFINE rest == Rest(qs[a], 1)
<1>11. /\ rest \in Seq(OrderedTransaction) /\ Len(qs[a]) = 1 + Len(rest)
       /\ \A i \in DOMAIN rest : rest[i] = qs[a][i + 1]
  <2> DEFINE q == qs[a]
  <2>1. q \in Seq(OrderedTransaction) /\ Len(q) \in Nat /\ Len(q) >= 1
        /\ DOMAIN q = 1 .. Len(q) /\ rest = SubSeq(q, 2, Len(q))
    BY <1>3 DEF Rest
  <2> HIDE DEF q, rest
  <2>2. Len(rest) = Len(q) - 1 /\ DOMAIN rest = 1 .. Len(q) - 1
        /\ \A i \in 1 .. Len(q) - 1 : rest[i] = q[i + 1]
    BY <2>1
  <2>3. rest \in Seq(OrderedTransaction)
    BY <2>1
  <2> QED
    BY <2>1, <2>2, <2>3 DEF q
<1>12. /\ DOMAIN left \subseteq DOMAIN qs
       /\ \A b \in DOMAIN left : b # a => left[b] = qs[b]
       /\ a \in DOMAIN left => left[a] = rest /\ rest # <<>>
  BY <1>3 DEF TakeFirst, PutBack, Put, Without
<1> HIDE DEF left, bst2, header2, rest
<1>13. ASSUME NEW b \in Address
       PROVE  Built(b, At(p, b), state[b].nonce, bst2[b].nonce, left, txs2)
  <2> DEFINE P == At(p, b)
             n == state[b].nonce
             k == bst[b].nonce
  <2>0. /\ n \in Nat /\ k \in Nat /\ P \in Seq(OrderedTransaction)
        /\ Len(P) \in Nat /\ DOMAIN P = 1 .. Len(P)
    BY <1>7 DEF SoundNow, Sound, IsQueues
  <2>1. /\ n <= k /\ k <= n + Len(P)
        /\ \A i \in DOMAIN P : n + i <= k => P[i].transaction \in txs
        /\ b \in DOMAIN qs => Continues(qs[b], P, k - n)
    BY <1>7 DEF Built
  <2>2. CASE b # a
    BY <1>10, <1>12, <2>1, <2>2 DEF Built
  <2>3. CASE b = a
    <3> DEFINE q == qs[a]
               d == k - n
    <3>1. /\ q \in Seq(OrderedTransaction) /\ q # <<>> /\ Len(P) = d + Len(q)
          /\ \A i \in DOMAIN q : q[i] = P[d + i]
      BY <1>3, <2>1, <2>3 DEF Continues
    <3>2. PICK k2 : k2 = bst2[b].nonce /\ k2 = k + 1
      BY <1>10, <2>3
    <3>3. tx = P[d + 1].transaction
      BY <1>3, <3>1
    <3> HIDE DEF P, n, k, q
    <3>4. Len(rest) \in Nat /\ Len(q) = 1 + Len(rest) /\ DOMAIN rest = 1 .. Len(rest)
          /\ DOMAIN q = 1 .. Len(q) /\ \A i \in DOMAIN rest : rest[i] = q[i + 1]
      BY <1>11, <3>1 DEF q
    <3>5. n <= k2 /\ k2 <= n + Len(P)
      BY <2>0, <2>1, <3>1, <3>2, <3>4
    <3>6. ASSUME NEW i \in DOMAIN P, n + i <= k2 PROVE P[i].transaction \in txs2
      <4>1. CASE n + i <= k
        BY <2>1, <4>1
      <4>2. CASE ~ (n + i <= k)
        <5>1. i = d + 1
          BY <2>0, <3>2, <3>6, <4>2
        <5> QED
          BY <3>3, <5>1
      <4> QED
        BY <4>1, <4>2
    <3>7. ASSUME rest # <<>> PROVE Continues(rest, P, k2 - n)
      <4>1. Len(P) = k2 - n + Len(rest)
        BY <2>0, <3>1, <3>2, <3>4
      <4>2. ASSUME NEW i \in DOMAIN rest PROVE rest[i] = P[k2 - n + i]
        <5>0. i \in 1 .. Len(rest)
          BY <3>4
        <5>1. i + 1 \in DOMAIN q /\ d + (i + 1) = k2 - n + i
          <6>1. i \in Nat /\ i + 1 \in 1 .. Len(q)
            BY <3>4, <5>0
          <6>2. d + (i + 1) = k2 - n + i
            BY <2>0, <3>2, <6>1
          <6> QED
            BY <3>4, <6>1, <6>2
        <5>2. q[i + 1] = P[d + (i + 1)]
          BY <3>1, <5>1
        <5> QED
          BY <3>4, <5>1, <5>2
      <4> QED
        BY <1>11, <3>7, <4>1, <4>2 DEF Continues
    <3>8. a \in DOMAIN left => Continues(left[a], P, k2 - n)
      BY <1>12, <3>7
    <3>9. Built(b, P, n, k2, left, txs2)
      BY <2>3, <3>5, <3>6, <3>8 DEF Built
    <3> QED
      BY <3>2, <3>9 DEF P, n
  <2> QED
    BY <2>2, <2>3
<1>14. BuildOK(left, txs2, bst2, header2, p, state)
  <2>1. txs2 \subseteq Transactions /\ DOMAIN left \subseteq DOMAIN p
    BY <1>3, <1>7, <1>12
  <2> QED
    BY <1>9, <1>10, <1>13, <2>1 DEF BuildOK, IsParent
<1> QED
  BY <1>6, <1>14 DEF BuilderOK

-----------------------------------------------------------------------------
(* The invariant. *)

ChainOK(header, txs, fee) ==
  /\ IsParent(header) /\ txs \subseteq Transactions
  /\ fee \in {None} \cup NextBaseFees

(* A send keeps a snapshot that is sound, of what was there when it started. *)
SendOK(r) ==
  \E tx, limit, p, f, h, n, header, txs, st, fee :
    /\ r = [kind |-> "send", tx |-> tx,
            snapshot |-> [mem_pool |-> <<limit, p, f, h, n>>, chain |-> <<header, txs, st>>,
                          next_block_base_fee_per_gas |-> fee],
            before |-> << <<limit, p, f, h, n>>, <<header, txs, st>>, fee >>]
    /\ Sound(limit, p, f, h, n, st) /\ ChainOK(header, txs, fee)

RequestOK(r) == r # None => r = [kind |-> "mine"] \/ SendOK(r)

AutoInv ==
  /\ SoundNow /\ faulty = {}
  /\ ChainOK(last_header, mined, next_block_base_fee_per_gas)
  /\ mine_ordering \in MineOrderings /\ is_auto_mining \in BOOLEAN
  /\ RequestOK(request)
  /\ builder # None => request # None /\ BuilderOK(builder, pending_transactions, state)

(* The initial state satisfies the invariant. *)
LEMMA AutoInitial == Ordinary /\ AutoInit => AutoInv
<1> SUFFICES ASSUME Ordinary, AutoInit PROVE AutoInv
  OBVIOUS
<1>1. Init /\ faulty = {} /\ block_gas_limit \in BlockGasLimits
  BY DEF Ordinary, AutoInit, Init
<1>2. IInv /\ Steady
  BY <1>1, ReliableInitial DEF RInv, Reliable
<1>3. Ordered(hash_to_transaction, next_order_id)
  BY <1>1 DEF Init, Ordered, EmptyMap
<1>4. SoundNow
  BY <1>1, <1>2, <1>3, SoundFrom
<1>5. ChainOK(last_header, mined, next_block_base_fee_per_gas)
  <2>1. PICK fee \in InitialBaseFees :
          last_header = [base_fee |-> fee, gas_used |-> 0, gas_limit |-> block_gas_limit]
    BY DEF AutoInit
  <2>2. fee \in Nat /\ block_gas_limit \in Nat /\ block_gas_limit >= elasticity_multiplier
    BY <1>1, AutoMineAssumption DEF Ordinary
  <2>3. IsParent(last_header)
    BY <2>1, <2>2 DEF IsParent, Headers
  <2> QED
    BY <2>3 DEF AutoInit, ChainOK
<1> QED
  BY <1>1, <1>4, <1>5 DEF AutoInit, AutoInv, RequestOK

(* The pool, the chain and the base fee asked for stay. *)
LEMMA RestoredStays ==
  ASSUME restored' = restored
  PROVE  /\ pending_transactions' = pending_transactions /\ state' = state /\ mined' = mined
         /\ last_header' = last_header /\ hash_to_transaction' = hash_to_transaction
         /\ next_block_base_fee_per_gas' = next_block_base_fee_per_gas
         /\ (SoundNow => SoundNow')
         /\ pool' = pool /\ chain' = chain
BY DEF restored, pool, chain, SoundNow

(* A snapshot is put back. *)
LEMMA Reverted ==
  ASSUME SendOK(request), revert_to_snapshot(request.snapshot)
  PROVE  /\ SoundNow' /\ ChainOK(last_header', mined', next_block_base_fee_per_gas')
         /\ restored' = request.before
<1>1. PICK tx, limit, p, f, h, n, header, txs, st, fee :
        /\ request = [kind |-> "send", tx |-> tx,
                snapshot |-> [mem_pool |-> <<limit, p, f, h, n>>, chain |-> <<header, txs, st>>,
                              next_block_base_fee_per_gas |-> fee],
                before |-> << <<limit, p, f, h, n>>, <<header, txs, st>>, fee >>]
        /\ Sound(limit, p, f, h, n, st) /\ ChainOK(header, txs, fee)
  BY DEF SendOK
<1>2. /\ request.snapshot.mem_pool = <<limit, p, f, h, n>>
      /\ request.snapshot.chain = <<header, txs, st>>
      /\ request.snapshot.next_block_base_fee_per_gas = fee
      /\ request.before = << <<limit, p, f, h, n>>, <<header, txs, st>>, fee >>
  BY <1>1
<1>3. /\ block_gas_limit' = limit /\ pending_transactions' = p /\ future_transactions' = f
      /\ hash_to_transaction' = h /\ next_order_id' = n
      /\ last_header' = header /\ mined' = txs /\ state' = st
      /\ next_block_base_fee_per_gas' = fee
  BY <1>2 DEF revert_to_snapshot
<1>4. restored' = << <<limit, p, f, h, n>>, <<header, txs, st>>, fee >>
  BY <1>3 DEF restored, pool, chain
<1> QED
  BY <1>1, <1>2, <1>3, <1>4 DEF SoundNow

(* The next block can start. *)
LEMMA StartKeeps ==
  ASSUME AutoInv, StartBlock, faulty' = faulty
  PROVE  AutoInv'
<1> DEFINE header == [base_fee  |-> NextBaseFee, gas_used |-> 0, gas_limit |-> block_gas_limit]
<1>1. /\ request # None /\ restored' = restored /\ mine_ordering' = mine_ordering
      /\ is_auto_mining' = is_auto_mining /\ request' = request
      /\ builder' = [queues |-> pending_transactions, txs |-> {}, st |-> state, header |-> header]
  BY DEF StartBlock
<1>2. NextBaseFee \in Nat
  <2>1. NextBaseFees \subseteq Nat
    BY AutoMineAssumption
  <2>2. calculate_next_base_fee_per_gas(last_header) \in Nat
    BY NextBaseFeeType DEF AutoInv, ChainOK
  <2> QED
    BY <2>1, <2>2 DEF NextBaseFee, AutoInv, ChainOK
<1>3. IsParent(header)
  <2>1. block_gas_limit \in Nat /\ block_gas_limit >= elasticity_multiplier
    BY DEF AutoInv, SoundNow, Sound, Ordinary
  <2> QED
    BY <1>2, <2>1 DEF IsParent, Headers
<1> HIDE DEF header
<1>4. BuilderOK(builder', pending_transactions, state)
  BY <1>1, <1>3, StartsBuilt DEF AutoInv, BuilderOK
<1> QED
  BY <1>1, <1>4, RestoredStays DEF AutoInv

(* A transaction is passed over, included, or fails the block. *)
LEMMA TakeKeeps ==
  ASSUME AutoInv, TakeTransaction, faulty' = faulty
  PROVE  AutoInv'
<1>1. /\ builder # None /\ DOMAIN builder.queues # {}
      /\ Skip \/ Include \/ FailBlock
      /\ mine_ordering' = mine_ordering /\ is_auto_mining' = is_auto_mining
  BY DEF TakeTransaction
<1>2. /\ SoundNow /\ faulty = {} /\ request # None /\ RequestOK(request)
      /\ BuilderOK(builder, pending_transactions, state)
  BY <1>1 DEF AutoInv
<1>3. CASE Skip \/ Include
  <2>1. BuilderOK(builder', pending_transactions, state)
    BY <1>1, <1>2, <1>3, SkipBuilt, IncludeBuilt
  <2>2. restored' = restored /\ request' = request
    BY <1>3 DEF Skip, Include
  <2> QED
    BY <1>1, <1>2, <2>1, <2>2, RestoredStays DEF AutoInv
<1>4. CASE FailBlock
  <2>1. /\ builder' = None /\ request' = None
        /\ \/ request.kind = "mine" /\ restored' = restored
           \/ request.kind = "send" /\ revert_to_snapshot(request.snapshot)
    BY <1>4 DEF FailBlock
  <2>2. CASE restored' = restored
    BY <1>1, <2>1, <2>2, RestoredStays DEF AutoInv, RequestOK
  <2>3. CASE request.kind = "send" /\ revert_to_snapshot(request.snapshot)
    <3>1. SendOK(request)
      BY <1>2, <2>3 DEF RequestOK
    <3> QED
      BY <1>1, <2>1, <2>3, <3>1, Reverted DEF AutoInv, RequestOK
  <2> QED
    BY <2>1, <2>2, <2>3
<1> QED
  BY <1>1, <1>3, <1>4

(* A block is committed and the pool updated. *)
LEMMA FinishKeeps ==
  ASSUME AutoInv, FinishBlock, faulty' = faulty
  PROVE  AutoInv'
<1>1. /\ builder # None /\ last_header' = builder.header /\ mined' = mined \cup builder.txs
      /\ state' = builder.st /\ Update(block_gas_limit, builder.st)
      /\ next_block_base_fee_per_gas' = None /\ builder' = None
      /\ request' = (IF request.kind = "mine" THEN None ELSE request)
      /\ block_gas_limit' = block_gas_limit /\ next_order_id' = next_order_id
      /\ mine_ordering' = mine_ordering /\ is_auto_mining' = is_auto_mining
  BY DEF FinishBlock
<1>2. PICK qs, txs, bst, header :
        /\ builder = [queues |-> qs, txs |-> txs, st |-> bst, header |-> header]
        /\ BuildOK(qs, txs, bst, header, pending_transactions, state)
  BY <1>1 DEF AutoInv, BuilderOK
<1>3. builder.header = header /\ builder.txs = txs /\ builder.st = bst
  BY <1>2
<1>4. /\ bst \in [Address -> [nonce : Nat, balance : Nat]]
      /\ txs \subseteq Transactions /\ IsParent(header)
      /\ \A a \in Address : /\ state[a].nonce <= bst[a].nonce
                            /\ bst[a].nonce <= state[a].nonce + Len(At(pending_transactions, a))
  BY <1>2 DEF BuildOK, Built
<1>5. SoundNow'
  BY <1>1, <1>3, <1>4, UpdateSound DEF AutoInv
<1>6. ChainOK(last_header', mined', next_block_base_fee_per_gas')
  BY <1>1, <1>3, <1>4 DEF AutoInv, ChainOK
<1> QED
  BY <1>1, <1>5, <1>6 DEF AutoInv, RequestOK

(* A transaction is sent, and with automining a snapshot taken. *)
LEMMA SendKeeps ==
  ASSUME AutoInv, NEW tx \in Transactions, SendTransaction(tx), faulty' = faulty
  PROVE  AutoInv'
<1>1. /\ request = None /\ AddTransaction(tx)
      /\ \/ request' = request
         \/ request' = [kind |-> "send", tx |-> tx, snapshot |-> make_snapshot,
                        before |-> restored]
      /\ last_header' = last_header /\ mined' = mined
      /\ next_block_base_fee_per_gas' = next_block_base_fee_per_gas
      /\ mine_ordering' = mine_ordering /\ is_auto_mining' = is_auto_mining
      /\ builder' = builder
  BY DEF SendTransaction, Idle
<1>2. SoundNow'
  BY <1>1, AddSound DEF AutoInv
<1>3. RequestOK(request')
  <2>1. CASE request' = request
    BY <1>1, <2>1 DEF RequestOK
  <2>2. CASE request' = [kind |-> "send", tx |-> tx, snapshot |-> make_snapshot,
                         before |-> restored]
    <3>1. PICK limit, p, f, h, n, header, txs, st, fee :
            /\ limit = block_gas_limit /\ p = pending_transactions /\ f = future_transactions
            /\ h = hash_to_transaction /\ n = next_order_id /\ header = last_header
            /\ txs = mined /\ st = state /\ fee = next_block_base_fee_per_gas
      OBVIOUS
    <3>2. Sound(limit, p, f, h, n, st) /\ ChainOK(header, txs, fee)
      BY <3>1 DEF AutoInv, SoundNow
    <3>3. request' = [kind |-> "send", tx |-> tx,
            snapshot |-> [mem_pool |-> <<limit, p, f, h, n>>, chain |-> <<header, txs, st>>,
                          next_block_base_fee_per_gas |-> fee],
            before |-> << <<limit, p, f, h, n>>, <<header, txs, st>>, fee >>]
      BY <2>2, <3>1, Zenon DEF make_snapshot, restored, pool, chain
    <3>4. PICK r : r = request'
      OBVIOUS
    <3>5. SendOK(r)
      BY <3>2, <3>3, <3>4 DEF SendOK
    <3> QED
      BY <3>4, <3>5 DEF RequestOK
  <2> QED
    BY <1>1, <2>1, <2>2
<1> QED
  BY <1>1, <1>2, <1>3 DEF AutoInv

(* A transaction is dropped or a balance set. *)
LEMMA ChangeKeeps ==
  ASSUME AutoInv, ChangePool, faulty' = faulty
  PROVE  AutoInv'
<1>1. /\ request = None
      /\ last_header' = last_header /\ mined' = mined
      /\ next_block_base_fee_per_gas' = next_block_base_fee_per_gas
      /\ mine_ordering' = mine_ordering /\ is_auto_mining' = is_auto_mining
      /\ request' = request /\ builder' = builder
      /\ \/ \E tx \in Transactions : RemoveTransaction(tx)
         \/ \E a \in Address, balance \in Balances : SetBalance(a, balance)
  BY DEF ChangePool, Idle
<1>2. SoundNow /\ faulty = {}
  BY DEF AutoInv
<1>3. ASSUME NEW a \in Address, NEW balance \in Balances, SetBalance(a, balance)
      PROVE  SoundNow'
  <2> DEFINE st == [state EXCEPT ![a].balance = balance]
  <2>1. \A limit, s : ~ UpdateFails(limit, s)
    BY <1>2 DEF UpdateFails
  <2>2. /\ Update(block_gas_limit, st) /\ state' = st
        /\ block_gas_limit' = block_gas_limit /\ next_order_id' = next_order_id
    BY <1>3, <2>1 DEF SetBalance
  <2>3. /\ balance \in Nat /\ state \in [Address -> [nonce : Nat, balance : Nat]]
        /\ \A b \in Address : Len(At(pending_transactions, b)) \in Nat
    BY <1>2, MemPoolAssumption DEF SoundNow, Sound, IsQueues
  <2>4. /\ st \in [Address -> [nonce : Nat, balance : Nat]]
        /\ \A b \in Address : st[b].nonce = state[b].nonce /\ state[b].nonce \in Nat
    BY <2>3
  <2> HIDE DEF st
  <2>5. \A b \in Address : /\ state[b].nonce <= st[b].nonce
                           /\ st[b].nonce <= state[b].nonce + Len(At(pending_transactions, b))
    BY <2>3, <2>4
  <2> QED
    BY <1>2, <2>2, <2>4, <2>5, UpdateSound
<1>4. SoundNow'
  BY <1>1, <1>2, <1>3, RemoveSound
<1> QED
  BY <1>1, <1>4 DEF AutoInv

(* Every step keeps the invariant. *)
LEMMA AutoInductive == AutoInv /\ [AutoNext]_autoVars => AutoInv'
<1> SUFFICES ASSUME AutoInv, [AutoNext]_autoVars PROVE AutoInv'
  OBVIOUS
<1>0. faulty' = faulty
  BY DEF AutoNext, Handle, autoVars
<1>1. ASSUME NEW tx \in Transactions, SendTransaction(tx) PROVE AutoInv'
  BY <1>0, <1>1, SendKeeps
<1>2. CASE EvmMine
  <2>1. /\ request = None /\ request' = [kind |-> "mine"] /\ restored' = restored
        /\ mine_ordering' = mine_ordering /\ is_auto_mining' = is_auto_mining
        /\ builder' = builder
    BY <1>2 DEF EvmMine, Idle
  <2> QED
    BY <1>0, <2>1, RestoredStays DEF AutoInv, RequestOK
<1>3. ASSUME NEW enabled \in BOOLEAN, SetAutoMining(enabled) PROVE AutoInv'
  <2>1. /\ request = None /\ request' = request /\ restored' = restored
        /\ mine_ordering' = mine_ordering /\ is_auto_mining' = enabled /\ builder' = builder
    BY <1>3 DEF SetAutoMining, Idle
  <2> QED
    BY <1>0, <2>1, RestoredStays DEF AutoInv
<1>4. ASSUME NEW fee \in NextBaseFees, SetNextBlockBaseFeePerGas(fee) PROVE AutoInv'
  <2>1. /\ request = None /\ request' = request /\ pool' = pool /\ chain' = chain
        /\ mine_ordering' = mine_ordering /\ is_auto_mining' = is_auto_mining
        /\ builder' = builder /\ next_block_base_fee_per_gas' = fee
    BY <1>4 DEF SetNextBlockBaseFeePerGas, Idle
  <2>2. SoundNow' /\ last_header' = last_header /\ mined' = mined
    BY <2>1 DEF pool, chain, AutoInv, SoundNow
  <2> QED
    BY <1>0, <2>1, <2>2 DEF AutoInv, ChainOK
<1>5. CASE ChangePool
  BY <1>0, <1>5, ChangeKeeps
<1>6. CASE Handle
  <2>1. CASE FinishSend
    <3>1. /\ request' = None /\ builder = None /\ restored' = restored
          /\ mine_ordering' = mine_ordering /\ is_auto_mining' = is_auto_mining
          /\ builder' = builder
      BY <2>1 DEF FinishSend
    <3> QED
      BY <1>0, <3>1, RestoredStays DEF AutoInv, RequestOK
  <2> QED
    BY <1>0, <1>6, <2>1, StartKeeps, TakeKeeps, FinishKeeps DEF Handle
<1>7. CASE UNCHANGED autoVars
  <2>1. /\ restored' = restored /\ mine_ordering' = mine_ordering
        /\ is_auto_mining' = is_auto_mining /\ request' = request /\ builder' = builder
    BY <1>7 DEF autoVars
  <2> QED
    BY <1>0, <2>1, RestoredStays DEF AutoInv
<1> QED
  BY <1>1, <1>2, <1>3, <1>4, <1>5, <1>6, <1>7 DEF AutoNext

(* So the invariant always holds. *)
LEMMA AutoAlways == Ordinary /\ AutoSpec => []AutoInv
  BY AutoInitial, AutoInductive, PTL DEF AutoSpec

(* The chain, the request and the block being built have their types; no
   execution leaves a sender with a negative balance. *)
THEOREM MiningTypeCorrect == Ordinary /\ AutoSpec => []AutoTypeOK
<1>1. ASSUME AutoInv PROVE AutoTypeOK
  <2>1. TypeOK
    BY <1>1, SoundGives DEF AutoInv, IInv
  <2>2. /\ last_header \in Headers /\ mined \subseteq Transactions
        /\ next_block_base_fee_per_gas \in {None} \cup NextBaseFees
    BY <1>1 DEF AutoInv, ChainOK, IsParent
  <2>3. request # None => request.kind \in {"send", "mine"}
    BY <1>1 DEF AutoInv, RequestOK, SendOK
  <2>4. ASSUME builder # None
        PROVE  /\ request # None /\ IsQueues(builder.queues) /\ builder.header \in Headers
               /\ builder.txs \subseteq Transactions
               /\ builder.st \in [Address -> [nonce : Nat, balance : Nat]]
    <3>1. PICK qs, txs, bst, header :
            /\ builder = [queues |-> qs, txs |-> txs, st |-> bst, header |-> header]
            /\ BuildOK(qs, txs, bst, header, pending_transactions, state)
      BY <1>1, <2>4 DEF AutoInv, BuilderOK
    <3>2. \A a \in DOMAIN qs : a \in Address /\ qs[a] \in Seq(OrderedTransaction)
      BY <1>1, <3>1, LeftOver DEF AutoInv
    <3>3. <<>> \in Seq(OrderedTransaction)
      OBVIOUS
    <3>4. IsQueues(qs)
      BY <3>2, <3>3 DEF IsQueues, At
    <3>5. /\ builder.queues = qs /\ builder.header = header /\ builder.txs = txs
          /\ builder.st = bst
      BY <3>1
    <3>6. header \in Headers /\ txs \subseteq Transactions
          /\ bst \in [Address -> [nonce : Nat, balance : Nat]]
      BY <3>1 DEF BuildOK, IsParent
    <3> QED
      BY <1>1, <2>4, <3>4, <3>5, <3>6 DEF AutoInv
  <2> QED
    BY <1>1, <2>1, <2>2, <2>3, <2>4 DEF AutoTypeOK, AutoInv
<1> QED
  BY <1>1, AutoAlways, PTL

(* However many transactions are passed over, the ones that are left of a
   sender continue at the nonce it has reached in the block. *)
THEOREM NoncesFollow == Ordinary /\ AutoSpec => []BlockNoncesFollow
<1>1. ASSUME AutoInv PROVE BlockNoncesFollow
  <2> SUFFICES ASSUME builder # None, NEW a \in DOMAIN builder.queues,
                      NEW i \in DOMAIN builder.queues[a]
               PROVE  builder.queues[a][i].transaction.nonce = builder.st[a].nonce + i - 1
    BY DEF BlockNoncesFollow
  <2>1. PICK qs, txs, bst, header :
          /\ builder = [queues |-> qs, txs |-> txs, st |-> bst, header |-> header]
          /\ BuildOK(qs, txs, bst, header, pending_transactions, state)
    BY <1>1 DEF AutoInv, BuilderOK
  <2>2. builder.queues = qs /\ builder.st = bst
    BY <2>1
  <2> QED
    BY <1>1, <2>1, <2>2, LeftOver DEF AutoInv
<1> QED
  BY <1>1, AutoAlways, PTL

(* A send with automining is all or nothing, over however many blocks. *)
THEOREM SendAllOrNothing == Ordinary /\ AutoSpec => SendIsAtomic
<1> DEFINE Atomic == request # None /\ request' = None /\ request.kind = "send" =>
                       \/ request.tx \in mined' /\ DOMAIN pending_transactions' = {}
                       \/ restored' = request.before
<1>1. ASSUME AutoInv, [AutoNext]_autoVars PROVE [Atomic]_autoVars
  <2> SUFFICES ASSUME request # None, request' = None, request.kind = "send"
               PROVE  \/ request.tx \in mined' /\ DOMAIN pending_transactions' = {}
                      \/ restored' = request.before
    OBVIOUS
  <2>1. CASE FinishSend
    <3>1. restored' = restored /\ request.tx \in mined /\ DOMAIN pending_transactions = {}
      BY <2>1 DEF FinishSend
    <3> QED
      BY <3>1, RestoredStays
  <2>2. CASE TakeTransaction
    <3>1. FailBlock
      BY <2>2 DEF TakeTransaction, Skip, Include
    <3>2. revert_to_snapshot(request.snapshot)
      BY <3>1 DEF FailBlock
    <3>3. SendOK(request)
      BY <1>1 DEF AutoInv, RequestOK
    <3> QED
      BY <3>2, <3>3, Reverted
  <2>3. ~ StartBlock /\ ~ FinishBlock
    BY DEF StartBlock, FinishBlock
  <2>4. request # request' /\ ~ Idle
    BY DEF Idle
  <2> QED
    BY <1>1, <2>1, <2>2, <2>3, <2>4
       DEF AutoNext, Handle, autoVars, SendTransaction, EvmMine, SetAutoMining,
           SetNextBlockBaseFeePerGas, ChangePool
<1> QED
  BY <1>1, AutoAlways, PTL DEF AutoSpec, SendIsAtomic

(* What a committed block takes out of the pool is in the chain, or its sender
   cannot pay for it any more. *)
THEOREM NothingLostByBlocks == Ordinary /\ AutoSpec => BlockLosesNothing
<1> DEFINE Kept == FinishBlock =>
              \A tx \in DOMAIN hash_to_transaction \ DOMAIN hash_to_transaction' :
                tx \in mined' \/ upfront_cost(tx) > state'[tx.caller].balance
<1>1. ASSUME AutoInv, [AutoNext]_autoVars PROVE [Kept]_autoVars
  <2> SUFFICES ASSUME FinishBlock, NEW tx \in DOMAIN hash_to_transaction,
                      tx \notin DOMAIN hash_to_transaction'
               PROVE  tx \in mined' \/ upfront_cost(tx) > state'[tx.caller].balance
    OBVIOUS
  <2> DEFINE a == tx.caller
             h == hash_to_transaction
             P == At(pending_transactions, a)
             Q == At(future_transactions, a)
             n == state[a].nonce
  <2>1. /\ builder # None /\ mined' = mined \cup builder.txs
        /\ state' = builder.st /\ Update(block_gas_limit, builder.st)
    BY DEF FinishBlock
  <2>2. PICK qs, txs, bst, header :
          /\ builder = [queues |-> qs, txs |-> txs, st |-> bst, header |-> header]
          /\ BuildOK(qs, txs, bst, header, pending_transactions, state)
    BY <1>1, <2>1 DEF AutoInv, BuilderOK
  <2>3. builder.txs = txs /\ builder.st = bst
    BY <2>2
  <2> DEFINE k == bst[a].nonce
  <2>4. IInv /\ Steady
    BY <1>1, SoundGives DEF AutoInv
  <2>5. /\ tx \in Transactions /\ a \in Address /\ tx.nonce \in Nat
        /\ bst \in [Address -> [nonce : Nat, balance : Nat]]
        /\ \A b \in Address : bst[b].nonce \in Nat
    BY <2>2, <2>4, Fields DEF IInv, TypeOK, BuildOK
  <2>6. ~ is_valid_tx(tx, block_gas_limit, bst[a])
    BY <2>1, <2>3, <2>4, <2>5, UpdateLoses
  <2>7. within_limit(tx, block_gas_limit)
    BY <2>4 DEF Steady, HashesValid, is_valid_tx
  <2>8. /\ upfront_cost(tx) \in Int /\ bst[a].balance \in Int
    BY <2>5, Amounts, MemPoolAssumption DEF upfront_cost, max_cost
  <2>9. CASE upfront_cost(tx) <= bst[a].balance
    <3>1. tx.nonce < k
      BY <2>5, <2>6, <2>7, <2>9 DEF is_valid_tx
    <3>2. /\ n \in Nat /\ k \in Nat /\ Len(P) \in Nat /\ DOMAIN P = 1 .. Len(P)
          /\ P \in Seq(OrderedTransaction)
      BY <2>4, <2>5 DEF IInv, TypeOK, IsQueues
    <3>3. /\ k <= n + Len(P)
          /\ \A i \in DOMAIN P : n + i <= k => P[i].transaction \in txs
      BY <2>2, <2>5 DEF BuildOK, Built
    <3>4. h[tx].transaction = tx /\ h[tx] \in Elements(P) \cup Elements(Q)
      BY <2>4 DEF IInv, HashMapExact, Exact
    <3>5. h[tx] \notin Elements(Q)
      <4>1. Waiting(P, Q, n)
        BY <1>1, <2>4, <2>5 DEF AutoInv, SoundNow, Sound, Ordinary, Steady, OwnWaiting
      <4> QED
        BY <2>5, <3>1, <3>2, <3>3, <3>4, <4>1 DEF Waiting
    <3>6. PICK i \in DOMAIN P : P[i].transaction = tx
      BY <3>4, <3>5 DEF Elements
    <3>7. tx.nonce = n + i - 1
      BY <2>4, <2>5, <3>6, ValidStartsAt DEF Steady, StartsAt
    <3>8. n + i <= k
      BY <2>5, <3>1, <3>2, <3>7
    <3>9. tx \in txs
      BY <3>3, <3>6, <3>8
    <3> QED
      BY <2>1, <2>3, <3>9
  <2>10. CASE ~ (upfront_cost(tx) <= bst[a].balance)
    BY <2>1, <2>3, <2>8, <2>10
  <2> QED
    BY <2>9, <2>10
<1> QED
  BY <1>1, AutoAlways, PTL DEF AutoSpec, BlockLosesNothing

-----------------------------------------------------------------------------
(* Requests and interval miners around the mutex of ProviderData (module       *)
(* IntervalMining), for any numbers of threads and tasks.                      *)

Actors == Threads \cup Tasks

Waits(x) ==
  \/ x \in Threads /\ thread[x] = "queued"
  \/ x \in Tasks /\ task[x] = "waiting"

Uses(x) ==
  \/ x \in Threads /\ thread[x] \in {"running", "joining"}
  \/ x \in Tasks /\ task[x] = "mining"

(* The queue of the mutex: nobody waits twice, nor while holding the lock. *)
QueueInv == Distinct(queue) /\ holder \notin Elements(queue)

(* Everybody in the queue waits, and the lock is with one who asked for it. *)
ActorsInv ==
  /\ \A x \in Elements(queue) : Waits(x)
  /\ holder # Nobody => Waits(holder) \/ Uses(holder)
  /\ \A x \in Actors : Uses(x) => holder = x

MutexInv == IntervalTypeOK /\ QueueInv /\ ActorsInv

(* A thread joins a task exactly while it says so. *)
JoinInv == \A r \in Threads : joined[r] # Nobody <=> thread[r] = "joining"

-----------------------------------------------------------------------------
(* What the operations of the mutex do to holder and queue. *)

(* The step h, q -> h1, q1 keeps the order of the mutex, and lets in nobody
   but x. *)
Kept(h, q, h1, q1, x) ==
  /\ q1 \in Seq(Actors) /\ h1 \in {Nobody} \cup Actors
  /\ Distinct(q1) /\ h1 \notin Elements(q1)
  /\ Elements(q1) \subseteq Elements(q) \cup {x}
  /\ h1 \in {Nobody, h, x} \cup Elements(q)

(* An actor that neither holds the lock nor waits for it asks for it. *)
LEMMA LockKeeps ==
  ASSUME IntervalTypeOK, QueueInv, NEW x \in Actors, x # holder, x \notin Elements(queue), Lock(x)
  PROVE  /\ Kept(holder, queue, holder', queue', x)
         /\ holder # Nobody => holder' = holder
<1>1. queue \in Seq(Actors) /\ holder \in {Nobody} \cup Actors
  BY DEF IntervalTypeOK, Actors
<1>2. CASE holder = Nobody
  <2>1. holder' = x /\ queue' = queue
    BY <1>2 DEF Lock
  <2> QED
    BY <1>1, <1>2, <2>1 DEF Kept, QueueInv
<1>3. CASE holder # Nobody
  <2>1. holder' = holder /\ queue' = Append(queue, x)
    BY <1>3 DEF Lock
  <2>2. /\ queue' \in Seq(Actors) /\ Elements(queue') = Elements(queue) \cup {x}
        /\ Distinct(queue')
    BY <1>1, <2>1, AppendElements, SMTT(30) DEF QueueInv
  <2> QED
    BY <1>1, <2>1, <2>2 DEF Kept, QueueInv
<1> QED
  BY <1>2, <1>3

(* The lock is handed to the one who has waited longest. *)
LEMMA UnlockKeeps ==
  ASSUME IntervalTypeOK, QueueInv, Unlock
  PROVE  /\ Kept(Nobody, queue, holder', queue', Nobody)
         /\ Elements(queue') \subseteq Elements(queue)
         /\ holder' \in {Nobody} \cup Elements(queue)
<1>1. queue \in Seq(Actors) /\ holder \in {Nobody} \cup Actors
  BY DEF IntervalTypeOK, Actors
<1>2. CASE queue = <<>>
  BY <1>1, <1>2 DEF Unlock, Kept, QueueInv, Elements
<1>3. CASE queue # <<>>
  <2>1. holder' = queue[1] /\ queue' = Tail(queue)
    BY <1>1, <1>3 DEF Unlock
  <2>2. /\ queue' \in Seq(Actors) /\ DOMAIN queue = 1 .. Len(queue)
        /\ Len(queue) \in Nat \ {0} /\ DOMAIN queue' = 1 .. Len(queue) - 1
        /\ \A i \in DOMAIN queue' : i + 1 \in DOMAIN queue /\ queue'[i] = queue[i + 1]
    BY <1>1, <1>3, <2>1
  <2>3. 1 \in DOMAIN queue /\ queue[1] \in Elements(queue) /\ queue[1] \in Actors
    BY <1>1, <2>2 DEF Elements
  <2>4. Elements(queue') \subseteq Elements(queue)
    BY <2>2 DEF Elements
  <2>5. queue[1] \notin Elements(queue')
    BY <2>2, <2>3 DEF Elements, QueueInv, Distinct
  <2>6. Distinct(queue')
    <3> SUFFICES ASSUME NEW i \in DOMAIN queue', NEW j \in DOMAIN queue', queue'[i] = queue'[j]
                 PROVE  i = j
      BY DEF Distinct
    <3>1. i + 1 = j + 1
      BY <2>2 DEF QueueInv, Distinct
    <3> QED
      BY <2>2, <3>1
  <2> QED
    BY <2>1, <2>2, <2>3, <2>4, <2>5, <2>6 DEF Kept
<1> QED
  BY <1>2, <1>3

(* Dropping the future of a lock takes the actor out of the mutex. *)
LEMMA GiveUpKeeps ==
  ASSUME IntervalTypeOK, QueueInv, NEW x \in Actors, GiveUp(x)
  PROVE  /\ Kept(holder, queue, holder', queue', Nobody)
         /\ Elements(queue') \subseteq Elements(queue) \ {x}
         /\ holder' \in ({Nobody, holder} \cup Elements(queue)) \ {x}
         /\ holder # x => holder' = holder
<1>1. queue \in Seq(Actors) /\ holder \in {Nobody} \cup Actors /\ x # Nobody
  BY IntervalMiningAssumption DEF IntervalTypeOK, Actors
<1>2. CASE holder = x
  <2>1. Unlock
    BY <1>2 DEF GiveUp
  <2>2. /\ Kept(Nobody, queue, holder', queue', Nobody)
        /\ Elements(queue') \subseteq Elements(queue)
        /\ holder' \in {Nobody} \cup Elements(queue)
    BY <2>1, UnlockKeeps
  <2>3. x \notin Elements(queue)
    BY <1>2 DEF QueueInv
  <2> QED
    BY <1>1, <1>2, <2>2, <2>3 DEF Kept
<1>3. CASE holder # x
  <2> DEFINE K == {i \in DOMAIN queue : queue[i] # x}
  <2>1. queue' = Keep(queue, K) /\ holder' = holder
    BY <1>3 DEF GiveUp, Retain
  <2>2. K \in SUBSET DOMAIN queue
    OBVIOUS
  <2> HIDE DEF K
  <2>3. /\ queue' \in Seq(Actors) /\ Distinct(queue')
        /\ Elements(queue') = {queue[i] : i \in K}
    BY <1>1, <2>1, <2>2, KeepElements, Zenon DEF QueueInv
  <2>4. Elements(queue') \subseteq Elements(queue) \ {x}
    BY <2>3 DEF K, Elements
  <2> QED
    BY <1>1, <1>3, <2>1, <2>3, <2>4 DEF Kept, QueueInv
<1> QED
  BY <1>2, <1>3

-----------------------------------------------------------------------------
(* Every step keeps MutexInv. *)

(* Nobody has or wants the lock of a new provider. *)
LEMMA StartOfMutex == IntervalInit => MutexInv /\ JoinInv
<1> SUFFICES ASSUME IntervalInit PROVE MutexInv /\ JoinInv
  OBVIOUS
<1>1. IntervalTypeOK
  BY DEF IntervalInit, IntervalTypeOK
<1>2. QueueInv /\ ActorsInv
  BY IntervalMiningAssumption DEF IntervalInit, QueueInv, ActorsInv, Distinct, Elements, Waits, Uses, Actors
<1>3. JoinInv
  BY DEF IntervalInit, JoinInv
<1> QED
  BY <1>1, <1>2, <1>3 DEF MutexInv

(* What is known of the actors in a state of MutexInv. *)
LEMMA ActorFacts ==
  ASSUME MutexInv
  PROVE  /\ Elements(queue) \subseteq Actors /\ holder \in {Nobody} \cup Actors
         /\ Nobody \notin Actors /\ Threads \cap Tasks = {}
  BY IntervalMiningAssumption DEF MutexInv, IntervalTypeOK, Actors, Elements

(* The steps of a thread. *)
LEMMA ThreadSteps ==
  ASSUME MutexInv, NEW r \in Threads, RequestStep(r)
  PROVE  MutexInv'
<1>0. /\ Elements(queue) \subseteq Actors /\ holder \in {Nobody} \cup Actors
      /\ Nobody \notin Actors /\ Threads \cap Tasks = {} /\ r \in Actors
      /\ IntervalTypeOK /\ QueueInv /\ ActorsInv
  BY ActorFacts DEF Actors, MutexInv
<1>1. CASE HandleRequest(r)
  <2>1. r # holder /\ r \notin Elements(queue)
    BY <1>0, <1>1 DEF HandleRequest, ActorsInv, Waits, Uses
  <2>2. Kept(holder, queue, holder', queue', r) /\ (holder # Nobody => holder' = holder)
    BY <1>0, <1>1, <2>1, LockKeeps DEF HandleRequest
  <2>3. IntervalTypeOK'
    BY <1>0, <1>1, <2>2 DEF HandleRequest, IntervalTypeOK, Kept, Actors
  <2>4. ActorsInv'
    BY <1>0, <1>1, <2>1, <2>2 DEF HandleRequest, IntervalTypeOK, Kept, ActorsInv, Waits, Uses, Actors
  <2> QED
    BY <2>2, <2>3, <2>4 DEF MutexInv, QueueInv, Kept
<1>2. CASE Locked(r)
  <2>1. IntervalTypeOK'
    BY <1>0, <1>2 DEF Locked, IntervalTypeOK, mutex
  <2>2. ActorsInv'
    BY <1>0, <1>2 DEF Locked, IntervalTypeOK, mutex, QueueInv, ActorsInv, Waits, Uses, Actors
  <2> QED
    BY <1>0, <1>2, <2>1, <2>2 DEF MutexInv, QueueInv, Locked, mutex
<1>3. CASE Return(r)
  <2>1. holder = r /\ r \notin Elements(queue)
    BY <1>0, <1>3 DEF Return, QueueInv, ActorsInv, Uses
  <2>2. /\ Kept(Nobody, queue, holder', queue', Nobody)
        /\ Elements(queue') \subseteq Elements(queue)
        /\ holder' \in {Nobody} \cup Elements(queue)
    BY <1>0, <1>3, UnlockKeeps DEF Return
  <2>3. IntervalTypeOK'
    BY <1>0, <1>3, <2>2 DEF Return, IntervalTypeOK, Kept, Actors
  <2>4. ActorsInv'
    BY <1>0, <1>3, <2>1, <2>2 DEF Return, IntervalTypeOK, ActorsInv, Waits, Uses, Actors
  <2> QED
    BY <2>2, <2>3, <2>4 DEF MutexInv, QueueInv, Kept
<1>4. CASE Join(r)
  <2>1. IntervalTypeOK'
    BY <1>0, <1>4 DEF Join, IntervalTypeOK, mutex
  <2>2. ActorsInv'
    BY <1>0, <1>4 DEF Join, IntervalTypeOK, mutex, ActorsInv, Waits, Uses, Actors
  <2> QED
    BY <1>0, <1>4, <2>1, <2>2 DEF MutexInv, QueueInv, Join, mutex
<1>5. ASSUME NEW new \in {Nobody} \cup Tasks, SetIntervalMining(r, new)
      PROVE  MutexInv'
  <2>1. /\ holder' = holder /\ queue' = queue
        /\ thread' = thread \/ thread' = [thread EXCEPT ![r] = "joining"]
        /\ thread[r] = "running"
    BY <1>5 DEF SetIntervalMining, mutex
  <2>2. /\ task' \in [Tasks -> {"none", "sleeping", "waiting", "mining", "done"}]
        /\ \A t \in Tasks : task'[t] = task[t] \/ (task[t] \in {"none", "done"}
                                                   /\ task'[t] \in {"none", "sleeping"})
    BY <1>0, <1>5 DEF SetIntervalMining, Forgotten, Spawned, IntervalTypeOK
  <2>3. IntervalTypeOK'
    BY <1>0, <1>5, <2>1, <2>2 DEF SetIntervalMining, IntervalTypeOK
  <2>4. ActorsInv'
    BY <1>0, <2>1, <2>2 DEF IntervalTypeOK, ActorsInv, Waits, Uses, Actors
  <2> QED
    BY <1>0, <2>1, <2>3, <2>4 DEF MutexInv, QueueInv
<1> QED
  BY <1>1, <1>2, <1>3, <1>4, <1>5 DEF RequestStep

(* The steps of an interval mining task. *)
LEMMA TaskSteps ==
  ASSUME MutexInv, NEW t \in Tasks, TaskStep(t)
  PROVE  MutexInv'
<1>0. /\ Elements(queue) \subseteq Actors /\ holder \in {Nobody} \cup Actors
      /\ Nobody \notin Actors /\ Threads \cap Tasks = {} /\ t \in Actors
      /\ IntervalTypeOK /\ QueueInv /\ ActorsInv
  BY ActorFacts DEF Actors, MutexInv
<1>1. CASE WakeUp(t)
  <2>1. t # holder /\ t \notin Elements(queue)
    BY <1>0, <1>1 DEF WakeUp, ActorsInv, Waits, Uses
  <2>2. Kept(holder, queue, holder', queue', t) /\ (holder # Nobody => holder' = holder)
    BY <1>0, <1>1, <2>1, LockKeeps DEF WakeUp
  <2>3. IntervalTypeOK'
    BY <1>0, <1>1, <2>2 DEF WakeUp, IntervalTypeOK, Kept, Actors
  <2>4. ActorsInv'
    BY <1>0, <1>1, <2>1, <2>2 DEF WakeUp, IntervalTypeOK, Kept, ActorsInv, Waits, Uses, Actors
  <2> QED
    BY <2>2, <2>3, <2>4 DEF MutexInv, QueueInv, Kept
<1>2. CASE CancelSleeping(t)
  <2>1. IntervalTypeOK'
    BY <1>0, <1>2 DEF CancelSleeping, IntervalTypeOK, mutex
  <2>2. ActorsInv'
    BY <1>0, <1>2 DEF CancelSleeping, IntervalTypeOK, mutex, ActorsInv, Waits, Uses, Actors
  <2> QED
    BY <1>0, <1>2, <2>1, <2>2 DEF MutexInv, QueueInv, CancelSleeping, mutex
<1>3. CASE CancelWaiting(t)
  <2>1. /\ Kept(holder, queue, holder', queue', Nobody)
        /\ Elements(queue') \subseteq Elements(queue) \ {t}
        /\ holder' \in ({Nobody, holder} \cup Elements(queue)) \ {t}
        /\ holder # t => holder' = holder
    BY <1>0, <1>3, GiveUpKeeps DEF CancelWaiting
  <2>2. IntervalTypeOK'
    BY <1>0, <1>3, <2>1 DEF CancelWaiting, IntervalTypeOK, Kept, Actors
  <2>3. ActorsInv'
    BY <1>0, <1>3, <2>1 DEF CancelWaiting, IntervalTypeOK, ActorsInv, Waits, Uses, Actors
  <2> QED
    BY <2>1, <2>2, <2>3 DEF MutexInv, QueueInv, Kept
<1>4. CASE StartMining(t)
  <2>1. IntervalTypeOK'
    BY <1>0, <1>4 DEF StartMining, IntervalTypeOK, mutex
  <2>2. ActorsInv'
    BY <1>0, <1>4 DEF StartMining, IntervalTypeOK, mutex, QueueInv, ActorsInv, Waits, Uses, Actors
  <2> QED
    BY <1>0, <1>4, <2>1, <2>2 DEF MutexInv, QueueInv, StartMining, mutex
<1>5. CASE IntervalMine(t)
  <2>1. holder = t /\ t \notin Elements(queue)
    BY <1>0, <1>5 DEF IntervalMine, QueueInv, ActorsInv, Uses
  <2>2. /\ Kept(Nobody, queue, holder', queue', Nobody)
        /\ Elements(queue') \subseteq Elements(queue)
        /\ holder' \in {Nobody} \cup Elements(queue)
    BY <1>0, <1>5, UnlockKeeps DEF IntervalMine
  <2>3. IntervalTypeOK'
    BY <1>0, <1>5, <2>2 DEF IntervalMine, IntervalTypeOK, Kept, Actors
  <2>4. ActorsInv'
    BY <1>0, <1>5, <2>1, <2>2 DEF IntervalMine, IntervalTypeOK, ActorsInv, Waits, Uses, Actors
  <2> QED
    BY <2>2, <2>3, <2>4 DEF MutexInv, QueueInv, Kept
<1> QED
  BY <1>1, <1>2, <1>3, <1>4, <1>5 DEF TaskStep

(* Requests, tasks and the drop of the provider keep MutexInv. *)
LEMMA MutexStep == MutexInv /\ [IntervalNext]_intervalVars => MutexInv'
<1> SUFFICES ASSUME MutexInv, [IntervalNext]_intervalVars PROVE MutexInv'
  OBVIOUS
<1>1. CASE DropProvider \/ JoinLast
  <2>1. /\ UNCHANGED <<holder, queue, thread, joined, task, interval_miner>>
        /\ provider' \in {"open", "dropping", "closed"}
    BY <1>1 DEF DropProvider, JoinLast, mutex
  <2>2. cancelled' \subseteq Tasks
    BY <1>1 DEF DropProvider, JoinLast, MutexInv, IntervalTypeOK
  <2>3. IntervalTypeOK'
    BY <2>1, <2>2 DEF MutexInv, IntervalTypeOK
  <2> QED
    BY <2>1, <2>3 DEF MutexInv, QueueInv, ActorsInv, Waits, Uses
<1>2. CASE UNCHANGED intervalVars
  BY <1>2 DEF intervalVars, mutex, MutexInv, IntervalTypeOK, QueueInv, ActorsInv, Waits, Uses
<1> QED
  BY <1>1, <1>2, ThreadSteps, TaskSteps DEF IntervalNext, Closed

-----------------------------------------------------------------------------
(* The hand-over. *)

(* A step that starts no miner but the provider's own, and stops joining no
   task that is still alive, keeps OneMiner. *)
LEMMA HandOverStep ==
  IntervalTypeOK /\ JoinInv /\ OneMiner /\ [IntervalNext]_intervalVars => JoinInv' /\ OneMiner'
<1> SUFFICES ASSUME IntervalTypeOK, JoinInv, OneMiner, [IntervalNext]_intervalVars PROVE JoinInv' /\ OneMiner'
  OBVIOUS
<1>0. Nobody \notin Tasks
  BY IntervalMiningAssumption
<1>1. ASSUME NEW r \in Threads, HandleRequest(r) \/ Locked(r) \/ Return(r)
      PROVE  JoinInv' /\ OneMiner'
  BY <1>1 DEF HandleRequest, Locked, Return, IntervalTypeOK, JoinInv, OneMiner
<1>2. ASSUME NEW r \in Threads, Join(r)
      PROVE  JoinInv' /\ OneMiner'
  <2>1. joined[r] \in Tasks
    BY <1>2 DEF Join, JoinInv, IntervalTypeOK
  <2>2. JoinInv'
    BY <1>2 DEF Join, JoinInv, IntervalTypeOK
  <2>3. OneMiner'
    BY <1>2, <2>1 DEF Join, IntervalTypeOK, OneMiner
  <2> QED
    BY <2>2, <2>3
<1>3. ASSUME NEW r \in Threads, NEW new \in {Nobody} \cup Tasks, SetIntervalMining(r, new)
      PROVE  JoinInv' /\ OneMiner'
  <2>1. JoinInv'
    BY <1>0, <1>3 DEF SetIntervalMining, JoinInv, IntervalTypeOK
  <2>2. joined[r] = Nobody
    BY <1>3 DEF SetIntervalMining, JoinInv
  <2>3. \A t \in Tasks \ {new} :
          task'[t] \in {"sleeping", "waiting", "mining"} => task'[t] = task[t]
    BY <1>3 DEF SetIntervalMining, Forgotten, Spawned, IntervalTypeOK
  <2>4. OneMiner'
    <3> SUFFICES ASSUME NEW t \in Tasks, t # new,
                        task'[t] \in {"sleeping", "waiting", "mining"}
                 PROVE  \E q \in Threads : joined'[q] = t
      BY <1>3 DEF OneMiner, SetIntervalMining
    <3>1. task[t] \in {"sleeping", "waiting", "mining"}
      BY <2>3
    <3>2. CASE t = interval_miner
      BY <1>0, <1>3, <3>1, <3>2 DEF SetIntervalMining, IntervalTypeOK
    <3>3. CASE t # interval_miner
      <4>1. PICK q \in Threads : joined[q] = t
        BY <3>1, <3>3 DEF OneMiner
      <4>2. joined'[q] = t
        BY <1>0, <1>3, <2>2, <4>1 DEF SetIntervalMining, IntervalTypeOK
      <4> QED
        BY <4>2
    <3> QED
      BY <3>2, <3>3
  <2> QED
    BY <2>1, <2>4
<1>4. ASSUME NEW t \in Tasks, TaskStep(t)
      PROVE  JoinInv' /\ OneMiner'
  <2>1. /\ UNCHANGED <<thread, joined, interval_miner>>
        /\ task[t] \in {"sleeping", "waiting", "mining"}
        /\ \E s \in {"sleeping", "waiting", "mining", "done"} : task' = [task EXCEPT ![t] = s]
    BY <1>4 DEF TaskStep, WakeUp, CancelSleeping, CancelWaiting, StartMining, IntervalMine
  <2> QED
    BY <2>1 DEF IntervalTypeOK, JoinInv, OneMiner
<1>5. CASE DropProvider \/ JoinLast \/ UNCHANGED intervalVars
  BY <1>5 DEF DropProvider, JoinLast, intervalVars, JoinInv, OneMiner
<1> QED
  BY <1>1, <1>2, <1>3, <1>4, <1>5 DEF IntervalNext, RequestStep, Closed

-----------------------------------------------------------------------------
(* In every state the fields around the mutex of ProviderData have their     *)
(* types.                                                                    *)
THEOREM MiningTyped == IntervalSpec => []IntervalTypeOK
<1>1. MutexInv => IntervalTypeOK
  BY DEF MutexInv
<1> QED
  BY <1>1, StartOfMutex, MutexStep, PTL DEF IntervalSpec

(* However many threads handle requests and however interval miners come and *)
(* go, the data is used by the one who has locked it and by nobody else; a   *)
(* request that waits for the end of a miner keeps the lock.                 *)
THEOREM DataIsExclusive == IntervalSpec => []LockExclusive
<1>1. MutexInv => LockExclusive
  BY DEF MutexInv, ActorsInv, Uses, Actors, LockExclusive
<1> QED
  BY <1>1, StartOfMutex, MutexStep, PTL DEF IntervalSpec

(* No interval miner survives the request that replaced it: a task that is   *)
(* not the provider's miner and has not ended is being joined.               *)
THEOREM MinersHandOver == IntervalSpec => []OneMiner
<1>1. IntervalInit => OneMiner
  BY DEF IntervalInit, OneMiner
<1>2. MutexInv => IntervalTypeOK
  BY DEF MutexInv
<1> QED
  BY <1>1, <1>2, StartOfMutex, MutexStep, HandOverStep, PTL DEF IntervalSpec
=============================================================================
