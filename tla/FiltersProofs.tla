---------------------------- MODULE FiltersProofs -----------------------------
(***************************************************************************)
(* Proofs about Filters, for every fork, every set of logs and criteria,   *)
(* and every number of filters, blocks and transactions: no event is lost, *)
(* none is told twice or out of order, none is told that was not asked     *)
(* for, and only an idle filter is removed.                                *)
(***************************************************************************)
EXTENDS Filters, SequenceTheorems, WellFoundedInduction, TLAPS

-----------------------------------------------------------------------------
(* Lists of events. *)

Event == Nat \X Nat

(* The sequence tells the events of a set, each once and in their order. *)
Lists(s, S) == s \in Seq(Event) /\ Increasing(s) /\ Range(s) = S

(* Everything in one set happened before everything in the other. *)
AllBefore(S, T) == \A d \in S, e \in T : Before(d, e)

NoRepeats(s) == \A i, j \in DOMAIN s : s[i] = s[j] => i = j

(* A nonempty set of numbers has a least element. *)
LEMMA LeastNumber ==
  ASSUME NEW T \in SUBSET Nat, T # {}
  PROVE  \E x \in T : \A y \in T : x <= y
<1>1. PICK x \in T : \A y \in T : ~ (<<y, x>> \in OpToRel(<, Nat))
  BY NatLessThanWellFounded, WFMin
<1>2. \A y \in T : ~ (y < x)
  BY <1>1 DEF OpToRel
<1> QED
  BY <1>2

(* The empty list. *)
LEMMA ListsNothing == Lists(<<>>, {})
  BY DEF Lists, Increasing, Range

(* A list of one event. *)
LEMMA ListsOne ==
  ASSUME NEW e \in Event
  PROVE  Lists(<<e>>, {e})
<1>1. <<e>> \in Seq(Event) /\ Len(<<e>>) = 1 /\ <<e>>[1] = e
  OBVIOUS
<1>2. Increasing(<<e>>)
  BY <1>1 DEF Increasing
<1>3. Range(<<e>>) = {e}
  BY <1>1 DEF Range
<1> QED
  BY <1>1, <1>2, <1>3 DEF Lists

(* The positions of a concatenation. *)
LEMMA ConcatPositions ==
  ASSUME NEW S, NEW s \in Seq(S), NEW t \in Seq(S)
  PROVE  /\ s \o t \in Seq(S)
         /\ Len(s) \in Nat /\ Len(t) \in Nat
         /\ DOMAIN s = 1 .. Len(s) /\ DOMAIN t = 1 .. Len(t)
         /\ DOMAIN (s \o t) = 1 .. Len(s) + Len(t)
         /\ \A i \in 1 .. Len(s) : (s \o t)[i] = s[i]
         /\ \A i \in Len(s) + 1 .. Len(s) + Len(t) :
              i - Len(s) \in 1 .. Len(t) /\ (s \o t)[i] = t[i - Len(s)]
         /\ \A i \in 1 .. Len(t) : (s \o t)[Len(s) + i] = t[i]
<1>1. /\ s \o t \in Seq(S) /\ Len(s \o t) = Len(s) + Len(t)
      /\ \A i \in 1 .. Len(s) + Len(t) :
           (s \o t)[i] = IF i <= Len(s) THEN s[i] ELSE t[i - Len(s)]
  BY ConcatProperties
<1>2. Len(s) \in Nat /\ Len(t) \in Nat
      /\ DOMAIN s = 1 .. Len(s) /\ DOMAIN t = 1 .. Len(t)
      /\ DOMAIN (s \o t) = 1 .. Len(s) + Len(t)
  BY <1>1
<1> DEFINE u == s \o t
<1> HIDE DEF u
<1>3. \A i \in 1 .. Len(s) + Len(t) : u[i] = IF i <= Len(s) THEN s[i] ELSE t[i - Len(s)]
  BY <1>1 DEF u
<1> DEFINE l == Len(s)
           m == Len(t)
<1>4. l \in Nat /\ m \in Nat
  BY <1>2
<1>5. \A i \in 1 .. l + m : u[i] = IF i <= l THEN s[i] ELSE t[i - l]
  BY <1>3
<1> HIDE DEF l, m
<1>6. \A i \in 1 .. l : u[i] = s[i]
  BY <1>4, <1>5
<1>7. \A i \in l + 1 .. l + m : i - l \in 1 .. m /\ u[i] = t[i - l]
  BY <1>4, <1>5
<1>8. \A i \in 1 .. m : u[l + i] = t[i]
  <2> TAKE i \in 1 .. m
  <2>1. l + i \in 1 .. l + m /\ ~ l + i <= l /\ (l + i) - l = i
    BY <1>4
  <2> QED
    BY <1>5, <2>1
<1> QED
  BY <1>1, <1>2, <1>6, <1>7, <1>8 DEF u, l, m

(* A list goes on with events that come after all of it. *)
LEMMA ListsMore ==
  ASSUME NEW s, NEW S, NEW t, NEW T, Lists(s, S), Lists(t, T), AllBefore(S, T)
  PROVE  Lists(s \o t, S \cup T)
<1>1. s \in Seq(Event) /\ t \in Seq(Event) /\ Increasing(s) /\ Increasing(t)
      /\ Range(s) = S /\ Range(t) = T
  BY DEF Lists
<1> DEFINE u == s \o t
           l == Len(s)
           m == Len(t)
<1>2. /\ u \in Seq(Event) /\ l \in Nat /\ m \in Nat
      /\ DOMAIN s = 1 .. l /\ DOMAIN t = 1 .. m /\ DOMAIN u = 1 .. l + m
      /\ \A i \in 1 .. l : u[i] = s[i]
      /\ \A i \in l + 1 .. l + m : i - l \in 1 .. m /\ u[i] = t[i - l]
  BY <1>1, ConcatPositions
<1>3. Range(u) = S \cup T
  BY <1>1, RangeConcatenation
<1> HIDE DEF u, l, m
<1>4. Increasing(u)
  <2> SUFFICES ASSUME NEW i \in 1 .. l + m, NEW j \in 1 .. l + m, i < j
               PROVE  Before(u[i], u[j])
    BY <1>2 DEF Increasing
  <2>1. CASE j <= l
    <3>1. i \in 1 .. l /\ j \in 1 .. l
      BY <1>2, <2>1
    <3>2. Before(s[i], s[j])
      BY <1>1, <1>2, <3>1 DEF Increasing
    <3> QED
      BY <1>2, <3>1, <3>2
  <2>2. CASE l < i
    <3>1. i \in l + 1 .. l + m /\ j \in l + 1 .. l + m /\ i - l < j - l
      BY <1>2, <2>2
    <3>2. i - l \in 1 .. m /\ j - l \in 1 .. m
      BY <1>2, <3>1
    <3>3. Before(t[i - l], t[j - l])
      BY <1>1, <1>2, <3>1, <3>2 DEF Increasing
    <3> QED
      BY <1>2, <3>1, <3>3
  <2>3. CASE i <= l /\ l < j
    <3>1. i \in 1 .. l /\ j \in l + 1 .. l + m
      BY <1>2, <2>3
    <3>2. u[i] = s[i] /\ u[j] = t[j - l] /\ j - l \in 1 .. m
      BY <1>2, <3>1
    <3>3. s[i] \in S /\ t[j - l] \in T
      BY <1>1, <1>2, <3>1, <3>2 DEF Range
    <3> QED
      BY <3>2, <3>3 DEF AllBefore
  <2> QED
    BY <1>2, <2>1, <2>2, <2>3
<1> QED
  BY <1>2, <1>3, <1>4 DEF Lists, u

(* An increasing sequence tells nothing twice. *)
LEMMA IncreasingNoRepeats ==
  ASSUME NEW s \in Seq(Event), Increasing(s)
  PROVE  NoRepeats(s)
<1> SUFFICES ASSUME NEW i \in DOMAIN s, NEW j \in DOMAIN s, s[i] = s[j], i # j
             PROVE  FALSE
  BY DEF NoRepeats
<1>1. i \in Int /\ j \in Int
  OBVIOUS
<1>2. ASSUME NEW e \in Event, Before(e, e)
      PROVE  FALSE
  BY <1>2 DEF Before, Event
<1>3. s[i] \in Event
  BY DEF Event
<1>4. Before(s[i], s[j]) \/ Before(s[j], s[i])
  BY <1>1 DEF Increasing
<1> QED
  BY <1>2, <1>3, <1>4

(* What is told twice by a concatenation. *)
LEMMA NoRepeatsConcat ==
  ASSUME NEW s \in Seq(Event), NEW t \in Seq(Event)
  PROVE  NoRepeats(s \o t) <=> NoRepeats(s) /\ NoRepeats(t) /\ Range(s) \cap Range(t) = {}
<1> DEFINE u == s \o t
           l == Len(s)
           m == Len(t)
<1>2. /\ l \in Nat /\ m \in Nat
      /\ DOMAIN s = 1 .. l /\ DOMAIN t = 1 .. m /\ DOMAIN u = 1 .. l + m
      /\ \A i \in 1 .. l : u[i] = s[i]
      /\ \A i \in l + 1 .. l + m : i - l \in 1 .. m /\ u[i] = t[i - l]
      /\ \A i \in 1 .. m : u[l + i] = t[i]
  BY ConcatPositions
<1> HIDE DEF u, l, m
<1>3. ASSUME NoRepeats(u)
      PROVE  NoRepeats(s) /\ NoRepeats(t) /\ Range(s) \cap Range(t) = {}
  <2>1. NoRepeats(s)
    BY <1>2, <1>3 DEF NoRepeats
  <2>2. NoRepeats(t)
    <3> SUFFICES ASSUME NEW i \in 1 .. m, NEW j \in 1 .. m, t[i] = t[j]
                 PROVE  i = j
      BY <1>2 DEF NoRepeats
    <3>1. u[l + i] = u[l + j] /\ l + i \in 1 .. l + m /\ l + j \in 1 .. l + m
      BY <1>2
    <3>2. l + i = l + j
      BY <1>2, <1>3, <3>1 DEF NoRepeats
    <3> QED
      BY <1>2, <3>2
  <2>3. ASSUME NEW e \in Range(s), e \in Range(t)
        PROVE  FALSE
    <3>1. PICK i \in 1 .. l : e = s[i]
      BY <1>2, <2>3 DEF Range
    <3>2. PICK j \in 1 .. m : e = t[j]
      BY <1>2, <2>3 DEF Range
    <3>3. u[i] = e /\ u[l + j] = e
      BY <1>2, <3>1, <3>2
    <3>4. i \in 1 .. l + m /\ l + j \in 1 .. l + m /\ i # l + j
      BY <1>2
    <3> QED
      BY <1>2, <1>3, <3>3, <3>4 DEF NoRepeats
  <2> QED
    BY <2>1, <2>2, <2>3
<1>4. ASSUME NoRepeats(s), NoRepeats(t), Range(s) \cap Range(t) = {}
      PROVE  NoRepeats(u)
  <2> SUFFICES ASSUME NEW i \in 1 .. l + m, NEW j \in 1 .. l + m, u[i] = u[j]
               PROVE  i = j
    BY <1>2 DEF NoRepeats
  <2>0. \A x \in 1 .. l, y \in 1 .. m : s[x] # t[y]
    BY <1>2, <1>4 DEF Range
  <2>1. CASE i \in 1 .. l /\ j \in 1 .. l
    BY <1>2, <1>4, <2>1 DEF NoRepeats
  <2>2. CASE i \in l + 1 .. l + m /\ j \in l + 1 .. l + m
    <3>1. i - l \in 1 .. m /\ j - l \in 1 .. m /\ t[i - l] = t[j - l]
      BY <1>2, <2>2
    <3>2. i - l = j - l
      BY <1>2, <1>4, <3>1 DEF NoRepeats
    <3> QED
      BY <1>2, <3>2
  <2>3. CASE i \in 1 .. l /\ j \in l + 1 .. l + m
    BY <1>2, <2>0, <2>3
  <2>4. CASE j \in 1 .. l /\ i \in l + 1 .. l + m
    BY <1>2, <2>0, <2>4
  <2> QED
    BY <1>2, <2>1, <2>2, <2>3, <2>4
<1> QED
  BY <1>3, <1>4 DEF u

-----------------------------------------------------------------------------
(* What FlattenSeq returns, and the searches that are built on it. *)

FlatAt(ps, f, i) == IF i = 1 THEN ps[i] ELSE f[i - 1] \o ps[i]

(* The function by which FlattenSeq is defined satisfies its equation. *)
LEMMA FlatteningExists ==
  ASSUME NEW N \in Nat, NEW ps
  PROVE  \E f : f = [i \in 1 .. N |-> FlatAt(ps, f, i)]
<1> DEFINE P(k) == \E f : f = [i \in 1 .. k |-> FlatAt(ps, f, i)]
<1>1. P(0)
  <2> DEFINE f == [i \in 1 .. 0 |-> 0]
  <2>1. f = [i \in 1 .. 0 |-> FlatAt(ps, f, i)]
    OBVIOUS
  <2> QED
    BY <2>1
<1>2. ASSUME NEW k \in Nat, P(k)
      PROVE  P(k + 1)
  <2>1. PICK f : f = [i \in 1 .. k |-> FlatAt(ps, f, i)]
    BY <1>2
  <2> DEFINE g == [i \in 1 .. k + 1 |-> IF i \in 1 .. k THEN f[i] ELSE FlatAt(ps, f, i)]
  <2>2. ASSUME NEW i \in 1 .. k + 1
        PROVE  FlatAt(ps, f, i) = FlatAt(ps, g, i)
    <3>1. CASE i = 1
      BY <3>1 DEF FlatAt
    <3>2. CASE i # 1
      <4>1. i - 1 \in 1 .. k
        BY <3>2
      <4>2. g[i - 1] = f[i - 1]
        BY <4>1
      <4> QED
        BY <4>2 DEF FlatAt
    <3> QED
      BY <3>1, <3>2
  <2>3. \A i \in 1 .. k + 1 : g[i] = FlatAt(ps, g, i)
    <3> TAKE i \in 1 .. k + 1
    <3>1. g[i] = FlatAt(ps, f, i)
      BY <2>1
    <3> QED
      BY <2>2, <3>1
  <2>4. g = [i \in 1 .. k + 1 |-> g[i]]
    OBVIOUS
  <2> HIDE DEF g
  <2>5. g = [i \in 1 .. k + 1 |-> FlatAt(ps, g, i)]
    BY <2>3, <2>4
  <2> QED
    BY <2>5
<1> HIDE DEF P
<1>3. \A k \in Nat : P(k)
  <2> SUFFICES ASSUME ~ \A k \in Nat : P(k) PROVE FALSE
    OBVIOUS
  <2> DEFINE T == {k \in Nat : ~ P(k)}
  <2>1. PICK k \in T : \A y \in T : k <= y
    BY LeastNumber
  <2>2. k \in Nat /\ k # 0 /\ ~ P(k)
    BY <1>1, <2>1
  <2>3. k - 1 \in Nat /\ P(k - 1)
    BY <2>1, <2>2
  <2>4. (k - 1) + 1 = k
    BY <2>2
  <2> QED
    BY <1>2, <2>2, <2>3, <2>4
<1> QED
  BY <1>3 DEF P

(* Lists of events that follow each other. *)
Pieces(ps, S, N) ==
  /\ ps \in [1 .. N -> Seq(Event)]
  /\ \A i \in 1 .. N : Lists(ps[i], S[i])
  /\ \A i, j \in 1 .. N : i < j => AllBefore(S[i], S[j])

All(S, N) == UNION {S[i] : i \in 1 .. N}

(* They make one list. *)
LEMMA FlattenLists ==
  ASSUME NEW ps, NEW S, NEW N \in Nat, Pieces(ps, S, N)
  PROVE  Lists(FlattenSeq(ps), All(S, N))
<1> USE DEF Pieces, All
<1>0. ps \in Seq(Seq(Event)) /\ Len(ps) = N
  OBVIOUS
<1>1. CASE N = 0
  <2>1. ps = <<>> /\ FlattenSeq(ps) = ps
    BY <1>0, <1>1 DEF FlattenSeq
  <2>2. UNION {S[i] : i \in 1 .. N} = {}
    BY <1>1
  <2> QED
    BY <2>1, <2>2, ListsNothing
<1>2. CASE N # 0
  <2>1. PICK h : h = [i \in 1 .. N |-> FlatAt(ps, h, i)]
    BY FlatteningExists
  <2> DEFINE flatten == CHOOSE f : f = [i \in 1 .. N |-> IF i = 1 THEN ps[i] ELSE f[i - 1] \o ps[i]]
  <2>2. flatten = [i \in 1 .. N |-> IF i = 1 THEN ps[i] ELSE flatten[i - 1] \o ps[i]]
    BY <2>1, Zenon DEF FlatAt
  <2>3. FlattenSeq(ps) = flatten[N]
    BY <1>0, <1>2 DEF FlattenSeq
  <2> HIDE DEF flatten
  <2>3a. \A i \in 1 .. N : i # 1 => flatten[i] = flatten[i - 1] \o ps[i]
    BY <2>2
  <2> DEFINE U(k) == UNION {S[i] : i \in 1 .. k}
             P(k) == k \in 1 .. N => Lists(flatten[k], U(k))
  <2>4. P(1)
    <3>1. flatten[1] = ps[1]
      BY <1>2, <2>2
    <3>2. U(1) = S[1]
      BY DEF U
    <3> QED
      BY <3>1, <3>2
  <2>5. ASSUME NEW k \in Nat \ {0}, P(k)
        PROVE  P(k + 1)
    <3> SUFFICES ASSUME k + 1 \in 1 .. N PROVE Lists(flatten[k + 1], U(k + 1))
      OBVIOUS
    <3>1. k \in 1 .. N /\ (k + 1) - 1 = k
      OBVIOUS
    <3>2. flatten[k + 1] = flatten[k] \o ps[k + 1]
      <4>1. k + 1 # 1
        OBVIOUS
      <4>2. flatten[k + 1] = flatten[(k + 1) - 1] \o ps[k + 1]
        BY <2>3a, <4>1
      <4> QED
        BY <3>1, <4>2
    <3>3. Lists(flatten[k], U(k))
      BY <2>5, <3>1
    <3>4. U(k + 1) = U(k) \cup S[k + 1]
      BY <3>1
    <3>5. AllBefore(U(k), S[k + 1])
      <4> SUFFICES ASSUME NEW i \in 1 .. k, NEW d \in S[i], NEW e \in S[k + 1]
                   PROVE  Before(d, e)
        BY DEF AllBefore
      <4>1. i \in 1 .. N /\ i < k + 1
        BY <3>1
      <4> QED
        BY <4>1 DEF AllBefore
    <3>6. Lists(ps[k + 1], S[k + 1])
      OBVIOUS
    <3> HIDE DEF U
    <3>7. Lists(flatten[k] \o ps[k + 1], U(k) \cup S[k + 1])
      BY <3>3, <3>5, <3>6, ListsMore
    <3> QED
      BY <3>2, <3>4, <3>7
  <2> HIDE DEF P
  <2>6. \A k \in Nat \ {0} : P(k)
    <3> SUFFICES ASSUME ~ \A k \in Nat \ {0} : P(k) PROVE FALSE
      OBVIOUS
    <3> DEFINE T == {k \in Nat \ {0} : ~ P(k)}
    <3>1. PICK k \in T : \A y \in T : k <= y
      BY LeastNumber
    <3>2. k \in Nat /\ k # 0 /\ k # 1 /\ ~ P(k)
      BY <2>4, <3>1
    <3>3. k - 1 \in Nat \ {0} /\ P(k - 1)
      BY <3>1, <3>2
    <3>4. (k - 1) + 1 = k
      BY <3>2
    <3> QED
      BY <2>5, <3>2, <3>3, <3>4
  <2>7. P(N)
    BY <1>2, <2>6
  <2> QED
    BY <1>2, <2>3, <2>7 DEF P
<1> QED
  BY <1>1, <1>2

-----------------------------------------------------------------------------
(* Blocks, criteria, and the events a search finds. *)

Block == [hash : Nat, logs : Seq(Log)]

FilterCriteria ==
  [from_block : Nat, to_block : Nat \cup {None},
   addresses : SUBSET Addresses, topics : Seq({None} \cup SUBSET Topics)]

(* The chain: later blocks were made later. *)
Chained(bs, mi) ==
  /\ bs \in Seq(Block) /\ mi \in Nat
  /\ fork_block_number <= Len(bs)
  /\ \A n \in 1 .. Len(bs) : bs[n].hash <= mi
  /\ \A m, n \in 1 .. Len(bs) : m < n => bs[m].hash < bs[n].hash

(* The logs of a block that match, and those of them in the range. *)
Hits(b, c) == {<<b.hash, i>> : i \in {j \in DOMAIN b.logs : Matches(b.logs[j], c)}}
Asked(b, n, c) == IF InRange(n, c) THEN Hits(b, c) ELSE {}

(* What is assumed of the fork. *)
LEMMA ForkType == fork_block_number \in Nat /\ fork_block_number # 0 /\ None \notin Nat
  BY FiltersAssumption

(* The search through a block finds what matches. *)
LEMMA MatchingIs ==
  ASSUME NEW b \in Block, NEW c
  PROVE  Lists(Matching(b, c), Hits(b, c))
<1> DEFINE N == Len(b.logs)
           h == b.hash
           S == [i \in 1 .. N |-> IF Matches(b.logs[i], c) THEN {<<h, i>>} ELSE {}]
           ps == [i \in DOMAIN b.logs |-> IF Matches(b.logs[i], c) THEN << <<h, i>> >> ELSE <<>>]
<1>1. b.logs \in Seq(Log) /\ h \in Nat
  BY DEF Block
<1>2. N \in Nat /\ DOMAIN b.logs = 1 .. N
  BY <1>1
<1>3. Matching(b, c) = FlattenSeq(ps)
  BY DEF Matching
<1>4. Hits(b, c) = All(S, N)
  BY <1>2 DEF Hits, All
<1> HIDE DEF N, h
<1>5. \A i \in 1 .. N : <<h, i>> \in Event
  BY <1>1, <1>2 DEF Event
<1>6. ps = [i \in 1 .. N |-> IF Matches(b.logs[i], c) THEN << <<h, i>> >> ELSE <<>>]
  BY <1>2
<1>7. \A i \in 1 .. N : Lists(ps[i], S[i])
  <2> TAKE i \in 1 .. N
  <2>1. CASE Matches(b.logs[i], c)
    <3>1. ps[i] = << <<h, i>> >> /\ S[i] = {<<h, i>>}
      BY <1>6, <2>1
    <3> QED
      BY <1>5, <3>1, ListsOne
  <2>2. CASE ~ Matches(b.logs[i], c)
    <3>1. ps[i] = <<>> /\ S[i] = {}
      BY <1>6, <2>2
    <3> QED
      BY <3>1, ListsNothing
  <2> QED
    BY <2>1, <2>2
<1>8. \A i, j \in 1 .. N : i < j => AllBefore(S[i], S[j])
  BY <1>1 DEF AllBefore, Before
<1>9. DOMAIN ps = 1 .. N
  BY <1>6
<1>10. ps = [i \in 1 .. N |-> ps[i]]
  BY <1>6
<1> HIDE DEF ps, S
<1>11. ps \in [1 .. N -> Seq(Event)]
  BY <1>7, <1>10 DEF Lists
<1>12. Pieces(ps, S, N)
  BY <1>7, <1>8, <1>11 DEF Pieces
<1> QED
  BY <1>2, <1>3, <1>4, <1>12, FlattenLists

(* Its events are of the block. *)
LEMMA HitsType ==
  ASSUME NEW b \in Block, NEW c, NEW e \in Hits(b, c)
  PROVE  e \in Event /\ e[1] = b.hash
<1>1. b.hash \in Nat /\ b.logs \in Seq(Log)
  BY DEF Block
<1>2. PICK i \in DOMAIN b.logs : e = <<b.hash, i>>
  BY DEF Hits
<1>3. i \in Nat
  BY <1>1
<1> QED
  BY <1>1, <1>2, <1>3 DEF Event

(* And so does the search through the blocks of a range. *)
LEMMA FetchIs ==
  ASSUME NEW bs, NEW mi, Chained(bs, mi), NEW c, NEW first, NEW last
  PROVE  Lists(try_fetch_logs(bs, first, last, c),
               UNION {Hits(bs[n], c) : n \in {m \in 1 .. Len(bs) : m \in first .. last}})
<1> DEFINE N == Len(bs)
           S == [n \in 1 .. N |-> IF n \in first .. last THEN Hits(bs[n], c) ELSE {}]
           ps == [n \in DOMAIN bs |-> IF n \in first .. last THEN Matching(bs[n], c) ELSE <<>>]
<1>1. bs \in Seq(Block) /\ \A m, n \in 1 .. N : m < n => bs[m].hash < bs[n].hash
  BY DEF Chained
<1>2. N \in Nat /\ DOMAIN bs = 1 .. N /\ \A n \in 1 .. N : bs[n] \in Block
  BY <1>1
<1>3. try_fetch_logs(bs, first, last, c) = FlattenSeq(ps)
  BY DEF try_fetch_logs
<1>4. UNION {Hits(bs[n], c) : n \in {m \in 1 .. N : m \in first .. last}}
        = All(S, N)
  BY DEF All
<1> HIDE DEF N
<1>6. ps = [n \in 1 .. N |-> IF n \in first .. last THEN Matching(bs[n], c) ELSE <<>>]
  BY <1>2
<1>7. \A n \in 1 .. N : Lists(ps[n], S[n])
  <2> TAKE n \in 1 .. N
  <2>1. CASE n \in first .. last
    <3>1. ps[n] = Matching(bs[n], c) /\ S[n] = Hits(bs[n], c)
      BY <1>6, <2>1
    <3> QED
      BY <1>2, <3>1, MatchingIs
  <2>2. CASE n \notin first .. last
    <3>1. ps[n] = <<>> /\ S[n] = {}
      BY <1>6, <2>2
    <3> QED
      BY <3>1, ListsNothing
  <2> QED
    BY <2>1, <2>2
<1>8. \A m, n \in 1 .. N : m < n => AllBefore(S[m], S[n])
  <2> SUFFICES ASSUME NEW m \in 1 .. N, NEW n \in 1 .. N, m < n,
                      NEW d \in S[m], NEW e \in S[n]
               PROVE  Before(d, e)
    BY DEF AllBefore
  <2>1. d \in Hits(bs[m], c) /\ e \in Hits(bs[n], c)
    OBVIOUS
  <2>2. d[1] = bs[m].hash /\ e[1] = bs[n].hash
    BY <1>2, <2>1, HitsType
  <2> QED
    BY <1>1, <2>2 DEF Before
<1>10. ps = [n \in 1 .. N |-> ps[n]]
  BY <1>6
<1> HIDE DEF ps, S
<1>11. ps \in [1 .. N -> Seq(Event)]
  BY <1>7, <1>10 DEF Lists
<1>12. Pieces(ps, S, N)
  BY <1>7, <1>8, <1>11 DEF Pieces
<1>13. Lists(FlattenSeq(ps), All(S, N))
  BY <1>2, <1>12, FlattenLists
<1> QED
  BY <1>3, <1>4, <1>13 DEF N

(* Over the fork too: the backlog of a log filter is what it asks for. *)
LEMMA LogsAre ==
  ASSUME NEW c \in FilterCriteria, Chained(chain, minted)
  PROVE  Lists(logs(c), UNION {Asked(chain[n], n, c) : n \in 1 .. Len(chain)})
<1> DEFINE N == Len(chain)
           from == c.from_block
           to == IF c.to_block = None THEN N ELSE c.to_block
           F == fork_block_number
           Found(first, last) == UNION {Hits(chain[n], c) : n \in {m \in 1 .. N : m \in first .. last}}
           fetch(first, last) == try_fetch_logs(chain, first, last, c)
<1>1. /\ N \in Nat /\ from \in Nat /\ to \in Nat /\ F \in Nat /\ F <= N
      /\ c.to_block \in Nat \cup {None}
      /\ \A n \in 1 .. N : chain[n] \in Block
      /\ \A m, n \in 1 .. N : m < n => chain[m].hash < chain[n].hash
  BY ForkType DEF Chained, FilterCriteria
<1>2. \A n \in 1 .. N : InRange(n, c) <=> n \in from .. to
  BY <1>1, ForkType DEF InRange
<1>3. UNION {Asked(chain[n], n, c) : n \in 1 .. N} = Found(from, to)
  BY <1>2 DEF Asked
<1>4. \A first, last : Lists(fetch(first, last), Found(first, last))
  BY FetchIs
<1>5. logs(c) = IF from > F THEN fetch(from, to)
                ELSE IF to <= F THEN fetch(from, to)
                ELSE fetch(from, F) \o fetch(F + 1, to)
  BY DEF logs, last_block_number
<1> HIDE DEF fetch, to, from, F, N
<1>6. CASE from > F \/ to <= F
  <2>1. logs(c) = fetch(from, to)
    BY <1>5, <1>6
  <2> HIDE DEF Found
  <2>2. Lists(logs(c), Found(from, to))
    BY <1>4, <2>1
  <2> QED
    BY <1>3, <2>2 DEF N
<1>7. CASE ~ from > F /\ ~ to <= F
  <2>1. logs(c) = fetch(from, F) \o fetch(F + 1, to)
    BY <1>5, <1>7
  <2>2. Found(from, to) = Found(from, F) \cup Found(F + 1, to)
    BY <1>1, <1>7
  <2>3. AllBefore(Found(from, F), Found(F + 1, to))
    <3> SUFFICES ASSUME NEW m \in 1 .. N, m \in from .. F, NEW n \in 1 .. N, n \in F + 1 .. to,
                        NEW d \in Hits(chain[m], c), NEW e \in Hits(chain[n], c)
                 PROVE  Before(d, e)
      BY DEF AllBefore
    <3>1. m < n
      BY <1>1
    <3>2. d[1] = chain[m].hash /\ e[1] = chain[n].hash
      BY <1>1, HitsType
    <3> QED
      BY <1>1, <3>1, <3>2 DEF Before
  <2>4. Lists(fetch(from, F), Found(from, F)) /\ Lists(fetch(F + 1, to), Found(F + 1, to))
    BY <1>4
  <2> HIDE DEF Found
  <2>5. Lists(logs(c), Found(from, F) \cup Found(F + 1, to))
    BY <2>1, <2>3, <2>4, ListsMore
  <2> QED
    BY <1>3, <2>2, <2>5 DEF N
<1> QED
  BY <1>6, <1>7

-----------------------------------------------------------------------------
(* The invariant: of one filter f, whose client was given got, and of which
   s = since[id]; and of all of them. *)

Kinds == {"NewPendingTransactions", "NewHeads", "Logs"}

Filter ==
  [kind : Kinds, criteria : FilterCriteria \cup {None}, events : Seq(Event),
   deadline : Nat, is_subscription : BOOLEAN]

Since == [blocks : Nat, transactions : Nat, polled : Nat]

Typed(f, got, s, mi) ==
  /\ f \in Filter /\ got \in Seq(Event) /\ s \in Since
  /\ f.kind = "Logs" => f.criteria \in FilterCriteria
  /\ f.deadline = s.polled + Lifetime
  /\ s.blocks <= mi

(* The latest thing there is to tell a filter. *)
Latest(kind, mi, su) == IF kind = "NewPendingTransactions" THEN su ELSE mi

Tells(f, got) == Range(got) \cup Range(f.events)

Bounded(K, latest) == \A e \in K : e[1] <= latest

Ordered(f, got) ==
  IF f.is_subscription THEN NoRepeats(got \o f.events) ELSE Increasing(got \o f.events)

Missing(s, block, si) == block.hash \in si /\ block.hash > s.blocks

KnowsLogs(c, K, s, bs, si) ==
  \A n \in 1 .. Len(bs) :
    /\ Asked(bs[n], n, c) \subseteq K \/ Missing(s, bs[n], si)
    /\ \A e \in K : e[1] = bs[n].hash => e \in Asked(bs[n], n, c)

KnowsHeads(K, s, bs, si) ==
  \A n \in 1 .. Len(bs) :
    bs[n].hash <= s.blocks \/ <<bs[n].hash, 1>> \in K \/ Missing(s, bs[n], si)

KnowsTransactions(K, s, su) == \A t \in s.transactions + 1 .. su : <<t, 1>> \in K

Knows(kind, c, K, s, bs, su, si) ==
  /\ kind = "Logs" => KnowsLogs(c, K, s, bs, si)
  /\ kind = "NewHeads" => KnowsHeads(K, s, bs, si)
  /\ kind = "NewPendingTransactions" => KnowsTransactions(K, s, su)

FilterInv(f, got, s, bs, mi, su, si) ==
  /\ Typed(f, got, s, mi)
  /\ Bounded(Tells(f, got), Latest(f.kind, mi, su))
  /\ Ordered(f, got)
  /\ Knows(f.kind, f.criteria, Tells(f, got), s, bs, su, si)

FiltersInv ==
  /\ now \in Nat /\ submitted \in Nat
  /\ Chained(chain, minted)
  /\ heads \subseteq fork_block_number .. Len(chain)
  /\ DOMAIN received = DOMAIN filters /\ DOMAIN since = DOMAIN filters
  /\ \A id \in DOMAIN filters :
       FilterInv(filters[id], received[id], since[id], chain, minted, submitted, silent)

-----------------------------------------------------------------------------
(* What one filter may be told. *)

CalledWith(f, got, t) == IF f.is_subscription THEN got \o t ELSE got

Later(T, latest) == \A e \in T : e[1] > latest

(* The filter is g, and its client has h, after it was told the events T. *)
ToldMore(f, got, s, mi, T, g, h) ==
  /\ Typed(g, h, s, mi) /\ Ordered(g, h)
  /\ Tells(g, h) = Tells(f, got) \cup T
  /\ g.kind = f.kind /\ g.criteria = f.criteria

(* News from after everything it knows keeps it in order. *)
LEMMA TellMore ==
  ASSUME NEW f, NEW got, NEW s, NEW mi \in Nat, NEW latest \in Nat,
         Typed(f, got, s, mi), Ordered(f, got), Bounded(Tells(f, got), latest),
         NEW t, NEW T, Lists(t, T), Later(T, latest)
  PROVE  ToldMore(f, got, s, mi, T, Given(f, t), CalledWith(f, got, t))
<1> USE DEF Later, ToldMore
<1> DEFINE ev == f.events
<1>1. /\ f \in Filter /\ got \in Seq(Event) /\ ev \in Seq(Event)
      /\ t \in Seq(Event) /\ Increasing(t) /\ Range(t) = T
  BY DEF Typed, Filter, Lists
<1>2. AllBefore(Tells(f, got), T)
  <2> SUFFICES ASSUME NEW d \in Tells(f, got), NEW e \in T
               PROVE  Before(d, e)
    BY DEF AllBefore
  <2>1. d \in Event /\ e \in Event
    BY <1>1, RangeOfSeq DEF Tells
  <2>2. d[1] \in Nat /\ e[1] \in Nat
    BY <2>1 DEF Event
  <2>3. d[1] <= latest /\ e[1] > latest
    BY DEF Bounded
  <2> QED
    BY <2>2, <2>3 DEF Before
<1>3. Tells(f, got) \cap T = {}
  <2> SUFFICES ASSUME NEW e \in T, e \in Tells(f, got) PROVE FALSE
    OBVIOUS
  <2>1. e \in Event
    BY <1>1, RangeOfSeq
  <2>2. e[1] \in Nat /\ e[1] <= latest /\ e[1] > latest
    BY <2>1 DEF Bounded, Event
  <2> QED
    BY <2>2
<1>4. NoRepeats(t)
  BY <1>1, IncreasingNoRepeats
<1>5. CASE f.is_subscription
  <2>1. Given(f, t) = f /\ CalledWith(f, got, t) = got \o t
    BY <1>5 DEF Given, CalledWith
  <2>2. got \o t \in Seq(Event) /\ Range(got \o t) = Range(got) \cup T
    BY <1>1, ConcatProperties, RangeConcatenation
  <2>3. NoRepeats(got) /\ NoRepeats(ev) /\ Range(got) \cap Range(ev) = {}
    BY <1>1, <1>5, NoRepeatsConcat DEF Ordered
  <2>4. NoRepeats(got \o t)
    BY <1>1, <1>3, <1>4, <2>3, NoRepeatsConcat DEF Tells
  <2>5. NoRepeats((got \o t) \o ev)
    <3>1. Range(got \o t) \cap Range(ev) = {}
      BY <1>3, <2>2, <2>3 DEF Tells
    <3> QED
      BY <1>1, <2>2, <2>3, <2>4, <3>1, NoRepeatsConcat
  <2>6. Tells(f, got \o t) = Tells(f, got) \cup T
    BY <2>2 DEF Tells
  <2>7. Typed(f, got \o t, s, mi)
    BY <2>2 DEF Typed
  <2>8. Ordered(f, got \o t)
    BY <1>5, <2>5 DEF Ordered
  <2> QED
    BY <2>1, <2>6, <2>7, <2>8
<1>6. CASE ~ f.is_subscription
  <2> DEFINE g == [f EXCEPT !.events = @ \o t]
  <2>1. Given(f, t) = g /\ CalledWith(f, got, t) = got
    BY <1>6 DEF Given, CalledWith
  <2>2. ev \o t \in Seq(Event) /\ Range(ev \o t) = Range(ev) \cup T
    BY <1>1, ConcatProperties, RangeConcatenation
  <2>3. /\ g.kind = f.kind /\ g.criteria = f.criteria /\ g.events = ev \o t
        /\ g.deadline = f.deadline /\ g.is_subscription = f.is_subscription /\ g \in Filter
    BY <1>1, <2>2 DEF Filter
  <2> HIDE DEF g
  <2>4. Typed(g, got, s, mi)
    BY <2>3 DEF Typed
  <2>5. Tells(g, got) = Tells(f, got) \cup T
    BY <2>2, <2>3 DEF Tells
  <2>6. Lists(got \o ev, Tells(f, got))
    BY <1>1, <1>6, ConcatProperties, RangeConcatenation DEF Lists, Ordered, Tells
  <2>7. Lists((got \o ev) \o t, Tells(f, got) \cup T)
    BY <1>2, <2>6, ListsMore
  <2>8. (got \o ev) \o t = got \o (ev \o t)
    <3> HIDE DEF ev
    <3> QED
      BY <1>1, ConcatAssociative
  <2>9. Ordered(g, got)
    BY <1>6, <2>3, <2>7, <2>8 DEF Ordered, Lists
  <2> QED
    BY <2>1, <2>3, <2>4, <2>5, <2>9
<1> QED
  BY <1>5, <1>6

(* A poll. *)
Polled(f, deadline) == [f EXCEPT !.events = <<>>, !.deadline = deadline]

(* What was in the filter is with the client, and the deadline has moved. *)
LEMMA TakeEvents ==
  ASSUME NEW f, NEW got, NEW s, NEW bs, NEW mi, NEW su, NEW si,
         FilterInv(f, got, s, bs, mi, su, si), NEW time \in Nat
  PROVE  FilterInv(Polled(f, time + Lifetime), got \o f.events, [s EXCEPT !.polled = time],
                   bs, mi, su, si)
<1> DEFINE ev == f.events
           g == Polled(f, time + Lifetime)
           r == [s EXCEPT !.polled = time]
           all == got \o ev
<1>0. Typed(f, got, s, mi)
  BY DEF FilterInv
<1>1. /\ f \in Filter /\ got \in Seq(Event) /\ ev \in Seq(Event) /\ s \in Since
  BY <1>0 DEF Typed, Filter
<1>2. all \in Seq(Event) /\ Range(all) = Tells(f, got)
  BY <1>1, ConcatProperties, RangeConcatenation DEF Tells
<1>3. time + Lifetime \in Nat
  BY FiltersAssumption
<1>4. /\ g \in Filter /\ g.kind = f.kind /\ g.criteria = f.criteria /\ g.events = <<>>
      /\ g.deadline = time + Lifetime /\ g.is_subscription = f.is_subscription
  <2> DEFINE h == [f EXCEPT !.events = <<>>]
             d == time + Lifetime
  <2>1. <<>> \in Seq(Event)
    OBVIOUS
  <2>2. /\ h \in Filter /\ h.kind = f.kind /\ h.criteria = f.criteria /\ h.events = <<>>
        /\ h.is_subscription = f.is_subscription
    BY <1>1, <2>1 DEF Filter
  <2>3. g = [h EXCEPT !.deadline = d]
    BY DEF Polled
  <2> HIDE DEF h, d, g
  <2>4. d \in Nat
    BY <1>3 DEF d
  <2>5. /\ g \in Filter /\ g.kind = h.kind /\ g.criteria = h.criteria /\ g.events = h.events
        /\ g.deadline = d /\ g.is_subscription = h.is_subscription
    BY <2>2, <2>3, <2>4 DEF Filter
  <2> QED
    BY <2>2, <2>5 DEF d
<1>5. r \in Since /\ r.polled = time /\ r.blocks = s.blocks /\ r.transactions = s.transactions
  BY <1>1 DEF Since
<1> HIDE DEF g, r
<1>6. Range(<<>>) = {}
  BY DEF Range
<1>7. Tells(g, all) = Tells(f, got)
  BY <1>2, <1>4, <1>6 DEF Tells
<1>8. all \o g.events = all
  BY <1>2, <1>4, ConcatEmptySeq
<1> HIDE DEF all
<1>9. Typed(g, all, r, mi)
  BY <1>0, <1>2, <1>4, <1>5 DEF Typed
<1>10. Bounded(Tells(g, all), Latest(g.kind, mi, su))
  BY <1>4, <1>7 DEF FilterInv
<1>11. Ordered(g, all)
  BY <1>4, <1>8 DEF FilterInv, Ordered, all
<1>12. Knows(g.kind, g.criteria, Tells(g, all), r, bs, su, si)
  BY <1>4, <1>5, <1>7 DEF FilterInv, Knows, KnowsLogs, KnowsHeads, KnowsTransactions, Missing
<1> QED
  BY <1>9, <1>10, <1>11, <1>12 DEF FilterInv, g, r, all

-----------------------------------------------------------------------------
(* The chain grows, and is cut. *)

Extends(bs, mi, ds, mj) ==
  /\ Chained(ds, mj) /\ mi <= mj
  /\ Len(bs) <= Len(ds)
  /\ \A n \in 1 .. Len(bs) : ds[n] = bs[n]
  /\ \A n \in Len(bs) + 1 .. Len(ds) : ds[n].hash > mi

(* The types in a chain. *)
LEMMA ChainedTypes ==
  ASSUME NEW bs, NEW mi, Chained(bs, mi)
  PROVE  /\ Len(bs) \in Nat /\ mi \in Nat /\ DOMAIN bs = 1 .. Len(bs)
         /\ \A n \in 1 .. Len(bs) :
              bs[n] \in Block /\ bs[n].hash \in Nat /\ bs[n].hash <= mi
<1>1. bs \in Seq(Block) /\ mi \in Nat
  BY DEF Chained
<1>2. Len(bs) \in Nat /\ DOMAIN bs = 1 .. Len(bs) /\ \A n \in 1 .. Len(bs) : bs[n] \in Block
  BY <1>1
<1>3. \A b \in Block : b.hash \in Nat
  BY DEF Block
<1> QED
  BY <1>1, <1>2, <1>3 DEF Chained

(* The types in a chain that has grown, and where its new blocks are. *)
LEMMA ExtendsTypes ==
  ASSUME NEW bs, NEW mi, NEW ds, NEW mj, Chained(bs, mi), Extends(bs, mi, ds, mj)
  PROVE  /\ Len(bs) \in Nat /\ Len(ds) \in Nat /\ mi \in Nat
         /\ \A n \in 1 .. Len(ds) : n \in Len(bs) + 1 .. Len(ds) \/ n \in 1 .. Len(bs)
         /\ \A n \in 1 .. Len(ds) : ds[n] \in Block /\ ds[n].hash \in Nat
         /\ \A n \in 1 .. Len(bs) : ds[n] = bs[n] /\ bs[n].hash <= mi /\ bs[n].hash \in Nat
         /\ \A n \in Len(bs) + 1 .. Len(ds) : ds[n].hash > mi
<1>1. Len(bs) \in Nat /\ mi \in Nat /\ \A n \in 1 .. Len(bs) : bs[n].hash <= mi /\ bs[n].hash \in Nat
  BY ChainedTypes
<1>2. /\ Chained(ds, mj)
      /\ \A n \in 1 .. Len(bs) : ds[n] = bs[n]
      /\ \A n \in Len(bs) + 1 .. Len(ds) : ds[n].hash > mi
  BY DEF Extends
<1>3. Len(ds) \in Nat /\ \A n \in 1 .. Len(ds) : ds[n] \in Block /\ ds[n].hash \in Nat
  BY <1>2, ChainedTypes
<1>4. \A n \in 1 .. Len(ds) : n \in Len(bs) + 1 .. Len(ds) \/ n \in 1 .. Len(bs)
  BY <1>1, <1>3
<1>5. \A n \in 1 .. Len(bs) : ds[n] = bs[n] /\ bs[n].hash <= mi /\ bs[n].hash \in Nat
  BY <1>1, <1>2
<1> QED
  BY <1>1, <1>2, <1>3, <1>4, <1>5

(* What a filter learns of a block that it is told of, with the events T. *)
Learns(kind, c, T, b, n) ==
  /\ kind = "Logs" => T = Asked(b, n, c)
  /\ kind = "NewHeads" => T = {<<b.hash, 1>>}
  /\ kind = "NewPendingTransactions" => T = {}

(* The next block is told. *)
LEMMA KnowsNext ==
  ASSUME NEW kind, NEW c, NEW K, NEW s, NEW bs, NEW mi, NEW su, NEW si,
         Knows(kind, c, K, s, bs, su, si), Bounded(K, Latest(kind, mi, su)),
         NEW ds, NEW mj, Chained(bs, mi), Extends(bs, mi, ds, mj), Len(ds) = Len(bs) + 1,
         NEW T, NEW N, N = Len(ds), Learns(kind, c, T, ds[N], N)
  PROVE  Knows(kind, c, K \cup T, s, ds, su, si)
<1>0. /\ Len(bs) \in Nat /\ N \in Nat /\ N = Len(bs) + 1 /\ mi \in Nat
      /\ \A n \in 1 .. N : n = N \/ n \in 1 .. Len(bs)
      /\ \A n \in 1 .. N : ds[n] \in Block /\ ds[n].hash \in Nat
      /\ \A n \in 1 .. Len(bs) : ds[n] = bs[n] /\ bs[n].hash <= mi /\ bs[n].hash \in Nat
      /\ ds[N].hash > mi
  <2>1. /\ Len(bs) \in Nat /\ N \in Nat /\ N = Len(bs) + 1 /\ mi \in Nat
        /\ \A n \in 1 .. N : n \in Len(bs) + 1 .. N \/ n \in 1 .. Len(bs)
        /\ \A n \in 1 .. N : ds[n] \in Block /\ ds[n].hash \in Nat
        /\ \A n \in 1 .. Len(bs) : ds[n] = bs[n] /\ bs[n].hash <= mi /\ bs[n].hash \in Nat
        /\ \A n \in Len(bs) + 1 .. N : ds[n].hash > mi
    BY ExtendsTypes
  <2> QED
    BY <2>1
<1>1. ASSUME kind = "Logs"
      PROVE  KnowsLogs(c, K \cup T, s, ds, si)
  <2>0. T = Asked(ds[N], N, c) /\ KnowsLogs(c, K, s, bs, si) /\ \A e \in K : e[1] <= mi
    BY <1>1 DEF Learns, Knows, Bounded, Latest
  <2>1. \A e \in T : e[1] = ds[N].hash
    BY <1>0, <2>0, HitsType DEF Asked
  <2> SUFFICES ASSUME NEW n \in 1 .. N
               PROVE  /\ Asked(ds[n], n, c) \subseteq K \cup T \/ Missing(s, ds[n], si)
                      /\ \A e \in K \cup T : e[1] = ds[n].hash => e \in Asked(ds[n], n, c)
    BY DEF KnowsLogs
  <2>2. CASE n = N
    <3>1. \A e \in K : e[1] # ds[n].hash
      BY <1>0, <2>0, <2>2
    <3> QED
      BY <2>0, <2>2, <3>1
  <2>3. CASE n \in 1 .. Len(bs)
    <3>1. ds[n] = bs[n] /\ ds[n].hash <= mi /\ ds[n].hash \in Nat
      BY <1>0, <2>3
    <3>2. \A e \in T : e[1] # ds[n].hash
      BY <1>0, <2>1, <3>1
    <3>3. /\ Asked(ds[n], n, c) \subseteq K \/ Missing(s, ds[n], si)
          /\ \A e \in K : e[1] = ds[n].hash => e \in Asked(ds[n], n, c)
      BY <2>0, <2>3, <3>1 DEF KnowsLogs
    <3> QED
      BY <3>2, <3>3
  <2> QED
    BY <1>0, <2>2, <2>3
<1>2. ASSUME kind = "NewHeads"
      PROVE  KnowsHeads(K \cup T, s, ds, si)
  <2>0. T = {<<ds[N].hash, 1>>} /\ KnowsHeads(K, s, bs, si)
    BY <1>2 DEF Learns, Knows
  <2> SUFFICES ASSUME NEW n \in 1 .. N
               PROVE  \/ ds[n].hash <= s.blocks \/ <<ds[n].hash, 1>> \in K \cup T
                      \/ Missing(s, ds[n], si)
    BY DEF KnowsHeads
  <2>2. CASE n = N
    BY <2>0, <2>2
  <2>3. CASE n \in 1 .. Len(bs)
    <3>1. ds[n] = bs[n]
      BY <1>0, <2>3
    <3> QED
      BY <2>0, <2>3, <3>1 DEF KnowsHeads
  <2> QED
    BY <1>0, <2>2, <2>3
<1>3. ASSUME kind = "NewPendingTransactions"
      PROVE  KnowsTransactions(K \cup T, s, su)
  BY <1>3 DEF Knows, KnowsTransactions
<1> QED
  BY <1>1, <1>2, <1>3 DEF Knows

(* Blocks are inserted that nobody is told of. *)
LEMMA KnowsSilent ==
  ASSUME NEW kind, NEW c, NEW K, NEW s, NEW bs, NEW mi, NEW su, NEW si,
         Knows(kind, c, K, s, bs, su, si), Bounded(K, Latest(kind, mi, su)),
         s \in Since, s.blocks <= mi,
         NEW ds, NEW mj, Chained(bs, mi), Extends(bs, mi, ds, mj),
         NEW sj, si \subseteq sj, \A n \in Len(bs) + 1 .. Len(ds) : ds[n].hash \in sj
  PROVE  Knows(kind, c, K, s, ds, su, sj)
<1>0. /\ Len(bs) \in Nat /\ Len(ds) \in Nat /\ mi \in Nat /\ s.blocks \in Nat
      /\ \A n \in 1 .. Len(ds) : n \in Len(bs) + 1 .. Len(ds) \/ n \in 1 .. Len(bs)
      /\ \A n \in 1 .. Len(ds) : ds[n].hash \in Nat
      /\ \A n \in 1 .. Len(bs) : ds[n] = bs[n]
      /\ \A n \in Len(bs) + 1 .. Len(ds) : ds[n].hash > mi
  BY ExtendsTypes DEF Since
<1>1. \A n \in Len(bs) + 1 .. Len(ds) : Missing(s, ds[n], sj)
  <2> TAKE n \in Len(bs) + 1 .. Len(ds)
  <2>1. n \in 1 .. Len(ds)
    BY <1>0
  <2>2. ds[n].hash \in Nat /\ ds[n].hash > mi
    BY <1>0, <2>1
  <2> QED
    BY <1>0, <2>2 DEF Missing
<1>2. \A n \in 1 .. Len(bs) : Missing(s, bs[n], si) => Missing(s, ds[n], sj)
  BY <1>0 DEF Missing
<1>3. ASSUME kind = "Logs"
      PROVE  KnowsLogs(c, K, s, ds, sj)
  <2>0. KnowsLogs(c, K, s, bs, si) /\ \A e \in K : e[1] <= mi
    BY <1>3 DEF Knows, Bounded, Latest
  <2> SUFFICES ASSUME NEW n \in 1 .. Len(ds)
               PROVE  /\ Asked(ds[n], n, c) \subseteq K \/ Missing(s, ds[n], sj)
                      /\ \A e \in K : e[1] = ds[n].hash => e \in Asked(ds[n], n, c)
    BY DEF KnowsLogs
  <2>1. CASE n \in Len(bs) + 1 .. Len(ds)
    <3>1. ds[n].hash \in Nat /\ ds[n].hash > mi
      BY <1>0, <2>1
    <3>2. \A e \in K : e[1] # ds[n].hash
      BY <1>0, <2>0, <3>1
    <3> QED
      BY <1>1, <2>1, <3>2
  <2>2. CASE n \in 1 .. Len(bs)
    <3>1. ds[n] = bs[n]
      BY <1>0, <2>2
    <3> QED
      BY <1>2, <2>0, <2>2, <3>1 DEF KnowsLogs
  <2> QED
    BY <1>0, <2>1, <2>2
<1>4. ASSUME kind = "NewHeads"
      PROVE  KnowsHeads(K, s, ds, sj)
  <2>0. KnowsHeads(K, s, bs, si)
    BY <1>4 DEF Knows
  <2> SUFFICES ASSUME NEW n \in 1 .. Len(ds)
               PROVE  \/ ds[n].hash <= s.blocks \/ <<ds[n].hash, 1>> \in K
                      \/ Missing(s, ds[n], sj)
    BY DEF KnowsHeads
  <2>1. CASE n \in Len(bs) + 1 .. Len(ds)
    BY <1>1, <2>1
  <2>2. CASE n \in 1 .. Len(bs)
    <3>1. ds[n] = bs[n]
      BY <1>0, <2>2
    <3> QED
      BY <1>2, <2>0, <2>2, <3>1 DEF KnowsHeads
  <2> QED
    BY <1>0, <2>1, <2>2
<1> QED
  BY <1>3, <1>4 DEF Knows

(* Blocks are taken back. *)
LEMMA KnowsCut ==
  ASSUME NEW kind, NEW c, NEW K, NEW s, NEW bs, NEW su, NEW si,
         Knows(kind, c, K, s, bs, su, si), Len(bs) \in Nat,
         NEW ds, Len(ds) \in Nat, Len(ds) <= Len(bs), \A n \in 1 .. Len(ds) : ds[n] = bs[n]
  PROVE  Knows(kind, c, K, s, ds, su, si)
<1>0. \A n \in 1 .. Len(ds) : n \in 1 .. Len(bs) /\ ds[n] = bs[n]
  OBVIOUS
<1>1. KnowsLogs(c, K, s, bs, si) => KnowsLogs(c, K, s, ds, si)
  BY <1>0 DEF KnowsLogs
<1>2. KnowsHeads(K, s, bs, si) => KnowsHeads(K, s, ds, si)
  BY <1>0 DEF KnowsHeads
<1> QED
  BY <1>1, <1>2 DEF Knows

-----------------------------------------------------------------------------
(* What a mined block is to a filter: the bloom filter misses nothing. *)

(* A log that matches is in a block whose bloom filter passes. *)
LEMMA BloomMissesNothing ==
  ASSUME NEW c \in FilterCriteria, NEW list \in Seq(Log), NEW more,
         NEW i \in DOMAIN list, Matches(list[i], c)
  PROVE  bloom_contains_log_filter(logs_bloom(list, more), c)
<1> DEFINE log == list[i]
           bloom == logs_bloom(list, more)
<1>0. log \in Log
  OBVIOUS
<1>1. log.topics \in Seq(Topics) /\ c.topics \in Seq({None} \cup SUBSET Topics)
  <2> HIDE DEF log
  <2> QED
    BY <1>0 DEF Log, FilterCriteria
<1>2. log.address \in bloom /\ Range(log.topics) \subseteq bloom
  BY DEF logs_bloom
<1> HIDE DEF bloom, log
<1>3. matches_address_filter(log.address, c.addresses) /\ matches_topics_filter(log.topics, c.topics)
  BY DEF Matches, log
<1>4. CASE c.addresses # {}
  BY <1>2, <1>3, <1>4 DEF matches_address_filter, bloom_contains_log_filter, bloom
<1>5. CASE c.addresses = {}
  <2>1. ASSUME NEW k \in DOMAIN c.topics, c.topics[k] # None
        PROVE  c.topics[k] \cap bloom # {}
    <3>1. k \in DOMAIN log.topics
      BY <1>1, <1>3, <2>1 DEF matches_topics_filter
    <3>2. log.topics[k] \in c.topics[k]
      BY <1>3, <2>1 DEF matches_topics_filter
    <3>3. log.topics[k] \in bloom
      BY <1>2, <3>1 DEF Range
    <3> QED
      BY <3>2, <3>3
  <2> QED
    BY <2>1 DEF bloom_contains_log_filter, bloom
<1> QED
  BY <1>4, <1>5

(* The events t tell a filter everything about a block, and nothing else. *)
Reports(t, kind, c, b, n) ==
  \E T : Lists(t, T) /\ Learns(kind, c, T, b, n) /\ \A e \in T : e[1] = b.hash

(* News tells a filter what it has asked for, bloom filter or not. *)
LEMMA NewsAre ==
  ASSUME NEW f \in Filter, f.kind = "Logs" => f.criteria \in FilterCriteria,
         NEW b \in Block, NEW more, NEW n
  PROVE  Reports(News(f, b, logs_bloom(b.logs, more), n), f.kind, f.criteria, b, n)
<1> DEFINE bloom == logs_bloom(b.logs, more)
           c == f.criteria
<1>0. b.hash \in Nat /\ b.logs \in Seq(Log) /\ f.kind \in Kinds
  BY DEF Block, Filter
<1>1. CASE f.kind = "NewHeads"
  <2>1. News(f, b, bloom, n) = << <<b.hash, 1>> >>
    BY <1>1 DEF News
  <2>2. <<b.hash, 1>> \in Event
    BY <1>0 DEF Event
  <2>3. Lists(News(f, b, bloom, n), {<<b.hash, 1>>})
    BY <2>1, <2>2, ListsOne
  <2>4. Learns(f.kind, c, {<<b.hash, 1>>}, b, n)
    BY <1>1 DEF Learns
  <2> QED
    BY <2>3, <2>4 DEF Reports
<1>2. CASE f.kind = "NewPendingTransactions"
  <2>1. News(f, b, bloom, n) = <<>>
    BY <1>2 DEF News
  <2>2. Learns(f.kind, c, {}, b, n)
    BY <1>2 DEF Learns
  <2> QED
    BY <2>1, <2>2, ListsNothing DEF Reports
<1>3. CASE f.kind = "Logs"
  <2>0. c \in FilterCriteria
    BY <1>3
  <2>1. News(f, b, bloom, n) = IF bloom_contains_log_filter(bloom, c) /\ InRange(n, c)
                               THEN Matching(b, c) ELSE <<>>
    BY <1>3 DEF News, filter_logs
  <2> HIDE DEF bloom, c
  <2>2. Lists(News(f, b, bloom, n), Asked(b, n, c))
    <3>1. CASE bloom_contains_log_filter(bloom, c) /\ InRange(n, c)
      BY <2>1, <3>1, MatchingIs DEF Asked
    <3>2. CASE ~ InRange(n, c)
      BY <2>1, <3>2, ListsNothing DEF Asked
    <3>3. CASE ~ bloom_contains_log_filter(bloom, c)
      <4>1. Hits(b, c) = {}
        BY <1>0, <2>0, <3>3, BloomMissesNothing DEF Hits, bloom
      <4> QED
        BY <2>1, <3>3, <4>1, ListsNothing DEF Asked
    <3> QED
      BY <3>1, <3>2, <3>3
  <2>3. Learns(f.kind, c, Asked(b, n, c), b, n)
    BY <1>3 DEF Learns
  <2>4. \A e \in Asked(b, n, c) : e[1] = b.hash
    BY HitsType DEF Asked
  <2> QED
    BY <2>2, <2>3, <2>4 DEF bloom, c, Reports
<1> QED
  BY <1>0, <1>1, <1>2, <1>3 DEF Kinds

-----------------------------------------------------------------------------
(* InsertBlocks. *)

Blocks(mi, list) == [i \in 1 .. Len(list) |-> [hash |-> mi + i, logs |-> list[i]]]

BuiltOn(bs, mi, list, ds) ==
  /\ Len(ds) = Len(bs) + Len(list)
  /\ \A n \in Len(bs) + 1 .. Len(ds) :
       /\ ds[n].hash = mi + (n - Len(bs)) /\ n - Len(bs) \in 1 .. Len(list)
       /\ ds[n].logs = list[n - Len(bs)]

(* The blocks that are appended are new, and in order. *)
LEMMA BlocksExtend ==
  ASSUME NEW bs, NEW mi, Chained(bs, mi), NEW list \in Seq(Seq(Log)),
         NEW ds, NEW mj, ds = bs \o Blocks(mi, list), mj = mi + Len(list)
  PROVE  Extends(bs, mi, ds, mj) /\ BuiltOn(bs, mi, list, ds)
<1> DEFINE l == Len(bs)
           m == Len(list)
           new == Blocks(mi, list)
<1>1. /\ l \in Nat /\ mi \in Nat /\ m \in Nat /\ bs \in Seq(Block) /\ fork_block_number <= l
      /\ \A n \in 1 .. l : bs[n] \in Block /\ bs[n].hash \in Nat /\ bs[n].hash <= mi
      /\ \A n, k \in 1 .. l : n < k => bs[n].hash < bs[k].hash
  <2>1. /\ l \in Nat /\ mi \in Nat
        /\ \A n \in 1 .. l : bs[n] \in Block /\ bs[n].hash \in Nat /\ bs[n].hash <= mi
    BY ChainedTypes
  <2>2. /\ bs \in Seq(Block) /\ fork_block_number <= l
        /\ \A n, k \in 1 .. l : n < k => bs[n].hash < bs[k].hash
    BY DEF Chained
  <2>3. m \in Nat
    OBVIOUS
  <2> QED
    BY <2>1, <2>2, <2>3
<1>1a. mj = mi + m
  OBVIOUS
<1>1c. /\ \A x, y, z \in Nat : x <= y /\ y <= z => x <= z
       /\ \A x, y, z \in Nat : x <= y /\ z > y => x < z
  OBVIOUS
<1>1b. mi \in Nat /\ m \in Nat /\ l \in Nat
  BY <1>1
<1>2. new \in Seq(Block) /\ Len(new) = m
      /\ \A i \in 1 .. m : new[i].hash = mi + i /\ new[i].logs = list[i]
  <2>1. \A i \in 1 .. m : [hash |-> mi + i, logs |-> list[i]] \in Block
    BY <1>1 DEF Block
  <2> QED
    BY <1>1, <2>1 DEF Blocks
<1> HIDE DEF new
<1>3. /\ ds \in Seq(Block) /\ DOMAIN ds = 1 .. l + m
      /\ \A i \in 1 .. l : ds[i] = bs[i]
      /\ \A i \in l + 1 .. l + m : i - l \in 1 .. m /\ ds[i] = new[i - l]
  <2>1. ds = bs \o new
    BY DEF new
  <2>2. bs \in Seq(Block) /\ new \in Seq(Block) /\ l = Len(bs) /\ m = Len(new)
    BY <1>1, <1>2
  <2> HIDE DEF l, m
  <2> QED
    BY <2>1, <2>2, ConcatPositions
<1>4. Len(ds) = l + m
  BY <1>1, <1>3
<1> HIDE DEF l, m
<1>5. \A n \in l + 1 .. l + m :
        ds[n].hash = mi + (n - l) /\ n - l \in 1 .. m /\ ds[n].logs = list[n - l]
  BY <1>2, <1>3
<1>6. \A n \in 1 .. l + m : n \in 1 .. l \/ n \in l + 1 .. l + m
  BY <1>1
<1>7. \A n \in l + 1 .. l + m : ds[n].hash \in Nat /\ ds[n].hash > mi /\ ds[n].hash <= mj
  <2> TAKE n \in l + 1 .. l + m
  <2>1. ds[n].hash = mi + (n - l) /\ n - l \in 1 .. m
    BY <1>5
  <2>2. \A x \in 1 .. m : mi + x \in Nat /\ mi + x > mi /\ mi + x <= mj
    BY <1>1a, <1>1b
  <2> QED
    BY <2>1, <2>2
<1>8. \A n \in 1 .. l : ds[n].hash \in Nat /\ ds[n].hash <= mi
  BY <1>1, <1>3
<1>9. mj \in Nat /\ mi <= mj /\ fork_block_number <= l + m
  BY <1>1, <1>1a, ForkType
<1>10. \A n \in 1 .. l + m : ds[n].hash <= mj
  <2> TAKE n \in 1 .. l + m
  <2>1. CASE n \in 1 .. l
    <3>1. ds[n].hash \in Nat /\ ds[n].hash <= mi
      BY <1>8, <2>1
    <3> QED
      BY <1>1b, <1>1c, <1>9, <3>1, Zenon
  <2>2. CASE n \in l + 1 .. l + m
    BY <1>7, <2>2
  <2> QED
    BY <1>6, <2>1, <2>2
<1>11. ASSUME NEW n \in 1 .. l + m, NEW k \in 1 .. l + m, n < k
       PROVE  ds[n].hash < ds[k].hash
  <2>1. CASE k \in 1 .. l
    <3>1. n \in 1 .. l
      BY <1>1, <1>11, <2>1
    <3> QED
      BY <1>1, <1>3, <1>11, <2>1, <3>1
  <2>2. CASE n \in 1 .. l /\ k \in l + 1 .. l + m
    <3>1. /\ ds[n].hash \in Nat /\ ds[n].hash <= mi
          /\ ds[k].hash \in Nat /\ ds[k].hash > mi
      BY <1>7, <1>8, <2>2
    <3> QED
      BY <1>1b, <1>1c, <3>1, Zenon
  <2>3. CASE n \in l + 1 .. l + m /\ k \in l + 1 .. l + m
    <3>1. ds[n].hash = mi + (n - l) /\ ds[k].hash = mi + (k - l)
      BY <1>5, <2>3
    <3> QED
      BY <1>1, <1>11, <3>1
  <2> QED
    BY <1>6, <1>11, <2>1, <2>2, <2>3
<1>12. Chained(ds, mj)
  BY <1>3, <1>4, <1>9, <1>10, <1>11 DEF Chained
<1>13. l <= l + m
  BY <1>1
<1>14. Extends(bs, mi, ds, mj)
  BY <1>3, <1>4, <1>7, <1>9, <1>12, <1>13 DEF Extends, l
<1> QED
  BY <1>4, <1>5, <1>14 DEF l, m, BuiltOn

(* So InsertBlocks extends the chain. *)
LEMMA InsertExtends ==
  ASSUME FiltersInv, NEW list \in Seq(Seq(Log)), InsertBlocks(list)
  PROVE  /\ Extends(chain, minted, chain', minted')
         /\ BuiltOn(chain, minted, list, chain')
         /\ minted' = minted + Len(list)
         /\ heads' \subseteq fork_block_number .. Len(chain')
<1>1. Chained(chain, minted) /\ heads \subseteq fork_block_number .. Len(chain)
  BY DEF FiltersInv
<1>2. NewBlocks(list) = Blocks(minted, list)
  BY DEF NewBlocks, Blocks
<1>3. /\ chain' = chain \o Blocks(minted, list) /\ minted' = minted + Len(list)
      /\ heads' = heads \cup {Len(chain) + Len(list)}
  BY <1>2 DEF InsertBlocks
<1>4. /\ Extends(chain, minted, chain', minted')
      /\ BuiltOn(chain, minted, list, chain')
  BY <1>1, <1>3, BlocksExtend
<1>5. Len(chain) \in Nat /\ Len(list) \in Nat /\ fork_block_number <= Len(chain)
  BY <1>1, ChainedTypes DEF Chained
<1>6. heads' \subseteq fork_block_number .. Len(chain')
  <2> DEFINE l == Len(chain)
             m == Len(list)
             L == Len(chain')
  <2>1. l \in Nat /\ m \in Nat /\ fork_block_number <= l /\ L = l + m
        /\ heads' = heads \cup {l + m} /\ heads \subseteq fork_block_number .. l
    BY <1>1, <1>3, <1>4, <1>5 DEF BuiltOn
  <2> HIDE DEF l, m, L
  <2>2. heads' \subseteq fork_block_number .. L
    BY <2>1, ForkType
  <2> QED
    BY <2>2 DEF L
<1> QED
  BY <1>3, <1>4, <1>6

-----------------------------------------------------------------------------
(* The invariant holds at first. *)

(* No filter, and the chain of the remote node. *)
LEMMA InitInv == Init => FiltersInv
<1> SUFFICES ASSUME Init PROVE FiltersInv
  OBVIOUS
<1> DEFINE F == fork_block_number
<1>1. /\ F \in Nat /\ RemoteLogs \in Seq(Seq(Log)) /\ Len(RemoteLogs) = F
  BY FiltersAssumption
<1>2. \A n \in 1 .. F : RemoteLogs[n] \in Seq(Log)
  BY <1>1
<1>3. chain = [n \in 1 .. F |-> [hash |-> n, logs |-> RemoteLogs[n]]] /\ minted = F
  BY DEF Init
<1> HIDE DEF F
<1>4. \A n \in 1 .. F : chain[n] \in Block /\ chain[n].hash = n
  <2> TAKE n \in 1 .. F
  <2>1. chain[n] = [hash |-> n, logs |-> RemoteLogs[n]] /\ n \in Nat
    BY <1>1, <1>3
  <2> QED
    BY <1>2, <2>1 DEF Block
<1>5. chain \in Seq(Block) /\ Len(chain) = F
  <2>1. chain \in [1 .. F -> Block]
    BY <1>3, <1>4
  <2> QED
    BY <1>1, <2>1
<1>6. Chained(chain, minted)
  BY <1>1, <1>3, <1>4, <1>5 DEF Chained, F
<1>7. heads \subseteq fork_block_number .. Len(chain)
  BY <1>1, <1>5 DEF Init, F
<1>8. /\ now \in Nat /\ submitted \in Nat
      /\ DOMAIN filters = {} /\ DOMAIN received = {} /\ DOMAIN since = {}
  BY DEF Init
<1> QED
  BY <1>6, <1>7, <1>8 DEF FiltersInv

-----------------------------------------------------------------------------
(* Filters are created. *)

NewFilter(kind, c, events, deadline, sub) ==
  [kind |-> kind, criteria |-> c, events |-> events, deadline |-> deadline,
   is_subscription |-> sub]

NewSince(mi, su, time) == [blocks |-> mi, transactions |-> su, polled |-> time]

(* A filter that starts with the events it should know satisfies the invariant. *)
LEMMA NewFilterInv ==
  ASSUME NEW kind \in Kinds, NEW c \in FilterCriteria \cup {None},
         kind = "Logs" => c \in FilterCriteria,
         NEW events, NEW T, Lists(events, T), NEW sub \in BOOLEAN, NEW time \in Nat,
         NEW bs, NEW mi \in Nat, NEW su \in Nat, NEW si,
         Bounded(T, Latest(kind, mi, su)),
         Knows(kind, c, T, NewSince(mi, su, time), bs, su, si)
  PROVE  FilterInv(NewFilter(kind, c, events, time + Lifetime, sub), <<>>,
                   NewSince(mi, su, time), bs, mi, su, si)
<1> DEFINE f == NewFilter(kind, c, events, time + Lifetime, sub)
           s == NewSince(mi, su, time)
<1>1. events \in Seq(Event) /\ Increasing(events) /\ Range(events) = T
  BY DEF Lists
<1>2. time + Lifetime \in Nat
  BY FiltersAssumption
<1>3. /\ f.kind = kind /\ f.criteria = c /\ f.events = events
      /\ f.deadline = time + Lifetime /\ f.is_subscription = sub
  BY DEF NewFilter
<1>4. f \in Filter
  BY <1>1, <1>2 DEF NewFilter, Filter
<1>5. s \in Since /\ s.polled = time /\ s.blocks = mi
  BY DEF NewSince, Since
<1> HIDE DEF f, s
<1>6. <<>> \in Seq(Event) /\ Range(<<>>) = {} /\ <<>> \o f.events = f.events
  BY <1>1, <1>3, ConcatEmptySeq DEF Range
<1>7. Tells(f, <<>>) = T
  BY <1>1, <1>3, <1>6 DEF Tells
<1>8. Typed(f, <<>>, s, mi)
  BY <1>3, <1>4, <1>5, <1>6 DEF Typed
<1>9. Ordered(f, <<>>)
  BY <1>1, <1>3, <1>6, IncreasingNoRepeats DEF Ordered
<1> QED
  BY <1>3, <1>7, <1>8, <1>9 DEF FilterInv, f, s

(* Installing it leaves the others alone. *)
LEMMA InstallInv ==
  ASSUME FiltersInv, NEW kind, NEW c, NEW events, NEW sub, Install(kind, c, events, sub),
         FilterInv(NewFilter(kind, c, events, now + Lifetime, sub), <<>>,
                   NewSince(minted, submitted, now), chain, minted, submitted, silent)
  PROVE  FiltersInv'
<1> DEFINE f == NewFilter(kind, c, events, now + Lifetime, sub)
           s == NewSince(minted, submitted, now)
           k == last_filter_id + 1
<1>1. /\ filters' = Put(filters, k, f) /\ received' = Put(received, k, <<>>)
      /\ since' = Put(since, k, s)
      /\ UNCHANGED <<now, chain, minted, heads, silent, submitted>>
  BY DEF Install, NewFilter, NewSince, new_filter_deadline, blocks
<1>2. FilterInv(f, <<>>, s, chain, minted, submitted, silent)
  OBVIOUS
<1> HIDE DEF f, s, k
<1>3. DOMAIN received = DOMAIN filters /\ DOMAIN since = DOMAIN filters
  BY DEF FiltersInv
<1>4. /\ DOMAIN filters' = DOMAIN filters \cup {k} /\ DOMAIN received' = DOMAIN filters \cup {k}
      /\ DOMAIN since' = DOMAIN filters \cup {k}
      /\ filters'[k] = f /\ received'[k] = <<>> /\ since'[k] = s
      /\ \A id \in DOMAIN filters : id # k =>
           filters'[id] = filters[id] /\ received'[id] = received[id] /\ since'[id] = since[id]
  BY <1>1, <1>3 DEF Put
<1>5. ASSUME NEW id \in DOMAIN filters'
      PROVE  FilterInv(filters'[id], received'[id], since'[id], chain', minted', submitted', silent')
  <2>1. CASE id = k
    BY <1>1, <1>2, <1>4, <2>1
  <2>2. CASE id # k
    BY <1>1, <1>4, <2>2 DEF FiltersInv
  <2> QED
    BY <2>1, <2>2
<1> QED
  BY <1>1, <1>4, <1>5 DEF FiltersInv

(* validate_filter_criteria returns criteria. *)
LEMMA CriteriaType ==
  ASSUME Chained(chain, minted), NEW options \in LogFilterOptions
  PROVE  Criteria(options) \in FilterCriteria
<1>1. Len(chain) \in Nat
  BY ChainedTypes
<1>2. /\ options.from_block \in Nat \cup {None} /\ options.to_block \in Nat \cup {None}
      /\ options.addresses \in SUBSET Addresses
      /\ options.topics \in Seq({None} \cup SUBSET Topics)
  BY FiltersAssumption
<1> DEFINE top == options.topics
           type == Seq({None} \cup SUBSET Topics)
<1>3. top \in type
  BY <1>2
<1> HIDE DEF top, type
<1>4. Criteria(options) = [from_block |-> IF options.from_block = None THEN Len(chain) ELSE options.from_block,
                           to_block |-> options.to_block, addresses |-> options.addresses,
                           topics |-> top]
  BY DEF Criteria, last_block_number, top
<1>5. Criteria(options) \in [from_block : Nat, to_block : Nat \cup {None},
                             addresses : SUBSET Addresses, topics : type]
  BY <1>1, <1>2, <1>3, <1>4
<1> QED
  BY <1>5 DEF FilterCriteria, type

(* eth_newPendingTransactionFilter. *)
LEMMA NewPendingTransactionInv ==
  ASSUME FiltersInv, NEW sub \in BOOLEAN, NewPendingTransactionFilter(sub)
  PROVE  FiltersInv'
<1> DEFINE kind == "NewPendingTransactions"
<1>1. Install(kind, None, <<>>, sub)
  BY DEF NewPendingTransactionFilter
<1>2. now \in Nat /\ submitted \in Nat /\ minted \in Nat
  BY DEF FiltersInv, Chained
<1>3. Bounded({}, Latest(kind, minted, submitted))
  BY DEF Bounded
<1>4. Knows(kind, None, {}, NewSince(minted, submitted, now), chain, submitted, silent)
  BY <1>2 DEF Knows, KnowsTransactions, NewSince
<1>5. kind \in Kinds /\ kind # "Logs"
  BY DEF Kinds
<1> HIDE DEF kind
<1> QED
  BY <1>1, <1>2, <1>3, <1>4, <1>5, ListsNothing, NewFilterInv, InstallInv

(* eth_newBlockFilter: every block so far is from before it. *)
LEMMA NewBlockInv ==
  ASSUME FiltersInv, NEW sub \in BOOLEAN, NewBlockFilter(sub)
  PROVE  FiltersInv'
<1> DEFINE kind == "NewHeads"
           e == <<chain[Len(chain)].hash, 1>>
<1>1. Install(kind, None, <<e>>, sub)
  BY DEF NewBlockFilter, last_block_number
<1>2. now \in Nat /\ submitted \in Nat /\ minted \in Nat /\ Chained(chain, minted)
  BY DEF FiltersInv, Chained
<1>3. Len(chain) \in 1 .. Len(chain)
  BY <1>2, ForkType, ChainedTypes DEF Chained
<1>4. chain[Len(chain)].hash \in Nat /\ chain[Len(chain)].hash <= minted
  BY <1>2, <1>3, ChainedTypes
<1>5. Lists(<<e>>, {e}) /\ Bounded({e}, minted)
  BY <1>4, ListsOne DEF Event, Bounded
<1>6. Bounded({e}, Latest(kind, minted, submitted))
  BY <1>5 DEF Latest
<1>7. Knows(kind, None, {e}, NewSince(minted, submitted, now), chain, submitted, silent)
  BY <1>2, ChainedTypes DEF Knows, KnowsHeads, NewSince
<1>8. kind \in Kinds /\ kind # "Logs"
  BY DEF Kinds
<1> HIDE DEF kind, e
<1> QED
  BY <1>1, <1>2, <1>5, <1>6, <1>7, <1>8, NewFilterInv, InstallInv

(* eth_newFilter: the backlog is all there is to know. *)
LEMMA NewLogInv ==
  ASSUME FiltersInv, NEW options \in LogFilterOptions, NEW sub \in BOOLEAN,
         NewLogFilter(options, sub)
  PROVE  FiltersInv'
<1> DEFINE kind == "Logs"
           c == Criteria(options)
           T == UNION {Asked(chain[n], n, c) : n \in 1 .. Len(chain)}
<1>1. Install(kind, c, logs(c), sub)
  BY DEF NewLogFilter
<1>2. now \in Nat /\ submitted \in Nat /\ minted \in Nat /\ Chained(chain, minted)
  BY DEF FiltersInv, Chained
<1>3. c \in FilterCriteria
  BY <1>2, CriteriaType
<1> HIDE DEF c
<1>4. Lists(logs(c), T)
  BY <1>2, <1>3, LogsAre
<1>5. \A n \in 1 .. Len(chain) : \A e \in Asked(chain[n], n, c) : e[1] = chain[n].hash
  BY <1>2, ChainedTypes, HitsType DEF Asked
<1>6. \A n \in 1 .. Len(chain) : chain[n].hash <= minted /\ chain[n].hash \in Nat
  BY <1>2, ChainedTypes
<1>7. \A m, n \in 1 .. Len(chain) : chain[m].hash = chain[n].hash => m = n
  <2> SUFFICES ASSUME NEW m \in 1 .. Len(chain), NEW n \in 1 .. Len(chain), m # n
               PROVE  chain[m].hash # chain[n].hash
    OBVIOUS
  <2>1. m \in Int /\ n \in Int
    OBVIOUS
  <2>2. m < n \/ n < m
    BY <2>1
  <2>3. chain[m].hash < chain[n].hash \/ chain[n].hash < chain[m].hash
    BY <1>2, <2>2 DEF Chained
  <2>4. chain[m].hash \in Nat /\ chain[n].hash \in Nat
    BY <1>6
  <2> QED
    BY <2>3, <2>4
<1>8. Bounded(T, Latest(kind, minted, submitted))
  BY <1>5, <1>6 DEF Bounded, Latest
<1>9. KnowsLogs(c, T, NewSince(minted, submitted, now), chain, silent)
  BY <1>5, <1>7 DEF KnowsLogs
<1>10. Knows(kind, c, T, NewSince(minted, submitted, now), chain, submitted, silent)
  BY <1>9 DEF Knows
<1>11. kind \in Kinds
  BY DEF Kinds
<1> HIDE DEF kind, T
<1> QED
  BY <1>1, <1>2, <1>3, <1>4, <1>8, <1>10, <1>11, NewFilterInv, InstallInv

-----------------------------------------------------------------------------
(* They are polled and removed. *)

(* A poll changes one filter. *)
LEMMA TakeInv ==
  ASSUME FiltersInv, NEW id \in DOMAIN filters, take_events(id),
         UNCHANGED <<now, blocks, submitted, last_filter_id>>
  PROVE  FiltersInv'
<1> DEFINE f == filters[id]
           got == received[id]
           s == since[id]
<1>1. /\ received' = [received EXCEPT ![id] = got \o f.events]
      /\ since' = [since EXCEPT ![id] = [s EXCEPT !.polled = now]]
      /\ filters' = [filters EXCEPT ![id] = Polled(f, now + Lifetime)]
  BY DEF take_events, Polled, new_filter_deadline
<1>2. UNCHANGED <<now, chain, minted, heads, silent, submitted>>
  BY DEF blocks
<1>3. DOMAIN received = DOMAIN filters /\ DOMAIN since = DOMAIN filters /\ now \in Nat
  BY DEF FiltersInv
<1>4. FilterInv(f, got, s, chain, minted, submitted, silent)
  BY DEF FiltersInv
<1>5. FilterInv(Polled(f, now + Lifetime), got \o f.events, [s EXCEPT !.polled = now],
                chain, minted, submitted, silent)
  BY <1>3, <1>4, TakeEvents
<1>6. /\ DOMAIN filters' = DOMAIN filters /\ DOMAIN received' = DOMAIN filters
      /\ DOMAIN since' = DOMAIN filters
      /\ filters'[id] = Polled(f, now + Lifetime) /\ received'[id] = got \o f.events
      /\ since'[id] = [s EXCEPT !.polled = now]
      /\ \A k \in DOMAIN filters : k # id =>
           filters'[k] = filters[k] /\ received'[k] = received[k] /\ since'[k] = since[k]
  BY <1>1, <1>3
<1> HIDE DEF f, got, s
<1>7. ASSUME NEW k \in DOMAIN filters'
      PROVE  FilterInv(filters'[k], received'[k], since'[k], chain', minted', submitted', silent')
  <2>1. CASE k = id
    BY <1>2, <1>5, <1>6, <2>1
  <2>2. CASE k # id
    BY <1>2, <1>6, <2>2 DEF FiltersInv
  <2> QED
    BY <2>1, <2>2
<1> QED
  BY <1>2, <1>6, <1>7 DEF FiltersInv

(* A filter is removed. *)
LEMMA RemoveInv ==
  ASSUME FiltersInv, NEW id, NEW sub, RemoveFilter(id, sub)
  PROVE  FiltersInv'
<1> DEFINE ids == DOMAIN filters \ {id}
<1>1. /\ filters' = [k \in ids |-> filters[k]]
      /\ received' = [k \in ids |-> received[k]]
      /\ since' = [k \in ids |-> since[k]]
      /\ UNCHANGED <<now, chain, minted, heads, silent, submitted>>
  BY DEF RemoveFilter, Retain, blocks
<1> QED
  BY <1>1 DEF FiltersInv

-----------------------------------------------------------------------------
(* They are told of transactions and of blocks. *)

(* The parts of the invariant of one filter. *)
LEMMA FilterTypes ==
  ASSUME NEW f, NEW got, NEW s, NEW bs, NEW mi, NEW su, NEW si,
         FilterInv(f, got, s, bs, mi, su, si)
  PROVE  /\ Typed(f, got, s, mi) /\ Ordered(f, got)
         /\ Bounded(Tells(f, got), Latest(f.kind, mi, su))
         /\ Knows(f.kind, f.criteria, Tells(f, got), s, bs, su, si)
         /\ f \in Filter /\ f.kind \in Kinds /\ s \in Since /\ s.blocks <= mi
         /\ f.kind = "Logs" => f.criteria \in FilterCriteria
         /\ Tells(f, got) \subseteq Event
<1>1. Typed(f, got, s, mi)
  BY DEF FilterInv
<1>2. f \in Filter /\ got \in Seq(Event) /\ s \in Since
  BY <1>1 DEF Typed
<1>3. f.kind \in Kinds /\ f.events \in Seq(Event)
  BY <1>2 DEF Filter
<1>4. Tells(f, got) \subseteq Event
  BY <1>2, <1>3, RangeOfSeq DEF Tells
<1> QED
  BY <1>1, <1>2, <1>3, <1>4 DEF FilterInv, Typed

(* A transaction is submitted. *)
Announced(f, t) == IF f.kind = "NewPendingTransactions" THEN << <<t, 1>> >> ELSE <<>>

(* One filter is told, if it waits for transactions. *)
LEMMA AnnounceInv ==
  ASSUME NEW f, NEW got, NEW s, NEW bs, NEW mi \in Nat, NEW su \in Nat, NEW si,
         FilterInv(f, got, s, bs, mi, su, si), NEW tx, tx = su + 1
  PROVE  FilterInv(Given(f, Announced(f, tx)), CalledWith(f, got, Announced(f, tx)),
                   s, bs, mi, tx, si)
<1> DEFINE t == Announced(f, tx)
           K == Tells(f, got)
<1>1. /\ Typed(f, got, s, mi) /\ Ordered(f, got) /\ Bounded(K, Latest(f.kind, mi, su))
      /\ Knows(f.kind, f.criteria, K, s, bs, su, si)
      /\ f.kind \in Kinds /\ s \in Since /\ K \subseteq Event
  BY FilterTypes
<1>2. tx \in Nat /\ s.transactions \in Nat
  BY <1>1 DEF Since
<1>3. CASE f.kind = "NewPendingTransactions"
  <2>1. t = << <<tx, 1>> >> /\ <<tx, 1>> \in Event
    BY <1>2, <1>3 DEF Announced, Event
  <2>2. Lists(t, {<<tx, 1>>}) /\ Later({<<tx, 1>>}, su)
    BY <2>1, ListsOne DEF Later
  <2>3. Bounded(K, su) /\ KnowsTransactions(K, s, su)
    BY <1>1, <1>3 DEF Latest, Knows
  <2> HIDE DEF t, K
  <2> DEFINE g == Given(f, t)
             h == CalledWith(f, got, t)
  <2>4. Typed(g, h, s, mi) /\ Ordered(g, h) /\ Tells(g, h) = K \cup {<<tx, 1>>}
        /\ g.kind = f.kind /\ g.criteria = f.criteria
    <3>1. ToldMore(f, got, s, mi, {<<tx, 1>>}, g, h)
      BY <1>1, <2>2, <2>3, TellMore DEF K
    <3> QED
      BY <3>1 DEF ToldMore, K
  <2> HIDE DEF g, h
  <2>5. Bounded(Tells(g, h), tx)
    <3> SUFFICES ASSUME NEW e \in K \cup {<<tx, 1>>} PROVE e[1] <= tx
      BY <2>4 DEF Bounded
    <3>1. CASE e \in K
      <4>1. e[1] \in Nat /\ e[1] <= su
        BY <1>1, <2>3, <3>1 DEF Event, Bounded, K
      <4> QED
        BY <4>1
    <3>2. CASE e = <<tx, 1>>
      BY <1>2, <3>2
    <3> QED
      BY <3>1, <3>2
  <2>6. KnowsTransactions(Tells(g, h), s, tx)
    <3> SUFFICES ASSUME NEW x \in s.transactions + 1 .. tx PROVE <<x, 1>> \in K \cup {<<tx, 1>>}
      BY <2>4 DEF KnowsTransactions
    <3>1. x = tx \/ x \in s.transactions + 1 .. su
      BY <1>2
    <3> QED
      BY <2>3, <3>1 DEF KnowsTransactions
  <2>7. Knows(g.kind, g.criteria, Tells(g, h), s, bs, tx, si)
    BY <1>3, <2>4, <2>6 DEF Knows
  <2>8. Bounded(Tells(g, h), Latest(g.kind, mi, tx))
    BY <1>3, <2>4, <2>5 DEF Latest
  <2> QED
    BY <2>4, <2>7, <2>8 DEF FilterInv, g, h, t
<1>4. CASE f.kind # "NewPendingTransactions"
  <2>1. t = <<>> /\ Lists(t, {}) /\ Later({}, mi)
    BY <1>4, ListsNothing DEF Announced, Later
  <2>2. Bounded(K, mi)
    BY <1>1, <1>4 DEF Latest
  <2> HIDE DEF t, K
  <2> DEFINE g == Given(f, t)
             h == CalledWith(f, got, t)
  <2>4. Typed(g, h, s, mi) /\ Ordered(g, h) /\ Tells(g, h) = K
        /\ g.kind = f.kind /\ g.criteria = f.criteria
    <3>1. ToldMore(f, got, s, mi, {}, g, h)
      BY <1>1, <2>1, <2>2, TellMore DEF K
    <3> QED
      BY <3>1 DEF ToldMore, K
  <2> HIDE DEF g, h
  <2>5. Bounded(Tells(g, h), Latest(g.kind, mi, tx))
    BY <1>4, <2>2, <2>4 DEF Latest
  <2>6. Knows(g.kind, g.criteria, Tells(g, h), s, bs, tx, si)
    BY <1>1, <1>4, <2>4 DEF Knows
  <2> QED
    BY <2>4, <2>5, <2>6 DEF FilterInv, g, h, t
<1> QED
  BY <1>3, <1>4

(* All of them are. *)
LEMMA AddPendingTransactionInv ==
  ASSUME FiltersInv, AddPendingTransaction
  PROVE  FiltersInv'
<1> DEFINE t(id) == Announced(filters[id], submitted + 1)
<1>1. /\ submitted' = submitted + 1 /\ submitted \in Nat /\ minted \in Nat
      /\ UNCHANGED <<now, chain, minted, heads, silent, since>>
  BY DEF AddPendingTransaction, FiltersInv, Chained, blocks
<1>2. /\ filters' = [id \in DOMAIN filters |-> Given(filters[id], t(id))]
      /\ received' = [id \in DOMAIN filters |-> CalledWith(filters[id], received[id], t(id))]
  BY DEF AddPendingTransaction, Announced, Called, CalledWith
<1>3. ASSUME NEW id \in DOMAIN filters
      PROVE  FilterInv(filters'[id], received'[id], since'[id], chain', minted', submitted', silent')
  <2>1. FilterInv(filters[id], received[id], since[id], chain, minted, submitted, silent)
    BY <1>3 DEF FiltersInv
  <2>2. FilterInv(Given(filters[id], t(id)), CalledWith(filters[id], received[id], t(id)), since[id],
                  chain, minted, submitted + 1, silent)
    BY <1>1, <2>1, AnnounceInv
  <2>3. filters'[id] = Given(filters[id], t(id))
        /\ received'[id] = CalledWith(filters[id], received[id], t(id))
    BY <1>2
  <2> HIDE DEF t
  <2> QED
    BY <1>1, <2>2, <2>3
<1>4. DOMAIN filters' = DOMAIN filters /\ DOMAIN received' = DOMAIN filters
  BY <1>2
<1> QED
  BY <1>1, <1>3, <1>4 DEF FiltersInv

(* A block is mined. *)
LEMMA MinedInv ==
  ASSUME NEW f, NEW got, NEW s, NEW bs, NEW mi, NEW su \in Nat, NEW si,
         FilterInv(f, got, s, bs, mi, su, si), Chained(bs, mi),
         NEW ds, NEW mj, Extends(bs, mi, ds, mj), NEW N, N = Len(ds), N = Len(bs) + 1,
         NEW more, NEW t, t = News(f, ds[N], logs_bloom(ds[N].logs, more), N)
  PROVE  FilterInv(Given(f, t), CalledWith(f, got, t), s, ds, mj, su, si)
<1> DEFINE K == Tells(f, got)
           g == Given(f, t)
           h == CalledWith(f, got, t)
           latest == Latest(f.kind, mi, su)
<1>1. /\ Typed(f, got, s, mi) /\ Ordered(f, got) /\ Bounded(K, latest)
      /\ Knows(f.kind, f.criteria, K, s, bs, su, si)
      /\ f \in Filter /\ f.kind \in Kinds /\ s \in Since /\ s.blocks <= mi /\ K \subseteq Event
  BY FilterTypes
<1>2. f.kind = "Logs" => f.criteria \in FilterCriteria
  BY FilterTypes
<1>3. /\ Len(bs) \in Nat /\ N \in Nat /\ mi \in Nat /\ ds[N] \in Block
      /\ ds[N].hash \in Nat /\ ds[N].hash > mi
  <2>0. /\ Len(bs) \in Nat /\ Len(ds) \in Nat /\ mi \in Nat
        /\ \A n \in 1 .. Len(ds) : ds[n] \in Block /\ ds[n].hash \in Nat
        /\ \A n \in Len(bs) + 1 .. Len(ds) : ds[n].hash > mi
    BY ExtendsTypes
  <2>1. /\ Len(bs) \in Nat /\ N \in Nat /\ mi \in Nat
        /\ \A n \in 1 .. N : ds[n] \in Block /\ ds[n].hash \in Nat
        /\ \A n \in Len(bs) + 1 .. N : ds[n].hash > mi
    BY <2>0
  <2>2. N \in 1 .. N /\ N \in Len(bs) + 1 .. N
    BY <2>1
  <2> QED
    BY <2>1, <2>2
<1>4. mj \in Nat /\ mi <= mj /\ ds[N].hash <= mj
  <2>1. Chained(ds, mj) /\ mi <= mj
    BY DEF Extends
  <2>2. N \in 1 .. Len(ds)
    BY <1>3
  <2> QED
    BY <2>1, <2>2, ChainedTypes
<1>5. PICK T : /\ Lists(t, T) /\ Learns(f.kind, f.criteria, T, ds[N], N)
               /\ \A e \in T : e[1] = ds[N].hash
  <2> DEFINE b == ds[N]
  <2>1. b \in Block /\ t = News(f, b, logs_bloom(b.logs, more), N)
    BY <1>3
  <2> HIDE DEF b
  <2>2. Reports(t, f.kind, f.criteria, b, N)
    BY <1>1, <1>2, <2>1, NewsAre
  <2> QED
    BY <2>2 DEF b, Reports
<1>6. latest \in Nat
  BY <1>3 DEF Latest
<1>7. \A e \in T : e[1] > latest
  <2>1. CASE f.kind = "NewPendingTransactions"
    BY <1>5, <2>1 DEF Learns
  <2>2. CASE f.kind # "NewPendingTransactions"
    BY <1>3, <1>5, <2>2 DEF Latest
  <2> QED
    BY <2>1, <2>2
<1> HIDE DEF K, latest, g, h
<1>8. Typed(g, h, s, mi) /\ Ordered(g, h) /\ Tells(g, h) = K \cup T
      /\ g.kind = f.kind /\ g.criteria = f.criteria
  <2>1. Later(T, latest)
    BY <1>7 DEF Later
  <2>2. ToldMore(f, got, s, mi, T, g, h)
    BY <1>1, <1>3, <1>5, <1>6, <2>1, TellMore DEF K, g, h
  <2> QED
    BY <2>2 DEF ToldMore, K
<1>9. Typed(g, h, s, mj)
  <2>1. s.blocks <= mj
    BY <1>1, <1>3, <1>4 DEF Since
  <2> QED
    BY <1>8, <2>1 DEF Typed
<1>10. Bounded(Tells(g, h), Latest(g.kind, mj, su))
  <2>1. CASE f.kind = "NewPendingTransactions"
    <3>1. T = {}
      BY <1>5, <2>1 DEF Learns
    <3> QED
      BY <1>1, <1>8, <2>1, <3>1 DEF Bounded, Latest, latest
  <2>2. CASE f.kind # "NewPendingTransactions"
    <3> SUFFICES ASSUME NEW e \in K \cup T PROVE e[1] <= mj
      BY <1>8, <2>2 DEF Bounded, Latest
    <3>1. CASE e \in K
      <4>1. e[1] \in Nat /\ e[1] <= mi
        BY <1>1, <2>2, <3>1 DEF Event, Bounded, Latest, latest
      <4> QED
        BY <1>3, <1>4, <4>1
    <3>2. CASE e \in T
      BY <1>4, <1>5, <3>2
    <3> QED
      BY <3>1, <3>2
  <2> QED
    BY <2>1, <2>2
<1>11. Knows(f.kind, f.criteria, K \cup T, s, ds, su, si)
  BY <1>1, <1>5, KnowsNext DEF latest
<1>12. Knows(g.kind, g.criteria, Tells(g, h), s, ds, su, si)
  BY <1>8, <1>11
<1> QED
  BY <1>8, <1>9, <1>10, <1>12 DEF FilterInv, g, h

(* All of them are told, and the outdated ones go. *)
LEMMA MineBlockInv ==
  ASSUME FiltersInv, NEW list \in LogLists, NEW more, MineBlock(list, more)
  PROVE  FiltersInv'
<1> DEFINE N == Len(chain) + 1
           block == [hash |-> minted + 1, logs |-> list]
           kept == {id \in DOMAIN filters : ~ has_expired(filters[id])}
           t(id) == News(filters[id], block, logs_bloom(list, more), N)
<1>0. list \in Seq(Log) /\ <<list>> \in Seq(Seq(Log)) /\ Len(<<list>>) = 1 /\ <<list>>[1] = list
  BY FiltersAssumption
<1>1. InsertBlocks(<<list>>)
  BY DEF MineBlock
<1>2. /\ Extends(chain, minted, chain', minted') /\ BuiltOn(chain, minted, <<list>>, chain')
      /\ heads' \subseteq fork_block_number .. Len(chain')
  BY <1>0, <1>1, InsertExtends
<1>3. Chained(chain, minted) /\ Chained(chain', minted') /\ Len(chain) \in Nat
      /\ submitted \in Nat /\ now \in Nat
  BY <1>2, ChainedTypes DEF FiltersInv, Extends
<1>4. N = Len(chain')
  BY <1>0, <1>2 DEF BuiltOn
<1>5. chain'[N] = block
  <2>1. N \in Len(chain) + 1 .. Len(chain') /\ N - Len(chain) = 1 /\ N \in 1 .. Len(chain')
    BY <1>3, <1>4
  <2>2. chain'[N].hash = minted + 1 /\ chain'[N].logs = list
    BY <1>0, <1>2, <2>1 DEF BuiltOn
  <2>3. chain'[N] \in Block
    BY <1>3, <2>1, ChainedTypes
  <2> DEFINE b == chain'[N]
  <2> HIDE DEF b
  <2>4. b = [hash |-> b.hash, logs |-> b.logs]
    BY <2>3 DEF Block, b
  <2> QED
    BY <2>2, <2>4 DEF b
<1>6. NewBlocks(<<list>>)[1] = block
  BY <1>0 DEF NewBlocks
<1>7. /\ filters' = [id \in kept |-> Given(filters[id], t(id))]
      /\ received' = [id \in kept |-> CalledWith(filters[id], received[id], t(id))]
      /\ since' = [id \in kept |-> since[id]]
      /\ now' = now /\ silent' = silent /\ submitted' = submitted
  BY <1>6 DEF MineBlock, notify_subscribers_about_mined_block, Called, CalledWith
<1>8. block.logs = list
  OBVIOUS
<1> HIDE DEF N, block
<1>9. ASSUME NEW id \in kept
      PROVE  FilterInv(filters'[id], received'[id], since'[id], chain', minted', submitted', silent')
  <2>1. FilterInv(filters[id], received[id], since[id], chain, minted, submitted, silent)
    BY <1>9 DEF FiltersInv
  <2>2. t(id) = News(filters[id], chain'[N], logs_bloom(chain'[N].logs, more), N)
    BY <1>5, <1>8
  <2>3. filters'[id] = Given(filters[id], t(id)) /\ since'[id] = since[id]
        /\ received'[id] = CalledWith(filters[id], received[id], t(id))
    BY <1>7
  <2>4. N = Len(chain) + 1
    BY DEF N
  <2> HIDE DEF t, kept
  <2>5. FilterInv(Given(filters[id], t(id)), CalledWith(filters[id], received[id], t(id)),
                  since[id], chain', minted', submitted, silent)
    BY <1>2, <1>3, <1>4, <2>1, <2>2, <2>4, MinedInv
  <2> QED
    BY <1>7, <2>3, <2>5
<1>10. DOMAIN filters' = kept /\ DOMAIN received' = kept /\ DOMAIN since' = kept
  BY <1>7
<1> QED
  BY <1>2, <1>3, <1>7, <1>9, <1>10 DEF FiltersInv

(* Blocks are inserted that nobody is told of. *)
LEMMA SilentInv ==
  ASSUME FiltersInv, NEW list \in Seq(Seq(Log)), InsertBlocks(list),
         silent' = silent \cup (minted + 1 .. minted + Len(list)),
         UNCHANGED <<now, submitted, filters, last_filter_id, history>>
  PROVE  FiltersInv'
<1>1. /\ Extends(chain, minted, chain', minted') /\ BuiltOn(chain, minted, list, chain')
      /\ heads' \subseteq fork_block_number .. Len(chain')
  BY InsertExtends
<1>2. /\ Chained(chain, minted) /\ Chained(chain', minted') /\ minted \in Nat /\ Len(list) \in Nat
      /\ minted' \in Nat /\ minted <= minted' /\ Len(chain) \in Nat
  BY <1>1, ChainedTypes DEF FiltersInv, Extends, Chained
<1>3. UNCHANGED <<now, submitted, filters, received, since>>
  BY DEF history
<1>4. \A n \in Len(chain) + 1 .. Len(chain') : chain'[n].hash \in silent'
  <2> TAKE n \in Len(chain) + 1 .. Len(chain')
  <2>1. chain'[n].hash = minted + (n - Len(chain)) /\ n - Len(chain) \in 1 .. Len(list)
    BY <1>1 DEF BuiltOn
  <2>2. \A x \in 1 .. Len(list) : minted + x \in minted + 1 .. minted + Len(list)
    BY <1>2
  <2> QED
    BY <2>1, <2>2
<1>5. ASSUME NEW id \in DOMAIN filters
      PROVE  FilterInv(filters[id], received[id], since[id], chain', minted', submitted, silent')
  <2> DEFINE f == filters[id]
             got == received[id]
             s == since[id]
  <2>1. FilterInv(f, got, s, chain, minted, submitted, silent)
    BY <1>5 DEF FiltersInv
  <2> HIDE DEF f, got, s
  <2>2. /\ Typed(f, got, s, minted) /\ Ordered(f, got)
        /\ Bounded(Tells(f, got), Latest(f.kind, minted, submitted))
        /\ Knows(f.kind, f.criteria, Tells(f, got), s, chain, submitted, silent)
        /\ s \in Since /\ s.blocks <= minted /\ Tells(f, got) \subseteq Event
    BY <2>1, FilterTypes
  <2>3. Knows(f.kind, f.criteria, Tells(f, got), s, chain', submitted, silent')
    <3>1. silent \subseteq silent'
      OBVIOUS
    <3> QED
      BY <1>1, <1>2, <1>4, <2>2, <3>1, KnowsSilent
  <2>4. Typed(f, got, s, minted')
    <3>1. s.blocks <= minted'
      BY <1>2, <2>2 DEF Since
    <3> QED
      BY <2>2, <3>1 DEF Typed
  <2>5. Bounded(Tells(f, got), Latest(f.kind, minted', submitted))
    <3>1. CASE f.kind = "NewPendingTransactions"
      BY <2>2, <3>1 DEF Latest
    <3>2. CASE f.kind # "NewPendingTransactions"
      <4> SUFFICES ASSUME NEW e \in Tells(f, got) PROVE e[1] <= minted'
        BY <3>2 DEF Bounded, Latest
      <4>1. e[1] \in Nat /\ e[1] <= minted
        BY <2>2, <3>2 DEF Bounded, Latest, Event
      <4> QED
        BY <1>2, <4>1
    <3> QED
      BY <3>1, <3>2
  <2> QED
    BY <2>2, <2>3, <2>4, <2>5 DEF FilterInv, f, got, s
<1> QED
  BY <1>1, <1>2, <1>3, <1>5 DEF FiltersInv

(* The mem pool could not be updated. *)
LEMMA MineBlockFailsInv ==
  ASSUME FiltersInv, NEW list \in LogLists, MineBlockFails(list)
  PROVE  FiltersInv'
<1>1. list \in Seq(Log) /\ <<list>> \in Seq(Seq(Log)) /\ Len(<<list>>) = 1
  BY FiltersAssumption
<1>2. minted \in Nat
  BY DEF FiltersInv, Chained
<1>3. {minted + 1} = minted + 1 .. minted + 1
  BY <1>2
<1>4. /\ InsertBlocks(<<list>>) /\ silent' = silent \cup (minted + 1 .. minted + Len(<<list>>))
      /\ UNCHANGED <<now, submitted, filters, last_filter_id, history>>
  BY <1>1, <1>3 DEF MineBlockFails
<1> QED
  BY <1>1, <1>4, SilentInv

(* Empty blocks are reserved. *)
LEMMA ReserveBlocksInv ==
  ASSUME FiltersInv, NEW additional \in 1 .. MaxBlocks, ReserveBlocks(additional)
  PROVE  FiltersInv'
<1> DEFINE list == [i \in 1 .. additional |-> <<>>]
<1>1. additional \in Nat
  BY FiltersAssumption
<1>2. list \in Seq(Seq(Log)) /\ Len(list) = additional
  <2>1. <<>> \in Seq(Log)
    OBVIOUS
  <2>2. list \in [1 .. additional -> Seq(Log)]
    BY <2>1
  <2> QED
    BY <1>1, <2>2
<1>3. /\ InsertBlocks(list) /\ silent' = silent \cup (minted + 1 .. minted + Len(list))
      /\ UNCHANGED <<now, submitted, filters, last_filter_id, history>>
  BY <1>2 DEF ReserveBlocks
<1> HIDE DEF list
<1> QED
  BY <1>2, <1>3, SilentInv

(* Blocks are taken back. *)
LEMMA RevertInv ==
  ASSUME FiltersInv, NEW n \in heads, RevertToSnapshot(n)
  PROVE  FiltersInv'
<1>1. /\ Chained(chain, minted) /\ chain \in Seq(Block) /\ Len(chain) \in Nat
      /\ heads \subseteq fork_block_number .. Len(chain)
  BY ChainedTypes DEF FiltersInv, Chained
<1>2. n \in Nat /\ fork_block_number <= n /\ n < Len(chain) /\ n # 0
  BY <1>1, ForkType DEF RevertToSnapshot
<1>3. /\ chain' = SubSeq(chain, 1, n) /\ heads' = {m \in heads : m <= n}
      /\ UNCHANGED <<now, minted, silent, submitted, filters, received, since>>
  BY DEF RevertToSnapshot, history
<1>4. chain' \in Seq(Block) /\ Len(chain') = n /\ \A m \in 1 .. n : chain'[m] = chain[m]
  <2>1. \A i \in 1 .. n : chain[i] \in Block
    BY <1>1, <1>2
  <2>2. /\ chain' \in Seq(Block) /\ Len(chain') = n - 1 + 1
        /\ \A i \in 1 .. n - 1 + 1 : chain'[i] = chain[1 + i - 1]
    BY <1>2, <1>3, <2>1, SubSeqProperties
  <2>3. n - 1 + 1 = n /\ \A i \in 1 .. n : 1 + i - 1 = i
    BY <1>2
  <2> QED
    BY <2>2, <2>3
<1>5. \A m \in 1 .. n : m \in 1 .. Len(chain)
  BY <1>1, <1>2
<1>6. Chained(chain', minted')
  <2>1. \A m \in 1 .. n : chain'[m].hash <= minted
    BY <1>1, <1>4, <1>5 DEF Chained
  <2>2. \A m, k \in 1 .. n : m < k => chain'[m].hash < chain'[k].hash
    BY <1>1, <1>4, <1>5 DEF Chained
  <2>3. minted \in Nat /\ minted' = minted
    BY <1>1, <1>3 DEF Chained
  <2> QED
    BY <1>2, <1>4, <2>1, <2>2, <2>3 DEF Chained
<1>7. heads' \subseteq fork_block_number .. Len(chain')
  <2>1. \A m \in heads : m \in fork_block_number .. Len(chain)
    BY <1>1
  <2>2. \A m \in fork_block_number .. Len(chain) : m <= n => m \in fork_block_number .. n
    BY <1>1, <1>2, ForkType
  <2>3. heads' \subseteq fork_block_number .. n
    BY <1>3, <2>1, <2>2
  <2> QED
    BY <1>4, <2>3
<1>8. ASSUME NEW id \in DOMAIN filters
      PROVE  FilterInv(filters[id], received[id], since[id], chain', minted, submitted, silent)
  <2> DEFINE f == filters[id]
             got == received[id]
             s == since[id]
  <2>1. FilterInv(f, got, s, chain, minted, submitted, silent)
    BY <1>8 DEF FiltersInv
  <2> HIDE DEF f, got, s
  <2>2. Knows(f.kind, f.criteria, Tells(f, got), s, chain, submitted, silent)
    BY <2>1 DEF FilterInv
  <2>3. Knows(f.kind, f.criteria, Tells(f, got), s, chain', submitted, silent)
    <3>1. Len(chain') \in Nat /\ Len(chain') <= Len(chain)
          /\ \A m \in 1 .. Len(chain') : chain'[m] = chain[m]
      BY <1>1, <1>2, <1>4
    <3> QED
      BY <1>1, <2>2, <3>1, KnowsCut
  <2> QED
    BY <2>1, <2>3 DEF FilterInv, f, got, s
<1> QED
  BY <1>3, <1>6, <1>7, <1>8 DEF FiltersInv

-----------------------------------------------------------------------------
(* Every step keeps the invariant. *)

(* One case for each action. *)
LEMMA NextInv == FiltersInv /\ [Next]_vars => FiltersInv'
<1> SUFFICES ASSUME FiltersInv, [Next]_vars PROVE FiltersInv'
  OBVIOUS
<1>1. CASE Tick
  BY <1>1 DEF Tick, FiltersInv, blocks, history
<1>2. ASSUME NEW sub \in BOOLEAN, NewPendingTransactionFilter(sub) PROVE FiltersInv'
  BY <1>2, NewPendingTransactionInv
<1>3. ASSUME NEW sub \in BOOLEAN, NewBlockFilter(sub) PROVE FiltersInv'
  BY <1>3, NewBlockInv
<1>4. ASSUME NEW sub \in BOOLEAN, NEW options \in LogFilterOptions, NewLogFilter(options, sub)
      PROVE  FiltersInv'
  BY <1>4, NewLogInv
<1>5. ASSUME NEW sub \in BOOLEAN, NEW id \in DOMAIN filters, RemoveFilter(id, sub)
      PROVE  FiltersInv'
  BY <1>5, RemoveInv
<1>6. ASSUME UNCHANGED vars PROVE FiltersInv'
  BY <1>6 DEF vars, FiltersInv, blocks, history
<1>7. ASSUME NEW id, GetFilterChanges(id) PROVE FiltersInv'
  BY <1>6, <1>7, TakeInv DEF GetFilterChanges
<1>8. ASSUME NEW id, GetFilterLogs(id) PROVE FiltersInv'
  BY <1>8, TakeInv DEF GetFilterLogs
<1>9. CASE AddPendingTransaction
  BY <1>9, AddPendingTransactionInv
<1>10. ASSUME NEW list \in LogLists, NEW more, MineBlock(list, more) PROVE FiltersInv'
  BY <1>10, MineBlockInv
<1>11. ASSUME NEW list \in LogLists, MineBlockFails(list) PROVE FiltersInv'
  BY <1>11, MineBlockFailsInv
<1>12. ASSUME NEW additional \in 1 .. MaxBlocks, ReserveBlocks(additional) PROVE FiltersInv'
  BY <1>12, ReserveBlocksInv
<1>13. ASSUME NEW n \in heads, RevertToSnapshot(n) PROVE FiltersInv'
  BY <1>13, RevertInv
<1> QED
  BY <1>1, <1>2, <1>3, <1>4, <1>5, <1>6, <1>7, <1>8, <1>9, <1>10, <1>11, <1>12, <1>13, Zenon
     DEF Next

-----------------------------------------------------------------------------
(* What the properties say of a chain, and what the invariant says of it. *)

(* What a client wants is what the code searches for. *)
LEMMA WantedIsAsked ==
  ASSUME Chained(chain, minted), NEW n \in 1 .. Len(chain), NEW c \in FilterCriteria
  PROVE  Wanted(n, c) = Asked(chain[n], n, c)
<1> DEFINE b == chain[n]
           Fits(log) == /\ c.addresses # {} => log.address \in c.addresses
                        /\ \A k \in DOMAIN c.topics :
                             /\ k \in DOMAIN log.topics
                             /\ c.topics[k] # None => log.topics[k] \in c.topics[k]
<1>1. b \in Block /\ b.logs \in Seq(Log) /\ Len(chain) \in Nat /\ n \in Nat /\ n >= 1
  BY ChainedTypes DEF Block
<1>2. c.from_block \in Nat /\ c.to_block \in Nat \cup {None}
      /\ c.topics \in Seq({None} \cup SUBSET Topics)
  BY DEF FilterCriteria
<1>3. InRange(n, c) <=> /\ n >= c.from_block
                        /\ n \in 1 .. (IF c.to_block = None THEN n ELSE c.to_block)
  BY <1>1, <1>2, ForkType DEF InRange
<1>4. \A log \in Log : Matches(log, c) <=> Fits(log)
  <2> TAKE log \in Log
  <2>1. log.topics \in Seq(Topics)
    BY DEF Log
  <2>2. /\ Len(log.topics) \in Nat /\ DOMAIN log.topics = 1 .. Len(log.topics)
        /\ Len(c.topics) \in Nat /\ DOMAIN c.topics = 1 .. Len(c.topics)
    BY <1>2, <2>1
  <2>3. Len(c.topics) <= Len(log.topics) <=> \A k \in DOMAIN c.topics : k \in DOMAIN log.topics
    <3> DEFINE l == Len(log.topics)
               m == Len(c.topics)
    <3> HIDE DEF l, m
    <3>1. l \in Nat /\ m \in Nat
      BY <2>2 DEF l, m
    <3>2. m <= l <=> \A k \in 1 .. m : k \in 1 .. l
      <4>1. ASSUME m <= l PROVE \A k \in 1 .. m : k \in 1 .. l
        BY <3>1, <4>1
      <4>2. ASSUME \A k \in 1 .. m : k \in 1 .. l PROVE m <= l
        <5>1. CASE m = 0
          BY <3>1, <5>1
        <5>2. CASE m # 0
          BY <3>1, <4>2, <5>2
        <5> QED
          BY <5>1, <5>2
      <4> QED
        BY <4>1, <4>2
    <3> QED
      BY <2>2, <3>2 DEF l, m
  <2> QED
    BY <2>3 DEF Matches, matches_address_filter, matches_topics_filter
<1>5. Wanted(n, c) = {<<b.hash, i>> : i \in {j \in DOMAIN b.logs : InRange(n, c) /\ Fits(b.logs[j])}}
  BY <1>3 DEF Wanted
<1> HIDE DEF Fits, b
<1>6. \A j \in DOMAIN b.logs : b.logs[j] \in Log
  BY <1>1
<1>7. \A j \in DOMAIN b.logs : Fits(b.logs[j]) <=> Matches(b.logs[j], c)
  BY <1>4, <1>6
<1>8. Wanted(n, c) = Asked(b, n, c)
  <2>1. CASE InRange(n, c)
    <3>1. {j \in DOMAIN b.logs : InRange(n, c) /\ Fits(b.logs[j])}
            = {j \in DOMAIN b.logs : Matches(b.logs[j], c)}
      BY <1>7, <2>1
    <3> QED
      BY <1>5, <2>1, <3>1 DEF Asked, Hits
  <2>2. CASE ~ InRange(n, c)
    BY <1>5, <2>2 DEF Asked
  <2> QED
    BY <2>1, <2>2
<1> QED
  BY <1>8 DEF b

(* The invariant implies NoEventLost. *)
LEMMA InvIsLossless == FiltersInv => NoEventLost
<1> SUFFICES ASSUME FiltersInv, NEW id \in DOMAIN filters
             PROVE  /\ filters[id].kind = "Logs" =>
                         \A n \in DOMAIN chain :
                           Wanted(n, filters[id].criteria) \subseteq Known(id) \/ Missed(id, chain[n])
                    /\ filters[id].kind = "NewHeads" =>
                         \A n \in DOMAIN chain :
                           \/ chain[n].hash <= since[id].blocks
                           \/ <<chain[n].hash, 1>> \in Known(id)
                           \/ Missed(id, chain[n])
                    /\ filters[id].kind = "NewPendingTransactions" =>
                         \A t \in since[id].transactions + 1 .. submitted : <<t, 1>> \in Known(id)
  BY DEF NoEventLost
<1> DEFINE f == filters[id]
           s == since[id]
           K == Tells(f, received[id])
<1>1. FilterInv(f, received[id], s, chain, minted, submitted, silent) /\ Chained(chain, minted)
  BY DEF FiltersInv
<1>2. /\ Knows(f.kind, f.criteria, K, s, chain, submitted, silent)
      /\ f.kind = "Logs" => f.criteria \in FilterCriteria
  BY <1>1, FilterTypes
<1>3. DOMAIN chain = 1 .. Len(chain)
  BY <1>1, ChainedTypes
<1>4. Known(id) = K
  BY DEF Known, Tells
<1>5. \A n \in DOMAIN chain : Missed(id, chain[n]) <=> Missing(s, chain[n], silent)
  BY DEF Missed, Missing
<1> HIDE DEF f, s, K
<1>6. ASSUME f.kind = "Logs", NEW n \in DOMAIN chain
      PROVE  Wanted(n, f.criteria) \subseteq K \/ Missing(s, chain[n], silent)
  BY <1>1, <1>2, <1>3, <1>6, WantedIsAsked DEF Knows, KnowsLogs
<1>7. ASSUME f.kind = "NewHeads", NEW n \in DOMAIN chain
      PROVE  \/ chain[n].hash <= s.blocks
             \/ <<chain[n].hash, 1>> \in K
             \/ Missing(s, chain[n], silent)
  BY <1>2, <1>3, <1>7 DEF Knows, KnowsHeads
<1>8. ASSUME f.kind = "NewPendingTransactions", NEW t \in s.transactions + 1 .. submitted
      PROVE  <<t, 1>> \in K
  BY <1>2, <1>8 DEF Knows, KnowsTransactions
<1> QED
  BY <1>4, <1>5, <1>6, <1>7, <1>8 DEF f, s

(* The invariant implies EventsInOrder. *)
LEMMA InvIsOrdered == FiltersInv => EventsInOrder
<1> SUFFICES ASSUME FiltersInv, NEW id \in DOMAIN filters
             PROVE  LET all == received[id] \o filters[id].events
                    IN  IF filters[id].is_subscription
                        THEN \A i, j \in DOMAIN all : all[i] = all[j] => i = j
                        ELSE Increasing(all)
  BY DEF EventsInOrder
<1>1. Ordered(filters[id], received[id])
  BY DEF FiltersInv, FilterInv
<1> QED
  BY <1>1 DEF Ordered, NoRepeats

(* The invariant implies OnlyWanted. *)
LEMMA InvIsExact == FiltersInv => OnlyWanted
<1> SUFFICES ASSUME FiltersInv, NEW id \in DOMAIN filters, filters[id].kind = "Logs",
                    NEW n \in DOMAIN chain, NEW e \in Known(id), e[1] = chain[n].hash
             PROVE  e \in Wanted(n, filters[id].criteria)
  BY DEF OnlyWanted
<1> DEFINE f == filters[id]
           s == since[id]
           K == Tells(f, received[id])
<1>1. FilterInv(f, received[id], s, chain, minted, submitted, silent) /\ Chained(chain, minted)
  BY DEF FiltersInv
<1>2. /\ Knows(f.kind, f.criteria, K, s, chain, submitted, silent)
      /\ f.kind = "Logs" => f.criteria \in FilterCriteria
  BY <1>1, FilterTypes
<1>3. n \in 1 .. Len(chain)
  BY <1>1, ChainedTypes
<1>4. e \in K /\ f.kind = "Logs"
  BY DEF Known, Tells
<1> HIDE DEF f, s, K
<1>5. e \in Asked(chain[n], n, f.criteria)
  BY <1>2, <1>3, <1>4 DEF Knows, KnowsLogs
<1> QED
  BY <1>1, <1>2, <1>3, <1>4, <1>5, WantedIsAsked DEF f

(* A step that removes a filter: the client does, or it was idle. *)
LEMMA RemovedIdle ==
  ASSUME FiltersInv, [Next]_vars, NEW id \in DOMAIN filters, id \notin DOMAIN filters'
  PROVE  \/ RemoveFilter(id, filters[id].is_subscription)
         \/ minted' > minted /\ now > since[id].polled + Lifetime
<1>1. ASSUME DOMAIN filters \subseteq DOMAIN filters' PROVE FALSE
  BY <1>1
<1>2. ASSUME filters' = filters PROVE FALSE
  BY <1>1, <1>2
<1>3. ASSUME NEW kind, NEW c, NEW events, NEW sub, Install(kind, c, events, sub) PROVE FALSE
  BY <1>1, <1>3 DEF Install, Put
<1>4. ASSUME NEW k, take_events(k) PROVE FALSE
  BY <1>1, <1>4 DEF take_events
<1>5. CASE Tick
  BY <1>2, <1>5 DEF Tick
<1>6. ASSUME NEW sub, NewPendingTransactionFilter(sub) \/ NewBlockFilter(sub) PROVE FALSE
  BY <1>3, <1>6 DEF NewPendingTransactionFilter, NewBlockFilter
<1>7. ASSUME NEW sub, NEW options, NewLogFilter(options, sub) PROVE FALSE
  BY <1>3, <1>7 DEF NewLogFilter
<1>8. ASSUME NEW sub, NEW k \in DOMAIN filters, RemoveFilter(k, sub)
      PROVE  RemoveFilter(id, filters[id].is_subscription)
  <2>1. DOMAIN filters' = DOMAIN filters \ {k} /\ filters[k].is_subscription = sub
    BY <1>8 DEF RemoveFilter, Retain
  <2> QED
    BY <1>8, <2>1
<1>9. ASSUME NEW k, GetFilterChanges(k) \/ GetFilterLogs(k) PROVE FALSE
  BY <1>2, <1>4, <1>9 DEF GetFilterChanges, GetFilterLogs, vars
<1>10. CASE AddPendingTransaction
  BY <1>1, <1>10 DEF AddPendingTransaction
<1>11. ASSUME NEW list \in LogLists, NEW more, MineBlock(list, more)
       PROVE  minted' > minted /\ now > since[id].polled + Lifetime
  <2>1. minted \in Nat
    BY DEF FiltersInv, Chained
  <2>2. minted' = minted + 1
    BY <1>11 DEF MineBlock, InsertBlocks
  <2>3. has_expired(filters[id])
    BY <1>11 DEF MineBlock, notify_subscribers_about_mined_block
  <2>4. FilterInv(filters[id], received[id], since[id], chain, minted, submitted, silent)
    BY DEF FiltersInv
  <2>5. filters[id].deadline = since[id].polled + Lifetime
    BY <2>4 DEF FilterInv, Typed
  <2>6. now > since[id].polled + Lifetime
    BY <2>3, <2>5 DEF has_expired
  <2> QED
    BY <2>1, <2>2, <2>6
<1>12. ASSUME NEW list, MineBlockFails(list) PROVE FALSE
  BY <1>2, <1>12 DEF MineBlockFails
<1>13. ASSUME NEW additional, ReserveBlocks(additional) PROVE FALSE
  BY <1>2, <1>13 DEF ReserveBlocks
<1>14. ASSUME NEW n, RevertToSnapshot(n) PROVE FALSE
  BY <1>2, <1>14 DEF RevertToSnapshot
<1>15. CASE UNCHANGED vars
  BY <1>2, <1>15 DEF vars
<1> QED
  BY <1>5, <1>6, <1>7, <1>8, <1>9, <1>10, <1>11, <1>12, <1>13, <1>14, <1>15, Zenon DEF Next

-----------------------------------------------------------------------------
(* The invariant holds always. *)
LEMMA FiltersInvariant == Spec => []FiltersInv
<1>1. Init => FiltersInv
  BY InitInv
<1>2. FiltersInv /\ [Next]_vars => FiltersInv'
  BY NextInv
<1> QED
  BY <1>1, <1>2, PTL DEF Spec

(* However often blocks are mined, reserved, left unannounced and taken back *)
(* (notify_subscribers_about_mined_block, revert_to_snapshot), a client      *)
(* knows, or will with its next poll, every event that it asked for and that *)
(* was announced: the backlog of add_log_filter ends where the announcements *)
(* begin, on both sides of the fork, and the bloom filter drops nothing.     *)
THEOREM NothingAskedForIsLost == Spec => []NoEventLost
  BY FiltersInvariant, InvIsLossless, PTL

(* A filter's client is given its events in the order in which they          *)
(* happened, and nobody is given one twice: Filter::take_events leaves none  *)
(* behind, and what a block adds is later than all that is there.            *)
THEOREM ToldOnceInOrder == Spec => []EventsInOrder
  BY FiltersInvariant, InvIsOrdered, PTL

(* A log filter's client is given no log of the chain that its criteria      *)
(* exclude, whatever bloom_contains_log_filter lets through, and whatever    *)
(* was told of blocks that a revert took back.                               *)
THEOREM ToldOnlyWhatIsAsked == Spec => []OnlyWanted
  BY FiltersInvariant, InvIsExact, PTL

(* A filter goes only when its client removes it or when it was not polled   *)
(* for its lifetime: a poll always moves the deadline, and only a mined      *)
(* block removes (remove_filter_impl, the retain at the end of               *)
(* notify_subscribers_about_mined_block).                                    *)
THEOREM PolledFiltersStay == Spec => OnlyIdleRemoved
<1>1. FiltersInv /\ [Next]_vars =>
        [\A id \in DOMAIN filters \ DOMAIN filters' :
           \/ RemoveFilter(id, filters[id].is_subscription)
           \/ minted' > minted /\ now > since[id].polled + Lifetime]_vars
  BY RemovedIdle
<1> QED
  BY <1>1, FiltersInvariant, PTL DEF Spec, OnlyIdleRemoved
=============================================================================
