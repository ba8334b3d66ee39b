-------------------------- MODULE StateCacheProofs --------------------------
(***************************************************************************)
(* Proofs about the states of a local chain: what the cache, the diffs of  *)
(* the blocks and the changes made between blocks say of each block, for   *)
(* any accounts, slots, transactions, blocks and snapshots and any size of *)
(* the cache.                                                              *)
(***************************************************************************)
EXTENDS StateCache, SequenceTheorems, WellFoundedInduction, TLAPS

(* A set of natural numbers that is not empty has a least element. *)
LEMMA LeastNumber ==
  ASSUME NEW T \in SUBSET Nat, T # {}
  PROVE  \E x \in T : \A y \in T : x <= y
<1>1. PICK x \in T : \A y \in T : ~ (<<y, x>> \in OpToRel(<, Nat))
  BY NatLessThanWellFounded, WFMin
<1>2. \A y \in T : ~ (y < x)
  BY <1>1 DEF OpToRel
<1> QED
  BY <1>2

(* The states that are computed. *)

Nobody == [address \in Addresses |-> None]

(* The state after n blocks, from the one before. *)
StateAfter(diffs, overrides, f, n) ==
  IF n = 0 THEN Nobody ELSE commit(f[n - 1], OverriddenDiff(diffs, overrides, n))

(* f has the states of the first m blocks. *)
States(f, diffs, overrides, m) == f = [n \in 0 .. m |-> StateAfter(diffs, overrides, f, n)]

(* There is such a function, however many the blocks are. *)
LEMMA StatesExist ==
  ASSUME NEW diffs, NEW overrides, NEW m \in Nat
  PROVE  \E f : States(f, diffs, overrides, m)
<1> DEFINE P(k) == \E f : f = [n \in 0 .. k |-> StateAfter(diffs, overrides, f, n)]
<1>1. P(0)
  <2> DEFINE f == [n \in 0 .. 0 |-> Nobody]
  <2>1. f = [n \in 0 .. 0 |-> StateAfter(diffs, overrides, f, n)]
    <3>1. \A n \in 0 .. 0 : n = 0
      OBVIOUS
    <3>2. \A n \in 0 .. 0 : StateAfter(diffs, overrides, f, n) = Nobody
      BY <3>1 DEF StateAfter
    <3> QED
      BY <3>2
  <2> QED
    BY <2>1
<1>2. ASSUME NEW k \in Nat, P(k)
      PROVE  P(k + 1)
  <2>1. PICK f : f = [n \in 0 .. k |-> StateAfter(diffs, overrides, f, n)]
    BY <1>2
  <2> DEFINE g == [n \in 0 .. k + 1 |->
                     IF n \in 0 .. k THEN f[n] ELSE StateAfter(diffs, overrides, f, n)]
  <2>2. ASSUME NEW n \in 0 .. k + 1
        PROVE  StateAfter(diffs, overrides, f, n) = StateAfter(diffs, overrides, g, n)
    <3>1. CASE n = 0
      BY <3>1 DEF StateAfter
    <3>2. CASE n # 0
      <4>1. n - 1 \in 0 .. k /\ n - 1 \in 0 .. k + 1
        BY <3>2
      <4>2. g[n - 1] = f[n - 1]
        BY <4>1
      <4> QED
        BY <3>2, <4>2 DEF StateAfter
    <3> QED
      BY <3>1, <3>2
  <2>3. \A n \in 0 .. k + 1 : g[n] = StateAfter(diffs, overrides, g, n)
    <3> TAKE n \in 0 .. k + 1
    <3>1. g[n] = StateAfter(diffs, overrides, f, n)
      BY <2>1
    <3> QED
      BY <2>2, <3>1
  <2>4. g = [n \in 0 .. k + 1 |-> g[n]]
    OBVIOUS
  <2> HIDE DEF g
  <2>5. g = [n \in 0 .. k + 1 |-> StateAfter(diffs, overrides, g, n)]
    BY <2>3, <2>4
  <2> QED
    BY <2>5
<1> HIDE DEF P
<1>3. \A k \in Nat : P(k)
  <2> SUFFICES ASSUME ~ \A k \in Nat : P(k) PROVE FALSE
    OBVIOUS
  <2> DEFINE T == {k \in Nat : ~ P(k)}
  <2>1. PICK k \in T : \A y \in T : k <= y
    BY LeastNumber
  <2>2. k \in Nat /\ ~ P(k) /\ k # 0
    BY <2>1, <1>1
  <2>3. k - 1 \in Nat /\ (k - 1) + 1 = k
    BY <2>2
  <2>4. k - 1 \notin T
    BY <2>1, <2>2, <2>3
  <2>5. P(k - 1)
    BY <2>3, <2>4
  <2>6. P((k - 1) + 1)
    BY <1>2, <2>3, <2>5
  <2> QED
    BY <2>2, <2>3, <2>6
<1> QED
  BY <1>3 DEF P, States

(* ComputeState is the last of them ... *)
LEMMA ComputedFrom ==
  ASSUME NEW diffs, NEW overrides, NEW m \in Nat
  PROVE  \E f : States(f, diffs, overrides, m) /\ ComputeState(diffs, overrides, m) = f[m]
<1> DEFINE f == CHOOSE g : States(g, diffs, overrides, m)
<1>1. States(f, diffs, overrides, m)
  BY StatesExist
<1>2. ComputeState(diffs, overrides, m) = f[m]
  BY Zenon DEF ComputeState, States, StateAfter, Nobody
<1> QED
  BY <1>1, <1>2

(* ... and functions for more blocks or for fewer agree, *)
LEMMA StatesAgree ==
  ASSUME NEW diffs, NEW overrides, NEW m \in Nat, NEW k \in Nat, NEW f, NEW g,
         States(f, diffs, overrides, m), States(g, diffs, overrides, k)
  PROVE  \A n \in 0 .. m : n \in 0 .. k => f[n] = g[n]
<1> SUFFICES ASSUME ~ \A n \in 0 .. m : n \in 0 .. k => f[n] = g[n] PROVE FALSE
  OBVIOUS
<1> DEFINE T == {n \in 0 .. m : n \in 0 .. k /\ f[n] # g[n]}
<1>1. T \in SUBSET Nat /\ T # {}
  OBVIOUS
<1>2. PICK n \in T : \A y \in T : n <= y
  BY <1>1, LeastNumber
<1>3. n \in 0 .. m /\ n \in 0 .. k /\ f[n] # g[n]
  BY <1>2
<1>4. f[n] = StateAfter(diffs, overrides, f, n) /\ g[n] = StateAfter(diffs, overrides, g, n)
  BY <1>3 DEF States
<1>5. n # 0
  BY <1>3, <1>4 DEF StateAfter
<1>6. n - 1 \in 0 .. m /\ n - 1 \in 0 .. k /\ ~ (n <= n - 1)
  BY <1>3, <1>5
<1>7. f[n - 1] = g[n - 1]
  BY <1>2, <1>6
<1> QED
  BY <1>3, <1>4, <1>5, <1>7 DEF StateAfter

(* so the states follow each other. *)
LEMMA ComputedNext ==
  ASSUME NEW diffs, NEW overrides
  PROVE  /\ ComputeState(diffs, overrides, 0) = Nobody
         /\ \A m \in Nat : ComputeState(diffs, overrides, m + 1) =
              commit(ComputeState(diffs, overrides, m), OverriddenDiff(diffs, overrides, m + 1))
<1>1. ComputeState(diffs, overrides, 0) = Nobody
  <2>1. PICK f : States(f, diffs, overrides, 0) /\ ComputeState(diffs, overrides, 0) = f[0]
    BY ComputedFrom
  <2>2. f[0] = StateAfter(diffs, overrides, f, 0)
    BY <2>1 DEF States
  <2> QED
    BY <2>1, <2>2 DEF StateAfter
<1>2. ASSUME NEW m \in Nat
      PROVE  ComputeState(diffs, overrides, m + 1) =
               commit(ComputeState(diffs, overrides, m), OverriddenDiff(diffs, overrides, m + 1))
  <2>1. PICK f : States(f, diffs, overrides, m) /\ ComputeState(diffs, overrides, m) = f[m]
    BY ComputedFrom
  <2>2. PICK k \in Nat : k = m + 1
    OBVIOUS
  <2>3. PICK g : States(g, diffs, overrides, k) /\ ComputeState(diffs, overrides, k) = g[k]
    BY ComputedFrom
  <2>4. m \in 0 .. m /\ m \in 0 .. k /\ k \in 0 .. k /\ k # 0 /\ k - 1 = m
    BY <2>2
  <2>5. f[m] = g[m]
    BY <2>1, <2>3, <2>4, StatesAgree
  <2>6. g[k] = StateAfter(diffs, overrides, g, k)
    BY <2>3, <2>4 DEF States
  <2>7. ComputeState(diffs, overrides, k) =
          commit(ComputeState(diffs, overrides, m), OverriddenDiff(diffs, overrides, k))
    BY <2>1, <2>3, <2>4, <2>5, <2>6 DEF StateAfter
  <2> QED
    BY <2>2, <2>7
<1> QED
  BY <1>1, <1>2

(* The states of blocks are the same if the diffs are, up to there. *)
LEMMA ComputedSame ==
  ASSUME NEW diffs, NEW overrides, NEW diffs2, NEW overrides2, NEW m \in Nat,
         \A n \in 1 .. m : OverriddenDiff(diffs, overrides, n) = OverriddenDiff(diffs2, overrides2, n)
  PROVE  ComputeState(diffs, overrides, m) = ComputeState(diffs2, overrides2, m)
<1> DEFINE C(n) == ComputeState(diffs, overrides, n)
           C2(n) == ComputeState(diffs2, overrides2, n)
<1>1. C(0) = Nobody /\ C2(0) = Nobody
  BY ComputedNext
<1>2. \A n \in Nat : /\ C(n + 1) = commit(C(n), OverriddenDiff(diffs, overrides, n + 1))
                     /\ C2(n + 1) = commit(C2(n), OverriddenDiff(diffs2, overrides2, n + 1))
  BY ComputedNext
<1> HIDE DEF C, C2
<1>3. \A n \in 0 .. m : C(n) = C2(n)
  <2> SUFFICES ASSUME ~ \A n \in 0 .. m : C(n) = C2(n) PROVE FALSE
    OBVIOUS
  <2> DEFINE T == {n \in 0 .. m : C(n) # C2(n)}
  <2>1. T \in SUBSET Nat /\ T # {}
    OBVIOUS
  <2>2. PICK n \in T : \A y \in T : n <= y
    BY <2>1, LeastNumber
  <2>3. n \in 0 .. m /\ C(n) # C2(n) /\ n # 0
    BY <1>1, <2>2
  <2>4. PICK k \in Nat : n = k + 1 /\ k \in 0 .. m /\ k + 1 \in 1 .. m /\ ~ (n <= k)
    <3>1. n - 1 \in Nat /\ n = (n - 1) + 1 /\ n - 1 \in 0 .. m /\ (n - 1) + 1 \in 1 .. m /\ ~ (n <= n - 1)
      BY <2>3
    <3> QED
      BY <3>1
  <2>5. C(k) = C2(k)
    BY <2>2, <2>4
  <2> QED
    BY <1>2, <2>3, <2>4, <2>5
<1> QED
  BY <1>3 DEF C, C2

-----------------------------------------------------------------------------
(* The types of diffs and states. *)

Partials == UNION {[S -> Values] : S \in SUBSET Slots}
AccountDiffs == [info : Infos \cup {Empty}, storage : Partials,
                 status : SUBSET {"created", "selfdestructed"}]
Diffs == UNION {[A -> AccountDiffs] : A \in SUBSET Addresses}

(* A map is a function. *)
IsMap(f) == f = [x \in DOMAIN f |-> f[x]]

(* A diff is a function on some of the addresses ... *)
LEMMA DiffIs ==
  ASSUME NEW d \in Diffs
  PROVE  /\ DOMAIN d \subseteq Addresses /\ IsMap(d)
         /\ \A a \in DOMAIN d : d[a] \in AccountDiffs
BY DEF Diffs, IsMap

LEMMA MakesDiff ==
  ASSUME NEW d, DOMAIN d \subseteq Addresses, IsMap(d),
         \A a \in DOMAIN d : d[a] \in AccountDiffs
  PROVE  d \in Diffs
<1>1. d \in [DOMAIN d -> AccountDiffs]
  BY DEF IsMap
<1> QED
  BY <1>1 DEF Diffs

(* ... and what it writes to an account one on some of the slots. *)
LEMMA PartialIs ==
  ASSUME NEW w \in Partials
  PROVE  /\ DOMAIN w \subseteq Slots /\ IsMap(w)
         /\ \A s \in DOMAIN w : w[s] \in Values
BY DEF Partials, IsMap

LEMMA MakesPartial ==
  ASSUME NEW w, DOMAIN w \subseteq Slots, IsMap(w),
         \A s \in DOMAIN w : w[s] \in Values
  PROVE  w \in Partials
<1>1. w \in [DOMAIN w -> Values]
  BY DEF IsMap
<1> QED
  BY <1>1 DEF Partials

(* A map of one entry, and a map that is extended. *)
LEMMA OnlyIs ==
  ASSUME NEW x, NEW v
  PROVE  DOMAIN Only(x, v) = {x} /\ Only(x, v)[x] = v /\ IsMap(Only(x, v))
BY DEF Only, IsMap

(* Nothing is written, one slot is written, and writes follow each other. *)
LEMMA WritesTyped ==
  /\ NoWrite \in Partials
  /\ \A s \in Slots, v \in Values : Only(s, v) \in Partials
  /\ \A f, g \in Partials : Over(f, g) \in Partials
<1>1. NoWrite \in Partials
  <2>1. DOMAIN NoWrite = {} /\ IsMap(NoWrite)
    BY DEF NoWrite, IsMap
  <2> QED
    BY <2>1, MakesPartial
<1>2. ASSUME NEW s \in Slots, NEW v \in Values
      PROVE  Only(s, v) \in Partials
  <2>1. PICK w : w = Only(s, v)
    OBVIOUS
  <2>2. DOMAIN w = {s} /\ w[s] = v /\ IsMap(w)
    BY <2>1, OnlyIs
  <2>3. w \in Partials
    BY <2>2, MakesPartial
  <2> QED
    BY <2>1, <2>3
<1>3. ASSUME NEW f \in Partials, NEW g \in Partials
      PROVE  Over(f, g) \in Partials
  <2>1. PICK w : w = Over(f, g)
    OBVIOUS
  <2>2. /\ DOMAIN w = DOMAIN f \cup DOMAIN g /\ IsMap(w)
        /\ \A x \in DOMAIN f : w[x] = f[x]
        /\ \A x \in DOMAIN g : x \notin DOMAIN f => w[x] = g[x]
    BY <2>1 DEF Over, IsMap
  <2>3. w \in Partials
    BY <2>2, PartialIs, MakesPartial
  <2> QED
    BY <2>1, <2>3
<1> QED
  BY <1>1, <1>2, <1>3

LEMMA AccountDiffIs ==
  ASSUME NEW info \in Infos \cup {Empty}, NEW w \in Partials,
         NEW status \in SUBSET {"created", "selfdestructed"}
  PROVE  /\ AccountDiff(info, w, status) \in AccountDiffs
         /\ AccountDiff(info, w, status).info = info
         /\ AccountDiff(info, w, status).storage = w
         /\ AccountDiff(info, w, status).status = status
BY DEF AccountDiff, AccountDiffs

(* A diff of one account, or of none. *)
LEMMA OneDiff ==
  /\ NoChange \in Diffs /\ DOMAIN NoChange = {}
  /\ \A a \in Addresses : \A d \in AccountDiffs : Only(a, d) \in Diffs
<1>1. NoChange \in Diffs /\ DOMAIN NoChange = {}
  <2>1. DOMAIN NoChange = {} /\ IsMap(NoChange)
    BY DEF NoChange, IsMap
  <2> QED
    BY <2>1, MakesDiff
<1>2. ASSUME NEW a \in Addresses, NEW d \in AccountDiffs
      PROVE  Only(a, d) \in Diffs
  <2>1. PICK w : w = Only(a, d)
    OBVIOUS
  <2>2. DOMAIN w = {a} /\ w[a] = d /\ IsMap(w)
    BY <2>1, OnlyIs
  <2>3. w \in Diffs
    BY <2>2, MakesDiff
  <2> QED
    BY <2>1, <2>3
<1> QED
  BY <1>1, <1>2

(* apply_diff, account by account. *)
Merged(d, o, m) ==
  /\ DOMAIN m = DOMAIN d \cup DOMAIN o
  /\ \A a \in DOMAIN d : a \notin DOMAIN o => m[a] = d[a]
  /\ \A a \in DOMAIN o : a \notin DOMAIN d => m[a] = o[a]
  /\ \A a \in DOMAIN d : a \in DOMAIN o =>
       /\ m[a].info = o[a].info
       /\ m[a].storage = Over(o[a].storage, d[a].storage)
       /\ m[a].status = d[a].status \cup o[a].status

LEMMA AppliedDiff ==
  ASSUME NEW d \in Diffs, NEW o \in Diffs
  PROVE  apply_diff(d, o) \in Diffs /\ Merged(d, o, apply_diff(d, o))
<1>0. PICK m : m = apply_diff(d, o)
  OBVIOUS
<1> DEFINE both(a) == AccountDiff(o[a].info, Over(o[a].storage, d[a].storage),
                                  d[a].status \cup o[a].status)
<1>2. /\ DOMAIN m = DOMAIN d \cup DOMAIN o /\ IsMap(m)
      /\ \A a \in DOMAIN d : a \notin DOMAIN o => m[a] = d[a]
      /\ \A a \in DOMAIN o : a \notin DOMAIN d => m[a] = o[a]
      /\ \A a \in DOMAIN d : a \in DOMAIN o => m[a] = both(a)
  BY <1>0 DEF apply_diff, IsMap
<1>3. ASSUME NEW a \in DOMAIN d, a \in DOMAIN o
      PROVE  /\ both(a) \in AccountDiffs
             /\ both(a).info = o[a].info
             /\ both(a).storage = Over(o[a].storage, d[a].storage)
             /\ both(a).status = d[a].status \cup o[a].status
  <2>1. d[a] \in AccountDiffs /\ o[a] \in AccountDiffs
    BY <1>3, DiffIs
  <2>2. /\ o[a].info \in Infos \cup {Empty} /\ o[a].storage \in Partials /\ d[a].storage \in Partials
        /\ d[a].status \cup o[a].status \in SUBSET {"created", "selfdestructed"}
    BY <2>1 DEF AccountDiffs
  <2>3. Over(o[a].storage, d[a].storage) \in Partials
    BY <2>2, WritesTyped
  <2> QED
    BY <2>2, <2>3, AccountDiffIs
<1> HIDE DEF both
<1>4. m \in Diffs
  <2>1. \A a \in DOMAIN m : m[a] \in AccountDiffs
    BY <1>2, <1>3, DiffIs
  <2>2. DOMAIN m \subseteq Addresses
    BY <1>2, DiffIs
  <2> QED
    BY <1>2, <2>1, <2>2, MakesDiff
<1> QED
  BY <1>0, <1>2, <1>3, <1>4 DEF Merged

(* apply_account_change and apply_storage_change *)
AccountSet(d, a, info, d2) ==
  /\ DOMAIN d2 = DOMAIN d \cup {a}
  /\ \A b \in DOMAIN d : b # a => d2[b] = d[b]
  /\ d2[a].info = info
  /\ a \in DOMAIN d => d2[a].storage = d[a].storage /\ d2[a].status = d[a].status
  /\ a \notin DOMAIN d => d2[a].storage = NoWrite /\ d2[a].status = {}

StorageSet(d, a, s, v, info, d2) ==
  /\ DOMAIN d2 = DOMAIN d \cup {a}
  /\ \A b \in DOMAIN d : b # a => d2[b] = d[b]
  /\ a \in DOMAIN d => /\ d2[a].storage = Over(Only(s, v), d[a].storage)
                       /\ d2[a].info = d[a].info /\ d2[a].status = d[a].status
  /\ a \notin DOMAIN d => /\ d2[a].storage = Only(s, v) /\ d2[a].info = info
                          /\ d2[a].status = {"created"}

LEMMA AccountChanged ==
  ASSUME NEW d \in Diffs, NEW a \in Addresses, NEW info \in Infos \cup {Empty},
         NEW d2, d2 = apply_account_change(d, a, info)
  PROVE  d2 \in Diffs /\ AccountSet(d, a, info, d2)
<1>1. CASE a \in DOMAIN d
  <2>1. d2 = [d EXCEPT ![a].info = info]
    BY <1>1 DEF apply_account_change
  <2>2. d[a] \in AccountDiffs /\ DOMAIN d \subseteq Addresses /\ IsMap(d)
        /\ \A b \in DOMAIN d : d[b] \in AccountDiffs
    BY <1>1, DiffIs
  <2>3. /\ DOMAIN d2 = DOMAIN d /\ IsMap(d2)
        /\ \A b \in DOMAIN d : b # a => d2[b] = d[b]
        /\ d2[a] = [d[a] EXCEPT !.info = info]
    BY <1>1, <2>1 DEF IsMap
  <2>4. d2[a] \in AccountDiffs /\ d2[a].info = info /\ d2[a].storage = d[a].storage
        /\ d2[a].status = d[a].status
    BY <2>2, <2>3 DEF AccountDiffs
  <2>5. d2 \in Diffs
    BY <2>2, <2>3, <2>4, MakesDiff
  <2> QED
    BY <1>1, <2>3, <2>4, <2>5 DEF AccountSet
<1>2. CASE a \notin DOMAIN d
  <2>1. PICK x : x = AccountDiff(info, NoWrite, {})
    OBVIOUS
  <2>2. x \in AccountDiffs /\ x.info = info /\ x.storage = NoWrite /\ x.status = {}
    BY <2>1, WritesTyped, AccountDiffIs
  <2>3. d2 = Over(Only(a, x), d)
    BY <1>2, <2>1 DEF apply_account_change
  <2>4. /\ DOMAIN d2 = {a} \cup DOMAIN d /\ d2[a] = x /\ IsMap(d2)
        /\ \A b \in DOMAIN d : b # a => d2[b] = d[b]
    BY <2>3 DEF Over, Only, IsMap
  <2>5. d2 \in Diffs
    BY <2>2, <2>4, DiffIs, MakesDiff
  <2> QED
    BY <1>2, <2>2, <2>4, <2>5 DEF AccountSet
<1> QED
  BY <1>1, <1>2

LEMMA StorageChanged ==
  ASSUME NEW d \in Diffs, NEW a \in Addresses, NEW s \in Slots, NEW v \in Values,
         NEW info \in Infos \cup {Empty},
         NEW d2, d2 = apply_storage_change(d, a, s, v, info)
  PROVE  d2 \in Diffs /\ StorageSet(d, a, s, v, info, d2)
<1>1. CASE a \in DOMAIN d
  <2>1. PICK w : w = Over(Only(s, v), d[a].storage)
    OBVIOUS
  <2>2. d2 = [d EXCEPT ![a].storage = w]
    BY <1>1, <2>1 DEF apply_storage_change
  <2>3. d[a] \in AccountDiffs /\ DOMAIN d \subseteq Addresses /\ IsMap(d)
        /\ \A b \in DOMAIN d : d[b] \in AccountDiffs
    BY <1>1, DiffIs
  <2>4. w \in Partials
    <3>1. d[a].storage \in Partials
      BY <2>3 DEF AccountDiffs
    <3> QED
      BY <2>1, <3>1, WritesTyped
  <2>5. /\ DOMAIN d2 = DOMAIN d /\ IsMap(d2)
        /\ \A b \in DOMAIN d : b # a => d2[b] = d[b]
        /\ d2[a] = [d[a] EXCEPT !.storage = w]
    BY <1>1, <2>2 DEF IsMap
  <2>6. d2[a] \in AccountDiffs /\ d2[a].storage = w /\ d2[a].info = d[a].info
        /\ d2[a].status = d[a].status
    BY <2>3, <2>4, <2>5 DEF AccountDiffs
  <2>7. d2 \in Diffs
    BY <2>3, <2>5, <2>6, MakesDiff
  <2> QED
    BY <1>1, <2>1, <2>5, <2>6, <2>7 DEF StorageSet
<1>2. CASE a \notin DOMAIN d
  <2>1. PICK x : x = AccountDiff(info, Only(s, v), {"created"})
    OBVIOUS
  <2>2. x \in AccountDiffs /\ x.info = info /\ x.storage = Only(s, v) /\ x.status = {"created"}
    BY <2>1, WritesTyped, AccountDiffIs
  <2>3. d2 = Over(Only(a, x), d)
    BY <1>2, <2>1 DEF apply_storage_change
  <2>4. /\ DOMAIN d2 = {a} \cup DOMAIN d /\ d2[a] = x /\ IsMap(d2)
        /\ \A b \in DOMAIN d : b # a => d2[b] = d[b]
    BY <2>3 DEF Over, Only, IsMap
  <2>5. d2 \in Diffs
    BY <2>2, <2>4, DiffIs, MakesDiff
  <2> QED
    BY <1>2, <2>2, <2>4, <2>5 DEF StorageSet
<1> QED
  BY <1>1, <1>2

(* The storage that is read of an account, and the account after a commit. *)
LEMMA StorageTyped ==
  ASSUME NEW account \in {None} \cup Account
  PROVE  StorageOf(account) \in [Slots -> Values] /\ NoStorage \in [Slots -> Values]
<1>1. NoStorage \in [Slots -> Values]
  BY StateCacheAssumption DEF NoStorage
<1> QED
  BY <1>1 DEF StorageOf, Account, Storage

(* The slots that a commit leaves. *)
SlotAfter(account, d, s) ==
  IF s \in DOMAIN d.storage THEN d.storage[s]
  ELSE IF "created" \in d.status THEN 0 ELSE StorageOf(account)[s]

LEMMA CommittedIs ==
  ASSUME NEW account \in {None} \cup Account, NEW d \in AccountDiffs
  PROVE  /\ Removed(d) => CommittedAccount(account, d) = None
         /\ ~ Removed(d) =>
              /\ CommittedAccount(account, d) \in Account
              /\ CommittedAccount(account, d) # None
              /\ CommittedAccount(account, d) =
                   [info |-> d.info, storage |-> [s \in Slots |-> SlotAfter(account, d, s)]]
<1>1. CASE Removed(d)
  BY <1>1 DEF CommittedAccount
<1>2. CASE ~ Removed(d)
  <2>1. PICK w : w = d.storage /\ w \in Partials /\ d.info \in Infos \cup {Empty}
    BY DEF AccountDiffs
  <2>2. PICK base : /\ base = IF "created" \in d.status THEN NoStorage ELSE StorageOf(account)
                    /\ base \in [Slots -> Values]
    BY StorageTyped
  <2>3. CommittedAccount(account, d) =
          [info |-> d.info, storage |-> [s \in Slots |-> Over(w, base)[s]]]
    BY <1>2, <2>1, <2>2 DEF CommittedAccount
  <2>4. \A s \in Slots : Over(w, base)[s] = IF s \in DOMAIN w THEN w[s] ELSE base[s]
    BY <2>2 DEF Over
  <2>5. \A s \in Slots : Over(w, base)[s] = SlotAfter(account, d, s)
    BY <2>1, <2>2, <2>4 DEF SlotAfter, NoStorage
  <2>6. \A s \in Slots : Over(w, base)[s] \in Values
    <3>1. \A s \in DOMAIN w : w[s] \in Values
      BY <2>1, PartialIs
    <3> QED
      BY <2>2, <2>4, <3>1
  <2>7. PICK sto : sto = [s \in Slots |-> SlotAfter(account, d, s)]
    OBVIOUS
  <2>8. sto \in [Slots -> Values] /\ CommittedAccount(account, d) = [info |-> d.info, storage |-> sto]
    BY <2>3, <2>5, <2>6, <2>7
  <2>9. [info |-> d.info, storage |-> sto] \in Account
    BY <2>1, <2>8 DEF Account, Storage
  <2>10. None \notin Account
    BY StateCacheAssumption DEF Account, Storage
  <2> QED
    BY <1>2, <2>7, <2>8, <2>9, <2>10
<1> QED
  BY <1>1, <1>2

(* What is read of an account that was not removed. *)
LEMMA CommittedReads ==
  ASSUME NEW account \in {None} \cup Account, NEW d \in AccountDiffs, ~ Removed(d)
  PROVE  /\ CommittedAccount(account, d).info = d.info
         /\ \A s \in Slots : StorageOf(CommittedAccount(account, d))[s] = SlotAfter(account, d, s)
<1>1. PICK x : /\ x = CommittedAccount(account, d) /\ x # None
               /\ x = [info |-> d.info, storage |-> [s \in Slots |-> SlotAfter(account, d, s)]]
  BY CommittedIs
<1>2. StorageOf(x) = [s \in Slots |-> SlotAfter(account, d, s)] /\ x.info = d.info
  BY <1>1 DEF StorageOf
<1> QED
  BY <1>1, <1>2

LEMMA CommitTyped ==
  ASSUME NEW st \in State, NEW d \in Diffs
  PROVE  /\ commit(st, d) \in State
         /\ \A a \in Addresses : commit(st, d)[a] =
              IF a \in DOMAIN d THEN CommittedAccount(st[a], d[a]) ELSE st[a]
<1>1. \A a \in Addresses : st[a] \in {None} \cup Account
  BY DEF State
<1>2. \A a \in DOMAIN d : a \in Addresses /\ d[a] \in AccountDiffs
  BY DiffIs
<1>3. \A a \in DOMAIN d : CommittedAccount(st[a], d[a]) \in {None} \cup Account
  BY <1>1, <1>2, CommittedIs
<1> QED
  BY <1>1, <1>3 DEF commit, State

(* A state that is computed from typed diffs is a state. *)
LEMMA ComputedTyped ==
  ASSUME NEW diffs, NEW overrides, NEW m \in Nat,
         \A n \in 1 .. m : OverriddenDiff(diffs, overrides, n) \in Diffs
  PROVE  \A n \in 0 .. m : ComputeState(diffs, overrides, n) \in State
<1> DEFINE C(n) == ComputeState(diffs, overrides, n)
           D(n) == OverriddenDiff(diffs, overrides, n)
<1>1. C(0) \in State
  <2>1. C(0) = Nobody
    BY ComputedNext
  <2>2. Nobody \in State
    BY DEF Nobody, State
  <2> QED
    BY <2>1, <2>2
<1>2. \A n \in Nat : C(n + 1) = commit(C(n), D(n + 1))
  BY ComputedNext
<1>3. \A n \in 1 .. m : D(n) \in Diffs
  OBVIOUS
<1> HIDE DEF C, D
<1>4. \A n \in 0 .. m : C(n) \in State
  <2> SUFFICES ASSUME ~ \A n \in 0 .. m : C(n) \in State PROVE FALSE
    OBVIOUS
  <2> DEFINE T == {n \in 0 .. m : C(n) \notin State}
  <2>1. T \in SUBSET Nat /\ T # {}
    OBVIOUS
  <2>2. PICK n \in T : \A y \in T : n <= y
    BY <2>1, LeastNumber
  <2>3. n \in 0 .. m /\ C(n) \notin State /\ n # 0
    BY <1>1, <2>2
  <2>4. PICK k \in Nat : n = k + 1 /\ k \in 0 .. m /\ n \in 1 .. m /\ ~ (n <= k)
    <3>1. n - 1 \in Nat /\ n = (n - 1) + 1 /\ n - 1 \in 0 .. m /\ n \in 1 .. m /\ ~ (n <= n - 1)
      BY <2>3
    <3> QED
      BY <3>1
  <2>5. C(k) \in State
    BY <2>2, <2>4
  <2>6. D(n) \in Diffs /\ C(n) = commit(C(k), D(n))
    BY <1>2, <1>3, <2>4
  <2> QED
    BY <2>3, <2>5, <2>6, CommitTyped
<1> QED
  BY <1>4 DEF C

-----------------------------------------------------------------------------
(* Diffs that follow each other. *)

(* No account is removed, and one that is created has no storage but what is
   written. *)
Lasting(d) == \A a \in DOMAIN d : ~ Removed(d[a])
Clean(st, d) ==
  \A a \in DOMAIN d : "created" \in d[a].status =>
    \A s \in Slots : s \notin DOMAIN d[a].storage => StorageOf(st[a])[s] = 0

(* One account: committing two diffs is committing one after the other. *)
LEMMA TwiceAccount ==
  ASSUME NEW account \in {None} \cup Account, NEW d \in AccountDiffs, NEW o \in AccountDiffs,
         NEW both \in AccountDiffs, ~ Removed(d), ~ Removed(o),
         both.info = o.info, both.status = d.status \cup o.status,
         both.storage = Over(o.storage, d.storage),
         NEW between, between = CommittedAccount(account, d),
         "created" \in o.status =>
           \A s \in Slots : s \notin DOMAIN o.storage => StorageOf(between)[s] = 0
  PROVE  /\ ~ Removed(both)
         /\ CommittedAccount(between, o) = CommittedAccount(account, both)
         /\ "created" \in o.status /\ "created" \notin d.status =>
              \A s \in Slots : s \notin DOMAIN both.storage => StorageOf(account)[s] = 0
<1>1. ~ Removed(both)
  BY DEF Removed
<1>2. between \in {None} \cup Account /\ \A s \in Slots : StorageOf(between)[s] = SlotAfter(account, d, s)
  BY CommittedIs, CommittedReads
<1>3. PICK v, w, u : v = d.storage /\ w = o.storage /\ u = both.storage /\ u = Over(w, v)
  OBVIOUS
<1>4. /\ DOMAIN u = DOMAIN w \cup DOMAIN v
      /\ \A s \in Slots : s \in DOMAIN u => u[s] = IF s \in DOMAIN w THEN w[s] ELSE v[s]
  BY <1>3 DEF Over
<1>5. ASSUME NEW s \in Slots
      PROVE  SlotAfter(between, o, s) = SlotAfter(account, both, s)
  <2>1. SlotAfter(between, o, s) =
          IF s \in DOMAIN w THEN w[s]
          ELSE IF "created" \in o.status THEN 0 ELSE StorageOf(between)[s]
    BY <1>3 DEF SlotAfter
  <2>2. StorageOf(between)[s] =
          IF s \in DOMAIN v THEN v[s]
          ELSE IF "created" \in d.status THEN 0 ELSE StorageOf(account)[s]
    BY <1>2, <1>3 DEF SlotAfter
  <2>3. SlotAfter(account, both, s) =
          IF s \in DOMAIN u THEN u[s]
          ELSE IF "created" \in d.status \cup o.status THEN 0 ELSE StorageOf(account)[s]
    BY <1>3 DEF SlotAfter
  <2>4. "created" \in o.status /\ s \notin DOMAIN w => StorageOf(between)[s] = 0
    BY <1>3
  <2> QED
    BY <1>4, <2>1, <2>2, <2>3, <2>4
<1>6. CommittedAccount(between, o) = CommittedAccount(account, both)
  <2>1. CommittedAccount(between, o) =
          [info |-> o.info, storage |-> [s \in Slots |-> SlotAfter(between, o, s)]]
    BY <1>2, CommittedIs
  <2>2. CommittedAccount(account, both) =
          [info |-> both.info, storage |-> [s \in Slots |-> SlotAfter(account, both, s)]]
    BY <1>1, CommittedIs
  <2>3. [s \in Slots |-> SlotAfter(between, o, s)] = [s \in Slots |-> SlotAfter(account, both, s)]
    BY <1>5
  <2> QED
    BY <2>1, <2>2, <2>3
<1>7. ASSUME "created" \in o.status, "created" \notin d.status,
             NEW s \in Slots, s \notin DOMAIN both.storage
      PROVE  StorageOf(account)[s] = 0
  <2>1. s \notin DOMAIN w /\ s \notin DOMAIN v
    BY <1>3, <1>4, <1>7
  <2>2. SlotAfter(account, d, s) = StorageOf(account)[s]
    BY <1>3, <1>7, <2>1 DEF SlotAfter
  <2> QED
    BY <1>2, <1>3, <1>7, <2>1, <2>2
<1> QED
  BY <1>1, <1>6, <1>7

(* All accounts. *)
LEMMA CommitTwice ==
  ASSUME NEW st \in State, NEW d \in Diffs, NEW o \in Diffs, Lasting(d), Lasting(o),
         Clean(commit(st, d), o)
  PROVE  /\ commit(commit(st, d), o) = commit(st, apply_diff(d, o))
         /\ Lasting(apply_diff(d, o))
         /\ Clean(st, d) => Clean(st, apply_diff(d, o))
<1>0. PICK m : m = apply_diff(d, o) /\ m \in Diffs /\ Merged(d, o, m)
  BY AppliedDiff
<1>1. /\ m = apply_diff(d, o) /\ m \in Diffs /\ DOMAIN m = DOMAIN d \cup DOMAIN o
      /\ \A a \in DOMAIN d : a \notin DOMAIN o => m[a] = d[a]
      /\ \A a \in DOMAIN o : a \notin DOMAIN d => m[a] = o[a]
      /\ \A a \in DOMAIN d : a \in DOMAIN o =>
           /\ m[a].info = o[a].info
           /\ m[a].storage = Over(o[a].storage, d[a].storage)
           /\ m[a].status = d[a].status \cup o[a].status
  BY <1>0 DEF Merged
<1>2. PICK mid : /\ mid = commit(st, d) /\ mid \in State
                 /\ \A a \in Addresses : mid[a] =
                      IF a \in DOMAIN d THEN CommittedAccount(st[a], d[a]) ELSE st[a]
  BY CommitTyped
<1>3. PICK end : /\ end = commit(mid, o) /\ end \in State
                 /\ \A a \in Addresses : end[a] =
                      IF a \in DOMAIN o THEN CommittedAccount(mid[a], o[a]) ELSE mid[a]
  BY <1>2, CommitTyped
<1>4. PICK once : /\ once = commit(st, m) /\ once \in State
                  /\ \A a \in Addresses : once[a] =
                       IF a \in DOMAIN m THEN CommittedAccount(st[a], m[a]) ELSE st[a]
  BY <1>1, CommitTyped
<1>5. /\ \A a \in DOMAIN d : a \in Addresses /\ d[a] \in AccountDiffs /\ ~ Removed(d[a])
      /\ \A a \in DOMAIN o : a \in Addresses /\ o[a] \in AccountDiffs /\ ~ Removed(o[a])
      /\ \A a \in DOMAIN m : a \in Addresses /\ m[a] \in AccountDiffs
  BY <1>1, DiffIs DEF Lasting
<1>6. /\ \A a \in Addresses : st[a] \in {None} \cup Account
      /\ \A a \in DOMAIN o : "created" \in o[a].status =>
           \A s \in Slots : s \notin DOMAIN o[a].storage => StorageOf(mid[a])[s] = 0
  BY <1>2 DEF State, Clean
<1>7. ASSUME NEW a \in DOMAIN d, a \in DOMAIN o
      PROVE  /\ ~ Removed(m[a])
             /\ CommittedAccount(mid[a], o[a]) = CommittedAccount(st[a], m[a])
             /\ "created" \in o[a].status /\ "created" \notin d[a].status =>
                  \A s \in Slots : s \notin DOMAIN m[a].storage => StorageOf(st[a])[s] = 0
  <2>1. PICK x, y, z, account, between :
          /\ x = d[a] /\ y = o[a] /\ z = m[a] /\ account = st[a] /\ between = mid[a]
    OBVIOUS
  <2>2. /\ account \in {None} \cup Account /\ x \in AccountDiffs /\ y \in AccountDiffs
        /\ z \in AccountDiffs /\ ~ Removed(x) /\ ~ Removed(y)
        /\ z.info = y.info /\ z.status = x.status \cup y.status /\ z.storage = Over(y.storage, x.storage)
        /\ between = CommittedAccount(account, x)
        /\ "created" \in y.status =>
             \A s \in Slots : s \notin DOMAIN y.storage => StorageOf(between)[s] = 0
    BY <1>1, <1>2, <1>5, <1>6, <1>7, <2>1
  <2>3. /\ ~ Removed(z)
        /\ CommittedAccount(between, y) = CommittedAccount(account, z)
        /\ "created" \in y.status /\ "created" \notin x.status =>
             \A s \in Slots : s \notin DOMAIN z.storage => StorageOf(account)[s] = 0
    BY <2>2, TwiceAccount
  <2> QED
    BY <2>1, <2>3
<1>8. end = once
  <2>1. \A a \in Addresses : end[a] = once[a]
    BY <1>1, <1>2, <1>3, <1>4, <1>5, <1>7
  <2> QED
    BY <1>3, <1>4, <2>1 DEF State
<1>9. Lasting(m)
  BY <1>1, <1>5, <1>7 DEF Lasting
<1>10. ASSUME Clean(st, d) PROVE Clean(st, m)
  <2> SUFFICES ASSUME NEW a \in DOMAIN m, "created" \in m[a].status,
                      NEW s \in Slots, s \notin DOMAIN m[a].storage
               PROVE  StorageOf(st[a])[s] = 0
    BY DEF Clean
  <2>1. CASE a \notin DOMAIN o
    BY <1>1, <1>10, <2>1 DEF Clean
  <2>2. CASE a \notin DOMAIN d
    BY <1>1, <1>2, <1>5, <1>6, <2>2
  <2>3. CASE a \in DOMAIN d /\ a \in DOMAIN o /\ "created" \notin d[a].status
    BY <1>1, <1>7, <2>3
  <2>4. CASE a \in DOMAIN d /\ a \in DOMAIN o /\ "created" \in d[a].status
    <3>1. PICK v, w, u : v = d[a].storage /\ w = o[a].storage /\ u = m[a].storage /\ u = Over(w, v)
      BY <1>1, <2>4
    <3>2. DOMAIN u = DOMAIN w \cup DOMAIN v
      BY <3>1 DEF Over
    <3> QED
      BY <1>10, <2>4, <3>1, <3>2 DEF Clean
  <2> QED
    BY <1>1, <2>1, <2>2, <2>3, <2>4
<1> QED
  BY <1>1, <1>2, <1>3, <1>4, <1>8, <1>9, <1>10

(* Nothing changes. *)
LEMMA CommitNothing ==
  ASSUME NEW st \in State
  PROVE  commit(st, NoChange) = st /\ Lasting(NoChange) /\ Clean(st, NoChange)
<1>1. NoChange \in Diffs /\ DOMAIN NoChange = {}
  BY OneDiff
<1>2. PICK st2 : st2 = commit(st, NoChange) /\ st2 \in State /\ \A a \in Addresses : st2[a] = st[a]
  BY <1>1, CommitTyped
<1>3. st2 = st
  BY <1>2 DEF State
<1> QED
  BY <1>1, <1>2, <1>3 DEF Lasting, Clean

-----------------------------------------------------------------------------
(* Blocks. *)

(* Accounts are neither emptied nor destroyed. *)
Harmless == Empty \notin Infos /\ "selfdestruct" \notin TxKinds

(* What a transaction does. *)
LEMMA TransactionIs ==
  ASSUME NEW st \in State, NEW d \in TransactionDiffs(st)
  PROVE  d \in Diffs /\ (Harmless => Lasting(d) /\ Clean(st, d))
<1>1. PICK a \in Addresses :
        \/ \E info \in Infos :
             \E w \in IF "touch" \in TxKinds THEN Writes(st[a]) ELSE {} :
               d = Only(a, AccountDiff(info, w, {}))
        \/ \E info \in {i \in Infos : "create" \in TxKinds /\ st[a] = None}, s \in Slots, v \in Values :
             d = Only(a, AccountDiff(info, Only(s, v), {"created"}))
        \/ \E info \in {i \in Infos : "selfdestruct" \in TxKinds /\ st[a] # None} :
             d = Only(a, AccountDiff(info, NoWrite, {"selfdestructed"}))
  BY DEF TransactionDiffs
<1>2. PICK info \in Infos, w \in Partials, status \in SUBSET {"created", "selfdestructed"} :
        /\ d = Only(a, AccountDiff(info, w, status))
        /\ "created" \in status => st[a] = None
        /\ "selfdestructed" \in status => "selfdestruct" \in TxKinds
  <2>1. CASE \E info \in Infos :
               \E w \in IF "touch" \in TxKinds THEN Writes(st[a]) ELSE {} :
                 d = Only(a, AccountDiff(info, w, {}))
    <3>1. PICK info \in Infos, w \in Writes(st[a]) : d = Only(a, AccountDiff(info, w, {}))
      BY <2>1
    <3>2. w \in Partials
      BY <3>1, WritesTyped DEF Writes
    <3> QED
      BY <3>1, <3>2
  <2>2. CASE \E info \in {i \in Infos : "create" \in TxKinds /\ st[a] = None},
                s \in Slots, v \in Values :
               d = Only(a, AccountDiff(info, Only(s, v), {"created"}))
    <3>1. PICK info \in Infos, s \in Slots, v \in Values :
            st[a] = None /\ d = Only(a, AccountDiff(info, Only(s, v), {"created"}))
      BY <2>2
    <3>2. Only(s, v) \in Partials
      BY WritesTyped
    <3> QED
      BY <3>1, <3>2
  <2>3. CASE \E info \in {i \in Infos : "selfdestruct" \in TxKinds /\ st[a] # None} :
               d = Only(a, AccountDiff(info, NoWrite, {"selfdestructed"}))
    BY <2>3, WritesTyped
  <2> QED
    BY <1>1, <2>1, <2>2, <2>3
<1>3. PICK x : /\ x = AccountDiff(info, w, status) /\ x \in AccountDiffs
               /\ x.info = info /\ x.status = status
  BY AccountDiffIs
<1>4. d \in Diffs
  BY <1>2, <1>3, OneDiff
<1>5. DOMAIN d = {a} /\ d[a] = x
  BY <1>2, <1>3 DEF Only
<1>6. ASSUME Harmless PROVE Lasting(d) /\ Clean(st, d)
  <2>1. Lasting(d)
    BY <1>2, <1>3, <1>5, <1>6 DEF Lasting, Removed, Harmless
  <2>2. st[a] = None => \A s \in Slots : StorageOf(st[a])[s] = 0
    BY DEF StorageOf, NoStorage
  <2> QED
    BY <1>2, <1>3, <1>5, <2>1, <2>2 DEF Clean
<1> QED
  BY <1>4, <1>6

(* The blocks of at most n transactions, from those of fewer. *)
BuiltAfter(st, f, n) ==
  IF n = 0 THEN {[state |-> st, diff |-> NoChange]}
  ELSE f[n - 1] \cup UNION {
         {add_transaction_result(b, diff) : diff \in TransactionDiffs(b.state)} : b \in f[n - 1]}

Building(f, st, m) == f = [n \in 0 .. m |-> BuiltAfter(st, f, n)]

(* There is a function with the blocks, however many transactions they take. *)
LEMMA BuildingExists ==
  ASSUME NEW st, NEW m \in Nat
  PROVE  \E f : Building(f, st, m)
<1> DEFINE P(k) == \E f : f = [n \in 0 .. k |-> BuiltAfter(st, f, n)]
<1>1. P(0)
  <2> DEFINE f == [n \in 0 .. 0 |-> {[state |-> st, diff |-> NoChange]}]
  <2>1. f = [n \in 0 .. 0 |-> BuiltAfter(st, f, n)]
    <3>1. \A n \in 0 .. 0 : n = 0
      OBVIOUS
    <3>2. \A n \in 0 .. 0 : BuiltAfter(st, f, n) = {[state |-> st, diff |-> NoChange]}
      BY <3>1 DEF BuiltAfter
    <3> QED
      BY <3>2
  <2> QED
    BY <2>1
<1>2. ASSUME NEW k \in Nat, P(k)
      PROVE  P(k + 1)
  <2>1. PICK f : f = [n \in 0 .. k |-> BuiltAfter(st, f, n)]
    BY <1>2
  <2> DEFINE g == [n \in 0 .. k + 1 |->
                     IF n \in 0 .. k THEN f[n] ELSE BuiltAfter(st, f, n)]
  <2>2. ASSUME NEW n \in 0 .. k + 1
        PROVE  BuiltAfter(st, f, n) = BuiltAfter(st, g, n)
    <3>1. CASE n = 0
      BY <3>1 DEF BuiltAfter
    <3>2. CASE n # 0
      <4>1. n - 1 \in 0 .. k /\ n - 1 \in 0 .. k + 1
        BY <3>2
      <4>2. g[n - 1] = f[n - 1]
        BY <4>1
      <4> QED
        BY <3>2, <4>2 DEF BuiltAfter
    <3> QED
      BY <3>1, <3>2
  <2>3. \A n \in 0 .. k + 1 : g[n] = BuiltAfter(st, g, n)
    <3> TAKE n \in 0 .. k + 1
    <3>1. g[n] = BuiltAfter(st, f, n)
      BY <2>1
    <3> QED
      BY <2>2, <3>1
  <2>4. g = [n \in 0 .. k + 1 |-> g[n]]
    OBVIOUS
  <2> HIDE DEF g
  <2>5. g = [n \in 0 .. k + 1 |-> BuiltAfter(st, g, n)]
    BY <2>3, <2>4
  <2> QED
    BY <2>5
<1> HIDE DEF P
<1>3. \A k \in Nat : P(k)
  <2> SUFFICES ASSUME ~ \A k \in Nat : P(k) PROVE FALSE
    OBVIOUS
  <2> DEFINE T == {k \in Nat : ~ P(k)}
  <2>1. PICK k \in T : \A y \in T : k <= y
    BY LeastNumber
  <2>2. k \in Nat /\ ~ P(k) /\ k # 0
    BY <2>1, <1>1
  <2>3. k - 1 \in Nat /\ (k - 1) + 1 = k
    BY <2>2
  <2>4. k - 1 \notin T
    BY <2>1, <2>2, <2>3
  <2>5. P(k - 1)
    BY <2>3, <2>4
  <2>6. P((k - 1) + 1)
    BY <1>2, <2>3, <2>5
  <2> QED
    BY <2>2, <2>3, <2>6
<1> QED
  BY <1>3 DEF P, Building

(* BuiltBlocks has the blocks of at most MaxTransactions. *)
LEMMA BuiltFrom ==
  ASSUME NEW st
  PROVE  \E f : Building(f, st, MaxTransactions) /\ BuiltBlocks(st) = f[MaxTransactions]
<1> DEFINE f == CHOOSE g : Building(g, st, MaxTransactions)
<1>1. Building(f, st, MaxTransactions)
  BY StateCacheAssumption, BuildingExists
<1>2. BuiltBlocks(st) = f[MaxTransactions]
  BY Zenon DEF BuiltBlocks, Building, BuiltAfter
<1> QED
  BY <1>1, <1>2

(* The state and the diff of a block under construction lead to the same. *)
GoodBuilt(st, b) ==
  /\ b.state \in State /\ b.diff \in Diffs
  /\ Harmless => b.state = commit(st, b.diff) /\ Lasting(b.diff) /\ Clean(st, b.diff)

(* One transaction more. *)
LEMMA AddedIsGood ==
  ASSUME NEW st \in State, NEW b, GoodBuilt(st, b), NEW d \in TransactionDiffs(b.state)
  PROVE  GoodBuilt(st, add_transaction_result(b, d))
<1>1. b.state \in State /\ b.diff \in Diffs
  BY DEF GoodBuilt
<1>2. d \in Diffs /\ (Harmless => Lasting(d) /\ Clean(b.state, d))
  BY <1>1, TransactionIs
<1>3. PICK b2 : b2 = add_transaction_result(b, d)
  OBVIOUS
<1>4. b2.state = commit(b.state, d) /\ b2.diff = apply_diff(b.diff, d)
  BY <1>3 DEF add_transaction_result
<1>5. b2.state \in State /\ b2.diff \in Diffs
  BY <1>1, <1>2, <1>4, CommitTyped, AppliedDiff
<1>6. ASSUME Harmless
      PROVE  b2.state = commit(st, b2.diff) /\ Lasting(b2.diff) /\ Clean(st, b2.diff)
  <2>1. b.state = commit(st, b.diff) /\ Lasting(b.diff) /\ Clean(st, b.diff)
        /\ Lasting(d) /\ Clean(commit(st, b.diff), d)
    BY <1>2, <1>6 DEF GoodBuilt
  <2> QED
    BY <1>1, <1>2, <1>4, <2>1, CommitTwice
<1> QED
  BY <1>3, <1>5, <1>6 DEF GoodBuilt

(* Every block that can be built. *)
LEMMA BuiltIsGood ==
  ASSUME NEW st \in State, NEW b \in BuiltBlocks(st)
  PROVE  GoodBuilt(st, b)
<1>1. PICK f : Building(f, st, MaxTransactions) /\ BuiltBlocks(st) = f[MaxTransactions]
  BY BuiltFrom
<1>2. \A n \in 0 .. MaxTransactions : f[n] = BuiltAfter(st, f, n)
  BY <1>1 DEF Building
<1> DEFINE Good(n) == \A x \in f[n] : GoodBuilt(st, x)
<1>3. \A n \in 0 .. MaxTransactions : Good(n)
  <2> SUFFICES ASSUME ~ \A n \in 0 .. MaxTransactions : Good(n) PROVE FALSE
    OBVIOUS
  <2> HIDE DEF Good
  <2> DEFINE T == {n \in 0 .. MaxTransactions : ~ Good(n)}
  <2>1. T \in SUBSET Nat /\ T # {}
    OBVIOUS
  <2>2. PICK n \in T : \A y \in T : n <= y
    BY <2>1, LeastNumber
  <2>3. n \in 0 .. MaxTransactions /\ ~ Good(n) /\ MaxTransactions \in Nat
    BY <2>2, StateCacheAssumption
  <2>4. CASE n = 0
    <3>1. f[0] = {[state |-> st, diff |-> NoChange]}
      BY <1>2, <2>3, <2>4 DEF BuiltAfter
    <3>2. PICK x : x = [state |-> st, diff |-> NoChange]
      OBVIOUS
    <3> HIDE DEF T
    <3>4. x.state = st /\ x.diff = NoChange
      BY <3>2
    <3>3. GoodBuilt(st, x)
      BY <3>4, OneDiff, CommitNothing DEF GoodBuilt
    <3> QED
      BY <2>3, <2>4, <3>1, <3>2, <3>3 DEF Good
  <2>5. CASE n # 0
    <3>1. n - 1 \in 0 .. MaxTransactions /\ ~ (n <= n - 1)
      BY <2>3, <2>5
    <3>2. Good(n - 1)
      BY <2>2, <3>1
    <3>3. f[n] = f[n - 1] \cup UNION {
                   {add_transaction_result(x, d) : d \in TransactionDiffs(x.state)} : x \in f[n - 1]}
      BY <1>2, <2>3, <2>5 DEF BuiltAfter
    <3>4. ASSUME NEW x \in f[n] PROVE GoodBuilt(st, x)
      <4>1. \A y \in f[n - 1] : GoodBuilt(st, y)
        BY <3>2 DEF Good
      <4>2. CASE x \in f[n - 1]
        BY <4>1, <4>2
      <4>3. CASE x \notin f[n - 1]
        <5>1. PICK y \in f[n - 1] : \E d \in TransactionDiffs(y.state) : x = add_transaction_result(y, d)
          BY <3>3, <4>3
        <5>2. PICK d \in TransactionDiffs(y.state) : x = add_transaction_result(y, d)
          BY <5>1
        <5> QED
          BY <4>1, <5>2, AddedIsGood
      <4> QED
        BY <4>2, <4>3
    <3> QED
      BY <2>3, <3>4 DEF Good
  <2> QED
    BY <2>4, <2>5
<1>4. MaxTransactions \in 0 .. MaxTransactions
  BY StateCacheAssumption
<1> QED
  BY <1>1, <1>3, <1>4

-----------------------------------------------------------------------------
(* The cache. *)

CacheEntries == [id : Nat, state : State]
IdMaps == UNION {[S -> Nat] : S \in SUBSET Nat}
Caches == [current_state_id : Nat, block_state_cache : Seq(CacheEntries),
           block_number_to_state_id : IdMaps]

(* The ids are of blocks up to m, and not new. *)
IdsUpTo(ids, m, last) == /\ ids \in IdMaps /\ DOMAIN ids \subseteq 1 .. m
                         /\ \A n \in DOMAIN ids : ids[n] <= last

KeptOK(c, m) ==
  /\ c \in Caches
  /\ Len(c.block_state_cache) \in 1 .. max_cached_states
  /\ \A i \in DOMAIN c.block_state_cache : c.block_state_cache[i].id <= c.current_state_id
  /\ IdsUpTo(c.block_number_to_state_id, m, c.current_state_id)

(* c2 has no other states than c. *)
NoneAdded(c, c2) ==
  /\ c2.current_state_id = c.current_state_id
  /\ c2.block_number_to_state_id = c.block_number_to_state_id
  /\ \A i \in DOMAIN c2.block_state_cache :
       \E j \in DOMAIN c.block_state_cache : c2.block_state_cache[i] = c.block_state_cache[j]

(* c2 has one state more than c, the first one. *)
OneAdded(c, st, number, c2) ==
  /\ c2.current_state_id = c.current_state_id + 1
  /\ number \in DOMAIN c2.block_number_to_state_id
  /\ c2.block_number_to_state_id[number] = c.current_state_id + 1
  /\ \A n \in DOMAIN c2.block_number_to_state_id : n # number =>
       /\ n \in DOMAIN c.block_number_to_state_id
       /\ c2.block_number_to_state_id[n] = c.block_number_to_state_id[n]
  /\ \A i \in DOMAIN c2.block_state_cache :
       \/ c2.block_state_cache[i].id = c.current_state_id + 1 /\ c2.block_state_cache[i].state = st
       \/ \E j \in DOMAIN c.block_state_cache : c2.block_state_cache[i] = c.block_state_cache[j]

LEMMA MakesIds ==
  ASSUME NEW ids, IsMap(ids), DOMAIN ids \subseteq Nat, \A n \in DOMAIN ids : ids[n] \in Nat
  PROVE  ids \in IdMaps
<1>1. ids \in [DOMAIN ids -> Nat]
  BY DEF IsMap
<1> QED
  BY <1>1 DEF IdMaps

(* add_state_to_cache *)
LEMMA StateAdded ==
  ASSUME NEW m \in Nat, NEW m2 \in Nat, m <= m2, NEW c, KeptOK(c, m), NEW st \in State,
         NEW number \in 1 .. m2, NEW c2, c2 = add_state_to_cache(c, st, number)
  PROVE  KeptOK(c2, m2) /\ OneAdded(c, st, number, c2) /\ MostRecent(c2) = st
<1>1. PICK id, q, ids : /\ id = c.current_state_id + 1 /\ q = c.block_state_cache
                        /\ ids = c.block_number_to_state_id
  OBVIOUS
<1>2. /\ id \in Nat /\ q \in Seq(CacheEntries) /\ ids \in IdMaps /\ c.current_state_id \in Nat
      /\ Len(q) \in 1 .. max_cached_states /\ max_cached_states \in Nat
  BY <1>1, StateCacheAssumption DEF KeptOK, Caches
<1>3. PICK e : e = [id |-> id, state |-> st]
  OBVIOUS
<1>4. e \in CacheEntries /\ e.id = id /\ e.state = st
  BY <1>2, <1>3 DEF CacheEntries
<1>5. PICK k : k = IF Len(q) < max_cached_states THEN Len(q) + 1 ELSE max_cached_states
  OBVIOUS
<1>6. k \in 1 .. max_cached_states /\ k <= Len(q) + 1 /\ Len(q) \in Nat
  BY <1>2, <1>5
<1>7. PICK q2 : q2 = SubSeq(<<e>> \o q, 1, k)
  OBVIOUS
<1>8. PICK ids2 : ids2 = Over(Only(number, id), ids)
  OBVIOUS
<1>9. c2 = [current_state_id |-> id, block_state_cache |-> q2, block_number_to_state_id |-> ids2]
  BY <1>1, <1>3, <1>5, <1>7, <1>8 DEF add_state_to_cache
<1>10. /\ c2.current_state_id = id /\ c2.block_state_cache = q2
       /\ c2.block_number_to_state_id = ids2
  BY <1>9
<1>11. /\ q2 \in Seq(CacheEntries) /\ Len(q2) = k /\ DOMAIN q2 = 1 .. k /\ q2[1] = e
       /\ \A i \in 1 .. k : i # 1 => i - 1 \in DOMAIN q /\ q2[i] = q[i - 1]
  <2>1. PICK p : p = <<e>> \o q
    OBVIOUS
  <2>2. /\ p \in Seq(CacheEntries) /\ Len(p) = Len(q) + 1 /\ p[1] = e
        /\ \A i \in 1 .. Len(q) + 1 : i # 1 => p[i] = q[i - 1]
    BY <1>2, <1>4, <2>1
  <2>3. q2 = SubSeq(p, 1, k) /\ k \in Nat /\ 1 <= k /\ k <= Len(p)
    BY <1>2, <1>6, <1>7, <2>1, <2>2
  <2>4. q2 \in Seq(CacheEntries) /\ Len(q2) = k /\ \A i \in 1 .. k : q2[i] = p[i]
    BY <2>2, <2>3
  <2>5. 1 \in 1 .. k /\ \A i \in 1 .. k : i \in 1 .. Len(q) + 1 /\ (i # 1 => i - 1 \in 1 .. Len(q))
    BY <1>2, <1>6
  <2> QED
    BY <1>2, <2>2, <2>4, <2>5
<1>12. /\ IsMap(ids2) /\ DOMAIN ids2 = DOMAIN ids \cup {number} /\ ids2[number] = id
       /\ \A n \in DOMAIN ids : n # number => ids2[n] = ids[n]
  BY <1>8 DEF Over, Only, IsMap
<1>13. DOMAIN ids \subseteq 1 .. m /\ \A n \in DOMAIN ids : ids[n] \in Nat /\ ids[n] <= c.current_state_id
  BY <1>1, <1>2 DEF KeptOK, IdsUpTo, IdMaps
<1>14. IdsUpTo(ids2, m2, id)
  <2>1. DOMAIN ids2 \subseteq 1 .. m2
    BY <1>12, <1>13
  <2>2. \A n \in DOMAIN ids2 : ids2[n] \in Nat /\ ids2[n] <= id
    BY <1>1, <1>2, <1>12, <1>13
  <2>3. ids2 \in IdMaps
    BY <1>12, <2>1, <2>2, MakesIds
  <2> QED
    BY <2>1, <2>2, <2>3 DEF IdsUpTo
<1>15. KeptOK(c2, m2)
  <2>1. c2 \in Caches
    BY <1>2, <1>9, <1>11, <1>14 DEF Caches, IdsUpTo
  <2>2. \A i \in DOMAIN q2 : q2[i].id <= id
    <3>0. \A i \in DOMAIN q : q[i] \in CacheEntries
      BY <1>2
    <3>1. \A i \in DOMAIN q : q[i].id <= c.current_state_id /\ q[i].id \in Nat
      BY <1>1, <3>0 DEF KeptOK, CacheEntries
    <3>2. ASSUME NEW i \in 1 .. k PROVE q2[i].id <= id
      <4>1. CASE i = 1
        BY <1>2, <1>4, <1>11, <4>1
      <4>2. CASE i # 1
        BY <1>1, <1>2, <1>11, <3>1, <4>2
      <4> QED
        BY <4>1, <4>2
    <3> QED
      BY <1>11, <3>2
  <2> QED
    BY <1>6, <1>10, <1>11, <1>14, <2>1, <2>2 DEF KeptOK
<1>16. OneAdded(c, st, number, c2)
  <2>1. \A i \in DOMAIN q2 : \/ q2[i].id = id /\ q2[i].state = st
                             \/ \E j \in DOMAIN q : q2[i] = q[j]
    BY <1>4, <1>11
  <2>2. \A n \in DOMAIN ids2 : n # number => n \in DOMAIN ids /\ ids2[n] = ids[n]
    BY <1>12
  <2> QED
    BY <1>1, <1>10, <1>12, <2>1, <2>2 DEF OneAdded
<1>17. MostRecent(c2) = st
  BY <1>4, <1>10, <1>11 DEF MostRecent
<1> QED
  BY <1>15, <1>16, <1>17

(* get_or_compute_state *)
LEMMA StateGot ==
  ASSUME NEW m \in Nat, KeptOK(cache, m), NEW number \in 1 .. m,
         state_at_block_number(number) \in State,
         NEW c, c = get_or_compute_state(number)
  PROVE  /\ KeptOK(c, m) /\ MostRecent(c) \in State
         /\ \/ /\ NoneAdded(cache, c)
               /\ \E i \in Hits(cache, number) : MostRecent(c) = cache.block_state_cache[i].state
            \/ /\ OneAdded(cache, state_at_block_number(number), number, c)
               /\ MostRecent(c) = state_at_block_number(number)
<1>1. CASE Hits(cache, number) = {}
  <2>1. c = add_state_to_cache(cache, state_at_block_number(number), number)
    BY <1>1 DEF get_or_compute_state
  <2> QED
    BY <2>1, StateAdded
<1>2. CASE Hits(cache, number) # {}
  <2>1. PICK i : i = CHOOSE j \in Hits(cache, number) : TRUE
    OBVIOUS
  <2>2. i \in Hits(cache, number)
    BY <1>2, <2>1
  <2>3. PICK q : q = cache.block_state_cache
    OBVIOUS
  <2>4. q \in Seq(CacheEntries) /\ Len(q) \in 1 .. max_cached_states /\ i \in 1 .. Len(q) /\ Len(q) \in Nat
        /\ max_cached_states \in Nat
    BY <2>2, <2>3, StateCacheAssumption DEF KeptOK, Caches, Hits
  <2>5. PICK q2 : q2 = <<q[i]>> \o RemoveAt(q, i)
    OBVIOUS
  <2>6. c = [cache EXCEPT !.block_state_cache = q2]
    BY <1>2, <2>1, <2>3, <2>5 DEF get_or_compute_state
  <2>7. /\ q2 \in Seq(CacheEntries) /\ Len(q2) = Len(q) /\ q2[1] = q[i]
        /\ \A j \in 1 .. Len(q2) : \E k \in 1 .. Len(q) : q2[j] = q[k]
    <3>1. PICK l, r : l = SubSeq(q, 1, i - 1) /\ r = SubSeq(q, i + 1, Len(q))
      OBVIOUS
    <3>2. /\ l \in Seq(CacheEntries) /\ Len(l) = i - 1
          /\ \A j \in 1 .. i - 1 : l[j] = q[j]
      BY <2>4, <3>1
    <3>3. /\ r \in Seq(CacheEntries) /\ Len(r) = Len(q) - i
          /\ \A j \in 1 .. Len(q) - i : r[j] = q[i + j]
      BY <2>4, <3>1
    <3>4. PICK p : p = l \o r
      OBVIOUS
    <3>5. /\ p \in Seq(CacheEntries) /\ Len(p) = Len(q) - 1
          /\ \A j \in 1 .. Len(q) - 1 : p[j] = IF j <= i - 1 THEN l[j] ELSE r[j - (i - 1)]
      BY <2>4, <3>2, <3>3, <3>4
    <3>6. ASSUME NEW j \in 1 .. Len(q) - 1
          PROVE  \E k \in 1 .. Len(q) : p[j] = q[k]
      <4>1. CASE j <= i - 1
        BY <2>4, <3>2, <3>5, <4>1
      <4>2. CASE ~ (j <= i - 1)
        <5>1. j - (i - 1) \in 1 .. Len(q) - i /\ i + (j - (i - 1)) = j + 1 /\ j + 1 \in 1 .. Len(q)
          BY <2>4, <4>2
        <5> QED
          BY <3>3, <3>5, <4>2, <5>1
      <4> QED
        BY <4>1, <4>2
    <3>7. q2 = <<q[i]>> \o p /\ q[i] \in CacheEntries
      BY <2>4, <2>5, <3>1, <3>4 DEF RemoveAt
    <3>8. /\ q2 \in Seq(CacheEntries) /\ Len(q2) = Len(q) /\ q2[1] = q[i]
          /\ \A j \in 1 .. Len(q) : j # 1 => q2[j] = p[j - 1] /\ j - 1 \in 1 .. Len(q) - 1
      BY <2>4, <3>5, <3>7
    <3> QED
      BY <2>4, <3>6, <3>8
  <2>8. /\ c.block_state_cache = q2 /\ c.current_state_id = cache.current_state_id
        /\ c.block_number_to_state_id = cache.block_number_to_state_id /\ c \in Caches
    BY <2>6, <2>7 DEF KeptOK, Caches
  <2>9. DOMAIN q = 1 .. Len(q) /\ DOMAIN q2 = 1 .. Len(q2)
    BY <2>4, <2>7
  <2>10. KeptOK(c, m)
    <3>0. \A j \in 1 .. Len(q) : q[j].id <= cache.current_state_id
      BY <2>3, <2>4, <2>9 DEF KeptOK
    <3>1. \A j \in DOMAIN q2 : q2[j].id <= cache.current_state_id
      BY <2>7, <2>9, <3>0
    <3> QED
      BY <2>4, <2>7, <2>8, <3>1 DEF KeptOK
  <2>11. NoneAdded(cache, c)
    <3>1. \A j \in DOMAIN q2 : \E k \in DOMAIN q : q2[j] = q[k]
      BY <2>7, <2>9
    <3> QED
      BY <2>3, <2>8, <3>1 DEF NoneAdded
  <2>12. MostRecent(c) = q[i].state /\ MostRecent(c) \in State
    <3>1. q[i] \in CacheEntries
      BY <2>4
    <3> QED
      BY <2>7, <2>8, <3>1 DEF MostRecent, CacheEntries
  <2> QED
    BY <2>2, <2>3, <2>10, <2>11, <2>12
<1> QED
  BY <1>1, <1>2

-----------------------------------------------------------------------------
(* The chain, the changes made outside of blocks, and the snapshots. *)

StateOverrides == [diff : Diffs, state_root : State]

Chain(diffs) ==
  /\ diffs \in Seq(Diffs) /\ Len(diffs) >= 1
  /\ Harmless => \A n \in DOMAIN diffs : Lasting(diffs[n])

Irregular(o, m) ==
  /\ DOMAIN o \subseteq 1 .. m
  /\ \A n \in DOMAIN o : o[n] \in StateOverrides /\ (Harmless => Lasting(o[n].diff))

SnapshotOK(s, diffs, last) ==
  /\ s.block_number \in 1 .. Len(diffs)
  /\ Irregular(s.irregular_state, s.block_number)
  /\ IdsUpTo(s.block_number_to_state_id, s.block_number, last)
  /\ s.state = ComputeState(diffs, s.irregular_state, s.block_number)

(* A later snapshot is of a chain that is not shorter. *)
SnapshotsOK(ss, next, diffs, last) ==
  /\ next \in Nat
  /\ \A id \in DOMAIN ss : id \in Nat /\ id < next /\ SnapshotOK(ss[id], diffs, last)
  /\ \A i, j \in DOMAIN ss : i < j => ss[i].block_number <= ss[j].block_number

ChainInv ==
  /\ Chain(state_diffs) /\ Irregular(irregular_state, last_block_number)
  /\ KeptOK(cache, last_block_number)
  /\ SnapshotsOK(snapshots, next_snapshot_id, state_diffs, cache.current_state_id)

(* The diff of a block with the changes made after it. *)
LEMMA OverriddenIs ==
  ASSUME NEW diffs, Chain(diffs), NEW m \in 1 .. Len(diffs), NEW o, Irregular(o, m), NEW n \in 1 .. m
  PROVE  /\ diffs[n] \in Diffs /\ OverriddenDiff(diffs, o, n) \in Diffs
         /\ Merged(diffs[n], IF n \in DOMAIN o THEN o[n].diff ELSE NoChange,
                   OverriddenDiff(diffs, o, n))
<1>1. diffs[n] \in Diffs
  BY DEF Chain
<1>2. CASE n \in DOMAIN o
  <2>1. o[n].diff \in Diffs /\ OverriddenDiff(diffs, o, n) = apply_diff(diffs[n], o[n].diff)
    BY <1>2 DEF Irregular, StateOverrides, OverriddenDiff
  <2> QED
    BY <1>1, <1>2, <2>1, AppliedDiff
<1>3. CASE n \notin DOMAIN o
  <2>1. OverriddenDiff(diffs, o, n) = diffs[n]
    BY <1>3 DEF OverriddenDiff
  <2>2. Merged(diffs[n], NoChange, diffs[n])
    BY OneDiff DEF Merged
  <2> QED
    BY <1>1, <1>3, <2>1, <2>2
<1> QED
  BY <1>2, <1>3

LEMMA ComputedIs ==
  ASSUME NEW diffs, Chain(diffs), NEW m \in 1 .. Len(diffs), NEW o, Irregular(o, m)
  PROVE  \A n \in 0 .. m : ComputeState(diffs, o, n) \in State
<1>1. m \in Nat
  BY DEF Chain
<1>2. \A n \in 1 .. m : OverriddenDiff(diffs, o, n) \in Diffs
  BY OverriddenIs
<1> QED
  BY <1>1, <1>2, ComputedTyped

(* Chains that begin with the same blocks. *)
SameUpTo(diffs, diffs2, m) == \A n \in 1 .. m : diffs2[n] = diffs[n]

LEMMA SameBlocks ==
  ASSUME NEW diffs, NEW diffs2, NEW o, NEW m \in Nat, SameUpTo(diffs, diffs2, m)
  PROVE  \A n \in 0 .. m : ComputeState(diffs2, o, n) = ComputeState(diffs, o, n)
<1> SUFFICES ASSUME NEW n \in 0 .. m PROVE ComputeState(diffs2, o, n) = ComputeState(diffs, o, n)
  OBVIOUS
<1>1. n \in Nat /\ \A k \in 1 .. n : k \in 1 .. m
  OBVIOUS
<1>2. \A k \in 1 .. n : OverriddenDiff(diffs2, o, k) = OverriddenDiff(diffs, o, k)
  BY <1>1 DEF OverriddenDiff, SameUpTo
<1> QED
  BY <1>1, <1>2, ComputedSame

(* A snapshot stays what it is while its blocks are there. *)
LEMMA SnapshotStays ==
  ASSUME NEW s, NEW diffs, NEW diffs2, NEW last, NEW last2, last \in Nat, last2 \in Nat,
         SnapshotOK(s, diffs, last), last <= last2, Len(diffs) \in Nat, Len(diffs2) \in Nat,
         s.block_number <= Len(diffs2), SameUpTo(diffs, diffs2, s.block_number)
  PROVE  SnapshotOK(s, diffs2, last2)
<1>1. PICK k : k = s.block_number /\ k \in 1 .. Len(diffs) /\ k \in Nat
  BY DEF SnapshotOK
<1>2. ComputeState(diffs2, s.irregular_state, k) = ComputeState(diffs, s.irregular_state, k)
  <2>1. PICK o : o = s.irregular_state
    OBVIOUS
  <2>2. k \in 0 .. k /\ SameUpTo(diffs, diffs2, k)
    BY <1>1
  <2>3. \A n \in 0 .. k : ComputeState(diffs2, o, n) = ComputeState(diffs, o, n)
    BY <1>1, <2>2, SameBlocks
  <2> QED
    BY <2>1, <2>2, <2>3
<1>3. IdsUpTo(s.block_number_to_state_id, k, last2)
  <2>1. PICK ids : ids = s.block_number_to_state_id /\ IdsUpTo(ids, k, last)
    BY <1>1 DEF SnapshotOK
  <2>2. \A n \in DOMAIN ids : ids[n] \in Nat
    BY <2>1 DEF IdsUpTo, IdMaps
  <2> QED
    BY <2>1, <2>2 DEF IdsUpTo
<1>4. k \in 1 .. Len(diffs2)
  BY <1>1
<1> QED
  BY <1>1, <1>2, <1>3, <1>4 DEF SnapshotOK

LEMMA SnapshotsStay ==
  ASSUME NEW ss, NEW next, NEW diffs, NEW diffs2, NEW last \in Nat, NEW last2 \in Nat,
         SnapshotsOK(ss, next, diffs, last), last <= last2, Chain(diffs), Chain(diffs2),
         Len(diffs) <= Len(diffs2), SameUpTo(diffs, diffs2, Len(diffs))
  PROVE  SnapshotsOK(ss, next, diffs2, last2)
<1>1. Len(diffs) \in Nat /\ Len(diffs2) \in Nat
  BY DEF Chain
<1>2. ASSUME NEW id \in DOMAIN ss PROVE SnapshotOK(ss[id], diffs2, last2)
  <2>1. PICK s : s = ss[id] /\ SnapshotOK(s, diffs, last)
    BY DEF SnapshotsOK
  <2>2. s.block_number \in 1 .. Len(diffs)
    BY <2>1 DEF SnapshotOK
  <2>3. s.block_number <= Len(diffs2) /\ SameUpTo(diffs, diffs2, s.block_number)
    BY <1>1, <2>2 DEF SameUpTo
  <2> QED
    BY <1>1, <2>1, <2>3, SnapshotStays
<1> QED
  BY <1>2 DEF SnapshotsOK

(* The last block is overridden. *)
LEMMA Overridden ==
  ASSUME NEW m \in Nat \ {0}, NEW o, Irregular(o, m), NEW x \in StateOverrides,
         Harmless => Lasting(x.diff), NEW o2, o2 = Over(Only(m, x), o)
  PROVE  /\ Irregular(o2, m) /\ m \in DOMAIN o2 /\ o2[m] = x
         /\ \A n : n # m => (n \in DOMAIN o2 <=> n \in DOMAIN o) /\ (n \in DOMAIN o => o2[n] = o[n])
<1>1. /\ DOMAIN o2 = DOMAIN o \cup {m} /\ o2[m] = x
      /\ \A n \in DOMAIN o : n # m => o2[n] = o[n]
  BY DEF Over, Only
<1>2. DOMAIN o2 \subseteq 1 .. m
  BY <1>1 DEF Irregular
<1>3. \A n \in DOMAIN o2 : o2[n] \in StateOverrides /\ (Harmless => Lasting(o2[n].diff))
  BY <1>1 DEF Irregular
<1> QED
  BY <1>1, <1>2, <1>3 DEF Irregular

(* StateOverride *)
LEMMA OverrideIs ==
  ASSUME ChainInv, NEW root \in State, NEW x, x = StateOverride(root)
  PROVE  /\ x \in StateOverrides
         /\ x.diff = IF last_block_number \in DOMAIN irregular_state
                     THEN irregular_state[last_block_number].diff ELSE NoChange
         /\ Harmless => Lasting(x.diff)
<1>1. CASE last_block_number \in DOMAIN irregular_state
  BY <1>1 DEF StateOverride, ChainInv, Irregular
<1>2. CASE last_block_number \notin DOMAIN irregular_state
  <2>1. x = [diff |-> NoChange, state_root |-> root]
    BY <1>2 DEF StateOverride
  <2>2. x.diff = NoChange /\ x \in StateOverrides
    BY <2>1, OneDiff DEF StateOverrides
  <2> QED
    BY <1>2, <2>2, CommitNothing
<1> QED
  BY <1>1, <1>2

-----------------------------------------------------------------------------
(* The steps keep that invariant, whatever the accounts are. *)

(* What is got from the cache for a block of the chain. *)
GotFor(number, c) ==
  \/ /\ NoneAdded(cache, c)
     /\ \E i \in Hits(cache, number) : MostRecent(c) = cache.block_state_cache[i].state
  \/ /\ OneAdded(cache, state_at_block_number(number), number, c)
     /\ MostRecent(c) = state_at_block_number(number)

LEMMA GotNow ==
  ASSUME ChainInv, NEW number \in 1 .. last_block_number, NEW c, c = get_or_compute_state(number)
  PROVE  /\ KeptOK(c, last_block_number) /\ MostRecent(c) \in State /\ GotFor(number, c)
         /\ cache.current_state_id \in Nat /\ c.current_state_id \in Nat
         /\ cache.current_state_id <= c.current_state_id
<1>1. last_block_number \in Nat /\ last_block_number \in 1 .. Len(state_diffs)
      /\ KeptOK(cache, last_block_number) /\ number \in 0 .. last_block_number
  BY DEF ChainInv, Chain, last_block_number
<1>2. state_at_block_number(number) \in State
  BY <1>1, ComputedIs DEF ChainInv, state_at_block_number
<1>3. KeptOK(c, last_block_number) /\ MostRecent(c) \in State /\ GotFor(number, c)
  BY <1>1, <1>2, StateGot DEF GotFor
<1>4. cache.current_state_id \in Nat /\ c.current_state_id \in Nat
  BY <1>1, <1>3 DEF KeptOK, Caches
<1>5. cache.current_state_id <= c.current_state_id
  BY <1>3, <1>4 DEF GotFor, NoneAdded, OneAdded
<1> QED
  BY <1>3, <1>4, <1>5

(* A request reads a state. *)
LEMMA ReadKeepsChain ==
  ASSUME ChainInv, NEW number \in 1 .. last_block_number, Read(number)
  PROVE  ChainInv'
<1>1. PICK c : c = get_or_compute_state(number) /\ cache' = c
  BY DEF Read
<1>2. /\ KeptOK(c, last_block_number)
      /\ cache.current_state_id \in Nat /\ c.current_state_id \in Nat
      /\ cache.current_state_id <= c.current_state_id
  BY <1>1, GotNow
<1>3. SnapshotsOK(snapshots, next_snapshot_id, state_diffs, c.current_state_id)
  <2>1. SameUpTo(state_diffs, state_diffs, Len(state_diffs)) /\ Len(state_diffs) \in Nat
    BY DEF SameUpTo, ChainInv, Chain
  <2>2. Len(state_diffs) <= Len(state_diffs)
    BY <2>1
  <2> QED
    BY <1>2, <2>1, <2>2, SnapshotsStay DEF ChainInv
<1> QED
  BY <1>1, <1>2, <1>3 DEF ChainInv, Read, last_block_number

(* The changes that were made after the last block. *)
OldDiff ==
  IF last_block_number \in DOMAIN irregular_state
  THEN irregular_state[last_block_number].diff ELSE NoChange

(* A change of the last block: st is the changed state, x the override. *)
OverrideMade(c, st, x) ==
  /\ c = get_or_compute_state(last_block_number)
  /\ st \in State /\ x \in StateOverrides /\ (Harmless => Lasting(x.diff))
  /\ irregular_state' = Over(Only(last_block_number, x), irregular_state)
  /\ cache' = add_state_to_cache(c, st, last_block_number)
  /\ state_diffs' = state_diffs /\ snapshots' = snapshots /\ next_snapshot_id' = next_snapshot_id

LEMMA OldDiffIs ==
  ASSUME ChainInv
  PROVE  OldDiff \in Diffs /\ (Harmless => Lasting(OldDiff))
<1>1. NoChange \in Diffs /\ Lasting(NoChange)
  BY OneDiff DEF Lasting
<1> QED
  BY <1>1 DEF ChainInv, Irregular, StateOverrides, OldDiff

LEMMA OverrideKeepsChain ==
  ASSUME ChainInv, NEW c, NEW st, NEW x, OverrideMade(c, st, x)
  PROVE  ChainInv'
<1>1. PICK m \in Nat \ {0} : m = last_block_number /\ m \in 1 .. last_block_number
  BY DEF ChainInv, Chain, last_block_number
<1>2. /\ KeptOK(c, m) /\ cache.current_state_id \in Nat /\ c.current_state_id \in Nat
      /\ cache.current_state_id <= c.current_state_id
  BY <1>1, GotNow DEF OverrideMade
<1>3. PICK c2 : c2 = cache' /\ c2 = add_state_to_cache(c, st, m)
  BY <1>1 DEF OverrideMade
<1>4. KeptOK(c2, m) /\ OneAdded(c, st, m, c2)
  <2>1. m <= m /\ m \in 1 .. m
    BY <1>1
  <2> QED
    BY <1>2, <1>3, <2>1, StateAdded DEF OverrideMade
<1>5. c2.current_state_id \in Nat /\ cache.current_state_id <= c2.current_state_id
  BY <1>2, <1>4 DEF OneAdded, KeptOK, Caches
<1>6. SnapshotsOK(snapshots, next_snapshot_id, state_diffs, c2.current_state_id)
  <2>1. SameUpTo(state_diffs, state_diffs, Len(state_diffs)) /\ Len(state_diffs) \in Nat
    BY DEF SameUpTo, ChainInv, Chain
  <2>2. Len(state_diffs) <= Len(state_diffs)
    BY <2>1
  <2> QED
    BY <1>2, <1>5, <2>1, <2>2, SnapshotsStay DEF ChainInv
<1>7. Irregular(irregular_state', m)
  BY <1>1, Overridden DEF ChainInv, OverrideMade
<1> QED
  BY <1>1, <1>3, <1>4, <1>6, <1>7 DEF ChainInv, OverrideMade, last_block_number

(* What set_balance, set_nonce and set_code do. *)
LEMMA SetAccountIs ==
  ASSUME ChainInv, NEW a \in Addresses, NEW info \in Infos, SetAccount(a, info)
  PROVE  \E c, st, x : /\ OverrideMade(c, st, x)
                       /\ AccountSet(OldDiff, a, info, x.diff)
                       /\ st = [MostRecent(c) EXCEPT ![a] = [info |-> info, storage |-> StorageOf(@)]]
<1>1. PICK c : c = get_or_compute_state(last_block_number)
  OBVIOUS
<1>2. PICK old : old = MostRecent(c) /\ old \in State
  <2>1. last_block_number \in 1 .. last_block_number
    BY DEF ChainInv, Chain, last_block_number
  <2> QED
    BY <1>1, <2>1, GotNow
<1>3. PICK st : st = [old EXCEPT ![a] = [info |-> info, storage |-> StorageOf(@)]]
  OBVIOUS
<1>4. st \in State
  <2>1. old[a] \in {None} \cup Account
    BY <1>2 DEF State
  <2>2. [info |-> info, storage |-> StorageOf(old[a])] \in Account
    BY <2>1, StorageTyped DEF Account, Storage
  <2> QED
    BY <1>2, <1>3, <2>2 DEF State
<1>5. PICK y : y = StateOverride(st)
  OBVIOUS
<1>6. y \in StateOverrides /\ y.diff = OldDiff
  BY <1>4, <1>5, OverrideIs DEF OldDiff
<1>7. PICK d : d = apply_account_change(OldDiff, a, info)
  OBVIOUS
<1>8. PICK x : x = [y EXCEPT !.diff = d]
  OBVIOUS
<1>9. /\ irregular_state' = Over(Only(last_block_number, x), irregular_state)
      /\ cache' = add_state_to_cache(c, st, last_block_number)
      /\ state_diffs' = state_diffs /\ snapshots' = snapshots /\ next_snapshot_id' = next_snapshot_id
  BY <1>1, <1>2, <1>3, <1>5, <1>6, <1>7, <1>8 DEF SetAccount, Overrides
<1>10. d \in Diffs /\ AccountSet(OldDiff, a, info, d)
  <2>1. OldDiff \in Diffs /\ info \in Infos \cup {Empty}
    BY OldDiffIs
  <2> QED
    BY <1>7, <2>1, AccountChanged
<1>11. x \in StateOverrides /\ x.diff = d
  BY <1>6, <1>8, <1>10 DEF StateOverrides
<1>12. Harmless => Lasting(d)
  <2> SUFFICES ASSUME Harmless PROVE Lasting(d)
    OBVIOUS
  <2>1. \A b \in DOMAIN OldDiff : ~ Removed(OldDiff[b])
    BY OldDiffIs DEF Lasting
  <2> QED
    BY <1>10, <2>1 DEF AccountSet, Lasting, Removed, Harmless
<1> QED
  BY <1>1, <1>2, <1>3, <1>4, <1>9, <1>10, <1>11, <1>12 DEF OverrideMade

(* What set_account_storage_slot does. *)
LEMMA SetStorageIs ==
  ASSUME ChainInv, NEW a \in Addresses, NEW s \in Slots, NEW v \in Values,
         SetAccountStorageSlot(a, s, v)
  PROVE  \E c, st, x, info :
           /\ OverrideMade(c, st, x)
           /\ info = IF MostRecent(c)[a] = None THEN Empty ELSE MostRecent(c)[a].info
           /\ info \in Infos \cup {Empty}
           /\ StorageSet(OldDiff, a, s, v, info, x.diff)
           /\ st = [MostRecent(c) EXCEPT ![a] =
                      [info |-> info, storage |-> [StorageOf(@) EXCEPT ![s] = v]]]
<1>1. PICK c : c = get_or_compute_state(last_block_number)
  OBVIOUS
<1>2. PICK old : old = MostRecent(c) /\ old \in State
  <2>1. last_block_number \in 1 .. last_block_number
    BY DEF ChainInv, Chain, last_block_number
  <2> QED
    BY <1>1, <2>1, GotNow
<1>3. PICK info : info = IF old[a] = None THEN Empty ELSE old[a].info
  OBVIOUS
<1>4. PICK st : st = [old EXCEPT ![a] = [info |-> info, storage |-> [StorageOf(@) EXCEPT ![s] = v]]]
  OBVIOUS
<1>5. st \in State /\ info \in Infos \cup {Empty}
  <2>1. old[a] \in {None} \cup Account
    BY <1>2 DEF State
  <2>2. info \in Infos \cup {Empty}
    BY <1>3, <2>1 DEF Account
  <2>3. [StorageOf(old[a]) EXCEPT ![s] = v] \in Storage
    BY <2>1, StorageTyped DEF Storage
  <2>4. [info |-> info, storage |-> [StorageOf(old[a]) EXCEPT ![s] = v]] \in Account
    BY <2>2, <2>3 DEF Account
  <2> QED
    BY <1>2, <1>4, <2>2, <2>4 DEF State
<1>6. PICK y : y = StateOverride(st)
  OBVIOUS
<1>7. y \in StateOverrides /\ y.diff = OldDiff
  BY <1>5, <1>6, OverrideIs DEF OldDiff
<1>8. PICK d : d = apply_storage_change(OldDiff, a, s, v, info)
  OBVIOUS
<1>9. PICK x : x = [y EXCEPT !.diff = d]
  OBVIOUS
<1>10. /\ irregular_state' = Over(Only(last_block_number, x), irregular_state)
       /\ cache' = add_state_to_cache(c, st, last_block_number)
       /\ state_diffs' = state_diffs /\ snapshots' = snapshots /\ next_snapshot_id' = next_snapshot_id
  BY <1>1, <1>2, <1>3, <1>4, <1>6, <1>7, <1>8, <1>9 DEF SetAccountStorageSlot, Overrides
<1>11. d \in Diffs /\ StorageSet(OldDiff, a, s, v, info, d)
  <2>1. OldDiff \in Diffs
    BY OldDiffIs
  <2> QED
    BY <1>5, <1>8, <2>1, StorageChanged
<1>12. x \in StateOverrides /\ x.diff = d
  BY <1>7, <1>9, <1>11 DEF StateOverrides
<1>13. Harmless => Lasting(d)
  <2> SUFFICES ASSUME Harmless PROVE Lasting(d)
    OBVIOUS
  <2>1. \A b \in DOMAIN OldDiff : ~ Removed(OldDiff[b])
    BY OldDiffIs DEF Lasting
  <2> QED
    BY <1>11, <2>1 DEF StorageSet, Lasting, Removed
<1> QED
  BY <1>1, <1>2, <1>3, <1>4, <1>5, <1>10, <1>11, <1>12, <1>13 DEF OverrideMade


(* A block is mined: b is what was built on the state that c has first. *)
BlockMined(c, b) ==
  /\ c = get_or_compute_state(last_block_number) /\ GoodBuilt(MostRecent(c), b)
  /\ state_diffs' = Append(state_diffs, b.diff)
  /\ cache' = add_state_to_cache(c, b.state, last_block_number + 1) \/ cache' = c
  /\ irregular_state' = irregular_state /\ snapshots' = snapshots
  /\ next_snapshot_id' = next_snapshot_id

LEMMA MineIs ==
  ASSUME ChainInv, MineBlock
  PROVE  \E c, b : BlockMined(c, b)
<1>1. PICK c : c = get_or_compute_state(last_block_number)
  OBVIOUS
<1>2. PICK b \in BuiltBlocks(MostRecent(c)) :
        /\ state_diffs' = Append(state_diffs, b.diff)
        /\ cache' = add_state_to_cache(c, b.state, last_block_number + 1) \/ cache' = c
  BY <1>1 DEF MineBlock
<1>3. last_block_number \in 1 .. last_block_number
  BY DEF ChainInv, Chain, last_block_number
<1>4. GoodBuilt(MostRecent(c), b)
  BY <1>1, <1>2, <1>3, GotNow, BuiltIsGood
<1> QED
  BY <1>1, <1>2, <1>4 DEF BlockMined, MineBlock

(* The chain that has a block more. *)
LastBlockIs(diffs, d) == diffs[Len(diffs)] = d

LEMMA ChainLonger ==
  ASSUME NEW diffs, Chain(diffs), NEW d \in Diffs, Harmless => Lasting(d),
         NEW diffs2, diffs2 = Append(diffs, d)
  PROVE  /\ Chain(diffs2) /\ Len(diffs2) = Len(diffs) + 1 /\ Len(diffs) \in Nat \ {0}
         /\ SameUpTo(diffs, diffs2, Len(diffs)) /\ LastBlockIs(diffs2, d)
<1>1. diffs \in Seq(Diffs) /\ Len(diffs) \in Nat \ {0}
  BY DEF Chain
<1>2. /\ diffs2 \in Seq(Diffs) /\ Len(diffs2) = Len(diffs) + 1 /\ diffs2[Len(diffs) + 1] = d
      /\ \A n \in 1 .. Len(diffs) : diffs2[n] = diffs[n]
  BY <1>1
<1>3. Harmless => \A n \in DOMAIN diffs2 : Lasting(diffs2[n])
  <2> SUFFICES ASSUME Harmless, NEW n \in 1 .. Len(diffs) + 1 PROVE Lasting(diffs2[n])
    BY <1>2
  <2>1. CASE n = Len(diffs) + 1
    BY <1>2, <2>1
  <2>2. CASE n # Len(diffs) + 1
    <3>1. n \in 1 .. Len(diffs) /\ n \in DOMAIN diffs
      BY <1>1, <2>2
    <3> QED
      BY <1>2, <3>1 DEF Chain
  <2> QED
    BY <2>1, <2>2
<1> QED
  BY <1>1, <1>2, <1>3 DEF Chain, SameUpTo, LastBlockIs

(* What is there for m blocks is there for more. *)
LEMMA KeptLonger ==
  ASSUME NEW m \in Nat, NEW m2 \in Nat, m <= m2
  PROVE  /\ \A c : KeptOK(c, m) => KeptOK(c, m2)
         /\ \A o : Irregular(o, m) => Irregular(o, m2)
<1>1. 1 .. m \subseteq 1 .. m2
  OBVIOUS
<1> QED
  BY <1>1 DEF KeptOK, IdsUpTo, Irregular

LEMMA MineKeepsChain ==
  ASSUME ChainInv, NEW c, NEW b, BlockMined(c, b)
  PROVE  ChainInv'
<1>1. PICK m \in Nat \ {0} : m = last_block_number /\ m = Len(state_diffs) /\ m \in 1 .. last_block_number
  BY DEF ChainInv, Chain, last_block_number
<1>2. /\ KeptOK(c, m) /\ cache.current_state_id \in Nat /\ c.current_state_id \in Nat
      /\ cache.current_state_id <= c.current_state_id
  BY <1>1, GotNow DEF BlockMined
<1>3. PICK diffs2 : /\ diffs2 = state_diffs' /\ diffs2 = Append(state_diffs, b.diff)
                    /\ b.diff \in Diffs /\ b.state \in State /\ (Harmless => Lasting(b.diff))
  BY DEF BlockMined, GoodBuilt
<1>4. /\ Chain(diffs2) /\ Len(diffs2) = m + 1 /\ SameUpTo(state_diffs, diffs2, m)
  BY <1>1, <1>3, ChainLonger DEF ChainInv
<1>5. m <= m + 1 /\ m + 1 \in Nat /\ m + 1 \in 1 .. m + 1
  BY <1>1
<1>6. PICK c2 : c2 = cache' /\ (c2 = add_state_to_cache(c, b.state, m + 1) \/ c2 = c)
  BY <1>1 DEF BlockMined
<1>7. KeptOK(c2, m + 1) /\ c2.current_state_id \in Nat /\ cache.current_state_id <= c2.current_state_id
  <2>1. CASE c2 = c
    BY <1>2, <1>5, <2>1, KeptLonger
  <2>2. CASE c2 = add_state_to_cache(c, b.state, m + 1)
    <3>1. KeptOK(c2, m + 1) /\ OneAdded(c, b.state, m + 1, c2)
      BY <1>2, <1>3, <1>5, <2>2, StateAdded
    <3> QED
      BY <1>2, <3>1 DEF OneAdded
  <2> QED
    BY <1>6, <2>1, <2>2
<1>8. SnapshotsOK(snapshots, next_snapshot_id, diffs2, c2.current_state_id)
  <2>1. Len(state_diffs) <= Len(diffs2)
    BY <1>1, <1>4
  <2> QED
    BY <1>1, <1>2, <1>4, <1>7, <2>1, SnapshotsStay DEF ChainInv
<1>9. Irregular(irregular_state, m + 1)
  BY <1>1, <1>5, KeptLonger DEF ChainInv
<1> QED
  BY <1>3, <1>4, <1>6, <1>7, <1>8, <1>9 DEF ChainInv, BlockMined, last_block_number

(* The snapshot that is made is later than the others. *)
LEMMA SnapshotIs ==
  ASSUME ChainInv, MakeSnapshot
  PROVE  \E s : /\ snapshots' = Over(snapshots, Only(next_snapshot_id, s))
                /\ s.block_number = last_block_number
                /\ s.block_number_to_state_id = cache.block_number_to_state_id
                /\ s.irregular_state = irregular_state
                /\ s.state = state_at_block_number(last_block_number)
                /\ DOMAIN snapshots' = DOMAIN snapshots \cup {next_snapshot_id}
                /\ next_snapshot_id \notin DOMAIN snapshots
                /\ snapshots'[next_snapshot_id] = s
                /\ \A id \in DOMAIN snapshots : snapshots'[id] = snapshots[id]
                /\ next_snapshot_id' = next_snapshot_id + 1
<1>1. PICK s : s = [block_number |-> last_block_number,
                    block_number_to_state_id |-> cache.block_number_to_state_id,
                    irregular_state |-> irregular_state,
                    state |-> state_at_block_number(last_block_number)]
  OBVIOUS
<1>2. PICK ss : ss = snapshots' /\ ss = Over(snapshots, Only(next_snapshot_id, s))
  BY <1>1 DEF MakeSnapshot
<1>3. next_snapshot_id \notin DOMAIN snapshots
  BY DEF ChainInv, SnapshotsOK
<1>4. /\ DOMAIN ss = DOMAIN snapshots \cup {next_snapshot_id} /\ ss[next_snapshot_id] = s
      /\ \A id \in DOMAIN snapshots : ss[id] = snapshots[id]
  BY <1>2, <1>3 DEF Over, Only
<1>5. /\ s.block_number = last_block_number
      /\ s.block_number_to_state_id = cache.block_number_to_state_id
      /\ s.irregular_state = irregular_state
      /\ s.state = state_at_block_number(last_block_number)
  BY <1>1
<1> QED
  BY <1>2, <1>3, <1>4, <1>5 DEF MakeSnapshot

LEMMA SnapshotKeepsChain ==
  ASSUME ChainInv, MakeSnapshot
  PROVE  ChainInv'
<1>1. PICK s : /\ s.block_number = last_block_number
               /\ s.block_number_to_state_id = cache.block_number_to_state_id
               /\ s.irregular_state = irregular_state
               /\ s.state = state_at_block_number(last_block_number)
               /\ DOMAIN snapshots' = DOMAIN snapshots \cup {next_snapshot_id}
               /\ next_snapshot_id \notin DOMAIN snapshots
               /\ snapshots'[next_snapshot_id] = s
               /\ \A id \in DOMAIN snapshots : snapshots'[id] = snapshots[id]
               /\ next_snapshot_id' = next_snapshot_id + 1
  BY SnapshotIs
<1>2. SnapshotOK(s, state_diffs, cache.current_state_id)
  <2>1. last_block_number \in 1 .. Len(state_diffs)
    BY DEF ChainInv, Chain, last_block_number
  <2> QED
    BY <1>1, <2>1 DEF SnapshotOK, ChainInv, KeptOK, state_at_block_number
<1>3. next_snapshot_id \in Nat /\ \A id \in DOMAIN snapshots :
        /\ id \in Nat /\ id < next_snapshot_id
        /\ SnapshotOK(snapshots[id], state_diffs, cache.current_state_id)
  BY DEF ChainInv, SnapshotsOK
<1>4. \A id \in DOMAIN snapshots : snapshots[id].block_number <= last_block_number
  BY <1>3 DEF SnapshotOK, last_block_number
<1>5. last_block_number \in Nat
  BY DEF ChainInv, Chain, last_block_number
<1>6. PICK ss : ss = snapshots'
  OBVIOUS
<1>7. \A i, j \in DOMAIN ss : i < j => ss[i].block_number <= ss[j].block_number
  <2> SUFFICES ASSUME NEW i \in DOMAIN ss, NEW j \in DOMAIN ss, i < j
               PROVE  ss[i].block_number <= ss[j].block_number
    OBVIOUS
  <2>1. i # next_snapshot_id /\ i \in DOMAIN snapshots
    BY <1>1, <1>3, <1>6
  <2>2. CASE j = next_snapshot_id
    BY <1>1, <1>4, <1>6, <2>1, <2>2
  <2>3. CASE j \in DOMAIN snapshots
    BY <1>1, <1>6, <2>1, <2>3 DEF ChainInv, SnapshotsOK
  <2> QED
    BY <1>1, <1>6, <2>2, <2>3
<1>8. \A id \in DOMAIN ss : /\ id \in Nat /\ id < next_snapshot_id + 1
                            /\ SnapshotOK(ss[id], state_diffs, cache.current_state_id)
  BY <1>1, <1>2, <1>3, <1>6
<1>9. SnapshotsOK(ss, next_snapshot_id + 1, state_diffs, cache.current_state_id)
  BY <1>3, <1>7, <1>8 DEF SnapshotsOK
<1> QED
  BY <1>1, <1>6, <1>9 DEF ChainInv, MakeSnapshot, last_block_number

(* The chain that a snapshot leaves. *)
LEMMA ChainCut ==
  ASSUME NEW diffs, Chain(diffs), NEW k \in 1 .. Len(diffs), NEW diffs2, diffs2 = SubSeq(diffs, 1, k)
  PROVE  Chain(diffs2) /\ Len(diffs2) = k /\ k \in Nat \ {0} /\ SameUpTo(diffs, diffs2, k)
<1>1. diffs \in Seq(Diffs) /\ k \in Nat \ {0} /\ Len(diffs) \in Nat /\ k <= Len(diffs)
  BY DEF Chain
<1>2. diffs2 \in Seq(Diffs) /\ Len(diffs2) = k /\ \A n \in 1 .. k : diffs2[n] = diffs[n]
  BY <1>1
<1>3. Harmless => \A n \in DOMAIN diffs2 : Lasting(diffs2[n])
  BY <1>1, <1>2 DEF Chain
<1> QED
  BY <1>1, <1>2, <1>3 DEF Chain, SameUpTo

(* The snapshots that a revert leaves, and those that it drops. *)
Earlier(id) == {j \in DOMAIN snapshots : j < id}

LEMMA EarlierAre ==
  ASSUME NEW id \in 1 .. MaxSnapshots, RevertToSnapshot(id), NEW ss, ss = snapshots'
  PROVE  DOMAIN ss = Earlier(id) /\ \A j \in Earlier(id) : ss[j] = snapshots[j]
BY DEF RevertToSnapshot, Earlier

(* The invariant after the revert to a snapshot. *)
LEMMA RevertKeepsChain ==
  ASSUME ChainInv, NEW id \in 1 .. MaxSnapshots, RevertToSnapshot(id)
  PROVE  ChainInv'
<1>1. PICK ss : ss = snapshots' /\ DOMAIN ss = Earlier(id) /\ \A j \in Earlier(id) : ss[j] = snapshots[j]
  BY EarlierAre
<1>2. /\ next_snapshot_id \in Nat /\ next_snapshot_id' = next_snapshot_id
      /\ \A j \in DOMAIN ss :
           /\ j \in DOMAIN snapshots /\ j < id /\ j \in Nat /\ j < next_snapshot_id
           /\ SnapshotOK(ss[j], state_diffs, cache.current_state_id)
      /\ \A i, j \in DOMAIN ss : i < j => ss[i].block_number <= ss[j].block_number
  BY <1>1 DEF ChainInv, SnapshotsOK, Earlier, RevertToSnapshot
<1>3. CASE id \notin DOMAIN snapshots
  <2>1. SnapshotsOK(ss, next_snapshot_id, state_diffs, cache.current_state_id)
    BY <1>2 DEF SnapshotsOK
  <2> QED
    BY <1>1, <1>2, <1>3, <2>1 DEF ChainInv, RevertToSnapshot, last_block_number
<1>4. CASE id \in DOMAIN snapshots
  <2>1. PICK s, k : /\ s = snapshots[id] /\ k = s.block_number
                    /\ SnapshotOK(s, state_diffs, cache.current_state_id)
    BY <1>4 DEF ChainInv, SnapshotsOK
  <2>2. PICK diffs2 : diffs2 = state_diffs' /\ diffs2 = SubSeq(state_diffs, 1, k)
    BY <1>4, <2>1 DEF RevertToSnapshot, Restore
  <2>3. k \in 1 .. Len(state_diffs)
    BY <2>1 DEF SnapshotOK
  <2>4. Chain(diffs2) /\ Len(diffs2) = k /\ k \in Nat \ {0} /\ SameUpTo(state_diffs, diffs2, k)
    BY <2>2, <2>3, ChainCut DEF ChainInv
  <2>5. PICK c2 : c2 = cache' /\ c2 = [cache EXCEPT !.block_number_to_state_id = s.block_number_to_state_id]
    BY <1>4, <2>1 DEF RevertToSnapshot, Restore
  <2>6. IdsUpTo(s.block_number_to_state_id, k, cache.current_state_id)
    BY <2>1 DEF SnapshotOK
  <2>7. cache \in Caches
    BY DEF ChainInv, KeptOK
  <2>8. /\ c2 \in Caches /\ c2.current_state_id = cache.current_state_id
        /\ c2.block_state_cache = cache.block_state_cache
        /\ c2.block_number_to_state_id = s.block_number_to_state_id
    BY <2>5, <2>6, <2>7 DEF IdsUpTo, Caches
  <2>9. KeptOK(c2, k)
    BY <2>6, <2>8 DEF ChainInv, KeptOK
  <2>10. irregular_state' = s.irregular_state /\ Irregular(s.irregular_state, k)
    BY <1>4, <2>1 DEF RevertToSnapshot, Restore, SnapshotOK
  <2>11. ASSUME NEW j \in DOMAIN ss PROVE SnapshotOK(ss[j], diffs2, cache.current_state_id)
    <3>1. PICK t : t = ss[j] /\ SnapshotOK(t, state_diffs, cache.current_state_id)
      BY <1>2
    <3>2. t = snapshots[j] /\ j \in DOMAIN snapshots /\ j < id
      BY <1>1, <1>2, <3>1
    <3>3. t.block_number <= k
      BY <1>4, <2>1, <3>2 DEF ChainInv, SnapshotsOK
    <3>4. t.block_number \in 1 .. Len(state_diffs) /\ Len(state_diffs) \in Nat
      BY <3>1 DEF SnapshotOK, ChainInv, Chain
    <3>5. SameUpTo(state_diffs, diffs2, t.block_number)
      BY <2>4, <3>3, <3>4 DEF SameUpTo
    <3>6. cache.current_state_id \in Nat /\ cache.current_state_id <= cache.current_state_id
      BY <2>7 DEF Caches
    <3>7. SnapshotOK(t, diffs2, cache.current_state_id)
      BY <2>4, <3>1, <3>3, <3>4, <3>5, <3>6, SnapshotStays
    <3> QED
      BY <3>1, <3>7
  <2>12. SnapshotsOK(ss, next_snapshot_id, diffs2, cache.current_state_id)
    BY <1>2, <2>11 DEF SnapshotsOK
  <2> QED
    BY <1>1, <1>2, <2>2, <2>4, <2>5, <2>8, <2>9, <2>10, <2>12 DEF ChainInv, last_block_number
<1> QED
  BY <1>3, <1>4

(* The genesis block. *)
LEMMA InitChain ==
  ASSUME Init
  PROVE  ChainInv
<1>1. PICK a \in Addresses, info \in Infos :
        state_diffs = <<Only(a, AccountDiff(info, NoWrite, {"created"}))>>
  BY DEF Init
<1>2. PICK x : /\ x = AccountDiff(info, NoWrite, {"created"}) /\ x \in AccountDiffs
               /\ x.status = {"created"}
  BY WritesTyped, AccountDiffIs
<1>3. PICK d : d = Only(a, x) /\ d \in Diffs
  BY <1>2, OneDiff
<1>4. DOMAIN d = {a} /\ d[a] = x
  BY <1>3 DEF Only
<1>5. Lasting(d)
  BY <1>2, <1>4 DEF Lasting, Removed
<1>6. state_diffs = <<d>> /\ Len(state_diffs) = 1
  BY <1>1, <1>2, <1>3
<1>7. Chain(state_diffs)
  BY <1>3, <1>5, <1>6 DEF Chain
<1>8. DOMAIN irregular_state = {} /\ Irregular(irregular_state, 1)
  BY DEF Init, Irregular
<1>9. state_at_block_number(1) \in State
  <2>1. 1 \in 1 .. Len(state_diffs) /\ 1 \in 0 .. 1
    BY <1>6
  <2> QED
    BY <1>7, <1>8, <2>1, ComputedIs DEF state_at_block_number
<1>10. KeptOK(cache, 1)
  <2>1. PICK e : e = [id |-> 0, state |-> state_at_block_number(1)]
    OBVIOUS
  <2>2. e \in CacheEntries /\ e.id = 0
    BY <1>9, <2>1 DEF CacheEntries
  <2>3. PICK ids : ids = Only(1, 0)
    OBVIOUS
  <2>4. DOMAIN ids = {1} /\ ids[1] = 0 /\ IsMap(ids)
    BY <2>3 DEF Only, IsMap
  <2>5. ids \in IdMaps
    BY <2>4, MakesIds
  <2>6. IdsUpTo(ids, 1, 0)
    BY <2>4, <2>5 DEF IdsUpTo
  <2>7. /\ cache.current_state_id = 0 /\ cache.block_state_cache = <<e>>
        /\ cache.block_number_to_state_id = ids /\ cache \in Caches
    BY <2>1, <2>2, <2>3, <2>5 DEF Init, Caches
  <2>8. Len(<<e>>) \in 1 .. max_cached_states
    BY StateCacheAssumption
  <2>9. \A i \in DOMAIN <<e>> : <<e>>[i].id <= 0
    BY <2>2
  <2> QED
    BY <2>6, <2>7, <2>8, <2>9 DEF KeptOK
<1>11. SnapshotsOK(snapshots, next_snapshot_id, state_diffs, cache.current_state_id)
  BY DEF Init, SnapshotsOK
<1> QED
  BY <1>6, <1>7, <1>8, <1>10, <1>11 DEF ChainInv, last_block_number

(* Every step. *)
LEMMA NextKeepsChain ==
  ASSUME ChainInv, [Next]_vars
  PROVE  ChainInv'
<1>1. ASSUME NEW number \in 1 .. last_block_number, Read(number) PROVE ChainInv'
  BY <1>1, ReadKeepsChain
<1>2. ASSUME NEW a \in Addresses, NEW info \in Infos, SetAccount(a, info) PROVE ChainInv'
  BY <1>2, SetAccountIs, OverrideKeepsChain
<1>3. ASSUME NEW a \in Addresses, NEW s \in Slots, NEW v \in Values, SetAccountStorageSlot(a, s, v)
      PROVE  ChainInv'
  BY <1>3, SetStorageIs, OverrideKeepsChain
<1>4. CASE MineBlock
  BY <1>4, MineIs, MineKeepsChain
<1>5. CASE MakeSnapshot
  BY <1>5, SnapshotKeepsChain
<1>6. ASSUME NEW id \in 1 .. MaxSnapshots, RevertToSnapshot(id) PROVE ChainInv'
  BY <1>6, RevertKeepsChain
<1>7. CASE UNCHANGED vars
  BY <1>7 DEF vars, ChainInv, last_block_number
<1> QED
  BY <1>1, <1>2, <1>3, <1>4, <1>5, <1>6, <1>7 DEF Next

-----------------------------------------------------------------------------
(* What the invariant says. *)

LEMMA ChainIsInvariant == Spec => []ChainInv
<1>1. Init => ChainInv
  BY InitChain
<1>2. ChainInv /\ [Next]_vars => ChainInv'
  BY NextKeepsChain
<1> QED
  BY <1>1, <1>2, PTL DEF Spec

LEMMA ChainTyped ==
  ASSUME ChainInv
  PROVE  TypeOK
<1>1. PICK q : q = cache.block_state_cache /\ q \in Seq(CacheEntries)
  BY DEF ChainInv, KeptOK, Caches
<1>2. \A i \in DOMAIN q : q[i] \in CacheEntries
  BY <1>1
<1>3. cache.current_state_id \in Nat /\ \A i \in DOMAIN q : q[i].id <= cache.current_state_id
  BY <1>1 DEF ChainInv, KeptOK, Caches
<1>4. \A i \in DOMAIN q : q[i].state \in State /\ q[i].id \in 0 .. cache.current_state_id
  BY <1>2, <1>3 DEF CacheEntries
<1>5. last_block_number >= 1
  BY DEF ChainInv, Chain, last_block_number
<1>6. /\ DOMAIN cache.block_number_to_state_id \subseteq 1 .. last_block_number
      /\ DOMAIN irregular_state \subseteq 1 .. last_block_number
      /\ Len(q) \in 1 .. max_cached_states
  BY <1>1 DEF ChainInv, KeptOK, IdsUpTo, Irregular
<1> QED
  BY <1>1, <1>3, <1>4, <1>5, <1>6 DEF TypeOK

(* The cache of local states and the chain have the types the code gives     *)
(* them: ids are not from the future, and the cache and the overrides know   *)
(* no block beyond the last one, also after evm_revert has cut the chain.    *)
THEOREM StateCacheTypeCorrect == Spec => []TypeOK
<1>1. ChainInv => TypeOK
  BY ChainTyped
<1> QED
  BY <1>1, ChainIsInvariant, PTL

(* The overrides of two chains differ at the last block only. *)
LEMMA OlderSame ==
  ASSUME ChainInv, NEW c, NEW st, NEW x, OverrideMade(c, st, x), NEW o2, o2 = irregular_state'
  PROVE  \A n \in 0 .. last_block_number - 1 :
           ComputeState(state_diffs, o2, n) = ComputeState(state_diffs, irregular_state, n)
<1>1. PICK m \in Nat \ {0} : m = last_block_number
  BY DEF ChainInv, Chain, last_block_number
<1>2. PICK o : o = irregular_state /\ Irregular(o, m)
  BY <1>1 DEF ChainInv
<1>3. o2 = Over(Only(m, x), o)
  BY <1>1, <1>2 DEF OverrideMade
<1>4. \A n : n # m => (n \in DOMAIN o2 <=> n \in DOMAIN o) /\ (n \in DOMAIN o => o2[n] = o[n])
  BY <1>2, <1>3, Overridden DEF OverrideMade
<1> SUFFICES ASSUME NEW n \in 0 .. m - 1
             PROVE  ComputeState(state_diffs, o2, n) = ComputeState(state_diffs, o, n)
  BY <1>1, <1>2
<1>5. n \in Nat /\ \A k \in 1 .. n : k # m
  BY <1>1
<1>6. \A k \in 1 .. n : OverriddenDiff(state_diffs, o2, k) = OverriddenDiff(state_diffs, o, k)
  BY <1>4, <1>5 DEF OverriddenDiff
<1> QED
  BY <1>5, <1>6, ComputedSame

(* The states of the blocks before the last one, after a step. *)
Fixed ==
  \A number \in 1 .. last_block_number - 1 :
    state_at_block_number(number)' = state_at_block_number(number)

LEMMA StepFixes ==
  ASSUME ChainInv, [Next]_vars
  PROVE  (\E id \in 1 .. MaxSnapshots : RevertToSnapshot(id)) \/ Fixed
<1>0. PICK m \in Nat \ {0} : m = last_block_number /\ m = Len(state_diffs)
  BY DEF ChainInv, Chain, last_block_number
<1>1. CASE UNCHANGED <<state_diffs, irregular_state>>
  BY <1>1 DEF Fixed, state_at_block_number
<1>2. ASSUME NEW c, NEW st, NEW x, OverrideMade(c, st, x) PROVE Fixed
  <2>1. PICK o2 : o2 = irregular_state'
    OBVIOUS
  <2>2. \A n \in 0 .. last_block_number - 1 :
          ComputeState(state_diffs, o2, n) = ComputeState(state_diffs, irregular_state, n)
    BY <1>2, <2>1, OlderSame
  <2>3. state_diffs' = state_diffs
    BY <1>2 DEF OverrideMade
  <2>4. \A n \in 1 .. last_block_number - 1 : n \in 0 .. last_block_number - 1
    BY <1>0
  <2> QED
    BY <2>1, <2>2, <2>3, <2>4 DEF Fixed, state_at_block_number
<1>3. CASE MineBlock
  <2>1. PICK c, b : BlockMined(c, b)
    BY <1>3, MineIs
  <2>2. PICK diffs2 : /\ diffs2 = state_diffs' /\ diffs2 = Append(state_diffs, b.diff)
                      /\ b.diff \in Diffs /\ (Harmless => Lasting(b.diff))
    BY <2>1 DEF BlockMined, GoodBuilt
  <2>3. SameUpTo(state_diffs, diffs2, m)
    BY <1>0, <2>2, ChainLonger DEF ChainInv
  <2>4. PICK o : o = irregular_state
    OBVIOUS
  <2>5. \A n \in 0 .. m : ComputeState(diffs2, o, n) = ComputeState(state_diffs, o, n)
    BY <2>3, SameBlocks
  <2>6. \A n \in 1 .. m - 1 : n \in 0 .. m
    BY <1>0
  <2>7. irregular_state' = irregular_state
    BY <2>1 DEF BlockMined
  <2> QED
    BY <1>0, <2>2, <2>4, <2>5, <2>6, <2>7 DEF Fixed, state_at_block_number
<1>4. ASSUME NEW a \in Addresses, NEW info \in Infos, SetAccount(a, info) PROVE Fixed
  BY <1>2, <1>4, SetAccountIs
<1>5. ASSUME NEW a \in Addresses, NEW s \in Slots, NEW v \in Values, SetAccountStorageSlot(a, s, v)
      PROVE  Fixed
  BY <1>2, <1>5, SetStorageIs
<1>6. CASE \E number \in 1 .. last_block_number : Read(number)
  BY <1>1, <1>6 DEF Read
<1>7. CASE MakeSnapshot
  BY <1>1, <1>7 DEF MakeSnapshot
<1>8. CASE UNCHANGED vars
  BY <1>1, <1>8 DEF vars
<1> QED
  BY <1>3, <1>4, <1>5, <1>6, <1>7, <1>8 DEF Next

(* Whatever the accounts are and the client does, what a request changes is   *)
(* the last block's state: set_balance, set_nonce, set_code and               *)
(* set_account_storage_slot write the override of the last block, and mining  *)
(* a block leaves that override and all the older ones in place.              *)
THEOREM HistoryStaysFixed == Spec => HistoryIsFixed
<1>1. ChainInv /\ [Next]_vars =>
        [\/ \E id \in 1 .. MaxSnapshots : RevertToSnapshot(id)
         \/ \A number \in 1 .. last_block_number - 1 :
              state_at_block_number(number)' = state_at_block_number(number)]_vars
  BY StepFixes DEF Fixed
<1> QED
  BY <1>1, ChainIsInvariant, PTL DEF Spec, HistoryIsFixed

-----------------------------------------------------------------------------
(* The state after a change is the one that is computed from the diffs. *)

(* One account, when its info is changed. *)
LEMMA InfoChanged ==
  ASSUME NEW before \in {None} \cup Account, NEW now \in {None} \cup Account,
         NEW m2 \in AccountDiffs, ~ Removed(m2),
         \A s \in Slots : SlotAfter(before, m2, s) = StorageOf(now)[s]
  PROVE  CommittedAccount(before, m2) = [info |-> m2.info, storage |-> StorageOf(now)]
<1>1. StorageOf(now) \in [Slots -> Values]
  BY StorageTyped
<1>2. StorageOf(now) = [s \in Slots |-> StorageOf(now)[s]]
  BY <1>1
<1>3. [s \in Slots |-> SlotAfter(before, m2, s)] = [s \in Slots |-> StorageOf(now)[s]]
  OBVIOUS
<1>4. CommittedAccount(before, m2) =
        [info |-> m2.info, storage |-> [s \in Slots |-> SlotAfter(before, m2, s)]]
  BY CommittedIs
<1> QED
  BY <1>2, <1>3, <1>4

(* One account, when a slot is changed. *)
LEMMA SlotChanged ==
  ASSUME NEW before \in {None} \cup Account, NEW now \in {None} \cup Account,
         NEW m2 \in AccountDiffs, ~ Removed(m2), NEW t \in Slots, NEW v \in Values,
         SlotAfter(before, m2, t) = v,
         \A s \in Slots : s # t => SlotAfter(before, m2, s) = StorageOf(now)[s]
  PROVE  CommittedAccount(before, m2) =
           [info |-> m2.info, storage |-> [StorageOf(now) EXCEPT ![t] = v]]
<1>1. StorageOf(now) \in [Slots -> Values]
  BY StorageTyped
<1>2. PICK f : f = [StorageOf(now) EXCEPT ![t] = v]
  OBVIOUS
<1>3. f \in [Slots -> Values] /\ \A s \in Slots : f[s] = SlotAfter(before, m2, s)
  BY <1>1, <1>2
<1>4. f = [s \in Slots |-> SlotAfter(before, m2, s)]
  BY <1>3
<1>5. CommittedAccount(before, m2) =
        [info |-> m2.info, storage |-> [s \in Slots |-> SlotAfter(before, m2, s)]]
  BY CommittedIs
<1> QED
  BY <1>2, <1>4, <1>5

(* The override o of a diff d becomes o2: m and m2 are the diffs with them,   *)
(* before the state without them and now the one with o.                      *)
Committing(before, d, o, m, now) ==
  /\ before \in State /\ d \in Diffs /\ o \in Diffs /\ m \in Diffs /\ now \in State
  /\ Merged(d, o, m) /\ Lasting(d) /\ Lasting(o)
  /\ now = commit(before, m)

(* A diff with its override is lasting when they are. *)
LEMMA MergedLasts ==
  ASSUME NEW d \in Diffs, NEW o \in Diffs, NEW m \in Diffs, Merged(d, o, m), Lasting(d), Lasting(o)
  PROVE  Lasting(m)
<1>1. \A a \in DOMAIN m : a \in DOMAIN d \/ a \in DOMAIN o
  BY DEF Merged
<1>2. ASSUME NEW a \in DOMAIN m PROVE ~ Removed(m[a])
  <2>1. CASE a \in DOMAIN d /\ a \in DOMAIN o
    <3>1. PICK x, y, z : x = d[a] /\ y = o[a] /\ z = m[a]
      OBVIOUS
    <3>2. z.info = y.info /\ z.status = x.status \cup y.status /\ ~ Removed(x) /\ ~ Removed(y)
      BY <2>1, <3>1 DEF Merged, Lasting
    <3> QED
      BY <3>1, <3>2 DEF Removed
  <2>2. CASE a \notin DOMAIN d \/ a \notin DOMAIN o
    BY <1>1, <2>2 DEF Merged, Lasting
  <2> QED
    BY <2>1, <2>2
<1> QED
  BY <1>2 DEF Lasting

(* The accounts that the change is not about. *)
SameBut(o, a, o2) == /\ DOMAIN o2 = DOMAIN o \cup {a}
                     /\ \A b \in DOMAIN o : b # a => o2[b] = o[b]

LEMMA OthersSame ==
  ASSUME NEW before, NEW d, NEW o, NEW m, NEW now, Committing(before, d, o, m, now),
         NEW a \in Addresses, NEW o2 \in Diffs, SameBut(o, a, o2),
         NEW m2 \in Diffs, Merged(d, o2, m2), NEW end, end = commit(before, m2)
  PROVE  /\ end \in State /\ \A b \in Addresses : b # a => end[b] = now[b]
         /\ a \in DOMAIN m2 /\ end[a] = CommittedAccount(before[a], m2[a])
<1>1. /\ before \in State /\ d \in Diffs /\ o \in Diffs /\ m \in Diffs /\ now \in State
      /\ now = commit(before, m)
  BY DEF Committing
<1>2. /\ end \in State
      /\ \A b \in Addresses : end[b] =
           IF b \in DOMAIN m2 THEN CommittedAccount(before[b], m2[b]) ELSE before[b]
  BY <1>1, CommitTyped
<1>3. \A b \in Addresses : now[b] =
        IF b \in DOMAIN m THEN CommittedAccount(before[b], m[b]) ELSE before[b]
  BY <1>1, CommitTyped
<1>4. ASSUME NEW b \in Addresses, b # a
      PROVE  (b \in DOMAIN m2 <=> b \in DOMAIN m) /\ (b \in DOMAIN m => m2[b] = m[b])
  <2>1. b \in DOMAIN o2 <=> b \in DOMAIN o
    BY <1>4 DEF SameBut
  <2>2. b \in DOMAIN o => o2[b] = o[b]
    BY <1>4 DEF SameBut
  <2>3. Merged(d, o, m)
    BY DEF Committing
  <2>4. b \in DOMAIN m2 <=> b \in DOMAIN m
    BY <2>1, <2>3 DEF Merged
  <2>5. CASE b \in DOMAIN d /\ b \in DOMAIN o
    <3>1. PICK x, y : x = m[b] /\ y = m2[b]
      OBVIOUS
    <3>2. x.info = y.info /\ x.storage = y.storage /\ x.status = y.status
      BY <2>1, <2>2, <2>3, <2>5, <3>1 DEF Merged
    <3>3. b \in DOMAIN m
      BY <2>3, <2>5 DEF Merged
    <3>4. x \in AccountDiffs /\ y \in AccountDiffs
      BY <1>1, <2>4, <3>1, <3>3, DiffIs
    <3>5. x = y
      BY <3>2, <3>4 DEF AccountDiffs
    <3> QED
      BY <2>4, <3>1, <3>5
  <2>6. CASE b \in DOMAIN m /\ ~ (b \in DOMAIN d /\ b \in DOMAIN o)
    BY <2>1, <2>2, <2>3, <2>4, <2>6 DEF Merged
  <2> QED
    BY <2>4, <2>5, <2>6
<1>5. a \in DOMAIN m2
  BY DEF Merged, SameBut
<1> QED
  BY <1>2, <1>3, <1>4, <1>5

(* set_balance, set_nonce and set_code: what is computed from the diffs. *)
LEMMA InfoCommitted ==
  ASSUME Harmless, NEW before, NEW d, NEW o, NEW m, NEW now, Committing(before, d, o, m, now),
         NEW a \in Addresses, NEW info \in Infos, NEW o2 \in Diffs, AccountSet(o, a, info, o2),
         NEW m2 \in Diffs, Merged(d, o2, m2)
  PROVE  commit(before, m2) = [now EXCEPT ![a] = [info |-> info, storage |-> StorageOf(@)]]
<1>1. PICK end : end = commit(before, m2)
  OBVIOUS
<1>2. SameBut(o, a, o2)
  BY DEF AccountSet, SameBut
<1>3. /\ end \in State /\ \A b \in Addresses : b # a => end[b] = now[b]
      /\ a \in DOMAIN m2 /\ end[a] = CommittedAccount(before[a], m2[a])
  BY <1>1, <1>2, OthersSame
<1>4. /\ before \in State /\ d \in Diffs /\ o \in Diffs /\ m \in Diffs /\ now \in State
      /\ now = commit(before, m) /\ Merged(d, o, m) /\ Lasting(m)
  BY MergedLasts DEF Committing
<1>5. PICK x2 : x2 = m2[a] /\ x2 \in AccountDiffs
  BY <1>3, DiffIs
<1>6. PICK was, is : /\ was = before[a] /\ is = now[a]
                     /\ was \in {None} \cup Account /\ is \in {None} \cup Account
  BY <1>4 DEF State
<1>7. is = IF a \in DOMAIN m THEN CommittedAccount(was, m[a]) ELSE was
  BY <1>4, <1>6, CommitTyped
<1>8. /\ a \in DOMAIN o2 /\ o2[a].info = info
      /\ a \in DOMAIN o => o2[a].storage = o[a].storage /\ o2[a].status = o[a].status
      /\ a \notin DOMAIN o => o2[a].storage = NoWrite /\ o2[a].status = {}
  BY DEF AccountSet
<1>9. x2.info = info /\ ~ Removed(x2) /\ \A s \in Slots : SlotAfter(was, x2, s) = StorageOf(is)[s]
  <2>1. CASE a \in DOMAIN m
    <3>1. PICK x : x = m[a] /\ x \in AccountDiffs /\ ~ Removed(x)
      BY <1>4, <2>1, DiffIs DEF Lasting
    <3>2. x2.info = info /\ x2.storage = x.storage /\ x2.status = x.status
      <4>1. CASE a \in DOMAIN o
        <5>1. CASE a \in DOMAIN d
          BY <1>4, <1>5, <1>8, <3>1, <4>1, <5>1 DEF Merged
        <5>2. CASE a \notin DOMAIN d
          <6>1. x = o[a] /\ x2 = o2[a]
            BY <1>4, <1>5, <1>8, <3>1, <4>1, <5>2 DEF Merged
          <6> QED
            BY <1>8, <4>1, <6>1
        <5> QED
          BY <5>1, <5>2
      <4>2. CASE a \notin DOMAIN o
        <5>1. a \in DOMAIN d
          BY <1>4, <2>1, <4>2 DEF Merged
        <5>2. /\ x2.info = info /\ x2.storage = Over(NoWrite, x.storage)
              /\ x2.status = x.status \cup {}
          BY <1>4, <1>5, <1>8, <3>1, <4>2, <5>1 DEF Merged
        <5>3. PICK w : w = x.storage /\ w \in Partials
          BY <3>1 DEF AccountDiffs
        <5>4. IsMap(w)
          BY <5>3, PartialIs
        <5>5. Over(NoWrite, w) = w
          BY <5>4 DEF Over, NoWrite, IsMap
        <5> QED
          BY <5>2, <5>3, <5>5
      <4> QED
        BY <4>1, <4>2
    <3>3. ~ Removed(x2)
      BY <3>1, <3>2 DEF Removed, Harmless
    <3>4. \A s \in Slots : StorageOf(is)[s] = SlotAfter(was, x, s)
      BY <1>6, <1>7, <2>1, <3>1, CommittedReads
    <3>5. \A s \in Slots : SlotAfter(was, x, s) = SlotAfter(was, x2, s)
      BY <3>2 DEF SlotAfter
    <3> QED
      BY <3>2, <3>3, <3>4, <3>5
  <2>2. CASE a \notin DOMAIN m
    <3>1. a \notin DOMAIN d /\ a \notin DOMAIN o
      BY <1>4, <2>2 DEF Merged
    <3>2. x2.info = info /\ x2.storage = NoWrite /\ x2.status = {}
      BY <1>5, <1>8, <3>1 DEF Merged
    <3>3. ~ Removed(x2)
      BY <3>2 DEF Removed, Harmless
    <3>4. DOMAIN NoWrite = {}
      BY DEF NoWrite
    <3>5. \A s \in Slots : SlotAfter(was, x2, s) = StorageOf(was)[s]
      BY <3>2, <3>4 DEF SlotAfter
    <3> QED
      BY <1>7, <2>2, <3>2, <3>3, <3>5
  <2> QED
    BY <2>1, <2>2
<1>10. end[a] = [info |-> info, storage |-> StorageOf(is)]
  BY <1>3, <1>5, <1>6, <1>9, InfoChanged
<1>11. PICK then : then = [now EXCEPT ![a] = [info |-> info, storage |-> StorageOf(@)]]
  OBVIOUS
<1>12. \A b \in Addresses : then[b] = end[b]
  BY <1>3, <1>4, <1>6, <1>10, <1>11 DEF State
<1>13. then = end
  BY <1>3, <1>4, <1>11, <1>12 DEF State
<1> QED
  BY <1>1, <1>11, <1>13

(* set_account_storage_slot: an account that the override does not have       *)
(* counts as created, so its other slots are lost.                            *)
LEMMA SlotCommitted ==
  ASSUME NEW before, NEW d, NEW o, NEW m, NEW now, Committing(before, d, o, m, now),
         NEW a \in Addresses, NEW t \in Slots, NEW v \in Values,
         NEW info, info = IF now[a] = None THEN Empty ELSE now[a].info,
         a \notin DOMAIN o => \A s \in Slots : s # t => StorageOf(now[a])[s] = 0,
         NEW o2 \in Diffs, StorageSet(o, a, t, v, info, o2),
         NEW m2 \in Diffs, Merged(d, o2, m2)
  PROVE  commit(before, m2) =
           [now EXCEPT ![a] = [info |-> info, storage |-> [StorageOf(@) EXCEPT ![t] = v]]]
<1>1. PICK end : end = commit(before, m2)
  OBVIOUS
<1>2. SameBut(o, a, o2)
  BY DEF StorageSet, SameBut
<1>3. /\ end \in State /\ \A b \in Addresses : b # a => end[b] = now[b]
      /\ a \in DOMAIN m2 /\ end[a] = CommittedAccount(before[a], m2[a])
  BY <1>1, <1>2, OthersSame
<1>4. /\ before \in State /\ d \in Diffs /\ o \in Diffs /\ m \in Diffs /\ now \in State
      /\ now = commit(before, m) /\ Merged(d, o, m) /\ Lasting(m)
  BY MergedLasts DEF Committing
<1>5. PICK x2 : x2 = m2[a] /\ x2 \in AccountDiffs
  BY <1>3, DiffIs
<1>6. PICK was, is : /\ was = before[a] /\ is = now[a]
                     /\ was \in {None} \cup Account /\ is \in {None} \cup Account
  BY <1>4 DEF State
<1>7. is = IF a \in DOMAIN m THEN CommittedAccount(was, m[a]) ELSE was
  BY <1>4, <1>6, CommitTyped
<1>8. /\ a \in DOMAIN o2
      /\ a \in DOMAIN o => /\ o2[a].storage = Over(Only(t, v), o[a].storage)
                           /\ o2[a].info = o[a].info /\ o2[a].status = o[a].status
      /\ a \notin DOMAIN o => /\ o2[a].storage = Only(t, v) /\ o2[a].info = info
                              /\ o2[a].status = {"created"}
  BY DEF StorageSet
<1>9. DOMAIN Only(t, v) = {t} /\ Only(t, v)[t] = v
  BY DEF Only
<1>10. /\ x2.info = info /\ ~ Removed(x2) /\ SlotAfter(was, x2, t) = v
       /\ \A s \in Slots : s # t => SlotAfter(was, x2, s) = StorageOf(is)[s]
  <2>1. CASE a \in DOMAIN o
    <3>1. a \in DOMAIN m
      BY <1>4, <2>1 DEF Merged
    <3>2. PICK x : x = m[a] /\ x \in AccountDiffs /\ ~ Removed(x)
      BY <1>4, <3>1, DiffIs DEF Lasting
    <3>3. /\ x2.info = x.info /\ x2.status = x.status
          /\ DOMAIN x2.storage = {t} \cup DOMAIN x.storage /\ x2.storage[t] = v
          /\ \A s \in DOMAIN x.storage : s # t => x2.storage[s] = x.storage[s]
      <4>1. CASE a \notin DOMAIN d
        <5>1. x = o[a] /\ x2 = o2[a]
          BY <1>4, <1>5, <1>8, <2>1, <3>2, <4>1 DEF Merged
        <5>2. PICK w : w = x2.storage /\ w = Over(Only(t, v), x.storage)
          BY <1>8, <2>1, <5>1
        <5>3. /\ DOMAIN w = {t} \cup DOMAIN x.storage /\ w[t] = v
              /\ \A s \in DOMAIN x.storage : s # t => w[s] = x.storage[s]
          BY <1>9, <5>2 DEF Over
        <5> QED
          BY <1>8, <2>1, <5>1, <5>2, <5>3
      <4>2. CASE a \in DOMAIN d
        <5>1. PICK p, q : p = o[a].storage /\ q = d[a].storage
          OBVIOUS
        <5>2. /\ x.info = o[a].info /\ x2.info = o[a].info /\ x.status = x2.status
              /\ x.storage = Over(p, q) /\ x2.storage = Over(Over(Only(t, v), p), q)
          BY <1>4, <1>5, <1>8, <2>1, <3>2, <4>2, <5>1 DEF Merged
        <5>3. PICK w, w2 : w = Over(p, q) /\ w2 = Over(Over(Only(t, v), p), q)
          OBVIOUS
        <5>4. PICK u : u = Over(Only(t, v), p)
          OBVIOUS
        <5>5. DOMAIN u = {t} \cup DOMAIN p /\ u[t] = v /\ \A s \in DOMAIN p : s # t => u[s] = p[s]
          BY <1>9, <5>4 DEF Over
        <5>6. /\ DOMAIN w2 = {t} \cup DOMAIN w /\ w2[t] = v
              /\ \A s \in DOMAIN w : s # t => w2[s] = w[s]
          BY <5>3, <5>4, <5>5 DEF Over
        <5> QED
          BY <5>2, <5>3, <5>6
      <4> QED
        BY <4>1, <4>2
    <3>4. ~ Removed(x2)
      BY <3>2, <3>3 DEF Removed
    <3>5. is = CommittedAccount(was, x)
      BY <1>7, <3>1, <3>2
    <3>6. is # None /\ is.info = x.info
      BY <1>6, <3>2, <3>5, CommittedIs, CommittedReads
    <3>7. \A s \in Slots : StorageOf(is)[s] = SlotAfter(was, x, s)
      BY <1>6, <3>2, <3>5, CommittedReads
    <3>8. \A s \in Slots : s # t => SlotAfter(was, x2, s) = SlotAfter(was, x, s)
      BY <3>3 DEF SlotAfter
    <3>9. SlotAfter(was, x2, t) = v
      BY <3>3 DEF SlotAfter
    <3> QED
      BY <1>6, <3>3, <3>4, <3>6, <3>7, <3>8, <3>9
  <2>2. CASE a \notin DOMAIN o /\ a \in DOMAIN d
    <3>1. a \in DOMAIN m /\ m[a] = d[a]
      BY <1>4, <2>2 DEF Merged
    <3>2. PICK x : x = m[a] /\ x \in AccountDiffs /\ ~ Removed(x)
      BY <1>4, <3>1, DiffIs DEF Lasting
    <3>3. /\ x2.info = info /\ x2.status = x.status \cup {"created"}
          /\ x2.storage = Over(Only(t, v), x.storage)
      BY <1>5, <1>8, <2>2, <3>1, <3>2 DEF Merged
    <3>4. PICK w : w = Over(Only(t, v), x.storage)
      OBVIOUS
    <3>5. /\ DOMAIN w = {t} \cup DOMAIN x.storage /\ w[t] = v
          /\ \A s \in DOMAIN x.storage : s # t => w[s] = x.storage[s]
      BY <1>9, <3>4 DEF Over
    <3>6. ~ Removed(x2)
      BY <3>2, <3>3 DEF Removed
    <3>7. \A s \in Slots : StorageOf(is)[s] = SlotAfter(was, x, s)
      BY <1>6, <1>7, <3>1, <3>2, CommittedReads
    <3>8. SlotAfter(was, x2, t) = v
      BY <3>3, <3>4, <3>5 DEF SlotAfter
    <3>9. ASSUME NEW s \in Slots, s # t PROVE SlotAfter(was, x2, s) = StorageOf(is)[s]
      <4>1. CASE s \in DOMAIN x.storage
        BY <3>3, <3>4, <3>5, <3>7, <3>9, <4>1 DEF SlotAfter
      <4>2. CASE s \notin DOMAIN x.storage
        <5>1. SlotAfter(was, x2, s) = 0
          BY <3>3, <3>4, <3>5, <3>9, <4>2 DEF SlotAfter
        <5> QED
          BY <1>6, <2>2, <3>9, <5>1
      <4> QED
        BY <4>1, <4>2
    <3> QED
      BY <3>3, <3>6, <3>8, <3>9
  <2>3. CASE a \notin DOMAIN o /\ a \notin DOMAIN d
    <3>1. x2.info = info /\ x2.status = {"created"} /\ x2.storage = Only(t, v)
      BY <1>5, <1>8, <2>3 DEF Merged
    <3>2. ~ Removed(x2) /\ SlotAfter(was, x2, t) = v
      BY <1>9, <3>1 DEF Removed, SlotAfter
    <3>3. \A s \in Slots : s # t => SlotAfter(was, x2, s) = 0
      BY <1>9, <3>1 DEF SlotAfter
    <3> QED
      BY <1>6, <2>3, <3>1, <3>2, <3>3
  <2> QED
    BY <2>1, <2>2, <2>3
<1>11. end[a] = [info |-> info, storage |-> [StorageOf(is) EXCEPT ![t] = v]]
  BY <1>3, <1>5, <1>6, <1>10, SlotChanged
<1>12. PICK then : then = [now EXCEPT ![a] =
                            [info |-> info, storage |-> [StorageOf(@) EXCEPT ![t] = v]]]
  OBVIOUS
<1>13. \A b \in Addresses : then[b] = end[b]
  BY <1>3, <1>4, <1>6, <1>11, <1>12 DEF State
<1>14. then = end
  BY <1>3, <1>4, <1>12, <1>13 DEF State
<1> QED
  BY <1>1, <1>12, <1>14

-----------------------------------------------------------------------------
(* The cache and the diffs agree. *)

(* The states that c has for the blocks that ids names are the computed ones. *)
Agree(c, ids, diffs, o, m) ==
  \A n \in 1 .. m : \A i \in DOMAIN c.block_state_cache :
    n \in DOMAIN ids /\ c.block_state_cache[i].id = ids[n] =>
      c.block_state_cache[i].state = ComputeState(diffs, o, n)

SnapshotAgrees(c, s, diffs) ==
  Agree(c, s.block_number_to_state_id, diffs, s.irregular_state, s.block_number)

SnapshotsAgree(c, ss, diffs) == \A id \in DOMAIN ss : SnapshotAgrees(c, ss[id], diffs)

Coherent ==
  /\ Agree(cache, cache.block_number_to_state_id, state_diffs, irregular_state, last_block_number)
  /\ SnapshotsAgree(cache, snapshots, state_diffs)

(* A chain with the same first blocks is as good. *)
LEMMA AgreeSame ==
  ASSUME NEW c, NEW ids, NEW diffs, NEW diffs2, NEW o, NEW m \in Nat,
         Agree(c, ids, diffs, o, m), SameUpTo(diffs, diffs2, m)
  PROVE  Agree(c, ids, diffs2, o, m)
<1>1. \A n \in 0 .. m : ComputeState(diffs2, o, n) = ComputeState(diffs, o, n)
  BY SameBlocks
<1>2. \A n \in 1 .. m : ComputeState(diffs2, o, n) = ComputeState(diffs, o, n)
  BY <1>1
<1> QED
  BY <1>2 DEF Agree

(* No state is added. *)
LEMMA AgreeNone ==
  ASSUME NEW c, NEW c2, NoneAdded(c, c2), NEW ids, NEW diffs, NEW o, NEW m,
         Agree(c, ids, diffs, o, m)
  PROVE  Agree(c2, ids, diffs, o, m)
<1>1. PICK q, q2 : q = c.block_state_cache /\ q2 = c2.block_state_cache
  OBVIOUS
<1>2. \A i \in DOMAIN q2 : \E j \in DOMAIN q : q2[i] = q[j]
  BY <1>1 DEF NoneAdded
<1>3. \A n \in 1 .. m : \A i \in DOMAIN q :
        n \in DOMAIN ids /\ q[i].id = ids[n] => q[i].state = ComputeState(diffs, o, n)
  BY <1>1 DEF Agree
<1>4. \A n \in 1 .. m : \A i \in DOMAIN q2 :
        n \in DOMAIN ids /\ q2[i].id = ids[n] => q2[i].state = ComputeState(diffs, o, n)
  BY <1>2, <1>3
<1> QED
  BY <1>1, <1>4 DEF Agree

(* A state is added: the ids that are known do not name it. *)
LEMMA AgreeOld ==
  ASSUME NEW c, NEW c2, NEW st, NEW number, OneAdded(c, st, number, c2), c.current_state_id \in Nat,
         NEW ids, NEW diffs, NEW o, NEW m, IdsUpTo(ids, m, c.current_state_id),
         Agree(c, ids, diffs, o, m)
  PROVE  Agree(c2, ids, diffs, o, m)
<1>1. PICK q, q2, k : q = c.block_state_cache /\ q2 = c2.block_state_cache /\ k = c.current_state_id
  OBVIOUS
<1>2. \A i \in DOMAIN q2 : \/ q2[i].id = k + 1 /\ q2[i].state = st
                           \/ \E j \in DOMAIN q : q2[i] = q[j]
  BY <1>1 DEF OneAdded
<1>3. \A n \in 1 .. m : \A i \in DOMAIN q :
        n \in DOMAIN ids /\ q[i].id = ids[n] => q[i].state = ComputeState(diffs, o, n)
  BY <1>1 DEF Agree
<1>4. \A n \in DOMAIN ids : ids[n] # k + 1
  <2>1. \A n \in DOMAIN ids : ids[n] \in Nat /\ ids[n] <= k
    BY <1>1 DEF IdsUpTo, IdMaps
  <2> QED
    BY <1>1, <2>1
<1>5. \A n \in 1 .. m : \A i \in DOMAIN q2 :
        n \in DOMAIN ids /\ q2[i].id = ids[n] => q2[i].state = ComputeState(diffs, o, n)
  BY <1>2, <1>3, <1>4
<1> QED
  BY <1>1, <1>5 DEF Agree

(* Two chains have the same states, but for one block. *)
SameStates(diffs, o, diffs2, o2, m, number) ==
  \A n \in 1 .. m : n # number => ComputeState(diffs2, o2, n) = ComputeState(diffs, o, n)

(* A state is added, and it is the one of its block. *)
LEMMA AgreeNew ==
  ASSUME NEW m \in Nat, NEW m2 \in Nat, m <= m2, NEW c, NEW c2, KeptOK(c, m),
         NEW number \in 1 .. m2, NEW st, OneAdded(c, st, number, c2),
         NEW diffs, NEW o, Agree(c, c.block_number_to_state_id, diffs, o, m),
         NEW diffs2, NEW o2, st = ComputeState(diffs2, o2, number),
         SameStates(diffs, o, diffs2, o2, m, number)
  PROVE  Agree(c2, c2.block_number_to_state_id, diffs2, o2, m2)
<1>1. PICK q, q2, k, ids, ids2 :
        /\ q = c.block_state_cache /\ q2 = c2.block_state_cache /\ k = c.current_state_id
        /\ ids = c.block_number_to_state_id /\ ids2 = c2.block_number_to_state_id
  OBVIOUS
<1>2. /\ k \in Nat /\ q \in Seq(CacheEntries) /\ \A i \in DOMAIN q : q[i].id <= k
      /\ IdsUpTo(ids, m, k)
  BY <1>1 DEF KeptOK, Caches
<1>3. \A i \in DOMAIN q2 : \/ q2[i].id = k + 1 /\ q2[i].state = st
                           \/ \E j \in DOMAIN q : q2[i] = q[j]
  BY <1>1 DEF OneAdded
<1>4. /\ number \in DOMAIN ids2 /\ ids2[number] = k + 1
      /\ \A n \in DOMAIN ids2 : n # number => n \in DOMAIN ids /\ ids2[n] = ids[n]
  BY <1>1 DEF OneAdded
<1>5. \A n \in 1 .. m : \A i \in DOMAIN q :
        n \in DOMAIN ids /\ q[i].id = ids[n] => q[i].state = ComputeState(diffs, o, n)
  BY <1>1 DEF Agree
<1>6. \A n \in DOMAIN ids : n \in 1 .. m /\ ids[n] \in Nat /\ ids[n] <= k
  BY <1>2 DEF IdsUpTo, IdMaps
<1>7. \A i \in DOMAIN q : q[i].id \in Nat /\ q[i].id # k + 1
  <2>1. \A i \in DOMAIN q : q[i] \in CacheEntries
    BY <1>2
  <2>2. \A i \in DOMAIN q : q[i].id \in Nat
    BY <2>1 DEF CacheEntries
  <2> QED
    BY <1>2, <2>2
<1>8. ASSUME NEW n \in 1 .. m2, NEW i \in DOMAIN q2, n \in DOMAIN ids2, q2[i].id = ids2[n]
      PROVE  q2[i].state = ComputeState(diffs2, o2, n)
  <2>1. CASE n = number
    BY <1>3, <1>4, <1>7, <1>8, <2>1
  <2>2. CASE n # number
    <3>1. n \in DOMAIN ids /\ ids2[n] = ids[n] /\ n \in 1 .. m /\ ids[n] # k + 1
      BY <1>2, <1>4, <1>6, <1>8, <2>2
    <3>2. PICK j \in DOMAIN q : q2[i] = q[j]
      BY <1>3, <1>8, <3>1
    <3>3. q[j].state = ComputeState(diffs, o, n)
      BY <1>5, <1>8, <3>1, <3>2
    <3> QED
      BY <2>2, <3>1, <3>2, <3>3 DEF SameStates
  <2> QED
    BY <2>1, <2>2
<1> QED
  BY <1>1, <1>8 DEF Agree

(* The same for the snapshots. *)
LEMMA SnapshotsAgreeOld ==
  ASSUME NEW ss, NEW next, NEW diffs, NEW c, SnapshotsOK(ss, next, diffs, c.current_state_id),
         c.current_state_id \in Nat, SnapshotsAgree(c, ss, diffs),
         NEW c2, NEW st, NEW number, OneAdded(c, st, number, c2)
  PROVE  SnapshotsAgree(c2, ss, diffs)
<1> SUFFICES ASSUME NEW id \in DOMAIN ss PROVE SnapshotAgrees(c2, ss[id], diffs)
  BY DEF SnapshotsAgree
<1>1. PICK s : s = ss[id] /\ SnapshotAgrees(c, s, diffs) /\ SnapshotOK(s, diffs, c.current_state_id)
  BY DEF SnapshotsAgree, SnapshotsOK
<1>2. PICK ids, o, m : ids = s.block_number_to_state_id /\ o = s.irregular_state /\ m = s.block_number
  OBVIOUS
<1>3. IdsUpTo(ids, m, c.current_state_id) /\ Agree(c, ids, diffs, o, m)
  BY <1>1, <1>2 DEF SnapshotOK, SnapshotAgrees
<1>4. Agree(c2, ids, diffs, o, m)
  BY <1>3, AgreeOld
<1> QED
  BY <1>1, <1>2, <1>4 DEF SnapshotAgrees

(* The cache after get_or_compute_state. *)
LEMMA GotCoherent ==
  ASSUME ChainInv, Coherent, NEW number \in 1 .. last_block_number,
         NEW c, c = get_or_compute_state(number)
  PROVE  /\ Agree(c, c.block_number_to_state_id, state_diffs, irregular_state, last_block_number)
         /\ SnapshotsAgree(c, snapshots, state_diffs)
         /\ SnapshotsOK(snapshots, next_snapshot_id, state_diffs, c.current_state_id)
         /\ MostRecent(c) = state_at_block_number(number)
<1>1. PICK m \in Nat : m = last_block_number /\ KeptOK(cache, m)
  BY DEF ChainInv, Chain, last_block_number
<1>2. GotFor(number, c) /\ cache.current_state_id \in Nat /\ c.current_state_id \in Nat
      /\ cache.current_state_id <= c.current_state_id
  BY GotNow
<1>3. SnapshotsOK(snapshots, next_snapshot_id, state_diffs, c.current_state_id)
  <2>1. SameUpTo(state_diffs, state_diffs, Len(state_diffs)) /\ Len(state_diffs) \in Nat
    BY DEF SameUpTo, ChainInv, Chain
  <2>2. Len(state_diffs) <= Len(state_diffs)
    BY <2>1
  <2> QED
    BY <1>2, <2>1, <2>2, SnapshotsStay DEF ChainInv
<1>4. CASE /\ NoneAdded(cache, c)
           /\ \E i \in Hits(cache, number) : MostRecent(c) = cache.block_state_cache[i].state
  <2>1. PICK ids : ids = cache.block_number_to_state_id /\ ids = c.block_number_to_state_id
    BY <1>4 DEF NoneAdded
  <2>2. Agree(cache, ids, state_diffs, irregular_state, m)
    BY <1>1, <2>1 DEF Coherent
  <2>3. Agree(c, ids, state_diffs, irregular_state, m)
    BY <1>4, <2>2, AgreeNone
  <2>4. ASSUME NEW id \in DOMAIN snapshots PROVE SnapshotAgrees(c, snapshots[id], state_diffs)
    BY <1>4, AgreeNone DEF Coherent, SnapshotsAgree, SnapshotAgrees
  <2>5. PICK i \in Hits(cache, number) : MostRecent(c) = cache.block_state_cache[i].state
    BY <1>4
  <2>6. MostRecent(c) = state_at_block_number(number)
    BY <1>1, <2>1, <2>2, <2>5 DEF Hits, Agree, state_at_block_number
  <2> QED
    BY <1>1, <1>3, <2>1, <2>3, <2>4, <2>6 DEF SnapshotsAgree
<1>5. CASE /\ OneAdded(cache, state_at_block_number(number), number, c)
           /\ MostRecent(c) = state_at_block_number(number)
  <2>1. m <= m /\ number \in 1 .. m
    BY <1>1
  <2>2. Agree(cache, cache.block_number_to_state_id, state_diffs, irregular_state, m)
    BY <1>1 DEF Coherent
  <2>3. PICK st : st = ComputeState(state_diffs, irregular_state, number)
                  /\ OneAdded(cache, st, number, c)
    BY <1>5 DEF state_at_block_number
  <2>4. Agree(c, c.block_number_to_state_id, state_diffs, irregular_state, m)
    <3>1. SameStates(state_diffs, irregular_state, state_diffs, irregular_state, m, number)
      BY DEF SameStates
    <3> QED
      BY <1>1, <2>1, <2>2, <2>3, <3>1, AgreeNew
  <2>5. SnapshotsAgree(c, snapshots, state_diffs)
    BY <1>2, <2>3, SnapshotsAgreeOld DEF ChainInv, Coherent
  <2> QED
    BY <1>1, <1>3, <1>5, <2>4, <2>5
<1> QED
  BY <1>2, <1>4, <1>5 DEF GotFor

(* A request reads a state. *)
LEMMA ReadCoherent ==
  ASSUME ChainInv, Coherent, NEW number \in 1 .. last_block_number, Read(number)
  PROVE  Coherent'
BY GotCoherent DEF Read, Coherent, last_block_number

(* A change of the last block to the state that is computed. *)
LEMMA OverrideCoherent ==
  ASSUME ChainInv, Coherent, NEW c, NEW st, NEW x, OverrideMade(c, st, x), NEW o2,
         o2 = irregular_state', st = ComputeState(state_diffs, o2, last_block_number)
  PROVE  Coherent'
<1>1. PICK m \in Nat \ {0} : m = last_block_number /\ m \in 1 .. last_block_number
  BY DEF ChainInv, Chain, last_block_number
<1>2. KeptOK(c, m) /\ c.current_state_id \in Nat
  BY <1>1, GotNow DEF OverrideMade
<1>3. /\ Agree(c, c.block_number_to_state_id, state_diffs, irregular_state, m)
      /\ SnapshotsAgree(c, snapshots, state_diffs)
      /\ SnapshotsOK(snapshots, next_snapshot_id, state_diffs, c.current_state_id)
  BY <1>1, GotCoherent DEF OverrideMade
<1>4. PICK c2 : c2 = cache' /\ c2 = add_state_to_cache(c, st, m)
  BY <1>1 DEF OverrideMade
<1>5. m <= m /\ m \in 1 .. m /\ m \in Nat
  BY <1>1
<1>6. OneAdded(c, st, m, c2)
  BY <1>2, <1>4, <1>5, StateAdded DEF OverrideMade
<1>7. SameStates(state_diffs, irregular_state, state_diffs, o2, m, m)
  <2>1. \A n \in 0 .. m - 1 :
          ComputeState(state_diffs, o2, n) = ComputeState(state_diffs, irregular_state, n)
    BY <1>1, OlderSame
  <2>2. \A n \in 1 .. m : n # m => n \in 0 .. m - 1
    BY <1>1
  <2> QED
    BY <2>1, <2>2 DEF SameStates
<1>8. Agree(c2, c2.block_number_to_state_id, state_diffs, o2, m)
  <2>1. PICK o, ids : /\ o = irregular_state /\ ids = c.block_number_to_state_id
                      /\ Agree(c, ids, state_diffs, o, m)
    BY <1>3
  <2>2. st = ComputeState(state_diffs, o2, m)
    BY <1>1
  <2> QED
    BY <1>2, <1>5, <1>6, <1>7, <2>1, <2>2, AgreeNew
<1>9. SnapshotsAgree(c2, snapshots, state_diffs)
  BY <1>2, <1>3, <1>6, SnapshotsAgreeOld
<1> QED
  BY <1>1, <1>4, <1>8, <1>9 DEF Coherent, OverrideMade, last_block_number

(* The last block's state, with the override as it was and as it is. *)
LEMMA LastComputed ==
  ASSUME Harmless, ChainInv, NEW c, NEW st, NEW x, OverrideMade(c, st, x), NEW o2, o2 = irregular_state'
  PROVE  \E before, d, m, m2 :
           /\ Committing(before, d, OldDiff, m, state_at_block_number(last_block_number))
           /\ x.diff \in Diffs /\ m2 \in Diffs /\ Merged(d, x.diff, m2)
           /\ ComputeState(state_diffs, o2, last_block_number) = commit(before, m2)
<1>1. PICK k \in Nat \ {0} : /\ k = last_block_number /\ k = Len(state_diffs)
                             /\ k \in 1 .. Len(state_diffs) /\ k \in 1 .. k
  BY DEF ChainInv, Chain, last_block_number
<1>2. PICK o : o = irregular_state /\ Irregular(o, k)
  BY <1>1 DEF ChainInv
<1>3. x \in StateOverrides /\ o2 = Over(Only(k, x), o) /\ Lasting(x.diff)
  BY <1>1, <1>2 DEF OverrideMade
<1>4. Irregular(o2, k) /\ k \in DOMAIN o2 /\ o2[k] = x
  BY <1>2, <1>3, Overridden
<1>5. x.diff \in Diffs
  BY <1>3 DEF StateOverrides
<1>6. PICK d, m, m2 : /\ d = state_diffs[k] /\ m = OverriddenDiff(state_diffs, o, k)
                      /\ m2 = OverriddenDiff(state_diffs, o2, k)
  OBVIOUS
<1>7. d \in Diffs /\ m \in Diffs /\ Merged(d, OldDiff, m)
  BY <1>1, <1>2, <1>6, OverriddenIs DEF ChainInv, OldDiff
<1>8. m2 \in Diffs /\ Merged(d, x.diff, m2)
  BY <1>1, <1>4, <1>6, OverriddenIs DEF ChainInv
<1>9. PICK before, now : /\ before = ComputeState(state_diffs, o, k - 1)
                         /\ now = ComputeState(state_diffs, o, k)
  OBVIOUS
<1>10. k - 1 \in Nat /\ (k - 1) + 1 = k /\ k - 1 \in 0 .. k /\ k \in 0 .. k /\ k - 1 \in 0 .. k - 1
  BY <1>1
<1>11. before \in State /\ now \in State
  BY <1>1, <1>2, <1>9, <1>10, ComputedIs DEF ChainInv
<1>12. now = commit(before, m)
  <2>1. ComputeState(state_diffs, o, (k - 1) + 1) =
          commit(ComputeState(state_diffs, o, k - 1), OverriddenDiff(state_diffs, o, (k - 1) + 1))
    BY <1>10, ComputedNext
  <2> QED
    BY <1>6, <1>9, <1>10, <2>1
<1>13. ComputeState(state_diffs, o2, k) = commit(before, m2)
  <2>1. ComputeState(state_diffs, o2, (k - 1) + 1) =
          commit(ComputeState(state_diffs, o2, k - 1), OverriddenDiff(state_diffs, o2, (k - 1) + 1))
    BY <1>10, ComputedNext
  <2>2. ComputeState(state_diffs, o2, k - 1) = before
    BY <1>1, <1>2, <1>9, <1>10, OlderSame
  <2> QED
    BY <1>6, <1>10, <2>1, <2>2
<1>14. Lasting(d) /\ OldDiff \in Diffs /\ Lasting(OldDiff)
  BY <1>1, <1>6, OldDiffIs DEF ChainInv, Chain
<1>15. now = state_at_block_number(last_block_number)
  BY <1>1, <1>2, <1>9 DEF state_at_block_number
<1>16. Committing(before, d, OldDiff, m, now)
  BY <1>7, <1>11, <1>12, <1>14 DEF Committing
<1> QED
  BY <1>1, <1>5, <1>8, <1>13, <1>15, <1>16

(* set_balance, set_nonce and set_code *)
LEMMA SetAccountCoherent ==
  ASSUME Harmless, ChainInv, Coherent, NEW a \in Addresses, NEW info \in Infos, SetAccount(a, info)
  PROVE  Coherent'
<1>1. PICK c, st, x :
        /\ OverrideMade(c, st, x) /\ AccountSet(OldDiff, a, info, x.diff)
        /\ st = [MostRecent(c) EXCEPT ![a] = [info |-> info, storage |-> StorageOf(@)]]
  BY SetAccountIs
<1>2. PICK o2 : o2 = irregular_state'
  OBVIOUS
<1>3. PICK now, old, y : /\ now = state_at_block_number(last_block_number) /\ old = OldDiff
                         /\ y = x.diff
  OBVIOUS
<1>4. PICK before, d, m, m2 :
        /\ Committing(before, d, old, m, now) /\ y \in Diffs /\ m2 \in Diffs /\ Merged(d, y, m2)
        /\ ComputeState(state_diffs, o2, last_block_number) = commit(before, m2)
  BY <1>1, <1>2, <1>3, LastComputed
<1>5. MostRecent(c) = now
  <2>1. last_block_number \in 1 .. last_block_number
    BY DEF ChainInv, Chain, last_block_number
  <2> QED
    BY <1>1, <1>3, <2>1, GotCoherent DEF OverrideMade
<1>6. commit(before, m2) = [now EXCEPT ![a] = [info |-> info, storage |-> StorageOf(@)]]
  BY <1>1, <1>3, <1>4, InfoCommitted
<1> QED
  BY <1>1, <1>2, <1>4, <1>5, <1>6, OverrideCoherent

(* set_account_storage_slot loses no slot: the account was already changed    *)
(* after the last block, or has no other slots.                               *)
Spare(a, slot) ==
  a \in DOMAIN OldDiff \/
  \A other \in Slots \ {slot} :
    StorageOf(state_at_block_number(last_block_number)[a])[other] = 0

LEMMA SetStorageCoherent ==
  ASSUME Harmless, ChainInv, Coherent, NEW a \in Addresses, NEW t \in Slots, NEW v \in Values,
         SetAccountStorageSlot(a, t, v), Spare(a, t)
  PROVE  Coherent'
<1>1. PICK c, st, x, info :
        /\ OverrideMade(c, st, x)
        /\ info = IF MostRecent(c)[a] = None THEN Empty ELSE MostRecent(c)[a].info
        /\ StorageSet(OldDiff, a, t, v, info, x.diff)
        /\ st = [MostRecent(c) EXCEPT ![a] =
                   [info |-> info, storage |-> [StorageOf(@) EXCEPT ![t] = v]]]
  BY SetStorageIs
<1>2. PICK o2 : o2 = irregular_state'
  OBVIOUS
<1>3. PICK now, old, y : /\ now = state_at_block_number(last_block_number) /\ old = OldDiff
                         /\ y = x.diff
  OBVIOUS
<1>4. PICK before, d, m, m2 :
        /\ Committing(before, d, old, m, now) /\ y \in Diffs /\ m2 \in Diffs /\ Merged(d, y, m2)
        /\ ComputeState(state_diffs, o2, last_block_number) = commit(before, m2)
  BY <1>1, <1>2, <1>3, LastComputed
<1>5. MostRecent(c) = now
  <2>1. last_block_number \in 1 .. last_block_number
    BY DEF ChainInv, Chain, last_block_number
  <2> QED
    BY <1>1, <1>3, <2>1, GotCoherent DEF OverrideMade
<1>6. a \notin DOMAIN old => \A s \in Slots : s # t => StorageOf(now[a])[s] = 0
  BY <1>3 DEF Spare
<1>7. StorageSet(old, a, t, v, info, y) /\ info = IF now[a] = None THEN Empty ELSE now[a].info
  BY <1>1, <1>3, <1>5
<1>8. commit(before, m2) =
        [now EXCEPT ![a] = [info |-> info, storage |-> [StorageOf(@) EXCEPT ![t] = v]]]
  BY <1>4, <1>6, <1>7, SlotCommitted
<1> QED
  BY <1>1, <1>2, <1>4, <1>5, <1>8, OverrideCoherent

(* The state of the block that is mined. *)
LEMMA MineCoherent ==
  ASSUME Harmless, ChainInv, Coherent, NEW c, NEW b, BlockMined(c, b)
  PROVE  Coherent'
<1>1. PICK m \in Nat \ {0} : /\ m = last_block_number /\ m = Len(state_diffs)
                             /\ m \in 1 .. last_block_number /\ m <= m + 1 /\ m + 1 \in Nat
                             /\ m + 1 \in 1 .. m + 1 /\ m \in 0 .. m /\ m \in Nat
  BY DEF ChainInv, Chain, last_block_number
<1>2. KeptOK(c, m) /\ c.current_state_id \in Nat
  BY <1>1, GotNow DEF BlockMined
<1>3. PICK o, ids : o = irregular_state /\ ids = c.block_number_to_state_id
  OBVIOUS
<1>4. /\ Agree(c, ids, state_diffs, o, m) /\ SnapshotsAgree(c, snapshots, state_diffs)
      /\ SnapshotsOK(snapshots, next_snapshot_id, state_diffs, c.current_state_id)
      /\ MostRecent(c) = ComputeState(state_diffs, o, m)
  BY <1>1, <1>3, GotCoherent DEF BlockMined, state_at_block_number
<1>5. PICK diffs2 : diffs2 = state_diffs' /\ diffs2 = Append(state_diffs, b.diff)
  BY DEF BlockMined
<1>6. /\ b.diff \in Diffs /\ b.state \in State /\ Lasting(b.diff)
      /\ b.state = commit(MostRecent(c), b.diff)
  BY DEF BlockMined, GoodBuilt
<1>7. /\ Chain(diffs2) /\ Len(diffs2) = m + 1 /\ SameUpTo(state_diffs, diffs2, m)
      /\ LastBlockIs(diffs2, b.diff)
  BY <1>1, <1>5, <1>6, ChainLonger DEF ChainInv
<1>8. \A n \in 0 .. m : ComputeState(diffs2, o, n) = ComputeState(state_diffs, o, n)
  BY <1>1, <1>7, SameBlocks
<1>9. ComputeState(diffs2, o, m + 1) = b.state
  <2>1. m + 1 \notin DOMAIN o
    BY <1>1, <1>3 DEF ChainInv, Irregular
  <2>2. OverriddenDiff(diffs2, o, m + 1) = b.diff
    BY <1>7, <2>1 DEF OverriddenDiff, LastBlockIs
  <2>3. ComputeState(diffs2, o, m + 1) =
          commit(ComputeState(diffs2, o, m), OverriddenDiff(diffs2, o, m + 1))
    BY <1>1, ComputedNext
  <2> QED
    BY <1>1, <1>4, <1>6, <1>8, <2>2, <2>3
<1>10. SnapshotsAgree(c, snapshots, diffs2)
  <2> SUFFICES ASSUME NEW id \in DOMAIN snapshots PROVE SnapshotAgrees(c, snapshots[id], diffs2)
    BY DEF SnapshotsAgree
  <2>1. PICK s, k, p, q : /\ s = snapshots[id] /\ k = s.block_number /\ p = s.irregular_state
                          /\ q = s.block_number_to_state_id
    OBVIOUS
  <2>2. SnapshotOK(s, state_diffs, c.current_state_id) /\ SnapshotAgrees(c, s, state_diffs)
    BY <1>4, <2>1 DEF SnapshotsOK, SnapshotsAgree
  <2>3. k \in 1 .. m /\ k \in Nat
    BY <1>1, <2>1, <2>2 DEF SnapshotOK
  <2>4. SameUpTo(state_diffs, diffs2, k)
    BY <1>1, <1>7, <2>3 DEF SameUpTo
  <2>5. Agree(c, q, diffs2, p, k)
    BY <2>1, <2>2, <2>3, <2>4, AgreeSame DEF SnapshotAgrees
  <2> QED
    BY <2>1, <2>5 DEF SnapshotAgrees
<1>11. SnapshotsOK(snapshots, next_snapshot_id, diffs2, c.current_state_id)
  <2>1. Len(state_diffs) <= Len(diffs2) /\ c.current_state_id <= c.current_state_id
    BY <1>1, <1>2, <1>7
  <2> QED
    BY <1>1, <1>2, <1>4, <1>7, <2>1, SnapshotsStay DEF ChainInv
<1>12. PICK c2 : c2 = cache' /\ (c2 = add_state_to_cache(c, b.state, m + 1) \/ c2 = c)
  BY <1>1 DEF BlockMined
<1>13. /\ Agree(c2, c2.block_number_to_state_id, diffs2, o, m + 1)
       /\ SnapshotsAgree(c2, snapshots, diffs2)
  <2>1. CASE c2 = c
    <3>1. Agree(c, ids, diffs2, o, m)
      BY <1>1, <1>4, <1>7, AgreeSame
    <3>2. m + 1 \notin DOMAIN ids
      BY <1>1, <1>2, <1>3 DEF KeptOK, IdsUpTo
    <3>3. \A n \in 1 .. m + 1 : n \in DOMAIN ids => n \in 1 .. m
      BY <1>1, <3>2
    <3>4. Agree(c, ids, diffs2, o, m + 1)
      BY <3>1, <3>3 DEF Agree
    <3> QED
      BY <1>3, <1>10, <2>1, <3>4
  <2>2. CASE c2 = add_state_to_cache(c, b.state, m + 1)
    <3>1. PICK st : st = b.state /\ st \in State /\ st = ComputeState(diffs2, o, m + 1)
      BY <1>6, <1>9
    <3>2. OneAdded(c, st, m + 1, c2)
      BY <1>1, <1>2, <2>2, <3>1, StateAdded
    <3>3. \A n \in 1 .. m : ComputeState(diffs2, o, n) = ComputeState(state_diffs, o, n)
      BY <1>1, <1>8
    <3>4. Agree(c, c.block_number_to_state_id, state_diffs, o, m)
      BY <1>3, <1>4
    <3>5. Agree(c2, c2.block_number_to_state_id, diffs2, o, m + 1)
      <4>1. PICK k \in Nat : k = m + 1 /\ m <= k /\ k \in 1 .. k
        BY <1>1
      <4>2. st = ComputeState(diffs2, o, k) /\ OneAdded(c, st, k, c2)
        BY <3>1, <3>2, <4>1
      <4>3. SameStates(state_diffs, o, diffs2, o, m, k)
        BY <3>3 DEF SameStates
      <4>4. Agree(c2, c2.block_number_to_state_id, diffs2, o, k)
        BY <1>1, <1>2, <3>4, <4>1, <4>2, <4>3, AgreeNew
      <4> QED
        BY <4>1, <4>4
    <3>6. SnapshotsAgree(c2, snapshots, diffs2)
      BY <1>2, <1>10, <1>11, <3>2, SnapshotsAgreeOld
    <3> QED
      BY <3>5, <3>6
  <2> QED
    BY <1>12, <2>1, <2>2
<1> QED
  BY <1>3, <1>5, <1>7, <1>12, <1>13 DEF Coherent, BlockMined, last_block_number

(* The snapshot that is made has the ids of the cache. *)
LEMMA SnapshotCoherent ==
  ASSUME ChainInv, Coherent, MakeSnapshot
  PROVE  Coherent'
<1>1. PICK s : /\ s.block_number = last_block_number
               /\ s.block_number_to_state_id = cache.block_number_to_state_id
               /\ s.irregular_state = irregular_state
               /\ DOMAIN snapshots' = DOMAIN snapshots \cup {next_snapshot_id}
               /\ snapshots'[next_snapshot_id] = s
               /\ \A id \in DOMAIN snapshots : snapshots'[id] = snapshots[id]
  BY SnapshotIs
<1>2. PICK ss : ss = snapshots'
  OBVIOUS
<1>3. SnapshotAgrees(cache, s, state_diffs)
  BY <1>1 DEF Coherent, SnapshotAgrees
<1>4. SnapshotsAgree(cache, ss, state_diffs)
  BY <1>1, <1>2, <1>3 DEF Coherent, SnapshotsAgree
<1> QED
  BY <1>2, <1>4 DEF Coherent, MakeSnapshot, last_block_number

(* The revert to a snapshot takes its ids. *)
LEMMA RevertCoherent ==
  ASSUME ChainInv, Coherent, NEW id \in 1 .. MaxSnapshots, RevertToSnapshot(id)
  PROVE  Coherent'
<1>1. PICK ss : ss = snapshots' /\ DOMAIN ss = Earlier(id) /\ \A j \in Earlier(id) : ss[j] = snapshots[j]
  BY EarlierAre
<1>2. \A j \in DOMAIN ss : /\ j \in DOMAIN snapshots /\ j < id /\ ss[j] = snapshots[j]
                           /\ SnapshotAgrees(cache, ss[j], state_diffs)
  BY <1>1 DEF Earlier, Coherent, SnapshotsAgree
<1>3. CASE id \notin DOMAIN snapshots
  <2>1. SnapshotsAgree(cache, ss, state_diffs)
    BY <1>2 DEF SnapshotsAgree
  <2> QED
    BY <1>1, <1>3, <2>1 DEF Coherent, RevertToSnapshot, last_block_number
<1>4. CASE id \in DOMAIN snapshots
  <2>1. PICK s, k, o, ids : /\ s = snapshots[id] /\ k = s.block_number
                            /\ o = s.irregular_state /\ ids = s.block_number_to_state_id
                            /\ SnapshotOK(s, state_diffs, cache.current_state_id)
    BY <1>4 DEF ChainInv, SnapshotsOK
  <2>2. PICK diffs2 : diffs2 = state_diffs' /\ diffs2 = SubSeq(state_diffs, 1, k)
    BY <1>4, <2>1 DEF RevertToSnapshot, Restore
  <2>3. k \in 1 .. Len(state_diffs)
    BY <2>1 DEF SnapshotOK
  <2>4. Len(diffs2) = k /\ k \in Nat \ {0} /\ SameUpTo(state_diffs, diffs2, k)
    BY <2>2, <2>3, ChainCut DEF ChainInv
  <2>5. PICK c2 : c2 = cache' /\ c2 = [cache EXCEPT !.block_number_to_state_id = ids]
    BY <1>4, <2>1 DEF RevertToSnapshot, Restore
  <2>6. cache \in Caches /\ irregular_state' = o
    BY <1>4, <2>1 DEF ChainInv, KeptOK, RevertToSnapshot, Restore
  <2>7. c2.block_state_cache = cache.block_state_cache /\ c2.block_number_to_state_id = ids
    BY <2>5, <2>6 DEF Caches
  <2>8. Agree(cache, ids, state_diffs, o, k)
    BY <1>4, <2>1 DEF Coherent, SnapshotsAgree, SnapshotAgrees
  <2>9. Agree(cache, ids, diffs2, o, k)
    BY <2>4, <2>8, AgreeSame
  <2>10. Agree(c2, c2.block_number_to_state_id, diffs2, o, k)
    BY <2>7, <2>9 DEF Agree
  <2>11. ASSUME NEW j \in DOMAIN ss PROVE SnapshotAgrees(c2, ss[j], diffs2)
    <3>1. PICK t, kt, p, q : /\ t = ss[j] /\ kt = t.block_number /\ p = t.irregular_state
                             /\ q = t.block_number_to_state_id
      OBVIOUS
    <3>2. t = snapshots[j] /\ j \in DOMAIN snapshots /\ j < id
      BY <1>2, <3>1
    <3>3. kt <= k
      BY <1>4, <2>1, <3>1, <3>2 DEF ChainInv, SnapshotsOK
    <3>4. kt \in Nat
      BY <3>1, <3>2 DEF ChainInv, SnapshotsOK, SnapshotOK
    <3>5. SameUpTo(state_diffs, diffs2, kt)
      BY <2>4, <3>3, <3>4 DEF SameUpTo
    <3>6. Agree(cache, q, state_diffs, p, kt)
      BY <1>2, <3>1 DEF SnapshotAgrees
    <3>7. Agree(cache, q, diffs2, p, kt)
      BY <3>4, <3>5, <3>6, AgreeSame
    <3>8. Agree(c2, q, diffs2, p, kt)
      BY <2>7, <3>7 DEF Agree
    <3> QED
      BY <3>1, <3>8 DEF SnapshotAgrees
  <2>12. SnapshotsAgree(c2, ss, diffs2)
    BY <2>11 DEF SnapshotsAgree
  <2> QED
    BY <1>1, <2>2, <2>4, <2>5, <2>6, <2>10, <2>12 DEF Coherent, last_block_number
<1> QED
  BY <1>3, <1>4

(* At first the genesis block's state is there. *)
LEMMA InitCoherent ==
  ASSUME Init
  PROVE  Coherent
<1>1. PICK d : state_diffs = <<d>>
  BY DEF Init
<1>2. last_block_number = 1
  BY <1>1 DEF last_block_number
<1>3. PICK e, q : e = [id |-> 0, state |-> state_at_block_number(1)] /\ q = cache.block_state_cache
  OBVIOUS
<1>4. q = <<e>> /\ e.state = state_at_block_number(1)
  BY <1>3 DEF Init
<1>5. \A i \in DOMAIN q : q[i].state = state_at_block_number(1)
  BY <1>4
<1>6. \A n \in 1 .. 1 : n = 1
  OBVIOUS
<1>7. Agree(cache, cache.block_number_to_state_id, state_diffs, irregular_state, 1)
  BY <1>3, <1>5, <1>6 DEF Agree, state_at_block_number
<1>8. DOMAIN snapshots = {}
  BY DEF Init
<1> QED
  BY <1>2, <1>7, <1>8 DEF Coherent, SnapshotsAgree

(* set_account_storage_slot is called only where it loses no slot. *)
Spares ==
  \A address \in Addresses, slot \in Slots, value \in Values :
    SetAccountStorageSlot(address, slot, value) => Spare(address, slot)

LEMMA NextCoherent ==
  ASSUME Harmless, ChainInv, Coherent, [Next]_vars, [Spares]_vars
  PROVE  Coherent'
<1>1. ASSUME NEW number \in 1 .. last_block_number, Read(number) PROVE Coherent'
  BY <1>1, ReadCoherent
<1>2. ASSUME NEW a \in Addresses, NEW info \in Infos, SetAccount(a, info) PROVE Coherent'
  BY <1>2, SetAccountCoherent
<1>3. CASE UNCHANGED vars
  BY <1>3 DEF vars, Coherent, last_block_number
<1>4. ASSUME NEW a \in Addresses, NEW t \in Slots, NEW v \in Values, SetAccountStorageSlot(a, t, v)
      PROVE  Coherent'
  <2>1. CASE Spares
    BY <1>4, <2>1, SetStorageCoherent DEF Spares
  <2> QED
    BY <1>3, <2>1
<1>5. CASE MineBlock
  BY <1>5, MineIs, MineCoherent
<1>6. CASE MakeSnapshot
  BY <1>6, SnapshotCoherent
<1>7. ASSUME NEW id \in 1 .. MaxSnapshots, RevertToSnapshot(id) PROVE Coherent'
  BY <1>7, RevertCoherent
<1> QED
  BY <1>1, <1>2, <1>3, <1>4, <1>5, <1>6, <1>7 DEF Next

LEMMA AlwaysCoherent == Harmless /\ Spec /\ [][Spares]_vars => []Coherent
<1>1. Init => Coherent
  BY InitCoherent
<1>2. Harmless /\ ChainInv /\ Coherent /\ [Next]_vars /\ [Spares]_vars => Coherent'
  BY NextCoherent
<1>3. Harmless => []Harmless
  OBVIOUS
<1> QED
  BY <1>1, <1>2, <1>3, ChainIsInvariant, PTL DEF Spec

(* While no account is emptied or destroyed and set_account_storage_slot is   *)
(* called where it loses no slot, the state that the cache holds for a block  *)
(* is the one that state_at_block_number computes from the diffs and the      *)
(* overrides, after any evictions, failed mem pool updates and reverts.       *)
THEOREM CacheStaysCoherent == Harmless /\ Spec /\ [][Spares]_vars => []CacheCoherent
<1>1. Coherent => CacheCoherent
  BY DEF Coherent, Agree, CacheCoherent, Hits, state_at_block_number
<1> QED
  BY <1>1, AlwaysCoherent, PTL

(* Under the same conditions evm_revert finds the state that the snapshot     *)
(* was taken in, in the diffs and overrides as well as in the cache.          *)
THEOREM SnapshotsStayRestorable ==
  Harmless /\ Spec /\ [][Spares]_vars => []SnapshotsRestorable
<1>1. ASSUME ChainInv, Coherent PROVE SnapshotsRestorable
  <2> SUFFICES ASSUME NEW id \in DOMAIN snapshots, NEW s, s = snapshots[id],
                      NEW c, c = [cache EXCEPT !.block_number_to_state_id = s.block_number_to_state_id]
               PROVE  /\ s.block_number <= last_block_number
                      /\ ComputeState(state_diffs, s.irregular_state, s.block_number) = s.state
                      /\ \A i \in Hits(c, s.block_number) : cache.block_state_cache[i].state = s.state
    BY DEF SnapshotsRestorable
  <2>1. /\ SnapshotOK(s, state_diffs, cache.current_state_id)
        /\ SnapshotAgrees(cache, s, state_diffs) /\ cache \in Caches
    BY <1>1 DEF ChainInv, SnapshotsOK, Coherent, SnapshotsAgree, KeptOK
  <2>2. /\ s.block_number \in 1 .. last_block_number /\ s.block_number \in 1 .. s.block_number
        /\ last_block_number \in Nat
        /\ ComputeState(state_diffs, s.irregular_state, s.block_number) = s.state
    BY <1>1, <2>1 DEF SnapshotOK, last_block_number, ChainInv, Chain
  <2>3. /\ c.block_state_cache = cache.block_state_cache
        /\ c.block_number_to_state_id = s.block_number_to_state_id
    BY <2>1 DEF Caches
  <2>4. \A i \in Hits(c, s.block_number) : cache.block_state_cache[i].state = s.state
    BY <2>1, <2>2, <2>3 DEF Hits, SnapshotAgrees, Agree
  <2> QED
    BY <2>2, <2>4
<1>2. ChainInv /\ Coherent => SnapshotsRestorable
  BY <1>1
<1> QED
  BY <1>2, ChainIsInvariant, AlwaysCoherent, PTL
=============================================================================
