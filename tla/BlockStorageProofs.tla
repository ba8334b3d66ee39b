-------------------------- MODULE BlockStorageProofs --------------------------
(***************************************************************************)
(* Proofs about BlockStorage, for every chain, number of blocks, reads,    *)
(* reservations and reverts: every number is there once, the indexes of    *)
(* diffs and transactions are exact, and the storage implements the eager  *)
(* chain.                                                                  *)
(***************************************************************************)
EXTENDS BlockStorage, TLAPS, FiniteSetTheorems, WellFoundedInduction

-----------------------------------------------------------------------------
(* What the proofs look at: the ranges of reserved blocks, the blocks a reader
   gets, and the index of the diffs of a block, for any ranges and maps. *)
Roots == Seq(Nat \X (Diffs \cup {genesis_diff}))

Reservation == [first_number : Nat, last_number : Nat, interval : Intervals,
                previous_state_root : Roots, previous_diff_index : Nat]

ReservedView(rs, st, n) ==
  [number       |-> n,
   timestamp    |-> calculate_timestamp_for_reserved_block(rs, st)[n],
   slot_number  |-> calculate_slot_number_for_reserved_block(rs, st)[n],
   state_root   |-> The(rs, n).previous_state_root,
   transactions |-> {}]

View(rs, st, n) == IF Reserved(rs, n) THEN ReservedView(rs, st, n) ELSE st[n]

Index(rs, index, n) ==
  IF n \in DOMAIN index THEN index[n]
  ELSE IF Reserved(rs, n) THEN The(rs, n).previous_diff_index
  ELSE None

(* The ranges lie between the first block and block e and do not overlap. *)
Ranges(base, rs, e) ==
  /\ rs \subseteq Reservation
  /\ \A r \in rs : base < r.first_number /\ r.first_number <= r.last_number /\ r.last_number <= e
  /\ \A r, s \in rs : r.first_number <= s.last_number /\ s.first_number <= r.last_number => r = s

(* Every block up to e is stored or reserved, and no other. *)
Covered(base, rs, st, e) ==
  /\ DOMAIN st \subseteq base .. e
  /\ \A n \in base .. e : Reserved(rs, n) <=> n \notin DOMAIN st
  /\ \A n \in DOMAIN st : st[n] \in Block /\ st[n].number = n

Laid(base, rs, st, e) ==
  /\ base <= e
  /\ Ranges(base, rs, e)
  /\ Covered(base, rs, st, e)

(* The diffs up to the index of a block lead to its state; the diffs of
   later blocks come later; all of them lead to the last block. *)
Indexed(base, rs, st, index, diffs, last, e) ==
  /\ diffs \in Roots
  /\ DOMAIN index \subseteq base .. last
  /\ \A n \in DOMAIN index : ~ Reserved(rs, n) /\ index[n] # None
  /\ \A n \in base .. last : Index(rs, index, n) # None => Index(rs, index, n) \in 1 .. Len(diffs)
  /\ \A m, n \in base .. last :
       m <= n /\ Index(rs, index, m) # None /\ Index(rs, index, n) # None =>
         Index(rs, index, m) <= Index(rs, index, n)
  /\ \A n \in base .. e : Index(rs, index, n) # None =>
       SubSeq(diffs, 1, Index(rs, index, n)) = View(rs, st, n).state_root
  /\ e = last => View(rs, st, e).state_root = diffs

(* A transaction is in one block, which the maps know. *)
Filed(blocks, by_hash, receipts) ==
  /\ \A n \in DOMAIN blocks : \A tx \in blocks[n].transactions :
       tx \in DOMAIN by_hash /\ by_hash[tx] = blocks[n]
  /\ \A tx \in DOMAIN by_hash : \E n \in DOMAIN blocks : tx \in blocks[n].transactions
  /\ DOMAIN receipts = DOMAIN by_hash
  /\ \A tx \in DOMAIN by_hash : receipts[tx] = by_hash[tx].number

(* The last number is that of the last block, or of one that was refused. *)
StorageInv(e) ==
  /\ origin \in Origins
  /\ last_block_number \in {e, e + 1}
  /\ heads \subseteq Base .. last_block_number
  /\ Laid(Base, reservations, Stored(number_to_block), e)
  /\ Indexed(Base, reservations, Stored(number_to_block), number_to_diff_index, state_diffs,
             last_block_number, e)
  /\ IF Forked THEN Base \notin DOMAIN number_to_block
     ELSE Base \in DOMAIN number_to_diff_index /\ number_to_diff_index[Base] = 1
  /\ Filed(number_to_block, transaction_hash_to_block, transaction_hash_to_receipt)

IInv == \E e \in Nat : StorageInv(e)
-----------------------------------------------------------------------------
(* Numbers. *)

(* A set of natural numbers that is not empty has a least element. *)
LEMMA LeastNumber ==
  ASSUME NEW T \in SUBSET Nat, T # {}
  PROVE  \E x \in T : \A y \in T : x <= y
<1>1. PICK x \in T : \A y \in T : ~ (<<y, x>> \in OpToRel(<, Nat))
  BY NatLessThanWellFounded, WFMin
<1>2. \A y \in T : ~ (y < x)
  BY <1>1 DEF OpToRel
<1> QED
  BY <1>2

(* The first number is a natural one, and zero for a chain that is not forked. *)
LEMMA OriginType ==
  ASSUME origin \in Origins
  PROVE  /\ Base \in Nat /\ MaxNumber \in Nat /\ Base <= MaxNumber
         /\ Forked \in BOOLEAN /\ (~ Forked => Base = 0)
<1> QED
  BY BlockStorageAssumption DEF Base, MaxNumber, Forked

(* The genesis block, and the forked one, are blocks. *)
LEMMA BaseBlockType ==
  ASSUME origin \in Origins
  PROVE  BaseBlock \in Block /\ BaseBlock.number = Base /\ BaseBlock.state_root \in Roots
<1>1. Base \in Nat
  BY OriginType
<1>2. origin.slot_number \in {None} \cup Nat
  BY BlockStorageAssumption
<1>3. <<>> \in Roots
  BY DEF Roots
<1>4. << <<Base, genesis_diff>> >> \in Roots
  <2>1. <<Base, genesis_diff>> \in Nat \X (Diffs \cup {genesis_diff})
    BY <1>1
  <2> QED
    BY <2>1 DEF Roots
<1>5. BaseBlock.state_root \in Roots
  BY <1>3, <1>4 DEF BaseBlock
<1> QED
  BY <1>1, <1>2, <1>5 DEF BaseBlock, Block, Roots

-----------------------------------------------------------------------------
(* Ranges and maps. *)

(* The range that contains a number. *)
LEMMA TheOne ==
  ASSUME NEW base, NEW e, NEW rs, Ranges(base, rs, e), NEW n \in Int,
         NEW r \in rs, r.first_number <= n, n <= r.last_number
  PROVE  find_reservation(rs, n) = {r} /\ Reserved(rs, n) /\ The(rs, n) = r
<1>1. \A s \in rs : s.first_number \in Nat /\ s.last_number \in Nat
  BY DEF Ranges, Reservation
<1>2. \A s \in find_reservation(rs, n) : s = r
  BY <1>1 DEF find_reservation, Ranges
<1>3. r \in find_reservation(rs, n)
  BY DEF find_reservation
<1>4. find_reservation(rs, n) = {r}
  BY <1>2, <1>3
<1> QED
  BY <1>4 DEF Reserved, The

(* The range that is found for a number contains it. *)
LEMMA TheType ==
  ASSUME NEW base, NEW e \in Int, NEW rs, Ranges(base, rs, e), NEW n, Reserved(rs, n)
  PROVE  /\ The(rs, n) \in rs /\ The(rs, n) \in Reservation
         /\ The(rs, n).first_number <= n /\ n <= The(rs, n).last_number
         /\ base < The(rs, n).first_number /\ The(rs, n).last_number <= e
<1>1. The(rs, n) \in find_reservation(rs, n)
  BY DEF Reserved, The
<1> QED
  BY <1>1 DEF find_reservation, Ranges

(* A map with one entry set. *)
LEMMA PutAt ==
  ASSUME NEW f, NEW x, NEW v
  PROVE  /\ DOMAIN Put(f, x, v) = DOMAIN f \cup {x}
         /\ Put(f, x, v)[x] = v
         /\ \A y \in DOMAIN f : y # x => Put(f, x, v)[y] = f[y]
<1> QED
  BY DEF Put

(* What is stored once a block behind the first one is added. *)
WithBlock(st2, st, n, b) ==
  /\ DOMAIN st2 = DOMAIN st \cup {n}
  /\ st2[n] = b
  /\ \A m \in DOMAIN st : m # n => st2[m] = st[m]

(* Storing a block behind the first one changes no other. *)
LEMMA StoredPut ==
  ASSUME NEW blocks, NEW n, n # Base, NEW b
  PROVE  WithBlock(Stored(Put(blocks, n, b)), Stored(blocks), n, b)
<1>1. CASE ~ Forked
  BY <1>1 DEF Stored, Put, WithBlock
<1>2. CASE Forked
  <2> DEFINE p == Put(blocks, n, b)
  <2>1. DOMAIN p = DOMAIN blocks \cup {n} /\ p[n] = b
        /\ \A m \in DOMAIN blocks : m # n => p[m] = blocks[m]
    BY DEF Put
  <2>2. Stored(p) = Put(p, Base, BaseBlock) /\ Stored(blocks) = Put(blocks, Base, BaseBlock)
    BY <1>2 DEF Stored
  <2> HIDE DEF p
  <2>3. DOMAIN Stored(p) = DOMAIN p \cup {Base} /\ Stored(p)[Base] = BaseBlock
        /\ \A m \in DOMAIN p : m # Base => Stored(p)[m] = p[m]
    BY <2>2 DEF Put
  <2>4. DOMAIN Stored(blocks) = DOMAIN blocks \cup {Base} /\ Stored(blocks)[Base] = BaseBlock
        /\ \A m \in DOMAIN blocks : m # Base => Stored(blocks)[m] = blocks[m]
    BY <2>2 DEF Put
  <2> QED
    BY <2>1, <2>3, <2>4 DEF p, WithBlock
<1> QED
  BY <1>1, <1>2

-----------------------------------------------------------------------------
(* The recursive functions: they exist, and are determined by their equations. *)

TimeAt(rs, st, f, n) ==
  IF Reserved(rs, n)
  THEN f[The(rs, n).first_number - 1] + The(rs, n).interval * (n - The(rs, n).first_number + 1)
  ELSE st[n].timestamp

SlotAt(rs, st, f, n) ==
  IF ~ Reserved(rs, n) THEN st[n].slot_number
  ELSE IF ~ Amsterdam THEN None
  ELSE IF f[The(rs, n).first_number - 1] = None
       THEN n - The(rs, n).first_number
       ELSE f[The(rs, n).first_number - 1] + (n - (The(rs, n).first_number - 1))

Times(base, rs, st, f, e) == \A n \in base .. e : f[n] = TimeAt(rs, st, f, n)
Slots(base, rs, st, f, e) == \A n \in base .. e : f[n] = SlotAt(rs, st, f, n)

(* They are about the blocks there are. *)
LEMMA NumbersAre ==
  ASSUME NEW base \in Nat, NEW e \in Nat, NEW rs, NEW st, Laid(base, rs, st, e)
  PROVE  Numbers(rs, st) = base .. e
<1>0. Ranges(base, rs, e) /\ Covered(base, rs, st, e)
  BY DEF Laid
<1>1. ASSUME NEW n \in Numbers(rs, st)
      PROVE  n \in base .. e
  <2>1. CASE n \in DOMAIN st
    BY <1>0, <2>1 DEF Covered
  <2>2. CASE \E r \in rs : n \in r.first_number .. r.last_number
    BY <1>0, <2>2 DEF Ranges, Reservation
  <2> QED
    BY <2>1, <2>2 DEF Numbers
<1>2. ASSUME NEW n \in base .. e
      PROVE  n \in Numbers(rs, st)
  <2>1. CASE n \in DOMAIN st
    BY <2>1 DEF Numbers
  <2>2. CASE n \notin DOMAIN st
    <3>1. Reserved(rs, n)
      BY <1>0, <2>2 DEF Covered
    <3>2. PICK r \in rs : r.first_number <= n /\ n <= r.last_number
      BY <3>1 DEF Reserved, find_reservation
    <3>3. n \in r.first_number .. r.last_number
      BY <1>0, <3>2 DEF Ranges, Reservation
    <3> QED
      BY <3>3 DEF Numbers
  <2> QED
    BY <2>1, <2>2
<1> QED
  BY <1>1, <1>2

(* The timestamps of the chain satisfy the equation of their function. *)
LEMMA TimesExist ==
  ASSUME NEW base \in Nat, NEW e \in Nat, NEW rs, NEW st, Laid(base, rs, st, e)
  PROVE  Times(base, rs, st, calculate_timestamp_for_reserved_block(rs, st), e)
<1>0. base <= e /\ Ranges(base, rs, e) /\ Numbers(rs, st) = base .. e
  BY NumbersAre DEF Laid
<1> DEFINE P(k) == \E f : f = [n \in base .. (base + k) - 1 |-> TimeAt(rs, st, f, n)]
<1>1. P(0)
  <2> DEFINE f == [n \in base .. (base + 0) - 1 |-> 0]
  <2>1. f = [n \in base .. (base + 0) - 1 |-> TimeAt(rs, st, f, n)]
    BY <1>0
  <2> QED
    BY <2>1
<1>2. ASSUME NEW k \in Nat, P(k)
      PROVE  P(k + 1)
  <2>1. PICK f : f = [n \in base .. (base + k) - 1 |-> TimeAt(rs, st, f, n)]
    BY <1>2
  <2> DEFINE g == [n \in base .. (base + (k + 1)) - 1 |->
                     IF n \in base .. (base + k) - 1 THEN f[n] ELSE TimeAt(rs, st, f, n)]
  <2>2. ASSUME NEW n \in base .. (base + (k + 1)) - 1
        PROVE  TimeAt(rs, st, f, n) = TimeAt(rs, st, g, n)
    <3>1. CASE Reserved(rs, n)
      <4>1. The(rs, n).first_number \in Nat /\ base < The(rs, n).first_number
            /\ The(rs, n).first_number <= n
        BY <1>0, <3>1, TheType DEF Reservation
      <4>2. The(rs, n).first_number - 1 \in base .. (base + k) - 1
        BY <1>0, <4>1
      <4>3. g[The(rs, n).first_number - 1] = f[The(rs, n).first_number - 1]
        BY <1>0, <4>2
      <4> QED
        BY <4>3 DEF TimeAt
    <3>2. CASE ~ Reserved(rs, n)
      BY <3>2 DEF TimeAt
    <3> QED
      BY <3>1, <3>2
  <2>3. \A n \in base .. (base + (k + 1)) - 1 : g[n] = TimeAt(rs, st, g, n)
    <3> TAKE n \in base .. (base + (k + 1)) - 1
    <3>1. g[n] = TimeAt(rs, st, f, n)
      BY <2>1
    <3> QED
      BY <2>2, <3>1
  <2>4. g = [n \in base .. (base + (k + 1)) - 1 |-> g[n]]
    OBVIOUS
  <2> HIDE DEF g
  <2>5. g = [n \in base .. (base + (k + 1)) - 1 |-> TimeAt(rs, st, g, n)]
    BY <2>3, <2>4
  <2> QED
    BY <2>5
<1> HIDE DEF P
<1>3. \A k \in Nat : P(k)
  <2> SUFFICES ASSUME ~ \A k \in Nat : P(k) PROVE FALSE
    OBVIOUS
  <2> DEFINE T == {k \in Nat : ~ P(k)}
  <2>1. PICK k \in T : \A y \in T : k <= y
    BY LeastNumber
  <2>2. k \in Nat /\ k # 0 /\ ~ P(k)
    BY <1>1, <2>1
  <2>3. k - 1 \in Nat /\ P(k - 1)
    BY <2>1, <2>2
  <2>4. (k - 1) + 1 = k
    BY <2>2
  <2> QED
    BY <1>2, <2>2, <2>3, <2>4
<1>4. P((e - base) + 1)
  BY <1>0, <1>3
<1>5. (base + ((e - base) + 1)) - 1 = e
  BY <1>0
<1>6. PICK h : h = [n \in base .. e |-> TimeAt(rs, st, h, n)]
  BY <1>4, <1>5 DEF P
<1> DEFINE t == calculate_timestamp_for_reserved_block(rs, st)
<1>7. t = [n \in base .. e |->
             IF Reserved(rs, n)
             THEN t[The(rs, n).first_number - 1]
                    + The(rs, n).interval * (n - The(rs, n).first_number + 1)
             ELSE st[n].timestamp]
  BY <1>0, <1>6, Zenon DEF calculate_timestamp_for_reserved_block, TimeAt
<1> HIDE DEF t
<1>8. \A n \in base .. e : t[n] = TimeAt(rs, st, t, n)
  BY <1>7 DEF TimeAt
<1> QED
  BY <1>8 DEF Times, t

(* And so do the slot numbers. *)
LEMMA SlotsExist ==
  ASSUME NEW base \in Nat, NEW e \in Nat, NEW rs, NEW st, Laid(base, rs, st, e)
  PROVE  Slots(base, rs, st, calculate_slot_number_for_reserved_block(rs, st), e)
<1>0. base <= e /\ Ranges(base, rs, e) /\ Numbers(rs, st) = base .. e
  BY NumbersAre DEF Laid
<1> DEFINE P(k) == \E f : f = [n \in base .. (base + k) - 1 |-> SlotAt(rs, st, f, n)]
<1>1. P(0)
  <2> DEFINE f == [n \in base .. (base + 0) - 1 |-> 0]
  <2>1. f = [n \in base .. (base + 0) - 1 |-> SlotAt(rs, st, f, n)]
    BY <1>0
  <2> QED
    BY <2>1
<1>2. ASSUME NEW k \in Nat, P(k)
      PROVE  P(k + 1)
  <2>1. PICK f : f = [n \in base .. (base + k) - 1 |-> SlotAt(rs, st, f, n)]
    BY <1>2
  <2> DEFINE g == [n \in base .. (base + (k + 1)) - 1 |->
                     IF n \in base .. (base + k) - 1 THEN f[n] ELSE SlotAt(rs, st, f, n)]
  <2>2. ASSUME NEW n \in base .. (base + (k + 1)) - 1
        PROVE  SlotAt(rs, st, f, n) = SlotAt(rs, st, g, n)
    <3>1. CASE Reserved(rs, n)
      <4>1. The(rs, n).first_number \in Nat /\ base < The(rs, n).first_number
            /\ The(rs, n).first_number <= n
        BY <1>0, <3>1, TheType DEF Reservation
      <4>2. The(rs, n).first_number - 1 \in base .. (base + k) - 1
        BY <1>0, <4>1
      <4>3. g[The(rs, n).first_number - 1] = f[The(rs, n).first_number - 1]
        BY <1>0, <4>2
      <4> QED
        BY <4>3 DEF SlotAt
    <3>2. CASE ~ Reserved(rs, n)
      BY <3>2 DEF SlotAt
    <3> QED
      BY <3>1, <3>2
  <2>3. \A n \in base .. (base + (k + 1)) - 1 : g[n] = SlotAt(rs, st, g, n)
    <3> TAKE n \in base .. (base + (k + 1)) - 1
    <3>1. g[n] = SlotAt(rs, st, f, n)
      BY <2>1
    <3> QED
      BY <2>2, <3>1
  <2>4. g = [n \in base .. (base + (k + 1)) - 1 |-> g[n]]
    OBVIOUS
  <2> HIDE DEF g
  <2>5. g = [n \in base .. (base + (k + 1)) - 1 |-> SlotAt(rs, st, g, n)]
    BY <2>3, <2>4
  <2> QED
    BY <2>5
<1> HIDE DEF P
<1>3. \A k \in Nat : P(k)
  <2> SUFFICES ASSUME ~ \A k \in Nat : P(k) PROVE FALSE
    OBVIOUS
  <2> DEFINE T == {k \in Nat : ~ P(k)}
  <2>1. PICK k \in T : \A y \in T : k <= y
    BY LeastNumber
  <2>2. k \in Nat /\ k # 0 /\ ~ P(k)
    BY <1>1, <2>1
  <2>3. k - 1 \in Nat /\ P(k - 1)
    BY <2>1, <2>2
  <2>4. (k - 1) + 1 = k
    BY <2>2
  <2> QED
    BY <1>2, <2>2, <2>3, <2>4
<1>4. P((e - base) + 1)
  BY <1>0, <1>3
<1>5. (base + ((e - base) + 1)) - 1 = e
  BY <1>0
<1>6. PICK h : h = [n \in base .. e |-> SlotAt(rs, st, h, n)]
  BY <1>4, <1>5 DEF P
<1> DEFINE t == calculate_slot_number_for_reserved_block(rs, st)
<1>7. t = [n \in base .. e |->
             IF ~ Reserved(rs, n) THEN st[n].slot_number
             ELSE IF ~ Amsterdam THEN None
             ELSE IF t[The(rs, n).first_number - 1] = None
                  THEN n - The(rs, n).first_number
                  ELSE t[The(rs, n).first_number - 1] + (n - (The(rs, n).first_number - 1))]
  BY <1>0, <1>6, Zenon DEF calculate_slot_number_for_reserved_block, SlotAt
<1> HIDE DEF t
<1>8. \A n \in base .. e : t[n] = SlotAt(rs, st, t, n)
  BY <1>7 DEF SlotAt
<1> QED
  BY <1>8 DEF Slots, t

(* Only one function satisfies the equation of the timestamps. *)
LEMMA TimesUnique ==
  ASSUME NEW base \in Nat, NEW e \in Nat, NEW rs, Ranges(base, rs, e), NEW st, NEW m \in Int,
         NEW f, NEW g, Times(base, rs, st, f, m), Times(base, rs, st, g, m)
  PROVE  \A n \in base .. m : f[n] = g[n]
<1>0. base \in Nat
  OBVIOUS
<1> SUFFICES ASSUME ~ \A n \in base .. m : f[n] = g[n] PROVE FALSE
  OBVIOUS
<1> DEFINE T == {n \in base .. m : f[n] # g[n]}
<1>a. T \in SUBSET Nat /\ T # {}
  BY <1>0
<1>1. PICK n \in T : \A y \in T : n <= y
  BY <1>a, LeastNumber
<1>2. n \in base .. m /\ f[n] # g[n]
  BY <1>1
<1>3. TimeAt(rs, st, f, n) # TimeAt(rs, st, g, n)
  BY <1>2 DEF Times
<1>4. Reserved(rs, n)
  BY <1>3 DEF TimeAt
<1>5. The(rs, n).first_number \in Nat /\ base < The(rs, n).first_number
      /\ The(rs, n).first_number <= n
  BY <1>4, TheType DEF Reservation
<1>6. The(rs, n).first_number - 1 \in base .. m /\ ~ (n <= The(rs, n).first_number - 1)
  BY <1>0, <1>2, <1>5
<1>7. f[The(rs, n).first_number - 1] = g[The(rs, n).first_number - 1]
  BY <1>1, <1>6
<1> QED
  BY <1>3, <1>7 DEF TimeAt

(* And only one that of the slot numbers. *)
LEMMA SlotsUnique ==
  ASSUME NEW base \in Nat, NEW e \in Nat, NEW rs, Ranges(base, rs, e), NEW st, NEW m \in Int,
         NEW f, NEW g, Slots(base, rs, st, f, m), Slots(base, rs, st, g, m)
  PROVE  \A n \in base .. m : f[n] = g[n]
<1>0. base \in Nat
  OBVIOUS
<1> SUFFICES ASSUME ~ \A n \in base .. m : f[n] = g[n] PROVE FALSE
  OBVIOUS
<1> DEFINE T == {n \in base .. m : f[n] # g[n]}
<1>a. T \in SUBSET Nat /\ T # {}
  BY <1>0
<1>1. PICK n \in T : \A y \in T : n <= y
  BY <1>a, LeastNumber
<1>2. n \in base .. m /\ f[n] # g[n]
  BY <1>1
<1>3. SlotAt(rs, st, f, n) # SlotAt(rs, st, g, n)
  BY <1>2 DEF Slots
<1>4. Reserved(rs, n)
  BY <1>3 DEF SlotAt
<1>5. The(rs, n).first_number \in Nat /\ base < The(rs, n).first_number
      /\ The(rs, n).first_number <= n
  BY <1>4, TheType DEF Reservation
<1>6. The(rs, n).first_number - 1 \in base .. m /\ ~ (n <= The(rs, n).first_number - 1)
  BY <1>0, <1>2, <1>5
<1>7. f[The(rs, n).first_number - 1] = g[The(rs, n).first_number - 1]
  BY <1>1, <1>6
<1> QED
  BY <1>3, <1>7 DEF SlotAt

(* A product of natural numbers is one. *)
LEMMA NatProduct ==
  ASSUME NEW i \in Nat, NEW j \in Nat
  PROVE  i * j \in Nat
<1> QED
  OBVIOUS

(* The timestamps and slot numbers of the chain are numbers. *)
LEMMA TimesType ==
  ASSUME NEW base \in Nat, NEW e \in Nat, NEW rs, NEW st, Laid(base, rs, st, e),
         NEW f, Times(base, rs, st, f, e)
  PROVE  \A n \in base .. e : f[n] \in Nat
<1>0. base \in Nat /\ Ranges(base, rs, e)
  BY DEF Laid
<1> SUFFICES ASSUME ~ \A n \in base .. e : f[n] \in Nat PROVE FALSE
  OBVIOUS
<1> DEFINE T == {n \in base .. e : f[n] \notin Nat}
<1>a. T \in SUBSET Nat /\ T # {}
  BY <1>0
<1>1. PICK n \in T : \A y \in T : n <= y
  BY <1>a, LeastNumber
<1>2. n \in base .. e /\ TimeAt(rs, st, f, n) \notin Nat
  BY <1>1 DEF Times
<1>3. Reserved(rs, n)
  BY <1>2 DEF TimeAt, Laid, Covered, Block
<1> DEFINE r == The(rs, n)
<1>4. r.first_number \in Nat /\ base < r.first_number /\ r.first_number <= n /\ r.interval \in Nat
  <2>1. r \in Reservation /\ base < r.first_number /\ r.first_number <= n
    BY <1>0, <1>3, TheType
  <2> QED
    BY <2>1, BlockStorageAssumption DEF Reservation
<1>5. TimeAt(rs, st, f, n) = f[r.first_number - 1] + r.interval * (n - r.first_number + 1)
  BY <1>3 DEF TimeAt
<1> HIDE DEF r
<1>6. r.first_number - 1 \in base .. e /\ ~ (n <= r.first_number - 1)
  BY <1>0, <1>2, <1>4
<1>7. f[r.first_number - 1] \in Nat
  BY <1>1, <1>6
<1>8. n - r.first_number + 1 \in Nat
  BY <1>0, <1>2, <1>4
<1>9. r.interval * (n - r.first_number + 1) \in Nat
  BY <1>4, <1>8, NatProduct
<1> QED
  BY <1>2, <1>5, <1>7, <1>9

(* Slot numbers are natural numbers, where there are any. *)
LEMMA SlotsType ==
  ASSUME NEW base \in Nat, NEW e \in Nat, NEW rs, NEW st, Laid(base, rs, st, e),
         NEW f, Slots(base, rs, st, f, e)
  PROVE  \A n \in base .. e : f[n] \in {None} \cup Nat
<1>0. base \in Nat /\ Ranges(base, rs, e)
  BY DEF Laid
<1> SUFFICES ASSUME ~ \A n \in base .. e : f[n] \in {None} \cup Nat PROVE FALSE
  OBVIOUS
<1> DEFINE T == {n \in base .. e : f[n] \notin {None} \cup Nat}
<1>a. T \in SUBSET Nat /\ T # {}
  BY <1>0
<1>1. PICK n \in T : \A y \in T : n <= y
  BY <1>a, LeastNumber
<1>2. n \in base .. e /\ SlotAt(rs, st, f, n) \notin {None} \cup Nat
  BY <1>1 DEF Slots
<1>3. Reserved(rs, n)
  BY <1>2 DEF SlotAt, Laid, Covered, Block
<1> DEFINE r == The(rs, n)
<1>4. r.first_number \in Nat /\ base < r.first_number /\ r.first_number <= n
  BY <1>0, <1>3, TheType DEF Reservation
<1>5. SlotAt(rs, st, f, n) \in
        {None, n - r.first_number, f[r.first_number - 1] + (n - (r.first_number - 1))}
  BY <1>3 DEF SlotAt
<1>6. f[r.first_number - 1] = None => SlotAt(rs, st, f, n) \in {None, n - r.first_number}
  BY <1>3 DEF SlotAt
<1> HIDE DEF r
<1>7. r.first_number - 1 \in base .. e /\ ~ (n <= r.first_number - 1)
  BY <1>0, <1>2, <1>4
<1>8. f[r.first_number - 1] \in {None} \cup Nat
  BY <1>1, <1>7
<1>9. n - r.first_number \in Nat /\ n - (r.first_number - 1) \in Nat
  BY <1>0, <1>2, <1>4
<1> QED
  BY <1>2, <1>5, <1>6, <1>8, <1>9

(* What a reader gets under a number is a block with that number. *)
LEMMA ViewType ==
  ASSUME NEW base \in Nat, NEW e \in Nat, NEW rs, NEW st, Laid(base, rs, st, e),
         NEW n \in base .. e
  PROVE  View(rs, st, n) \in Block /\ View(rs, st, n).number = n
<1>0. base \in Nat /\ Ranges(base, rs, e)
  BY DEF Laid
<1>1. CASE ~ Reserved(rs, n)
  BY <1>1 DEF View, Laid, Covered
<1>2. CASE Reserved(rs, n)
  <2>1. Times(base, rs, st, calculate_timestamp_for_reserved_block(rs, st), e)
    BY TimesExist
  <2>2. Slots(base, rs, st, calculate_slot_number_for_reserved_block(rs, st), e)
    BY SlotsExist
  <2>3. calculate_timestamp_for_reserved_block(rs, st)[n] \in Nat
    BY <2>1, TimesType
  <2>4. calculate_slot_number_for_reserved_block(rs, st)[n] \in {None} \cup Nat
    BY <2>2, SlotsType
  <2>5. The(rs, n).previous_state_root \in Roots
    <3>1. The(rs, n) \in Reservation
      BY <1>0, <1>2, TheType
    <3> QED
      BY <3>1 DEF Reservation
  <2>6. n \in Nat
    BY <1>0
  <2> QED
    BY <1>2, <2>3, <2>4, <2>5, <2>6 DEF View, ReservedView, Block, Roots
<1> QED
  BY <1>1, <1>2

-----------------------------------------------------------------------------
(* What the operations have in common: up to block m, a block that was there
   still is; a range is the same or the rest of one; and a block that has
   been built is the one a reader would have got. *)
Continues(base, rs, st, rs2, st2, m) ==
  \A n \in base .. m :
    /\ ~ Reserved(rs, n) => ~ Reserved(rs2, n) /\ st2[n] = st[n]
    /\ Reserved(rs, n) /\ Reserved(rs2, n) =>
         /\ The(rs2, n).interval = The(rs, n).interval
         /\ The(rs2, n).previous_state_root = The(rs, n).previous_state_root
         /\ The(rs2, n).previous_diff_index = The(rs, n).previous_diff_index
         /\ The(rs, n).first_number <= The(rs2, n).first_number
    /\ Reserved(rs, n) /\ ~ Reserved(rs2, n) =>
         st2[n] = ReservedView(rs, st, n)

(* A product of a sum. *)
LEMMA Distribute ==
  ASSUME NEW i \in Nat, NEW a \in Int, NEW b \in Int, NEW c \in Int, c = a + b
  PROVE  i * c = i * a + i * b
<1> QED
  OBVIOUS

(* Timestamps are counted from the start of a range or of the rest of it. *)
LEMMA TimesContinue ==
  ASSUME NEW base \in Nat, NEW e \in Nat, NEW rs, NEW st, Laid(base, rs, st, e),
         NEW e2 \in Nat, NEW rs2, NEW st2, Laid(base, rs2, st2, e2),
         NEW m \in base .. e, m <= e2, Continues(base, rs, st, rs2, st2, m)
  PROVE  \A n \in base .. m :
           calculate_timestamp_for_reserved_block(rs2, st2)[n]
             = calculate_timestamp_for_reserved_block(rs, st)[n]
<1> DEFINE t == calculate_timestamp_for_reserved_block(rs, st)
           u == calculate_timestamp_for_reserved_block(rs2, st2)
<1>0. /\ base \in Nat /\ Ranges(base, rs, e) /\ Ranges(base, rs2, e2)
      /\ m \in Nat /\ m <= e
  BY DEF Laid
<1>1. Times(base, rs, st, t, e) /\ Times(base, rs2, st2, u, e2)
  BY TimesExist
<1>2. Times(base, rs, st, t, e) /\ Times(base, rs2, st2, u, m)
  BY <1>0, <1>1 DEF Times
<1>3. \A n \in base .. e : t[n] \in Nat
  BY <1>2, TimesType
<1>4. \A n \in base .. m : Reserved(rs, n) /\ ~ Reserved(rs2, n) =>
        st2[n].timestamp = t[n]
  <2> TAKE n \in base .. m
  <2> HAVE Reserved(rs, n) /\ ~ Reserved(rs2, n)
  <2>1. st2[n] = ReservedView(rs, st, n)
    BY DEF Continues
  <2>2. ReservedView(rs, st, n).timestamp = t[n]
    BY DEF ReservedView
  <2> QED
    BY <2>1, <2>2
<1> HIDE DEF t, u
<1>5. ASSUME NEW n \in base .. m
      PROVE  t[n] = TimeAt(rs2, st2, t, n)
  <2>0. t[n] = TimeAt(rs, st, t, n)
    BY <1>0, <1>2 DEF Times
  <2>1. CASE ~ Reserved(rs, n)
    BY <2>0, <2>1 DEF Continues, TimeAt
  <2>2. CASE Reserved(rs, n) /\ ~ Reserved(rs2, n)
    BY <1>4, <2>2 DEF TimeAt
  <2>3. CASE Reserved(rs, n) /\ Reserved(rs2, n)
    <3> DEFINE r == The(rs, n)
               s == The(rs2, n)
               i == r.interval
               a == r.first_number
               b == s.first_number
    <3>1. /\ r \in rs /\ r \in Reservation /\ base < a /\ a <= n /\ n <= r.last_number
          /\ s \in Reservation /\ b <= n
      BY <1>0, <2>3, TheType
    <3>2. i \in Nat /\ a \in Nat /\ b \in Nat /\ r.last_number \in Nat
      BY <3>1, BlockStorageAssumption DEF Reservation
    <3>3. s.interval = i /\ a <= b
      BY <2>3 DEF Continues
    <3>4. t[n] = t[a - 1] + i * (n - a + 1)
      BY <2>0, <2>3 DEF TimeAt
    <3>5. TimeAt(rs2, st2, t, n) = t[b - 1] + i * (n - b + 1)
      BY <2>3, <3>3 DEF TimeAt
    <3>6. CASE a = b
      BY <3>4, <3>5, <3>6
    <3>7. CASE a # b
      <4>1. b - 1 \in base .. e /\ a <= b - 1 /\ b - 1 <= r.last_number
        BY <1>0, <3>1, <3>2, <3>3, <3>7
      <4>2. Reserved(rs, b - 1) /\ The(rs, b - 1) = r
        BY <1>0, <3>1, <4>1, TheOne
      <4>3. t[b - 1] = t[a - 1] + i * ((b - 1) - a + 1)
        BY <1>2, <4>1, <4>2 DEF Times, TimeAt
      <4>4. a - 1 \in base .. e
        BY <1>0, <3>1, <3>2
      <4>5. t[a - 1] \in Nat
        BY <1>3, <4>4
      <4> HIDE DEF r, s, i, a, b
      <4>6. i * (n - a + 1) = i * ((b - 1) - a + 1) + i * (n - b + 1)
        <5>1. /\ (b - 1) - a + 1 \in Int /\ n - b + 1 \in Int /\ n - a + 1 \in Int
              /\ n - a + 1 = ((b - 1) - a + 1) + (n - b + 1)
          BY <1>0, <3>2
        <5> QED
          BY <3>2, <5>1, Distribute
      <4>7. /\ i * ((b - 1) - a + 1) \in Int /\ i * (n - b + 1) \in Int
        BY <1>0, <3>2
      <4>8. t[b - 1] + i * (n - b + 1) = t[a - 1] + i * (n - a + 1)
        BY <4>3, <4>5, <4>6, <4>7
      <4> QED
        BY <3>4, <3>5, <4>8
    <3> QED
      BY <3>6, <3>7
  <2> QED
    BY <2>1, <2>2, <2>3
<1>6. Times(base, rs2, st2, t, m)
  BY <1>5 DEF Times
<1>7. \A n \in base .. m : u[n] = t[n]
  BY <1>0, <1>2, <1>6, TimesUnique
<1> QED
  BY <1>7 DEF t, u

(* Slot numbers too, also when the block before the range has none. *)
LEMMA SlotsContinue ==
  ASSUME NEW base \in Nat, NEW e \in Nat, NEW rs, NEW st, Laid(base, rs, st, e),
         NEW e2 \in Nat, NEW rs2, NEW st2, Laid(base, rs2, st2, e2),
         NEW m \in base .. e, m <= e2, Continues(base, rs, st, rs2, st2, m)
  PROVE  \A n \in base .. m :
           calculate_slot_number_for_reserved_block(rs2, st2)[n]
             = calculate_slot_number_for_reserved_block(rs, st)[n]
<1> DEFINE t == calculate_slot_number_for_reserved_block(rs, st)
           u == calculate_slot_number_for_reserved_block(rs2, st2)
<1>0. /\ base \in Nat /\ Ranges(base, rs, e) /\ Ranges(base, rs2, e2)
      /\ m \in Nat /\ m <= e
  BY DEF Laid
<1>1. Slots(base, rs, st, t, e) /\ Slots(base, rs2, st2, u, e2)
  BY SlotsExist
<1>2. Slots(base, rs, st, t, e) /\ Slots(base, rs2, st2, u, m)
  BY <1>0, <1>1 DEF Slots
<1>3. \A n \in base .. e : t[n] \in {None} \cup Nat
  BY <1>2, SlotsType
<1>4. \A n \in base .. m : Reserved(rs, n) /\ ~ Reserved(rs2, n) =>
        st2[n].slot_number = t[n]
  <2> TAKE n \in base .. m
  <2> HAVE Reserved(rs, n) /\ ~ Reserved(rs2, n)
  <2>1. st2[n] = ReservedView(rs, st, n)
    BY DEF Continues
  <2>2. ReservedView(rs, st, n).slot_number = t[n]
    BY DEF ReservedView
  <2> QED
    BY <2>1, <2>2
<1> HIDE DEF t, u
<1>5. ASSUME NEW n \in base .. m
      PROVE  t[n] = SlotAt(rs2, st2, t, n)
  <2>0. t[n] = SlotAt(rs, st, t, n)
    BY <1>0, <1>2 DEF Slots
  <2>1. CASE ~ Reserved(rs, n)
    BY <2>0, <2>1 DEF Continues, SlotAt
  <2>2. CASE Reserved(rs, n) /\ ~ Reserved(rs2, n)
    BY <1>4, <2>2 DEF SlotAt
  <2>3. CASE Reserved(rs, n) /\ Reserved(rs2, n) /\ ~ Amsterdam
    BY <2>0, <2>3 DEF SlotAt
  <2>4. CASE Reserved(rs, n) /\ Reserved(rs2, n) /\ Amsterdam
    <3> DEFINE r == The(rs, n)
               s == The(rs2, n)
               a == r.first_number
               b == s.first_number
    <3>1. /\ r \in rs /\ r \in Reservation /\ base < a /\ a <= n /\ n <= r.last_number
          /\ s \in Reservation /\ b <= n
      BY <1>0, <2>4, TheType
    <3>2. a \in Nat /\ b \in Nat /\ r.last_number \in Nat
      BY <3>1 DEF Reservation
    <3>3. a <= b
      BY <2>4 DEF Continues
    <3>4. t[n] = IF t[a - 1] = None THEN n - a ELSE t[a - 1] + (n - (a - 1))
      BY <2>0, <2>4 DEF SlotAt
    <3>5. SlotAt(rs2, st2, t, n) = IF t[b - 1] = None THEN n - b ELSE t[b - 1] + (n - (b - 1))
      BY <2>4 DEF SlotAt
    <3>6. CASE a = b
      BY <3>4, <3>5, <3>6
    <3>7. CASE a # b
      <4>1. b - 1 \in base .. e /\ a <= b - 1 /\ b - 1 <= r.last_number
        BY <1>0, <3>1, <3>2, <3>3, <3>7
      <4>2. Reserved(rs, b - 1) /\ The(rs, b - 1) = r
        BY <1>0, <3>1, <4>1, TheOne
      <4>3. t[b - 1] = IF t[a - 1] = None THEN (b - 1) - a ELSE t[a - 1] + ((b - 1) - (a - 1))
        BY <1>2, <2>4, <4>1, <4>2 DEF Slots, SlotAt
      <4>4. a - 1 \in base .. e
        BY <1>0, <3>1, <3>2
      <4>5. t[a - 1] \in {None} \cup Nat
        BY <1>3, <4>4
      <4> HIDE DEF r, s, a, b
      <4>6. None \notin Nat /\ n \in Nat
        BY <1>0, BlockStorageAssumption
      <4>7. CASE t[a - 1] = None
        <5>1. t[b - 1] = (b - 1) - a /\ t[n] = n - a /\ t[b - 1] \in Nat
          BY <3>2, <3>4, <4>1, <4>3, <4>7
        <5>2. SlotAt(rs2, st2, t, n) = t[b - 1] + (n - (b - 1))
          BY <3>5, <4>6, <5>1
        <5> QED
          BY <3>2, <4>6, <5>1, <5>2
      <4>8. CASE t[a - 1] # None
        <5>1. t[b - 1] = t[a - 1] + ((b - 1) - (a - 1)) /\ t[n] = t[a - 1] + (n - (a - 1))
              /\ t[a - 1] \in Nat /\ t[b - 1] \in Nat
          BY <3>2, <3>4, <4>1, <4>3, <4>5, <4>8
        <5>2. SlotAt(rs2, st2, t, n) = t[b - 1] + (n - (b - 1))
          BY <3>5, <4>6, <5>1
        <5> QED
          BY <3>2, <4>6, <5>1, <5>2
      <4> QED
        BY <4>7, <4>8
    <3> QED
      BY <3>6, <3>7
  <2> QED
    BY <2>1, <2>2, <2>3, <2>4
<1>6. Slots(base, rs2, st2, t, m)
  BY <1>5 DEF Slots
<1>7. \A n \in base .. m : u[n] = t[n]
  BY <1>0, <1>2, <1>6, SlotsUnique
<1> QED
  BY <1>7 DEF t, u

(* So a reader gets the same block, and finds the same diffs or none. *)
LEMMA ViewContinues ==
  ASSUME NEW base \in Nat, NEW e \in Nat, NEW rs, NEW st, Laid(base, rs, st, e),
         NEW e2 \in Nat, NEW rs2, NEW st2, Laid(base, rs2, st2, e2),
         NEW m \in base .. e, m <= e2, Continues(base, rs, st, rs2, st2, m), NEW n \in base .. m
  PROVE  View(rs2, st2, n) = View(rs, st, n)
<1>1. CASE ~ Reserved(rs, n)
  BY <1>1 DEF Continues, View
<1>2. CASE Reserved(rs, n) /\ ~ Reserved(rs2, n)
  BY <1>2 DEF Continues, View
<1>3. CASE Reserved(rs, n) /\ Reserved(rs2, n)
  <2>1. calculate_timestamp_for_reserved_block(rs2, st2)[n]
          = calculate_timestamp_for_reserved_block(rs, st)[n]
    BY TimesContinue
  <2>2. calculate_slot_number_for_reserved_block(rs2, st2)[n]
          = calculate_slot_number_for_reserved_block(rs, st)[n]
    BY SlotsContinue
  <2>3. The(rs2, n).previous_state_root = The(rs, n).previous_state_root
    BY <1>3 DEF Continues
  <2> QED
    BY <1>3, <2>1, <2>2, <2>3 DEF View, ReservedView
<1> QED
  BY <1>1, <1>2, <1>3

(* The index of the diffs of a block stays, or is lost with its reservation. *)
LEMMA IndexContinues ==
  ASSUME NEW base, NEW rs, NEW st, NEW rs2, NEW st2, NEW m,
         Continues(base, rs, st, rs2, st2, m), NEW n \in base .. m, NEW index
  PROVE  Index(rs2, index, n) \in {Index(rs, index, n), None}
<1> QED
  BY DEF Index, Continues

-----------------------------------------------------------------------------
(* Building a block. *)

(* A range that lies in another one and carries the same. *)
PartOf(s, r) ==
  /\ r.first_number <= s.first_number /\ s.last_number <= r.last_number
  /\ s.interval = r.interval
  /\ s.previous_state_root = r.previous_state_root
  /\ s.previous_diff_index = r.previous_diff_index

(* A number in a part of a range is in that range. *)
LEMMA PartsContinue ==
  ASSUME NEW base \in Nat, NEW e \in Nat, NEW rs, Ranges(base, rs, e), NEW e2 \in Nat, NEW rs2, Ranges(base, rs2, e2),
         NEW m \in Int, \A s \in rs2 : s.first_number <= m => \E r \in rs : PartOf(s, r),
         NEW n \in Int, n <= m, Reserved(rs2, n)
  PROVE  /\ Reserved(rs, n)
         /\ The(rs2, n).interval = The(rs, n).interval
         /\ The(rs2, n).previous_state_root = The(rs, n).previous_state_root
         /\ The(rs2, n).previous_diff_index = The(rs, n).previous_diff_index
         /\ The(rs, n).first_number <= The(rs2, n).first_number
<1> DEFINE s == The(rs2, n)
<1>1. s \in rs2 /\ s \in Reservation /\ s.first_number <= n /\ n <= s.last_number
  BY TheType
<1>2. s.first_number \in Nat /\ s.last_number \in Nat
  BY <1>1 DEF Reservation
<1>3. PICK r \in rs : PartOf(s, r)
  BY <1>1, <1>2
<1>4. r.first_number \in Nat /\ r.last_number \in Nat
  BY DEF Ranges, Reservation
<1>5. r.first_number <= n /\ n <= r.last_number
  BY <1>1, <1>2, <1>3, <1>4 DEF PartOf
<1>6. Reserved(rs, n) /\ The(rs, n) = r
  BY <1>5, TheOne
<1> QED
  BY <1>3, <1>6 DEF PartOf

(* Splitting the range of a block takes the block out of it, and nothing else. *)
LEMMA SplitRanges ==
  ASSUME NEW base \in Nat, NEW e \in Nat, NEW rs, Ranges(base, rs, e),
         NEW n \in Nat, Reserved(rs, n)
  PROVE  /\ Ranges(base, Split(rs, n), e)
         /\ \A m \in Int : Reserved(Split(rs, n), m) <=> Reserved(rs, m) /\ m # n
         /\ \A s \in Split(rs, n) : \E r \in rs : PartOf(s, r)
<1> DEFINE r == The(rs, n)
           left == [r EXCEPT !.last_number = n - 1]
           right == [r EXCEPT !.first_number = n + 1]
           rs2 == Split(rs, n)
<1>1. /\ r \in rs /\ r \in Reservation /\ r.first_number <= n /\ n <= r.last_number
      /\ base < r.first_number /\ r.last_number <= e
  BY TheType
<1>2. r.first_number \in Nat /\ r.last_number \in Nat
  BY <1>1 DEF Reservation
<1>3. /\ left.first_number = r.first_number /\ left.last_number = n - 1
      /\ left.interval = r.interval /\ left.previous_state_root = r.previous_state_root
      /\ left.previous_diff_index = r.previous_diff_index
      /\ (n # r.first_number => left \in Reservation)
  BY <1>1, <1>2 DEF Reservation
<1>4. /\ right.first_number = n + 1 /\ right.last_number = r.last_number
      /\ right.interval = r.interval /\ right.previous_state_root = r.previous_state_root
      /\ right.previous_diff_index = r.previous_diff_index
      /\ right \in Reservation
  BY <1>1, <1>2 DEF Reservation
<1>5. \A s : s \in rs2 <=> \/ s \in rs /\ s # r
                           \/ s = left /\ n # r.first_number
                           \/ s = right /\ n # r.last_number
  BY DEF Split
<1>6. \A s \in rs : s.first_number \in Nat /\ s.last_number \in Nat /\ s \in Reservation
  BY DEF Ranges, Reservation
<1>7. \A s, q \in rs : s.first_number <= q.last_number /\ q.first_number <= s.last_number => s = q
  BY DEF Ranges
<1> HIDE DEF r, left, right, rs2
<1>8. \A s \in rs2 : \E q \in rs : PartOf(s, q)
  <2> TAKE s \in rs2
  <2>1. CASE s \in rs /\ s # r
    BY <1>6, <2>1 DEF PartOf
  <2>2. CASE s = left /\ n # r.first_number
    BY <1>1, <1>2, <1>3, <2>2 DEF PartOf
  <2>3. CASE s = right /\ n # r.last_number
    BY <1>1, <1>2, <1>4, <2>3 DEF PartOf
  <2> QED
    BY <1>5, <2>1, <2>2, <2>3
<1>9. \A s \in rs2 : s \in Reservation /\ s.first_number \in Nat /\ s.last_number \in Nat
  <2>1. \A s \in rs2 : s \in Reservation
    BY <1>3, <1>4, <1>5, <1>6
  <2> QED
    BY <2>1 DEF Reservation
<1>10. Ranges(base, rs2, e)
  <2>1. rs2 \subseteq Reservation
    BY <1>9
  <2>2. ASSUME NEW s \in rs2
        PROVE  base < s.first_number /\ s.first_number <= s.last_number /\ s.last_number <= e
    <3>1. CASE s \in rs /\ s # r
      BY <3>1 DEF Ranges
    <3>2. CASE s = left /\ n # r.first_number
      BY <1>1, <1>2, <1>3, <3>2
    <3>3. CASE s = right /\ n # r.last_number
      <4>1. s.first_number = n + 1 /\ s.last_number = r.last_number
        BY <1>4, <3>3
      <4>2. base < n + 1
        BY <1>1, <1>2
      <4> QED
        BY <1>1, <1>2, <3>3, <4>1, <4>2
    <3> QED
      BY <1>5, <3>1, <3>2, <3>3
  <2>3. ASSUME NEW s \in rs2, NEW q \in rs2,
               s.first_number <= q.last_number, q.first_number <= s.last_number
        PROVE  s = q
    <3>1. \A x \in rs : x # r => x.last_number < r.first_number \/ r.last_number < x.first_number
      BY <1>1, <1>2, <1>6, <1>7
    <3>2. CASE s \in rs /\ s # r /\ q \in rs /\ q # r
      BY <1>7, <2>3, <3>2
    <3>3. CASE (s = left \/ s = right) /\ q \in rs /\ q # r
      BY <1>1, <1>2, <1>3, <1>4, <1>6, <2>3, <3>1, <3>3
    <3>4. CASE (q = left \/ q = right) /\ s \in rs /\ s # r
      BY <1>1, <1>2, <1>3, <1>4, <1>6, <2>3, <3>1, <3>4
    <3>5. CASE (q = left \/ q = right) /\ (s = left \/ s = right)
      BY <1>1, <1>2, <1>3, <1>4, <2>3, <3>5
    <3> QED
      BY <1>5, <3>2, <3>3, <3>4, <3>5
  <2> QED
    BY <2>1, <2>2, <2>3 DEF Ranges
<1>11. ASSUME NEW m \in Int
       PROVE  Reserved(rs2, m) <=> Reserved(rs, m) /\ m # n
  <2>1. ASSUME Reserved(rs2, m)
        PROVE  Reserved(rs, m) /\ m # n
    <3>1. PICK s \in rs2 : s.first_number <= m /\ m <= s.last_number
      BY <2>1 DEF Reserved, find_reservation
    <3>2. CASE s \in rs /\ s # r
      <4>1. Reserved(rs, m)
        BY <3>1, <3>2 DEF Reserved, find_reservation
      <4>2. m # n
        BY <1>1, <1>2, <1>6, <1>7, <3>1, <3>2
      <4> QED
        BY <4>1, <4>2
    <3>3. CASE s = left \/ s = right
      <4>1. r.first_number <= m /\ m <= r.last_number /\ m # n
        BY <1>1, <1>2, <1>3, <1>4, <3>1, <3>3
      <4> QED
        BY <1>1, <4>1 DEF Reserved, find_reservation
    <3> QED
      BY <1>5, <3>2, <3>3
  <2>2. ASSUME Reserved(rs, m), m # n
        PROVE  Reserved(rs2, m)
    <3>1. PICK s \in rs : s.first_number <= m /\ m <= s.last_number
      BY <2>2 DEF Reserved, find_reservation
    <3>2. CASE s # r
      BY <1>5, <3>1, <3>2 DEF Reserved, find_reservation
    <3>3. CASE s = r /\ m < n
      <4>1. left \in rs2 /\ left.first_number <= m /\ m <= left.last_number
        BY <1>2, <1>3, <1>5, <3>1, <3>3
      <4> QED
        BY <4>1 DEF Reserved, find_reservation
    <3>4. CASE s = r /\ n < m
      <4>1. right \in rs2 /\ right.first_number <= m /\ m <= right.last_number
        BY <1>2, <1>4, <1>5, <3>1, <3>4
      <4> QED
        BY <4>1 DEF Reserved, find_reservation
    <3> QED
      BY <2>2, <3>2, <3>3, <3>4
  <2> QED
    BY <2>1, <2>2
<1> QED
  BY <1>8, <1>10, <1>11 DEF rs2

(* try_fulfilling_reservation: afterwards the block is stored, as the reader
   would have got it, and nothing else has changed. *)
LEMMA FulfilledKeeps ==
  ASSUME origin \in Origins, NEW e \in Nat, Laid(Base, reservations, Stored(number_to_block), e),
         NEW n \in Base .. e
  PROVE  /\ Laid(Base, Fulfilled(n).reservations, Stored(Fulfilled(n).blocks), e)
         /\ Continues(Base, reservations, Stored(number_to_block),
                      Fulfilled(n).reservations, Stored(Fulfilled(n).blocks), e)
         /\ n \in DOMAIN Stored(Fulfilled(n).blocks)
         /\ Stored(Fulfilled(n).blocks)[n] = BlockAt(n)
         /\ BlockAt(n) = View(reservations, Stored(number_to_block), n)
<1> DEFINE rs == reservations
           st == Stored(number_to_block)
<1>0. /\ Base \in Nat /\ Ranges(Base, rs, e) /\ Covered(Base, rs, st, e) /\ Base <= e
      /\ n \in Nat /\ Base <= n /\ n <= e
  BY OriginType DEF Laid
<1>1. BlockAt(n) = View(rs, st, n)
  BY DEF BlockAt, View, ReservedBlock, ReservedView
<1>2. CASE ~ Reserved(rs, n)
  <2>1. Fulfilled(n).reservations = rs /\ Fulfilled(n).blocks = number_to_block
    BY <1>2 DEF Fulfilled
  <2>2. Continues(Base, rs, st, rs, st, e)
    <3>1. \A m \in Base .. e : Reserved(rs, m) => The(rs, m).first_number \in Nat
      BY <1>0, TheType DEF Reservation
    <3> QED
      BY <3>1 DEF Continues
  <2>3. n \in DOMAIN st /\ BlockAt(n) = st[n]
    BY <1>0, <1>2 DEF Covered, BlockAt
  <2> QED
    BY <1>1, <2>1, <2>2, <2>3
<1>3. CASE Reserved(rs, n)
  <2> DEFINE rs2 == Split(rs, n)
             st2 == Stored(Put(number_to_block, n, ReservedBlock(n)))
  <2>1. Fulfilled(n).reservations = rs2 /\ Stored(Fulfilled(n).blocks) = st2
    BY <1>3 DEF Fulfilled
  <2>2. BlockAt(n) = ReservedBlock(n) /\ ReservedBlock(n) = ReservedView(rs, st, n)
    BY <1>3 DEF BlockAt, ReservedBlock, ReservedView
  <2>3. n # Base
    BY <1>0, <1>3, TheType, OriginType DEF Reservation
  <2>4. /\ DOMAIN st2 = DOMAIN st \cup {n}
        /\ st2[n] = ReservedBlock(n)
        /\ \A m \in DOMAIN st : m # n => st2[m] = st[m]
    <3>1. WithBlock(st2, st, n, ReservedBlock(n))
      BY <2>3, StoredPut
    <3> QED
      BY <3>1 DEF WithBlock
  <2>5. /\ Ranges(Base, rs2, e)
        /\ \A m \in Int : Reserved(rs2, m) <=> Reserved(rs, m) /\ m # n
        /\ \A s \in rs2 : \E r \in rs : PartOf(s, r)
    BY <1>0, <1>3, SplitRanges
  <2>6. ReservedBlock(n) \in Block /\ ReservedBlock(n).number = n
    <3>1. View(rs, st, n) \in Block /\ View(rs, st, n).number = n
      BY <1>0, ViewType
    <3> QED
      BY <1>1, <2>2, <3>1
  <2> HIDE DEF rs2, st2
  <2>7. Covered(Base, rs2, st2, e)
    <3>1. DOMAIN st2 \subseteq Base .. e
      BY <1>0, <2>4 DEF Covered
    <3>2. \A m \in Base .. e : Reserved(rs2, m) <=> m \notin DOMAIN st2
      BY <1>0, <2>4, <2>5 DEF Covered
    <3>3. \A m \in DOMAIN st2 :
            st2[m] \in Block /\ st2[m].number = m
      BY <1>0, <2>4, <2>6 DEF Covered
    <3> QED
      BY <3>1, <3>2, <3>3 DEF Covered
  <2>8. Continues(Base, rs, st, rs2, st2, e)
    <3> SUFFICES ASSUME NEW m \in Base .. e
                 PROVE  /\ ~ Reserved(rs, m) => ~ Reserved(rs2, m) /\ st2[m] = st[m]
                        /\ Reserved(rs, m) /\ Reserved(rs2, m) =>
                             /\ The(rs2, m).interval = The(rs, m).interval
                             /\ The(rs2, m).previous_state_root = The(rs, m).previous_state_root
                             /\ The(rs2, m).previous_diff_index = The(rs, m).previous_diff_index
                             /\ The(rs, m).first_number <= The(rs2, m).first_number
                        /\ Reserved(rs, m) /\ ~ Reserved(rs2, m) =>
                             st2[m] = ReservedView(rs, st, m)
      BY DEF Continues
    <3>1. m \in Int /\ m <= e
      BY <1>0
    <3>2. ASSUME ~ Reserved(rs, m)
          PROVE  ~ Reserved(rs2, m) /\ st2[m] = st[m]
      <4>1. m \in DOMAIN st /\ m # n
        BY <1>0, <1>3, <3>2 DEF Covered
      <4> QED
        BY <2>4, <2>5, <3>1, <3>2, <4>1
    <3>3. ASSUME Reserved(rs2, m)
          PROVE  /\ The(rs2, m).interval = The(rs, m).interval
                 /\ The(rs2, m).previous_state_root = The(rs, m).previous_state_root
                 /\ The(rs2, m).previous_diff_index = The(rs, m).previous_diff_index
                 /\ The(rs, m).first_number <= The(rs2, m).first_number
      BY <1>0, <2>5, <3>1, <3>3, PartsContinue
    <3>4. ASSUME Reserved(rs, m), ~ Reserved(rs2, m)
          PROVE  st2[m] = ReservedView(rs, st, m)
      BY <2>2, <2>4, <2>5, <3>1, <3>4
    <3> QED
      BY <3>2, <3>3, <3>4
  <2>9. Laid(Base, rs2, st2, e)
    BY <1>0, <2>5, <2>7 DEF Laid
  <2> QED
    BY <1>1, <2>1, <2>2, <2>4, <2>8, <2>9
<1> QED
  BY <1>2, <1>3

-----------------------------------------------------------------------------
(* Diffs. *)

(* The prefixes of a sequence with one more element. *)
LEMMA PrefixOfAppend ==
  ASSUME NEW S, NEW d \in Seq(S), NEW x \in S
  PROVE  /\ \A i \in 1 .. Len(d) : SubSeq(Append(d, x), 1, i) = SubSeq(d, 1, i)
         /\ SubSeq(Append(d, x), 1, Len(d) + 1) = Append(d, x)
         /\ SubSeq(d, 1, Len(d)) = d
<1> DEFINE a == Append(d, x)
<1>1. a \in Seq(S) /\ Len(a) = Len(d) + 1 /\ Len(d) \in Nat
  OBVIOUS
<1>2. ASSUME NEW i \in 1 .. Len(d)
      PROVE  SubSeq(a, 1, i) = SubSeq(d, 1, i)
  <2>1. /\ Len(SubSeq(a, 1, i)) = i /\ Len(SubSeq(d, 1, i)) = i
        /\ SubSeq(a, 1, i) \in Seq(S) /\ SubSeq(d, 1, i) \in Seq(S)
    BY <1>1
  <2>2. \A j \in 1 .. i : SubSeq(a, 1, i)[j] = SubSeq(d, 1, i)[j]
    BY <1>1
  <2> QED
    BY <2>1, <2>2
<1>3. SubSeq(a, 1, Len(d) + 1) = a
  BY <1>1
<1>4. SubSeq(d, 1, Len(d)) = d
  OBVIOUS
<1> QED
  BY <1>2, <1>3, <1>4

(* The prefixes of a prefix. *)
LEMMA PrefixOfPrefix ==
  ASSUME NEW S, NEW d \in Seq(S), NEW k \in 1 .. Len(d)
  PROVE  /\ SubSeq(d, 1, k) \in Seq(S) /\ Len(SubSeq(d, 1, k)) = k
         /\ \A i \in 1 .. k : SubSeq(SubSeq(d, 1, k), 1, i) = SubSeq(d, 1, i)
<1> DEFINE a == SubSeq(d, 1, k)
<1>1. a \in Seq(S) /\ Len(a) = k /\ k \in Nat /\ \A j \in 1 .. k : a[j] = d[j]
  OBVIOUS
<1>2. ASSUME NEW i \in 1 .. k
      PROVE  SubSeq(a, 1, i) = SubSeq(d, 1, i)
  <2>1. /\ Len(SubSeq(a, 1, i)) = i /\ Len(SubSeq(d, 1, i)) = i
        /\ SubSeq(a, 1, i) \in Seq(S) /\ SubSeq(d, 1, i) \in Seq(S)
    BY <1>1
  <2>2. \A j \in 1 .. i : SubSeq(a, 1, i)[j] = SubSeq(d, 1, i)[j]
    BY <1>1
  <2> QED
    BY <2>1, <2>2
<1> QED
  BY <1>1, <1>2

(* The indexes there are, after a step that changes nothing up to block k. *)
LEMMA IndexedContinues ==
  ASSUME NEW base \in Nat, NEW e \in Nat, NEW rs, NEW st, Laid(base, rs, st, e),
         NEW rs2, NEW st2, Laid(base, rs2, st2, e), Continues(base, rs, st, rs2, st2, e),
         NEW last \in {e, e + 1}, NEW index, NEW diffs,
         Indexed(base, rs, st, index, diffs, last, e)
  PROVE  Indexed(base, rs2, st2, index, diffs, last, e)
<1>0. base <= e /\ Ranges(base, rs, e) /\ Ranges(base, rs2, e) /\ last \in Nat
  BY DEF Laid
<1>1. ~ Reserved(rs, e + 1) /\ ~ Reserved(rs2, e + 1)
  BY <1>0 DEF Reserved, find_reservation, Ranges, Reservation
<1>2. \A n \in base .. last : n \in base .. e \/ n = e + 1
  BY <1>0
<1>3. \A n \in base .. last : Index(rs2, index, n) \in {Index(rs, index, n), None}
  <2> TAKE n \in base .. last
  <2>1. CASE n \in base .. e
    BY <2>1, IndexContinues
  <2>2. CASE n = e + 1
    BY <1>1, <2>2 DEF Index
  <2> QED
    BY <1>2, <2>1, <2>2
<1>4. \A n \in base .. e : View(rs2, st2, n) = View(rs, st, n)
  <2>1. e \in base .. e /\ e <= e
    BY <1>0
  <2> QED
    BY <2>1, ViewContinues
<1>5. DOMAIN index \subseteq base .. last /\ diffs \in Roots
  BY DEF Indexed
<1>6. \A n \in DOMAIN index : ~ Reserved(rs2, n)
  <2> TAKE n \in DOMAIN index
  <2>1. CASE n \in base .. e
    BY <2>1 DEF Indexed, Continues
  <2>2. CASE n = e + 1
    BY <1>1, <2>2
  <2> QED
    BY <1>2, <1>5, <2>1, <2>2
<1>7. \A n \in base .. last : Index(rs2, index, n) # None => Index(rs2, index, n) \in 1 .. Len(diffs)
  BY <1>3 DEF Indexed
<1>8. \A m, n \in base .. last :
        m <= n /\ Index(rs2, index, m) # None /\ Index(rs2, index, n) # None =>
          Index(rs2, index, m) <= Index(rs2, index, n)
  BY <1>3 DEF Indexed
<1>9. \A n \in base .. e : Index(rs2, index, n) # None =>
        SubSeq(diffs, 1, Index(rs2, index, n)) = View(rs2, st2, n).state_root
  <2> TAKE n \in base .. e
  <2>1. n \in base .. last
    BY <1>0
  <2> QED
    BY <1>3, <1>4, <2>1 DEF Indexed
<1>10. e = last => View(rs2, st2, e).state_root = diffs
  <2>1. e \in base .. e
    BY <1>0
  <2> QED
    BY <1>4, <2>1 DEF Indexed
<1> QED
  BY <1>5, <1>6, <1>7, <1>8, <1>9, <1>10 DEF Indexed

(* A diff is recorded for the number behind the last block; the block is there
   (f = e + 1) or was refused (f = e). *)
LEMMA IndexedAdvance ==
  ASSUME NEW base \in Nat, NEW e \in Nat, NEW rs, NEW st, Laid(base, rs, st, e),
         NEW index, NEW diffs, Indexed(base, rs, st, index, diffs, e, e),
         NEW x \in Nat \X (Diffs \cup {genesis_diff}),
         NEW f \in {e, e + 1}, NEW st2,
         \A n \in base .. e : View(rs, st2, n).state_root = View(rs, st, n).state_root,
         f = e + 1 => View(rs, st2, e + 1).state_root = Append(diffs, x)
  PROVE  Indexed(base, rs, st2, Put(index, e + 1, Len(diffs) + 1), Append(diffs, x), e + 1, f)
<1> DEFINE index2 == Put(index, e + 1, Len(diffs) + 1)
           diffs2 == Append(diffs, x)
<1>0. base <= e /\ Ranges(base, rs, e)
  BY DEF Laid
<1>1. /\ diffs \in Roots /\ DOMAIN index \subseteq base .. e
      /\ \A n \in DOMAIN index : ~ Reserved(rs, n) /\ index[n] # None
      /\ \A n \in base .. e : Index(rs, index, n) # None => Index(rs, index, n) \in 1 .. Len(diffs)
  BY DEF Indexed
<1>2. ~ Reserved(rs, e + 1)
  BY <1>0 DEF Reserved, find_reservation, Ranges, Reservation
<1>3. /\ DOMAIN index2 = DOMAIN index \cup {e + 1} /\ index2[e + 1] = Len(diffs) + 1
      /\ \A n \in DOMAIN index : n # e + 1 => index2[n] = index[n]
  BY DEF Put
<1>4. diffs2 \in Roots /\ Len(diffs2) = Len(diffs) + 1 /\ Len(diffs) \in Nat
  BY <1>1 DEF Roots
<1>5. /\ \A i \in 1 .. Len(diffs) : SubSeq(diffs2, 1, i) = SubSeq(diffs, 1, i)
      /\ SubSeq(diffs2, 1, Len(diffs) + 1) = diffs2
  BY <1>1, PrefixOfAppend DEF Roots
<1> HIDE DEF index2, diffs2
<1>6. \A n \in base .. e : Index(rs, index2, n) = Index(rs, index, n)
  <2> TAKE n \in base .. e
  <2>1. n # e + 1
    OBVIOUS
  <2> QED
    BY <1>3, <2>1 DEF Index
<1>7. Index(rs, index2, e + 1) = Len(diffs) + 1
  BY <1>3 DEF Index
<1>8. \A n \in base .. e + 1 : n \in base .. e \/ n = e + 1
  OBVIOUS
<1>9. DOMAIN index2 \subseteq base .. e + 1
  BY <1>0, <1>1, <1>3
<1>10. \A n \in DOMAIN index2 : ~ Reserved(rs, n) /\ index2[n] # None
  <2>1. Len(diffs) + 1 # None
    BY <1>4, BlockStorageAssumption
  <2> QED
    BY <1>1, <1>2, <1>3, <2>1
<1>11. \A n \in base .. e + 1 : Index(rs, index2, n) # None => Index(rs, index2, n) \in 1 .. Len(diffs2)
  <2> TAKE n \in base .. e + 1
  <2>1. CASE n \in base .. e
    BY <1>1, <1>4, <1>6, <2>1
  <2>2. CASE n = e + 1
    BY <1>4, <1>7, <2>2
  <2> QED
    BY <1>8, <2>1, <2>2
<1>12. \A m, n \in base .. e + 1 :
         m <= n /\ Index(rs, index2, m) # None /\ Index(rs, index2, n) # None =>
           Index(rs, index2, m) <= Index(rs, index2, n)
  <2> TAKE m, n \in base .. e + 1
  <2> HAVE m <= n /\ Index(rs, index2, m) # None /\ Index(rs, index2, n) # None
  <2>1. CASE n \in base .. e
    <3>1. m \in base .. e
      BY <2>1
    <3> QED
      BY <1>6, <2>1, <3>1 DEF Indexed
  <2>2. CASE n = e + 1
    BY <1>4, <1>7, <1>11, <2>2
  <2> QED
    BY <1>8, <2>1, <2>2
<1>13. \A n \in base .. f : Index(rs, index2, n) # None =>
         SubSeq(diffs2, 1, Index(rs, index2, n)) = View(rs, st2, n).state_root
  <2> TAKE n \in base .. f
  <2> HAVE Index(rs, index2, n) # None
  <2>1. CASE n \in base .. e
    <3>1. Index(rs, index, n) \in 1 .. Len(diffs) /\ Index(rs, index2, n) = Index(rs, index, n)
      BY <1>1, <1>6, <2>1
    <3>2. SubSeq(diffs, 1, Index(rs, index, n)) = View(rs, st, n).state_root
      BY <1>6, <2>1 DEF Indexed
    <3> QED
      BY <1>5, <2>1, <3>1, <3>2
  <2>2. CASE n = e + 1 /\ f = e + 1
    BY <1>5, <1>7, <2>2 DEF diffs2
  <2>3. n \in base .. e \/ (n = e + 1 /\ f = e + 1)
    OBVIOUS
  <2> QED
    BY <2>1, <2>2, <2>3
<1>14. f = e + 1 => View(rs, st2, f).state_root = diffs2
  BY DEF diffs2
<1> QED
  BY <1>4, <1>9, <1>10, <1>11, <1>12, <1>13, <1>14 DEF Indexed, index2, diffs2

(* A range that starts behind the last block. *)
WithRange(base, rs, st, e, rs2, r) ==
  /\ Laid(base, rs2, st, r.last_number)
  /\ Continues(base, rs, st, rs2, st, e)
  /\ \A n \in e + 1 .. r.last_number : Reserved(rs2, n) /\ The(rs2, n) = r
  /\ \A n \in base .. e : Reserved(rs2, n) = Reserved(rs, n) /\ The(rs2, n) = The(rs, n)

(* Reserving numbers behind the last block covers them, and changes no block. *)
LEMMA LaidReserve ==
  ASSUME NEW base \in Nat, NEW e \in Nat, NEW rs, NEW st, Laid(base, rs, st, e),
         NEW r \in Reservation, r.first_number = e + 1, e + 1 <= r.last_number
  PROVE  WithRange(base, rs, st, e, rs \cup {r}, r)
<1> DEFINE rs2 == rs \cup {r}
           last == r.last_number
<1>0. base <= e /\ Ranges(base, rs, e) /\ Covered(base, rs, st, e) /\ last \in Nat
  BY DEF Laid, Reservation
<1>1. \A s \in rs : s \in Reservation /\ s.first_number \in Nat /\ s.last_number \in Nat
                    /\ base < s.first_number /\ s.first_number <= s.last_number /\ s.last_number <= e
  BY <1>0 DEF Ranges, Reservation
<1>2. Ranges(base, rs2, last)
  <2>1. rs2 \subseteq Reservation
    BY <1>1
  <2>2. \A s \in rs2 : base < s.first_number /\ s.first_number <= s.last_number /\ s.last_number <= last
    BY <1>0, <1>1
  <2>3. \A s, q \in rs2 : s.first_number <= q.last_number /\ q.first_number <= s.last_number => s = q
    <3> TAKE s, q \in rs2
    <3>1. CASE s \in rs /\ q \in rs
      BY <1>0, <3>1 DEF Ranges
    <3>2. CASE s \in rs /\ q = r
      BY <1>1, <3>2
    <3>3. CASE s = r /\ q \in rs
      BY <1>1, <3>3
    <3> QED
      BY <3>1, <3>2, <3>3
  <2> QED
    BY <2>1, <2>2, <2>3 DEF Ranges
<1>3. \A n \in base .. e : find_reservation(rs2, n) = find_reservation(rs, n)
  BY <1>0 DEF find_reservation
<1>4. \A n \in base .. e : Reserved(rs2, n) = Reserved(rs, n) /\ The(rs2, n) = The(rs, n)
  BY <1>3 DEF Reserved, The
<1>5. \A n \in e + 1 .. last : Reserved(rs2, n) /\ The(rs2, n) = r
  <2> TAKE n \in e + 1 .. last
  <2>1. n \in Int /\ r \in rs2 /\ r.first_number <= n /\ n <= r.last_number
    BY <1>0
  <2> HIDE DEF rs2, last
  <2> QED
    BY <1>2, <2>1, TheOne
<1>6. Covered(base, rs2, st, last)
  <2>1. DOMAIN st \subseteq base .. last
    BY <1>0 DEF Covered
  <2>2. \A n \in base .. last : Reserved(rs2, n) <=> n \notin DOMAIN st
    <3> TAKE n \in base .. last
    <3>1. CASE n \in base .. e
      BY <1>0, <1>4, <3>1 DEF Covered
    <3>2. CASE n \in e + 1 .. last
      <4>1. n \notin base .. e
        BY <3>2
      <4> QED
        BY <1>0, <1>5, <3>2, <4>1 DEF Covered
    <3> QED
      BY <1>0, <3>1, <3>2
  <2> QED
    BY <1>0, <2>1, <2>2 DEF Covered
<1>7. Laid(base, rs2, st, last)
  BY <1>0, <1>2, <1>6 DEF Laid
<1>8. Continues(base, rs, st, rs2, st, e)
  <2>1. \A n \in base .. e : Reserved(rs, n) => The(rs, n).first_number \in Nat
    BY <1>0, TheType DEF Reservation
  <2> HIDE DEF rs2
  <2> QED
    BY <1>4, <2>1 DEF Continues
<1> QED
  BY <1>4, <1>5, <1>7, <1>8 DEF WithRange

(* The reserved blocks share the diffs of the last block. *)
LEMMA IndexedReserve ==
  ASSUME NEW base \in Nat, NEW e \in Nat, NEW rs, NEW st, Laid(base, rs, st, e),
         NEW index, NEW diffs, Indexed(base, rs, st, index, diffs, e, e), diffs # <<>>,
         NEW r \in Reservation, r.first_number = e + 1, e + 1 <= r.last_number,
         r.previous_state_root = diffs, r.previous_diff_index = Len(diffs)
  PROVE  Indexed(base, rs \cup {r}, st, index, diffs, r.last_number, r.last_number)
<1> DEFINE rs2 == rs \cup {r}
           last == r.last_number
<1>0. base <= e /\ last \in Nat
  BY DEF Laid, Reservation
<1>1. /\ Laid(base, rs2, st, last) /\ Continues(base, rs, st, rs2, st, e)
      /\ \A n \in e + 1 .. last : Reserved(rs2, n) /\ The(rs2, n) = r
      /\ \A n \in base .. e : Reserved(rs2, n) = Reserved(rs, n) /\ The(rs2, n) = The(rs, n)
  <2>1. WithRange(base, rs, st, e, rs2, r)
    BY LaidReserve
  <2> QED
    BY <2>1 DEF WithRange
<1>2. /\ diffs \in Roots /\ DOMAIN index \subseteq base .. e
      /\ \A n \in DOMAIN index : ~ Reserved(rs, n)
      /\ \A n \in base .. e : Index(rs, index, n) # None => Index(rs, index, n) \in 1 .. Len(diffs)
  BY DEF Indexed
<1>3. Len(diffs) \in Nat /\ Len(diffs) >= 1 /\ SubSeq(diffs, 1, Len(diffs)) = diffs
  BY <1>2, PrefixOfAppend DEF Roots
<1> HIDE DEF rs2, last
<1>4. \A n \in base .. last : n \in base .. e \/ n \in e + 1 .. last
  BY <1>0
<1>5. \A n \in base .. e : Index(rs2, index, n) = Index(rs, index, n)
  BY <1>1 DEF Index
<1>6. \A n \in e + 1 .. last : Index(rs2, index, n) = Len(diffs)
  <2> TAKE n \in e + 1 .. last
  <2>1. n \notin DOMAIN index
    <3>1. n \notin base .. e
      OBVIOUS
    <3> QED
      BY <1>2, <3>1
  <2> QED
    BY <1>1, <2>1 DEF Index
<1>7. \A n \in base .. e : View(rs2, st, n) = View(rs, st, n)
  <2>1. e \in base .. e /\ e <= last
    BY <1>0 DEF last
  <2> QED
    BY <1>0, <1>1, <2>1, ViewContinues
<1>8. \A n \in e + 1 .. last : View(rs2, st, n).state_root = diffs
  BY <1>1 DEF View, ReservedView
<1>9. DOMAIN index \subseteq base .. last
  BY <1>0, <1>2 DEF last
<1>10. \A n \in DOMAIN index : ~ Reserved(rs2, n)
  BY <1>1, <1>2
<1>11. \A n \in base .. last : Index(rs2, index, n) # None => Index(rs2, index, n) \in 1 .. Len(diffs)
  BY <1>2, <1>3, <1>4, <1>5, <1>6
<1>12. \A m, n \in base .. last :
         m <= n /\ Index(rs2, index, m) # None /\ Index(rs2, index, n) # None =>
           Index(rs2, index, m) <= Index(rs2, index, n)
  <2> TAKE m, n \in base .. last
  <2> HAVE m <= n /\ Index(rs2, index, m) # None /\ Index(rs2, index, n) # None
  <2>1. CASE n \in base .. e
    <3>1. m \in base .. e
      BY <2>1
    <3> QED
      BY <1>5, <2>1, <3>1 DEF Indexed
  <2>2. CASE n \in e + 1 .. last
    BY <1>3, <1>6, <1>11, <2>2
  <2> QED
    BY <1>4, <2>1, <2>2
<1>13. \A n \in base .. last : Index(rs2, index, n) # None =>
         SubSeq(diffs, 1, Index(rs2, index, n)) = View(rs2, st, n).state_root
  <2> TAKE n \in base .. last
  <2> HAVE Index(rs2, index, n) # None
  <2>1. CASE n \in base .. e
    BY <1>5, <1>7, <2>1 DEF Indexed
  <2>2. CASE n \in e + 1 .. last
    BY <1>3, <1>6, <1>8, <2>2
  <2> QED
    BY <1>4, <2>1, <2>2
<1>14. View(rs2, st, last).state_root = diffs
  <2>1. last \in e + 1 .. last
    BY <1>0 DEF last
  <2> QED
    BY <1>8, <2>1
<1> QED
  BY <1>2, <1>9, <1>10, <1>11, <1>12, <1>13, <1>14 DEF Indexed, rs2, last

-----------------------------------------------------------------------------
(* Cutting off the blocks after block n. *)

CutRange(r, n) == [r EXCEPT !.last_number = IF @ <= n THEN @ ELSE n]
Cut(rs, n) == {CutRange(r, n) : r \in {s \in rs : s.first_number <= n}}
Lesser(m, n) == IF m <= n THEN m ELSE n

(* What is cut off leaves the numbers up to n covered. *)
LEMMA LaidCut ==
  ASSUME NEW base \in Nat, NEW e \in Nat, NEW rs, NEW st, Laid(base, rs, st, e),
         NEW n \in Nat, base <= n, NEW st2,
         DOMAIN st2 = {m \in DOMAIN st : m <= n},
         \A m \in DOMAIN st2 : st2[m] = st[m]
  PROVE  /\ Laid(base, Cut(rs, n), st2, Lesser(n, e))
         /\ Continues(base, rs, st, Cut(rs, n), st2, Lesser(n, e))
         /\ \A m \in Int : Reserved(Cut(rs, n), m) <=> Reserved(rs, m) /\ m <= n
<1> DEFINE rs2 == Cut(rs, n)
           k == Lesser(n, e)
<1>0. base <= e /\ Ranges(base, rs, e) /\ Covered(base, rs, st, e)
  BY DEF Laid
<1>1. \A r \in rs : r \in Reservation /\ r.first_number \in Nat /\ r.last_number \in Nat
                    /\ base < r.first_number /\ r.first_number <= r.last_number /\ r.last_number <= e
  BY <1>0 DEF Ranges, Reservation
<1>2. k \in Nat /\ base <= k /\ k <= n /\ k <= e /\ (k = n \/ k = e)
  BY <1>0 DEF Lesser
<1>3. ASSUME NEW r \in rs
      PROVE  /\ CutRange(r, n) \in Reservation
             /\ CutRange(r, n).first_number = r.first_number
             /\ CutRange(r, n).last_number = IF r.last_number <= n THEN r.last_number ELSE n
             /\ CutRange(r, n).interval = r.interval
             /\ CutRange(r, n).previous_state_root = r.previous_state_root
             /\ CutRange(r, n).previous_diff_index = r.previous_diff_index
  BY <1>1 DEF CutRange, Reservation
<1>4. \A s : s \in rs2 <=> \E r \in rs : r.first_number <= n /\ s = CutRange(r, n)
  BY DEF Cut
<1> HIDE DEF rs2, k
<1>5. \A s \in rs2 : \E r \in rs : PartOf(s, r)
  <2> TAKE s \in rs2
  <2>1. PICK r \in rs : r.first_number <= n /\ s = CutRange(r, n)
    BY <1>4
  <2> QED
    BY <1>1, <1>3, <2>1 DEF PartOf
<1>6. Ranges(base, rs2, k)
  <2>1. rs2 \subseteq Reservation
    BY <1>3, <1>4
  <2>2. ASSUME NEW s \in rs2
        PROVE  base < s.first_number /\ s.first_number <= s.last_number /\ s.last_number <= k
    <3>1. PICK r \in rs : r.first_number <= n /\ s = CutRange(r, n)
      BY <1>4
    <3> QED
      BY <1>1, <1>2, <1>3, <3>1
  <2>3. ASSUME NEW s \in rs2, NEW q \in rs2,
               s.first_number <= q.last_number, q.first_number <= s.last_number
        PROVE  s = q
    <3>1. PICK r \in rs : r.first_number <= n /\ s = CutRange(r, n)
      BY <1>4
    <3>2. PICK p \in rs : p.first_number <= n /\ q = CutRange(p, n)
      BY <1>4
    <3>3. r.first_number <= p.last_number /\ p.first_number <= r.last_number
      BY <1>1, <1>3, <2>3, <3>1, <3>2
    <3>4. r = p
      BY <1>0, <3>3 DEF Ranges
    <3> QED
      BY <3>1, <3>2, <3>4
  <2> QED
    BY <2>1, <2>2, <2>3 DEF Ranges
<1>7. ASSUME NEW m \in Int
      PROVE  Reserved(rs2, m) <=> Reserved(rs, m) /\ m <= n
  <2>1. ASSUME Reserved(rs2, m)
        PROVE  Reserved(rs, m) /\ m <= n
    <3>1. PICK s \in rs2 : s.first_number <= m /\ m <= s.last_number
      BY <2>1 DEF Reserved, find_reservation
    <3>2. PICK r \in rs : r.first_number <= n /\ s = CutRange(r, n)
      BY <1>4
    <3>3. r.first_number <= m /\ m <= r.last_number /\ m <= n
      BY <1>1, <1>3, <3>1, <3>2
    <3> QED
      BY <3>3 DEF Reserved, find_reservation
  <2>2. ASSUME Reserved(rs, m), m <= n
        PROVE  Reserved(rs2, m)
    <3>1. PICK r \in rs : r.first_number <= m /\ m <= r.last_number
      BY <2>2 DEF Reserved, find_reservation
    <3>2. r.first_number <= n
      BY <1>1, <2>2, <3>1
    <3>3. CutRange(r, n) \in rs2
      BY <1>4, <3>2
    <3>4. CutRange(r, n).first_number <= m /\ m <= CutRange(r, n).last_number
      BY <1>1, <1>3, <2>2, <3>1
    <3> QED
      BY <3>3, <3>4 DEF Reserved, find_reservation
  <2> QED
    BY <2>1, <2>2
<1>8. Covered(base, rs2, st2, k)
  <2>1. DOMAIN st2 \subseteq base .. k
    BY <1>0, <1>2 DEF Covered
  <2>2. \A m \in base .. k : Reserved(rs2, m) <=> m \notin DOMAIN st2
    <3> TAKE m \in base .. k
    <3>1. m \in base .. e /\ m \in Int /\ m <= n
      BY <1>2
    <3> QED
      BY <1>0, <1>7, <3>1 DEF Covered
  <2> QED
    BY <1>0, <2>1, <2>2 DEF Covered
<1>9. Laid(base, rs2, st2, k)
  BY <1>2, <1>6, <1>8 DEF Laid
<1>10. Continues(base, rs, st, rs2, st2, k)
  <2> SUFFICES ASSUME NEW m \in base .. k
               PROVE  /\ ~ Reserved(rs, m) => ~ Reserved(rs2, m) /\ st2[m] = st[m]
                      /\ Reserved(rs, m) /\ Reserved(rs2, m) =>
                           /\ The(rs2, m).interval = The(rs, m).interval
                           /\ The(rs2, m).previous_state_root = The(rs, m).previous_state_root
                           /\ The(rs2, m).previous_diff_index = The(rs, m).previous_diff_index
                           /\ The(rs, m).first_number <= The(rs2, m).first_number
                      /\ Reserved(rs, m) /\ ~ Reserved(rs2, m) =>
                           st2[m] = ReservedView(rs, st, m)
    BY DEF Continues
  <2>1. m \in base .. e /\ m \in Int /\ m <= n /\ m <= k
    BY <1>2
  <2>2. ~ Reserved(rs, m) => ~ Reserved(rs2, m) /\ st2[m] = st[m]
    BY <1>0, <1>7, <2>1 DEF Covered
  <2>3. ASSUME Reserved(rs2, m)
        PROVE  /\ The(rs2, m).interval = The(rs, m).interval
               /\ The(rs2, m).previous_state_root = The(rs, m).previous_state_root
               /\ The(rs2, m).previous_diff_index = The(rs, m).previous_diff_index
               /\ The(rs, m).first_number <= The(rs2, m).first_number
    BY <1>0, <1>2, <1>5, <1>6, <2>1, <2>3, PartsContinue
  <2>4. ~ (Reserved(rs, m) /\ ~ Reserved(rs2, m))
    BY <1>7, <2>1
  <2> QED
    BY <2>2, <2>3, <2>4
<1> QED
  BY <1>7, <1>9, <1>10 DEF rs2, k

(* The diffs that are kept are the ones of the blocks that are. *)
LEMMA IndexedCut ==
  ASSUME NEW base \in Nat, NEW e \in Nat, NEW rs, NEW st, Laid(base, rs, st, e),
         NEW last \in {e, e + 1}, NEW index, NEW diffs,
         Indexed(base, rs, st, index, diffs, last, e),
         NEW n \in base .. last, Index(rs, index, n) # None, NEW st2,
         DOMAIN st2 = {m \in DOMAIN st : m <= n},
         \A m \in DOMAIN st2 : st2[m] = st[m]
  PROVE  Indexed(base, Cut(rs, n), st2, [m \in {k \in DOMAIN index : k <= n} |-> index[m]],
                 SubSeq(diffs, 1, Index(rs, index, n)), n, Lesser(n, e))
<1> DEFINE rs2 == Cut(rs, n)
           k == Lesser(n, e)
           index2 == [m \in {j \in DOMAIN index : j <= n} |-> index[m]]
           i == Index(rs, index, n)
           diffs2 == SubSeq(diffs, 1, i)
<1>0. base <= e /\ n \in Nat /\ base <= n /\ Ranges(base, rs, e)
  BY DEF Laid
<1>1. /\ Laid(base, rs2, st2, k) /\ Continues(base, rs, st, rs2, st2, k)
      /\ \A m \in Int : Reserved(rs2, m) <=> Reserved(rs, m) /\ m <= n
  BY <1>0, LaidCut
<1>2. k \in Nat /\ base <= k /\ k <= n /\ k <= e /\ (k = n \/ (k = e /\ n = e + 1))
  BY <1>0 DEF Lesser
<1>3. /\ diffs \in Roots /\ DOMAIN index \subseteq base .. last
      /\ \A m \in DOMAIN index : ~ Reserved(rs, m)
      /\ \A m \in base .. last : Index(rs, index, m) # None => Index(rs, index, m) \in 1 .. Len(diffs)
  BY DEF Indexed
<1>4. i \in 1 .. Len(diffs)
  BY <1>3
<1>5. /\ diffs2 \in Roots /\ Len(diffs2) = i
      /\ \A j \in 1 .. i : SubSeq(diffs2, 1, j) = SubSeq(diffs, 1, j)
  BY <1>3, <1>4, PrefixOfPrefix DEF Roots
<1>6. /\ DOMAIN index2 = {j \in DOMAIN index : j <= n}
      /\ \A m \in DOMAIN index2 : index2[m] = index[m]
  OBVIOUS
<1>7. i = Index(rs, index, n)
  OBVIOUS
<1> HIDE DEF rs2, k, index2, i, diffs2
<1>8. \A m \in base .. n : Index(rs2, index2, m) \in {Index(rs, index, m), None}
  <2> TAKE m \in base .. n
  <2>1. CASE m \in DOMAIN index
    BY <1>6, <2>1 DEF Index
  <2>2. CASE m \notin DOMAIN index /\ ~ Reserved(rs2, m)
    BY <1>6, <2>2 DEF Index
  <2>3. CASE m \notin DOMAIN index /\ Reserved(rs2, m)
    <3>1. Reserved(rs, m)
      BY <1>1, <2>3
    <3>2. m <= e
      <4>1. The(rs, m) \in rs /\ m <= The(rs, m).last_number /\ The(rs, m).last_number <= e
            /\ The(rs, m) \in Reservation
        BY <1>0, <3>1, TheType
      <4> QED
        BY <1>0, <4>1 DEF Reservation
    <3>3. m \in base .. k
      BY <1>2, <3>2
    <3>4. The(rs2, m).previous_diff_index = The(rs, m).previous_diff_index
      BY <1>1, <2>3, <3>1, <3>3 DEF Continues
    <3> QED
      BY <1>6, <2>3, <3>1, <3>4 DEF Index
  <2> QED
    BY <2>1, <2>2, <2>3
<1>9. \A m \in base .. n : m \in base .. last
  OBVIOUS
<1>10. \A m \in base .. n : Index(rs2, index2, m) # None => Index(rs2, index2, m) \in 1 .. Len(diffs2)
  <2> TAKE m \in base .. n
  <2> HAVE Index(rs2, index2, m) # None
  <2>1. Index(rs2, index2, m) = Index(rs, index, m)
    BY <1>8
  <2>2. Index(rs, index, m) \in 1 .. Len(diffs)
    BY <1>3, <1>9, <2>1
  <2>3. Index(rs, index, m) <= i
    <3>1. m \in base .. last /\ n \in base .. last /\ m <= n
      BY <1>9
    <3> QED
      BY <1>7, <2>1, <3>1 DEF Indexed
  <2> QED
    BY <1>4, <1>5, <2>1, <2>2, <2>3
<1>11. \A m, l \in base .. n :
         m <= l /\ Index(rs2, index2, m) # None /\ Index(rs2, index2, l) # None =>
           Index(rs2, index2, m) <= Index(rs2, index2, l)
  BY <1>8, <1>9 DEF Indexed
<1>12. \A m \in base .. k : View(rs2, st2, m) = View(rs, st, m)
  <2>1. k \in base .. e /\ k <= k
    BY <1>2
  <2> QED
    BY <1>1, <1>2, <2>1, ViewContinues
<1>13. \A m \in base .. k : Index(rs2, index2, m) # None =>
         SubSeq(diffs2, 1, Index(rs2, index2, m)) = View(rs2, st2, m).state_root
  <2> TAKE m \in base .. k
  <2> HAVE Index(rs2, index2, m) # None
  <2>1. m \in base .. n /\ m \in base .. e
    BY <1>2
  <2>2. Index(rs2, index2, m) = Index(rs, index, m)
    BY <1>8, <2>1
  <2>3. Index(rs2, index2, m) \in 1 .. i
    BY <1>5, <1>10, <2>1
  <2>4. SubSeq(diffs, 1, Index(rs, index, m)) = View(rs, st, m).state_root
    BY <2>1, <2>2 DEF Indexed
  <2> QED
    BY <1>5, <1>12, <2>2, <2>3, <2>4
<1>14. k = n => View(rs2, st2, k).state_root = diffs2
  <2> HAVE k = n
  <2>1. n \in base .. k /\ n \in base .. e
    BY <1>2
  <2>2. SubSeq(diffs, 1, i) = View(rs, st, n).state_root
    BY <1>7, <2>1 DEF Indexed
  <2> QED
    BY <1>12, <2>1, <2>2 DEF diffs2
<1>15. DOMAIN index2 \subseteq base .. n
  BY <1>0, <1>3, <1>6
<1>16. \A m \in DOMAIN index2 : ~ Reserved(rs2, m)
  <2> TAKE m \in DOMAIN index2
  <2>1. m \in Int /\ m \in DOMAIN index
    BY <1>6, <1>15
  <2> QED
    BY <1>1, <1>3, <2>1
<1> QED
  BY <1>5, <1>10, <1>11, <1>13, <1>14, <1>15, <1>16 DEF Indexed, rs2, k, index2, i, diffs2

(* A block behind the last one. *)
LEMMA LaidInsert ==
  ASSUME NEW base \in Nat, NEW e \in Nat, NEW rs, NEW st, Laid(base, rs, st, e),
         NEW b \in Block, NEW k, k = e + 1, b.number = k, NEW st2,
         WithBlock(st2, st, k, b)
  PROVE  /\ Laid(base, rs, st2, k)
         /\ Continues(base, rs, st, rs, st2, e)
         /\ View(rs, st2, k) = b
<1>0. base <= e /\ Ranges(base, rs, e) /\ Covered(base, rs, st, e)
  BY DEF Laid
<1>1. ~ Reserved(rs, e + 1)
  BY <1>0 DEF Reserved, find_reservation, Ranges, Reservation
<1>2. Ranges(base, rs, e + 1)
  <2>1. \A r \in rs : r.last_number \in Nat /\ r.last_number <= e
    BY <1>0 DEF Ranges, Reservation
  <2> QED
    BY <1>0, <2>1 DEF Ranges
<1>3. Covered(base, rs, st2, e + 1)
  <2>1. DOMAIN st2 \subseteq base .. e + 1
    BY <1>0 DEF Covered, WithBlock
  <2>2. \A n \in base .. e + 1 : Reserved(rs, n) <=> n \notin DOMAIN st2
    <3> TAKE n \in base .. e + 1
    <3>1. CASE n = e + 1
      BY <1>1, <3>1 DEF WithBlock
    <3>2. CASE n \in base .. e
      BY <1>0, <3>2 DEF Covered, WithBlock
    <3> QED
      BY <3>1, <3>2
  <2>3. \A n \in DOMAIN st2 : st2[n] \in Block /\ st2[n].number = n
    BY <1>0 DEF Covered, WithBlock
  <2> QED
    BY <2>1, <2>2, <2>3 DEF Covered
<1>4. Continues(base, rs, st, rs, st2, e)
  <2>1. \A n \in base .. e : Reserved(rs, n) => The(rs, n).first_number \in Nat
    BY <1>0, TheType DEF Reservation
  <2>2. \A n \in base .. e : ~ Reserved(rs, n) => st2[n] = st[n]
    BY <1>0 DEF Covered, WithBlock
  <2> QED
    BY <2>1, <2>2 DEF Continues
<1> QED
  BY <1>0, <1>1, <1>2, <1>3, <1>4 DEF Laid, View, WithBlock

-----------------------------------------------------------------------------
(* Transactions. *)

(* A map with new entries, all with the same value, and a map cut down. *)
Extends(g, f, xs, v) ==
  /\ DOMAIN g = DOMAIN f \cup xs
  /\ \A x \in xs : g[x] = v
  /\ \A x \in DOMAIN f : x \notin xs => g[x] = f[x]

CutDown(g, f, xs) == DOMAIN g = xs /\ \A x \in xs : g[x] = f[x]

(* The transactions of a new block are filed with it. *)
LEMMA FiledPut ==
  ASSUME NEW blocks, NEW by_hash, NEW receipts, Filed(blocks, by_hash, receipts),
         NEW n, n \notin DOMAIN blocks, NEW b, b.transactions \cap DOMAIN receipts = {},
         b.number = n, NEW txs, b.transactions = txs,
         NEW by_hash2, Extends(by_hash2, by_hash, txs, b),
         NEW receipts2, Extends(receipts2, receipts, txs, n)
  PROVE  Filed(Put(blocks, n, b), by_hash2, receipts2)
<1> DEFINE blocks2 == Put(blocks, n, b)
<1>1. /\ DOMAIN blocks2 = DOMAIN blocks \cup {n} /\ blocks2[n] = b
      /\ \A m \in DOMAIN blocks : blocks2[m] = blocks[m]
  BY DEF Put
<1>2. /\ DOMAIN by_hash2 = DOMAIN by_hash \cup txs
      /\ DOMAIN receipts2 = DOMAIN receipts \cup txs
      /\ \A tx \in txs : by_hash2[tx] = b /\ receipts2[tx] = n
      /\ \A tx \in DOMAIN by_hash : tx \notin txs => by_hash2[tx] = by_hash[tx]
      /\ \A tx \in DOMAIN receipts : tx \notin txs => receipts2[tx] = receipts[tx]
  BY DEF Extends
<1>3. DOMAIN receipts = DOMAIN by_hash
  BY DEF Filed
<1> HIDE DEF blocks2
<1>4. \A m \in DOMAIN blocks2 : \A tx \in blocks2[m].transactions :
        tx \in DOMAIN by_hash2 /\ by_hash2[tx] = blocks2[m]
  <2> TAKE m \in DOMAIN blocks2
  <2> TAKE tx \in blocks2[m].transactions
  <2>1. CASE m = n
    BY <1>1, <1>2, <2>1
  <2>2. CASE m \in DOMAIN blocks
    <3>1. tx \in DOMAIN by_hash /\ by_hash[tx] = blocks[m] /\ blocks2[m] = blocks[m]
      BY <1>1, <2>2 DEF Filed
    <3> QED
      BY <1>2, <1>3, <3>1
  <2> QED
    BY <1>1, <2>1, <2>2
<1>5. \A tx \in DOMAIN by_hash2 : \E m \in DOMAIN blocks2 : tx \in blocks2[m].transactions
  BY <1>1, <1>2 DEF Filed
<1>6. \A tx \in DOMAIN by_hash2 : receipts2[tx] = by_hash2[tx].number
  BY <1>2, <1>3 DEF Filed
<1> QED
  BY <1>2, <1>3, <1>4, <1>5, <1>6 DEF Filed, blocks2

(* A block without transactions leaves the maps as they are. *)
LEMMA FiledEmpty ==
  ASSUME NEW blocks, NEW by_hash, NEW receipts, Filed(blocks, by_hash, receipts),
         NEW n, n \notin DOMAIN blocks, NEW b, b.transactions = {}
  PROVE  Filed(Put(blocks, n, b), by_hash, receipts)
<1> DEFINE blocks2 == Put(blocks, n, b)
<1>1. /\ DOMAIN blocks2 = DOMAIN blocks \cup {n} /\ blocks2[n] = b
      /\ \A m \in DOMAIN blocks : blocks2[m] = blocks[m]
  BY DEF Put
<1> HIDE DEF blocks2
<1>2. \A m \in DOMAIN blocks2 : \A tx \in blocks2[m].transactions :
        tx \in DOMAIN by_hash /\ by_hash[tx] = blocks2[m]
  BY <1>1 DEF Filed
<1>3. \A tx \in DOMAIN by_hash : \E m \in DOMAIN blocks2 : tx \in blocks2[m].transactions
  BY <1>1 DEF Filed
<1> QED
  BY <1>2, <1>3 DEF Filed, blocks2

(* The transactions of the blocks that are deleted are in no other block. *)
LEMMA FiledCut ==
  ASSUME NEW blocks, NEW by_hash, NEW receipts, Filed(blocks, by_hash, receipts),
         \A m \in DOMAIN blocks : blocks[m].number = m,
         NEW kept, kept \subseteq DOMAIN blocks, NEW gone,
         gone = UNION {blocks[m].transactions : m \in DOMAIN blocks \ kept},
         NEW blocks2, CutDown(blocks2, blocks, kept),
         NEW by_hash2, CutDown(by_hash2, by_hash, DOMAIN by_hash \ gone),
         NEW receipts2, CutDown(receipts2, receipts, DOMAIN receipts \ gone)
  PROVE  Filed(blocks2, by_hash2, receipts2)
<1>1. /\ DOMAIN blocks2 = kept /\ DOMAIN by_hash2 = DOMAIN by_hash \ gone
      /\ DOMAIN receipts2 = DOMAIN receipts \ gone
      /\ \A m \in kept : blocks2[m] = blocks[m]
      /\ \A tx \in DOMAIN by_hash2 : by_hash2[tx] = by_hash[tx]
      /\ \A tx \in DOMAIN receipts2 : receipts2[tx] = receipts[tx]
  BY DEF CutDown
<1>2. \A tx : tx \in gone <=> \E m \in DOMAIN blocks \ kept : tx \in blocks[m].transactions
  OBVIOUS
<1>3. \A m \in kept : \A tx \in blocks[m].transactions : tx \notin gone
  <2> SUFFICES ASSUME NEW m \in kept, NEW tx \in blocks[m].transactions, tx \in gone
               PROVE  FALSE
    OBVIOUS
  <2>1. PICK l \in DOMAIN blocks \ kept : tx \in blocks[l].transactions
    BY <1>2
  <2>2. blocks[l] = blocks[m]
    BY <2>1 DEF Filed
  <2>3. l = m
    BY <2>1, <2>2
  <2> QED
    BY <2>1, <2>3
<1>4. \A m \in DOMAIN blocks2 : \A tx \in blocks2[m].transactions :
        tx \in DOMAIN by_hash2 /\ by_hash2[tx] = blocks2[m]
  BY <1>1, <1>3 DEF Filed
<1>5. \A tx \in DOMAIN by_hash2 : \E m \in DOMAIN blocks2 : tx \in blocks2[m].transactions
  BY <1>1, <1>2 DEF Filed
<1>6. DOMAIN receipts2 = DOMAIN by_hash2 /\ \A tx \in DOMAIN by_hash2 : receipts2[tx] = by_hash2[tx].number
  BY <1>1 DEF Filed
<1> QED
  BY <1>4, <1>5, <1>6 DEF Filed

-----------------------------------------------------------------------------
(* The steps of the storage. *)

(* What a reader gets of the blocks up to k stays what it was. *)
Kept(k) == \A n \in Base .. k : BlockAt(n)' = BlockAt(n)

(* What a reader gets, before and after a step. *)
LEMMA BlockAtView ==
  ASSUME NEW n
  PROVE  /\ BlockAt(n) = View(reservations, Stored(number_to_block), n)
         /\ BlockAt(n)' = View(reservations', Stored(number_to_block)', n)
<1> QED
  BY DEF BlockAt, View, ReservedBlock, ReservedView

(* The origin of a chain does not change. *)
LEMMA SameOrigin ==
  ASSUME origin' = origin
  PROVE  /\ Base' = Base /\ (Forked' <=> Forked)
         /\ Stored(number_to_block)' = Stored(number_to_block')
<1>1. BaseBlock' = BaseBlock /\ Base' = Base
  BY DEF BaseBlock, Base, Forked
<1>2. Forked' <=> Forked
  BY DEF Forked
<1> QED
  BY <1>1, <1>2 DEF Stored

(* A forked chain stores one block more, the forked one. *)
LEMMA StoredDomain ==
  ASSUME NEW blocks
  PROVE  /\ DOMAIN Stored(blocks) = IF Forked THEN DOMAIN blocks \cup {Base} ELSE DOMAIN blocks
         /\ \A n \in DOMAIN blocks : n # Base \/ ~ Forked => Stored(blocks)[n] = blocks[n]
<1> QED
  BY DEF Stored, Put

(* The last block is there unless it was refused. *)
LEMMA LastIs ==
  ASSUME NEW base \in Nat, NEW e \in Nat, NEW rs, NEW st, Laid(base, rs, st, e),
         NEW last \in {e, e + 1}
  PROVE  (Reserved(rs, last) \/ last \in DOMAIN st) <=> last = e
<1>0. base <= e /\ Ranges(base, rs, e) /\ Covered(base, rs, st, e)
  BY DEF Laid
<1>1. ~ Reserved(rs, e + 1)
  BY <1>0 DEF Reserved, find_reservation, Ranges, Reservation
<1>2. e + 1 \notin DOMAIN st
  <2>1. e + 1 \notin base .. e
    OBVIOUS
  <2> QED
    BY <1>0, <2>1 DEF Covered
<1>3. e \in base .. e /\ e # e + 1
  BY <1>0
<1> QED
  BY <1>0, <1>1, <1>2, <1>3 DEF Covered

(* The chain ends at block e. *)
LEMMA EndIs ==
  ASSUME NEW e \in Nat, StorageInv(e)
  PROVE  ChainEnd = e /\ (LastBlockExists <=> last_block_number = e)
<1>1. /\ Base \in Nat /\ last_block_number \in {e, e + 1}
      /\ Laid(Base, reservations, Stored(number_to_block), e)
  BY OriginType DEF StorageInv
<1>2. LastBlockExists <=> last_block_number = e
  BY <1>1, LastIs DEF LastBlockExists
<1> QED
  BY <1>1, <1>2 DEF ChainEnd

(* The same after a step. *)
LEMMA NextEndIs ==
  ASSUME NEW e \in Nat, StorageInv(e)', Base' \in Nat
  PROVE  ChainEnd' = e
<1>1. /\ last_block_number' \in {e, e + 1}
      /\ Laid(Base', reservations', Stored(number_to_block)', e)
  BY DEF StorageInv
<1>2. LastBlockExists' <=> last_block_number' = e
  BY <1>1, LastIs DEF LastBlockExists
<1>3. CASE last_block_number' = e
  <2>1. ChainEnd' = last_block_number'
    BY <1>2, <1>3, Zenon DEF ChainEnd
  <2> QED
    BY <1>3, <2>1
<1>4. CASE last_block_number' # e
  <2>1. ChainEnd' = last_block_number' - 1
    BY <1>2, <1>4, Zenon DEF ChainEnd
  <2>2. last_block_number' = e + 1
    BY <1>1, <1>4
  <2>3. (e + 1) - 1 = e
    OBVIOUS
  <2> QED
    BY <2>1, <2>2, <2>3
<1> QED
  BY <1>3, <1>4

(* Building a block files nothing. *)
LEMMA FulfilledFiled ==
  ASSUME NEW e \in Nat, StorageInv(e), NEW n \in Base .. e
  PROVE  /\ Filed(Fulfilled(n).blocks, transaction_hash_to_block, transaction_hash_to_receipt)
         /\ Forked => Base \notin DOMAIN Fulfilled(n).blocks
<1>1. /\ Filed(number_to_block, transaction_hash_to_block, transaction_hash_to_receipt)
      /\ Forked => Base \notin DOMAIN number_to_block
  BY DEF StorageInv
<1>2. CASE ~ Reserved(reservations, n)
  BY <1>1, <1>2 DEF Fulfilled
<1>3. CASE Reserved(reservations, n)
  <2>1. n \notin DOMAIN Stored(number_to_block)
    BY <1>3 DEF StorageInv, Laid, Covered
  <2>2. n \notin DOMAIN number_to_block
    BY <2>1, StoredDomain
  <2>3. ReservedBlock(n).transactions = {}
    BY DEF ReservedBlock
  <2>4. Fulfilled(n).blocks = Put(number_to_block, n, ReservedBlock(n))
    BY <1>3 DEF Fulfilled
  <2>5. Forked => n # Base
    BY <2>1, StoredDomain
  <2>6. DOMAIN Fulfilled(n).blocks = DOMAIN number_to_block \cup {n}
    BY <2>4 DEF Put
  <2>7. Filed(Fulfilled(n).blocks, transaction_hash_to_block, transaction_hash_to_receipt)
    BY <1>1, <2>2, <2>3, <2>4, FiledEmpty
  <2> QED
    BY <1>1, <2>5, <2>6, <2>7
<1> QED
  BY <1>2, <1>3

(* What the steps that read the last block first start from. *)
LEMMA LastRead ==
  ASSUME NEW e \in Nat, StorageInv(e), NEW n \in Base .. e
  PROVE  /\ Laid(Base, Fulfilled(n).reservations, Stored(Fulfilled(n).blocks), e)
         /\ Indexed(Base, Fulfilled(n).reservations, Stored(Fulfilled(n).blocks),
                    number_to_diff_index, state_diffs, last_block_number, e)
         /\ Filed(Fulfilled(n).blocks, transaction_hash_to_block, transaction_hash_to_receipt)
         /\ Forked => Base \notin DOMAIN Fulfilled(n).blocks
         /\ \A m \in Base .. e :
              View(Fulfilled(n).reservations, Stored(Fulfilled(n).blocks), m) = BlockAt(m)
         /\ Stored(Fulfilled(n).blocks)[n] = BlockAt(n)
<1> DEFINE rs2 == Fulfilled(n).reservations
           st2 == Stored(Fulfilled(n).blocks)
           st == Stored(number_to_block)
<1>0. /\ Base \in Nat /\ origin \in Origins /\ last_block_number \in {e, e + 1}
      /\ Laid(Base, reservations, st, e)
      /\ Indexed(Base, reservations, st, number_to_diff_index, state_diffs, last_block_number, e)
  BY OriginType DEF StorageInv
<1>1. /\ Laid(Base, rs2, st2, e) /\ Continues(Base, reservations, st, rs2, st2, e)
      /\ st2[n] = BlockAt(n)
  BY <1>0, FulfilledKeeps
<1>2. /\ Filed(Fulfilled(n).blocks, transaction_hash_to_block, transaction_hash_to_receipt)
      /\ Forked => Base \notin DOMAIN Fulfilled(n).blocks
  BY FulfilledFiled
<1> HIDE DEF rs2, st2, st
<1>3. Indexed(Base, rs2, st2, number_to_diff_index, state_diffs, last_block_number, e)
  BY <1>0, <1>1, IndexedContinues
<1>4. \A m \in Base .. e : View(rs2, st2, m) = BlockAt(m)
  <2> TAKE m \in Base .. e
  <2>1. e \in Base .. e /\ e <= e
    BY <1>0 DEF Laid
  <2>2. View(rs2, st2, m) = View(reservations, st, m)
    BY <1>0, <1>1, <2>1, ViewContinues
  <2> QED
    BY <2>2, BlockAtView DEF st
<1> QED
  BY <1>1, <1>2, <1>3, <1>4 DEF rs2, st2

(* Reading a block builds it and changes no block. *)
LEMMA ReadStep ==
  ASSUME NEW e \in Nat, StorageInv(e), origin' = origin, NEW n \in Int, ReadBlock(n)
  PROVE  StorageInv(e)' /\ Kept(e)
<1>0. /\ Base \in Nat /\ Base' = Base /\ (Forked' <=> Forked)
      /\ Stored(number_to_block)' = Stored(number_to_block')
  BY SameOrigin, OriginType DEF StorageInv
<1>1. n \in Base .. e
  <2>1. Reserved(reservations, n) /\ Ranges(Base, reservations, e)
    BY DEF ReadBlock, StorageInv, Laid
  <2>2. /\ The(reservations, n) \in Reservation
        /\ The(reservations, n).first_number <= n /\ n <= The(reservations, n).last_number
        /\ Base < The(reservations, n).first_number /\ The(reservations, n).last_number <= e
    BY <2>1, TheType
  <2> QED
    BY <1>0, <2>2 DEF Reservation
<1>2. /\ reservations' = Fulfilled(n).reservations /\ number_to_block' = Fulfilled(n).blocks
      /\ UNCHANGED <<transaction_hash_to_block, transaction_hash_to_receipt, state_diffs,
                     number_to_diff_index, last_block_number, heads>>
  BY DEF ReadBlock, block_by_number
<1>3. Stored(number_to_block)' = Stored(Fulfilled(n).blocks)
  BY <1>0, <1>2
<1>4. /\ Laid(Base, Fulfilled(n).reservations, Stored(Fulfilled(n).blocks), e)
      /\ Indexed(Base, Fulfilled(n).reservations, Stored(Fulfilled(n).blocks),
                 number_to_diff_index, state_diffs, last_block_number, e)
      /\ Filed(Fulfilled(n).blocks, transaction_hash_to_block, transaction_hash_to_receipt)
      /\ Forked => Base \notin DOMAIN Fulfilled(n).blocks
      /\ \A m \in Base .. e :
           View(Fulfilled(n).reservations, Stored(Fulfilled(n).blocks), m) = BlockAt(m)
  BY <1>1, LastRead
<1>5. StorageInv(e)'
  BY <1>0, <1>2, <1>3, <1>4 DEF StorageInv
<1>6. Kept(e)
  BY <1>2, <1>3, <1>4, BlockAtView DEF Kept
<1> QED
  BY <1>5, <1>6

(* The last block, whose state is the one the diffs lead to. *)
LEMMA LastBlockIs ==
  ASSUME NEW e \in Nat, StorageInv(e), last_block_number = e
  PROVE  /\ Base <= e /\ e \in Base .. e
         /\ last_block = BlockAt(e) /\ BlockAt(e) \in Block /\ BlockAt(e).number = e
         /\ BlockAt(e).state_root = state_diffs /\ state_diffs \in Roots
<1>0. /\ Base \in Nat /\ Laid(Base, reservations, Stored(number_to_block), e)
      /\ Indexed(Base, reservations, Stored(number_to_block), number_to_diff_index, state_diffs,
                 e, e)
  BY OriginType DEF StorageInv
<1>1. Base <= e /\ e \in Base .. e
  BY <1>0 DEF Laid
<1>2. last_block = BlockAt(e)
  BY <1>1, LastRead DEF last_block
<1>3. BlockAt(e) \in Block /\ BlockAt(e).number = e
  BY <1>0, <1>1, ViewType, BlockAtView
<1>4. BlockAt(e).state_root = state_diffs /\ state_diffs \in Roots
  BY <1>0, BlockAtView DEF Indexed
<1> QED
  BY <1>1, <1>2, <1>3, <1>4

(* The block built on block b. *)
BuiltOn(c, b, txs, diff) ==
  /\ c \in Block /\ c.number = b.number + 1 /\ c.transactions = txs
  /\ c.state_root = Append(b.state_root, <<b.number + 1, diff>>)
  /\ <<b.number + 1, diff>> \in Nat \X (Diffs \cup {genesis_diff})

(* The block that is built is a block. *)
LEMMA NextBlockType ==
  ASSUME NEW b \in Block, NEW delay \in Nat, NEW txs \in SUBSET Transactions, NEW diff \in Diffs
  PROVE  BuiltOn(NextBlock(b, delay, txs, diff), b, txs, diff)
<1>1. /\ b.number \in Nat /\ b.timestamp \in Nat /\ b.slot_number \in {None} \cup Nat
      /\ b.state_root \in Roots
  BY DEF Block, Roots
<1>2. next_slot_number(b) \in {None} \cup Nat
  BY <1>1 DEF next_slot_number
<1>3. <<b.number + 1, diff>> \in Nat \X (Diffs \cup {genesis_diff})
  BY <1>1
<1>4. Append(b.state_root, <<b.number + 1, diff>>) \in Roots
  BY <1>1, <1>3 DEF Roots
<1>5. b.number + 1 \in Nat /\ b.timestamp + delay \in Nat
  BY <1>1
<1> QED
  BY <1>2, <1>3, <1>4, <1>5 DEF NextBlock, Block, Roots, BuiltOn

(* A block that is mined. *)
LEMMA InsertStep ==
  ASSUME NEW e \in Nat, StorageInv(e), origin' = origin, NEW delay \in Delays,
         NEW txs \in SUBSET Transactions, NEW diff \in Diffs, InsertBlock(delay, txs, diff)
  PROVE  /\ StorageInv(e + 1)' /\ Kept(e)
         /\ BlockAt(e + 1)' = NextBlock(BlockAt(e), delay, txs, diff)
<1> DEFINE b == NextBlock(BlockAt(e), delay, txs, diff)
           rs == Fulfilled(e).reservations
           st == Stored(Fulfilled(e).blocks)
           st2 == Stored(Put(Fulfilled(e).blocks, e + 1, b))
           x == <<e + 1, diff>>
<1>0. /\ Base \in Nat /\ Base' = Base /\ (Forked' <=> Forked) /\ origin \in Origins
      /\ Stored(number_to_block)' = Stored(number_to_block') /\ delay \in Nat
  BY SameOrigin, OriginType, BlockStorageAssumption DEF StorageInv
<1>1. last_block_number = e
  BY EndIs DEF InsertBlock
<1>2. /\ Base <= e /\ e \in Base .. e
      /\ last_block = BlockAt(e) /\ BlockAt(e) \in Block /\ BlockAt(e).number = e
      /\ BlockAt(e).state_root = state_diffs /\ state_diffs \in Roots
  BY <1>1, LastBlockIs
<1>3. /\ b \in Block /\ b.number = e + 1 /\ b.transactions = txs
      /\ b.state_root = Append(state_diffs, x) /\ x \in Nat \X (Diffs \cup {genesis_diff})
  <2> DEFINE a == BlockAt(e)
  <2>1. b = NextBlock(a, delay, txs, diff) /\ a \in Block /\ delay \in Nat
    BY <1>0, <1>2
  <2>2. a.number = e /\ a.state_root = state_diffs
    BY <1>2
  <2> HIDE DEF a, b
  <2>3. BuiltOn(b, a, txs, diff)
    BY <2>1, NextBlockType
  <2> QED
    BY <2>2, <2>3 DEF BuiltOn
<1>4. /\ last_block_number' = e + 1
      /\ number_to_diff_index' = Put(number_to_diff_index, e + 1, Len(state_diffs) + 1)
      /\ state_diffs' = Append(state_diffs, x)
      /\ heads' = heads \cup {e + 1}
      /\ reservations' = rs
      /\ number_to_block' = Put(Fulfilled(e).blocks, e + 1, b)
      /\ txs \cap DOMAIN transaction_hash_to_receipt = {}
      /\ transaction_hash_to_block' =
           [tx \in DOMAIN transaction_hash_to_block \cup txs |->
              IF tx \in txs THEN b ELSE transaction_hash_to_block[tx]]
      /\ transaction_hash_to_receipt' =
           [tx \in DOMAIN transaction_hash_to_receipt \cup txs |->
              IF tx \in txs THEN e + 1 ELSE transaction_hash_to_receipt[tx]]
  BY <1>1, <1>2, <1>3 DEF InsertBlock, Advance
<1>5. /\ Laid(Base, rs, st, e)
      /\ Indexed(Base, rs, st, number_to_diff_index, state_diffs, e, e)
      /\ Filed(Fulfilled(e).blocks, transaction_hash_to_block, transaction_hash_to_receipt)
      /\ Forked => Base \notin DOMAIN Fulfilled(e).blocks
      /\ \A m \in Base .. e : View(rs, st, m) = BlockAt(m)
  BY <1>1, <1>2, LastRead
<1>6. e + 1 \notin DOMAIN Fulfilled(e).blocks
  <2>1. DOMAIN st \subseteq Base .. e
    BY <1>5 DEF Laid, Covered
  <2>2. e + 1 \notin DOMAIN st
    BY <1>0, <2>1
  <2> QED
    BY <2>2, StoredDomain
<1>7. Stored(number_to_block)' = st2
  BY <1>0, <1>4
<1>8. WithBlock(st2, st, e + 1, b)
  <2>1. e + 1 # Base
    BY <1>0, <1>2
  <2> QED
    BY <2>1, StoredPut
<1>9. Filed(number_to_block', transaction_hash_to_block', transaction_hash_to_receipt')
  <2> HIDE DEF b
  <2>1. b.number = e + 1 /\ b.transactions = txs
    BY <1>3
  <2>2. b.transactions \cap DOMAIN transaction_hash_to_receipt = {}
    BY <1>4, <2>1
  <2>3. /\ Extends(transaction_hash_to_block', transaction_hash_to_block, txs, b)
        /\ Extends(transaction_hash_to_receipt', transaction_hash_to_receipt, txs, e + 1)
    BY <1>4 DEF Extends
  <2>4. number_to_block' = Put(Fulfilled(e).blocks, e + 1, b)
    BY <1>4
  <2> DEFINE f == Fulfilled(e).blocks
             k == e + 1
  <2>5. f = Fulfilled(e).blocks /\ k = e + 1
    OBVIOUS
  <2> HIDE DEF f, k
  <2> QED
    BY <1>5, <1>6, <2>1, <2>2, <2>3, <2>4, <2>5, FiledPut
<1> HIDE DEF b, rs, st, st2, x
<1>10. /\ Laid(Base, rs, st2, e + 1) /\ Continues(Base, rs, st, rs, st2, e)
       /\ View(rs, st2, e + 1) = b
  <2>1. b \in Block /\ b.number = e + 1 /\ Laid(Base, rs, st, e)
    BY <1>3, <1>5
  <2> QED
    BY <1>0, <1>8, <2>1, LaidInsert
<1>11. \A n \in Base .. e : View(rs, st2, n) = BlockAt(n)
  <2> TAKE n \in Base .. e
  <2>1. View(rs, st2, n) = View(rs, st, n)
    <3>1. e + 1 \in Nat /\ e <= e + 1
      OBVIOUS
    <3>2. Laid(Base, rs, st, e) /\ Base \in Nat /\ e \in Base .. e
      BY <1>0, <1>2, <1>5
    <3> QED
      BY <1>10, <3>1, <3>2, ViewContinues
  <2> QED
    BY <1>5, <2>1
<1>12. Indexed(Base, rs, st2, Put(number_to_diff_index, e + 1, Len(state_diffs) + 1),
               Append(state_diffs, x), e + 1, e + 1)
  <2>1. \A n \in Base .. e : View(rs, st2, n).state_root = View(rs, st, n).state_root
    BY <1>5, <1>11
  <2> QED
    BY <1>0, <1>3, <1>5, <1>10, <2>1, IndexedAdvance
<1>13. heads' \subseteq Base .. (e + 1)
  <2>1. heads \subseteq Base .. e
    BY <1>1 DEF StorageInv
  <2>2. Base .. e \subseteq Base .. (e + 1) /\ e + 1 \in Base .. (e + 1)
    BY <1>0, <1>2
  <2> QED
    BY <1>4, <2>1, <2>2
<1>14. IF Forked THEN Base \notin DOMAIN number_to_block'
       ELSE Base \in DOMAIN number_to_diff_index' /\ number_to_diff_index'[Base] = 1
  <2>1. ~ Forked => Base \in DOMAIN number_to_diff_index /\ number_to_diff_index[Base] = 1
    BY DEF StorageInv
  <2>2. Base # e + 1
    BY <1>0, <1>2
  <2>3. /\ DOMAIN number_to_diff_index' = DOMAIN number_to_diff_index \cup {e + 1}
        /\ \A y \in DOMAIN number_to_diff_index : y # e + 1 =>
             number_to_diff_index'[y] = number_to_diff_index[y]
    <3>1. number_to_diff_index' = Put(number_to_diff_index, e + 1, Len(state_diffs) + 1)
      BY <1>4
    <3> QED
      BY <3>1 DEF Put
  <2>4. DOMAIN number_to_block' = DOMAIN Fulfilled(e).blocks \cup {e + 1}
    <3>1. number_to_block' = Put(Fulfilled(e).blocks, e + 1, b)
      BY <1>4
    <3> QED
      BY <3>1 DEF Put
  <2> QED
    BY <1>5, <2>1, <2>2, <2>3, <2>4
<1>15. StorageInv(e + 1)'
  BY <1>0, <1>4, <1>7, <1>9, <1>10, <1>12, <1>13, <1>14 DEF StorageInv
<1>16. Kept(e) /\ BlockAt(e + 1)' = b
  BY <1>4, <1>7, <1>10, <1>11, BlockAtView DEF Kept
<1> QED
  BY <1>15, <1>16 DEF b

(* A block that is refused: its number and its diff stay. *)
LEMMA InsertFailsStep ==
  ASSUME NEW e \in Nat, StorageInv(e), origin' = origin, NEW delay \in Delays,
         NEW txs \in SUBSET Transactions, NEW diff \in Diffs, InsertBlockFails(delay, txs, diff)
  PROVE  StorageInv(e)' /\ Kept(e)
<1> DEFINE b == NextBlock(BlockAt(e), delay, txs, diff)
           rs == Fulfilled(e).reservations
           st == Stored(Fulfilled(e).blocks)
           x == <<e + 1, diff>>
<1>0. /\ Base \in Nat /\ Base' = Base /\ (Forked' <=> Forked) /\ origin \in Origins
      /\ Stored(number_to_block)' = Stored(number_to_block') /\ delay \in Nat
  BY SameOrigin, OriginType, BlockStorageAssumption DEF StorageInv
<1>1. last_block_number = e
  BY EndIs DEF InsertBlockFails
<1>2. /\ Base <= e /\ e \in Base .. e
      /\ last_block = BlockAt(e) /\ BlockAt(e) \in Block /\ BlockAt(e).number = e
      /\ BlockAt(e).state_root = state_diffs /\ state_diffs \in Roots
  BY <1>1, LastBlockIs
<1>3. b.number = e + 1 /\ x \in Nat \X (Diffs \cup {genesis_diff})
  <2> DEFINE a == BlockAt(e)
  <2>1. b = NextBlock(a, delay, txs, diff) /\ a \in Block /\ delay \in Nat
    BY <1>0, <1>2
  <2>2. a.number = e
    BY <1>2
  <2> HIDE DEF a, b
  <2>3. BuiltOn(b, a, txs, diff)
    BY <2>1, NextBlockType
  <2> QED
    BY <2>2, <2>3 DEF BuiltOn
<1>4. /\ last_block_number' = e + 1
      /\ number_to_diff_index' = Put(number_to_diff_index, e + 1, Len(state_diffs) + 1)
      /\ state_diffs' = Append(state_diffs, x)
      /\ heads' = heads \cup {e + 1}
      /\ reservations' = rs
      /\ number_to_block' = Fulfilled(e).blocks
      /\ UNCHANGED <<transaction_hash_to_block, transaction_hash_to_receipt>>
  BY <1>1, <1>2, <1>3 DEF InsertBlockFails, Advance, block_by_number
<1>5. /\ Laid(Base, rs, st, e)
      /\ Indexed(Base, rs, st, number_to_diff_index, state_diffs, e, e)
      /\ Filed(Fulfilled(e).blocks, transaction_hash_to_block, transaction_hash_to_receipt)
      /\ Forked => Base \notin DOMAIN Fulfilled(e).blocks
      /\ \A m \in Base .. e : View(rs, st, m) = BlockAt(m)
  BY <1>1, <1>2, LastRead
<1>6. Stored(number_to_block)' = st
  BY <1>0, <1>4
<1> HIDE DEF b, rs, st, x
<1>7. Indexed(Base, rs, st, Put(number_to_diff_index, e + 1, Len(state_diffs) + 1),
              Append(state_diffs, x), e + 1, e)
  <2>1. e # e + 1
    OBVIOUS
  <2> QED
    BY <1>0, <1>3, <1>5, <2>1, IndexedAdvance
<1>8. heads' \subseteq Base .. (e + 1)
  <2>1. heads \subseteq Base .. e
    BY <1>1 DEF StorageInv
  <2>2. Base .. e \subseteq Base .. (e + 1) /\ e + 1 \in Base .. (e + 1)
    BY <1>0, <1>2
  <2> QED
    BY <1>4, <2>1, <2>2
<1>9. IF Forked THEN Base \notin DOMAIN number_to_block'
      ELSE Base \in DOMAIN number_to_diff_index' /\ number_to_diff_index'[Base] = 1
  <2>1. ~ Forked => Base \in DOMAIN number_to_diff_index /\ number_to_diff_index[Base] = 1
    BY DEF StorageInv
  <2>2. Base # e + 1
    BY <1>0, <1>2
  <2>3. /\ DOMAIN number_to_diff_index' = DOMAIN number_to_diff_index \cup {e + 1}
        /\ \A y \in DOMAIN number_to_diff_index : y # e + 1 =>
             number_to_diff_index'[y] = number_to_diff_index[y]
    <3>1. number_to_diff_index' = Put(number_to_diff_index, e + 1, Len(state_diffs) + 1)
      BY <1>4
    <3> QED
      BY <3>1 DEF Put
  <2> QED
    BY <1>4, <1>5, <2>1, <2>2, <2>3
<1>10. StorageInv(e)'
  BY <1>0, <1>4, <1>5, <1>6, <1>7, <1>8, <1>9 DEF StorageInv
<1>11. Kept(e)
  BY <1>4, <1>5, <1>6, BlockAtView DEF Kept
<1> QED
  BY <1>10, <1>11

(* The range that is reserved behind block e. *)
NewRange(e, additional, interval, diffs) ==
  [first_number |-> e + 1, last_number |-> e + additional, interval |-> interval,
   previous_state_root |-> diffs, previous_diff_index |-> Len(diffs)]

(* Reserving changes no block, and the new numbers are in the new range. *)
LEMMA ReserveStep ==
  ASSUME NEW e \in Nat, StorageInv(e), origin' = origin, NEW additional \in 1 .. MaxBlocks,
         NEW interval \in Intervals, ReserveBlocks(additional, interval)
  PROVE  /\ StorageInv(e + additional)' /\ Kept(e) /\ last_block_number = e
         /\ \A n \in e + 1 .. e + additional :
              /\ Reserved(reservations', n)
              /\ The(reservations', n) = NewRange(e, additional, interval, state_diffs)
<1> DEFINE r == NewRange(e, additional, interval, state_diffs)
           rs == Fulfilled(e).reservations
           st == Stored(Fulfilled(e).blocks)
           rs2 == rs \cup {r}
           k == e + additional
<1>0. /\ Base \in Nat /\ Base' = Base /\ (Forked' <=> Forked) /\ origin \in Origins
      /\ Stored(number_to_block)' = Stored(number_to_block')
      /\ additional \in Nat /\ 1 <= additional /\ k \in Nat /\ e + 1 <= k
  BY SameOrigin, OriginType, BlockStorageAssumption DEF StorageInv
<1>1. last_block_number = e
  BY EndIs DEF ReserveBlocks
<1>2. /\ Base <= e /\ e \in Base .. e
      /\ last_block = BlockAt(e) /\ BlockAt(e).state_root = state_diffs /\ state_diffs \in Roots
  BY <1>1, LastBlockIs
<1>3. r \in Reservation /\ r.first_number = e + 1 /\ r.last_number = k
      /\ r.previous_state_root = state_diffs /\ r.previous_diff_index = Len(state_diffs)
  <2>1. Len(state_diffs) \in Nat
    BY <1>2 DEF Roots
  <2> QED
    BY <1>0, <1>2, <2>1 DEF NewRange, Reservation
<1>4. /\ last_block_number' = k
      /\ heads' = heads \cup {k}
      /\ reservations' = rs2
      /\ number_to_block' = Fulfilled(e).blocks
      /\ state_diffs # <<>>
      /\ UNCHANGED <<transaction_hash_to_block, transaction_hash_to_receipt, state_diffs,
                     number_to_diff_index>>
  BY <1>1, <1>2 DEF ReserveBlocks, NewRange
<1>5. /\ Laid(Base, rs, st, e)
      /\ Indexed(Base, rs, st, number_to_diff_index, state_diffs, e, e)
      /\ Filed(Fulfilled(e).blocks, transaction_hash_to_block, transaction_hash_to_receipt)
      /\ Forked => Base \notin DOMAIN Fulfilled(e).blocks
      /\ \A m \in Base .. e : View(rs, st, m) = BlockAt(m)
  BY <1>1, <1>2, LastRead
<1>6. Stored(number_to_block)' = st
  BY <1>0, <1>4
<1> HIDE DEF r, rs, st, k
<1>7. WithRange(Base, rs, st, e, rs2, r)
  BY <1>0, <1>3, <1>5, LaidReserve
<1>8. /\ Laid(Base, rs2, st, k) /\ Continues(Base, rs, st, rs2, st, e)
      /\ \A n \in e + 1 .. k : Reserved(rs2, n) /\ The(rs2, n) = r
  BY <1>3, <1>7 DEF WithRange
<1>9. Indexed(Base, rs2, st, number_to_diff_index, state_diffs, k, k)
  BY <1>0, <1>3, <1>4, <1>5, IndexedReserve
<1> HIDE DEF rs2
<1>10. \A n \in Base .. e : View(rs2, st, n) = BlockAt(n)
  <2> TAKE n \in Base .. e
  <2>1. e <= k
    BY <1>0
  <2>2. View(rs2, st, n) = View(rs, st, n)
    BY <1>0, <1>2, <1>5, <1>8, <2>1, ViewContinues
  <2> QED
    BY <1>5, <2>2
<1>11. heads' \subseteq Base .. k
  <2>1. heads \subseteq Base .. e
    BY <1>1 DEF StorageInv
  <2>2. Base .. e \subseteq Base .. k /\ k \in Base .. k
    BY <1>0, <1>2
  <2> QED
    BY <1>4, <2>1, <2>2
<1>12. IF Forked THEN Base \notin DOMAIN number_to_block'
       ELSE Base \in DOMAIN number_to_diff_index' /\ number_to_diff_index'[Base] = 1
  <2>1. ~ Forked => Base \in DOMAIN number_to_diff_index /\ number_to_diff_index[Base] = 1
    BY DEF StorageInv
  <2> QED
    BY <1>4, <1>5, <2>1
<1>13. StorageInv(k)'
  BY <1>0, <1>4, <1>5, <1>6, <1>8, <1>9, <1>11, <1>12 DEF StorageInv
<1>14. Kept(e)
  BY <1>4, <1>6, <1>10, BlockAtView DEF Kept
<1> QED
  BY <1>1, <1>4, <1>8, <1>13, <1>14 DEF k, r

(* A chain with one block. *)
LEMMA OneBlock ==
  ASSUME NEW base \in Nat, NEW st, DOMAIN st = {base}, st[base] \in Block, st[base].number = base,
         NEW index, NEW diffs, st[base].state_root = diffs,
         \A n \in DOMAIN index : n = base /\ index[n] = Len(diffs) /\ Len(diffs) >= 1
  PROVE  Laid(base, {}, st, base) /\ Indexed(base, {}, st, index, diffs, base, base)
<1>0. \A n : ~ Reserved({}, n)
  BY DEF Reserved, find_reservation
<1>1. \A n : n \in base .. base <=> n = base
  OBVIOUS
<1>2. Ranges(base, {}, base)
  BY DEF Ranges
<1>3. Covered(base, {}, st, base)
  BY <1>0, <1>1 DEF Covered
<1>4. diffs \in Roots /\ Len(diffs) \in Nat /\ SubSeq(diffs, 1, Len(diffs)) = diffs
  <2>1. diffs \in Roots
    BY DEF Block, Roots
  <2> QED
    BY <2>1 DEF Roots
<1>5. /\ View({}, st, base) = st[base]
      /\ \A n : Index({}, index, n) = IF n \in DOMAIN index THEN index[n] ELSE None
  BY <1>0 DEF View, Index
<1>6. Index({}, index, base) # None =>
        Index({}, index, base) = Len(diffs) /\ Len(diffs) \in 1 .. Len(diffs)
  BY <1>4, <1>5
<1>7. \A n \in base .. base : n = base
  BY <1>1
<1>8. DOMAIN index \subseteq base .. base
  BY <1>1
<1> HIDE DEF View, Index
<1>9. Indexed(base, {}, st, index, diffs, base, base)
  <2>1. \A n \in base .. base :
          Index({}, index, n) # None => Index({}, index, n) \in 1 .. Len(diffs)
    BY <1>6, <1>7
  <2>2. \A m, n \in base .. base :
          m <= n /\ Index({}, index, m) # None /\ Index({}, index, n) # None =>
            Index({}, index, m) <= Index({}, index, n)
    BY <1>4, <1>6, <1>7
  <2>3. \A n \in base .. base : Index({}, index, n) # None =>
          SubSeq(diffs, 1, Index({}, index, n)) = View({}, st, n).state_root
    BY <1>4, <1>5, <1>6, <1>7
  <2>4. \A n \in DOMAIN index : index[n] # None
    <3>1. Len(diffs) # None
      BY <1>4, BlockStorageAssumption
    <3> QED
      BY <3>1
  <2> QED
    BY <1>0, <1>4, <1>5, <1>8, <2>1, <2>2, <2>3, <2>4 DEF Indexed
<1> QED
  BY <1>2, <1>3, <1>9 DEF Laid

(* Without transactions there is nothing to file. *)
LEMMA NothingFiled ==
  ASSUME NEW blocks, \A n \in DOMAIN blocks : blocks[n].transactions = {},
         NEW by_hash, DOMAIN by_hash = {}, NEW receipts, DOMAIN receipts = {}
  PROVE  Filed(blocks, by_hash, receipts)
<1> QED
  BY DEF Filed

(* The first block of a chain. *)
LEMMA FirstBlock ==
  ASSUME NEW e \in Nat, StorageInv(e), Forked
  PROVE  BlockAt(Base) = BaseBlock
<1>0. Base \in Nat /\ Laid(Base, reservations, Stored(number_to_block), e)
  BY OriginType DEF StorageInv
<1>1. ~ Reserved(reservations, Base)
  <2> SUFFICES ASSUME Reserved(reservations, Base) PROVE FALSE
    OBVIOUS
  <2>1. /\ The(reservations, Base) \in Reservation
        /\ The(reservations, Base).first_number <= Base
        /\ Base < The(reservations, Base).first_number
    BY <1>0, TheType DEF Laid
  <2> QED
    BY <1>0, <2>1 DEF Reservation
<1> QED
  BY <1>1 DEF BlockAt, Stored, Put

(* Starting over with the forked block. *)
LEMMA RevertToForkStep ==
  ASSUME NEW e \in Nat, StorageInv(e), origin' = origin, Forked, RevertToFork,
         NEW n, n = Base, last_block_number' = n, heads' = {m \in heads : m <= n}
  PROVE  StorageInv(n)' /\ Kept(n)
<1>0. /\ Base \in Nat /\ Base' = Base /\ (Forked' <=> Forked) /\ origin \in Origins
      /\ Stored(number_to_block)' = Stored(number_to_block')
  BY SameOrigin, OriginType DEF StorageInv
<1>1. BaseBlock \in Block /\ BaseBlock.number = Base /\ BaseBlock.state_root = <<>>
  BY <1>0, BaseBlockType DEF BaseBlock
<1>2. /\ reservations' = {} /\ DOMAIN number_to_block' = {}
      /\ DOMAIN transaction_hash_to_block' = {} /\ DOMAIN transaction_hash_to_receipt' = {}
      /\ state_diffs' = <<>> /\ DOMAIN number_to_diff_index' = {}
  BY DEF RevertToFork
<1> DEFINE st == Stored(number_to_block')
<1>3. DOMAIN st = {Base} /\ st[Base] = BaseBlock
  BY <1>2 DEF Stored, Put
<1> HIDE DEF st
<1>4. Laid(Base, {}, st, Base) /\ Indexed(Base, {}, st, number_to_diff_index', <<>>, Base, Base)
  BY <1>0, <1>1, <1>2, <1>3, OneBlock
<1>5. Filed(number_to_block', transaction_hash_to_block', transaction_hash_to_receipt')
  BY <1>2, NothingFiled
<1>6. heads' \subseteq Base .. Base
  <2>1. \A m \in heads : m \in Int /\ Base <= m
    BY <1>0 DEF StorageInv
  <2> QED
    BY <1>0, <2>1
<1>7. StorageInv(n)'
  BY <1>0, <1>2, <1>4, <1>5, <1>6 DEF StorageInv, st
<1>8. BlockAt(Base)' = BaseBlock
  <2>1. View({}, st, Base) = st[Base]
    BY DEF View, Reserved, find_reservation
  <2> QED
    BY <1>0, <1>2, <1>3, <2>1, BlockAtView DEF st
<1>9. Kept(n)
  <2>1. \A m \in Base .. Base : m = Base
    BY <1>0
  <2>2. BlockAt(Base)' = BlockAt(Base)
    BY <1>8, FirstBlock
  <2> SUFFICES ASSUME NEW m \in Base .. n PROVE BlockAt(m)' = BlockAt(m)
    BY DEF Kept
  <2>3. m = Base
    BY <2>1
  <2>4. BlockAt(m)' = View(reservations', Stored(number_to_block)', m)
    BY BlockAtView
  <2>5. BlockAt(Base)' = View(reservations', Stored(number_to_block)', Base')
    BY <1>0, BlockAtView
  <2> QED
    BY <1>0, <2>2, <2>3, <2>4, <2>5
<1> QED
  BY <1>7, <1>9

(* Cutting off the blocks after block n, and their diffs. *)
LEMMA CutStep ==
  ASSUME NEW e \in Nat, StorageInv(e), origin' = origin, NEW n \in heads,
         Index(reservations, number_to_diff_index, n) # None,
         RevertSparse(n), reservations' = Cut(reservations, n),
         state_diffs' = SubSeq(state_diffs, 1, Index(reservations, number_to_diff_index, n)),
         number_to_diff_index' =
           [m \in {k \in DOMAIN number_to_diff_index : k <= n} |-> number_to_diff_index[m]],
         last_block_number' = n, heads' = {m \in heads : m <= n}
  PROVE  StorageInv(Lesser(n, e))' /\ Kept(Lesser(n, e)) /\ Lesser(n, e) \in Base .. e
<1> DEFINE k == Lesser(n, e)
           st == Stored(number_to_block)
           st2 == Stored(number_to_block')
<1>0. /\ Base \in Nat /\ Base' = Base /\ (Forked' <=> Forked) /\ origin \in Origins
      /\ Stored(number_to_block)' = st2
      /\ Laid(Base, reservations, st, e) /\ last_block_number \in {e, e + 1}
      /\ Indexed(Base, reservations, st, number_to_diff_index, state_diffs, last_block_number, e)
      /\ Filed(number_to_block, transaction_hash_to_block, transaction_hash_to_receipt)
      /\ heads \subseteq Base .. last_block_number
  BY SameOrigin, OriginType DEF StorageInv
<1>1. n \in Nat /\ Base <= n /\ n <= e + 1 /\ n \in Base .. last_block_number
  BY <1>0
<1>2. k \in Nat /\ k \in Base .. e /\ k <= n /\ n \in {k, k + 1} /\ Base <= k
  BY <1>0, <1>1 DEF Lesser, Laid
<1> DEFINE kept == {m \in DOMAIN number_to_block : m <= n}
           gone == UNION {number_to_block[m].transactions : m \in DOMAIN number_to_block \ kept}
<1>3. /\ CutDown(number_to_block', number_to_block, kept)
      /\ CutDown(transaction_hash_to_block', transaction_hash_to_block,
                 DOMAIN transaction_hash_to_block \ gone)
      /\ CutDown(transaction_hash_to_receipt', transaction_hash_to_receipt,
                 DOMAIN transaction_hash_to_receipt \ gone)
  BY DEF RevertSparse, CutDown
<1>4. DOMAIN st2 = {m \in DOMAIN st : m <= n} /\ \A m \in DOMAIN st2 : st2[m] = st[m]
  BY <1>1, <1>3 DEF CutDown, Stored, Put
<1>5. \A m \in DOMAIN number_to_block : number_to_block[m].number = m
  <2>1. \A m \in DOMAIN st : st[m].number = m
    BY <1>0 DEF Laid, Covered
  <2>2. \A m \in DOMAIN number_to_block : m \in DOMAIN st /\ st[m] = number_to_block[m]
    <3>1. Forked => Base \notin DOMAIN number_to_block
      BY DEF StorageInv
    <3> QED
      BY <3>1, StoredDomain
  <2> QED
    BY <2>1, <2>2
<1>6. Filed(number_to_block', transaction_hash_to_block', transaction_hash_to_receipt')
  <2>1. kept \subseteq DOMAIN number_to_block
    OBVIOUS
  <2>2. gone = UNION {number_to_block[m].transactions : m \in DOMAIN number_to_block \ kept}
    OBVIOUS
  <2> HIDE DEF kept, gone
  <2> QED
    BY <1>0, <1>3, <1>5, <2>1, <2>2, FiledCut
<1> HIDE DEF k, st, st2, kept, gone
<1>7. Laid(Base, Cut(reservations, n), st2, k)
      /\ Continues(Base, reservations, st, Cut(reservations, n), st2, k)
  BY <1>0, <1>1, <1>4, LaidCut DEF k
<1>8. Indexed(Base, reservations', st2, number_to_diff_index', state_diffs', n, k)
  BY <1>0, <1>1, <1>4, IndexedCut, SMTT(30) DEF k
<1>9. \A m \in Base .. k : View(reservations', st2, m) = BlockAt(m)
  <2> TAKE m \in Base .. k
  <2>1. k <= k
    BY <1>2
  <2>2. View(reservations', st2, m) = View(reservations, st, m)
    BY <1>0, <1>2, <1>7, <2>1, ViewContinues
  <2> QED
    BY <2>2, BlockAtView DEF st
<1>10. heads' \subseteq Base .. n
  <2>1. \A m \in heads : m \in Int /\ Base <= m
    BY <1>0
  <2>2. \A m \in Int : Base <= m /\ m <= n => m \in Base .. n
    BY <1>0, <1>1
  <2>3. \A m \in heads' : m \in heads /\ m <= n
    OBVIOUS
  <2> QED
    BY <2>1, <2>2, <2>3
<1>11. IF Forked THEN Base \notin DOMAIN number_to_block'
       ELSE Base \in DOMAIN number_to_diff_index' /\ number_to_diff_index'[Base] = 1
  <2>1. IF Forked THEN Base \notin DOMAIN number_to_block
        ELSE Base \in DOMAIN number_to_diff_index /\ number_to_diff_index[Base] = 1
    BY DEF StorageInv
  <2>2. DOMAIN number_to_block' \subseteq DOMAIN number_to_block
    BY <1>3 DEF CutDown, kept
  <2> QED
    BY <1>1, <2>1, <2>2
<1>12. StorageInv(k)'
  BY <1>0, <1>2, <1>6, <1>7, <1>8, <1>10, <1>11 DEF StorageInv
<1>13. Kept(k)
  BY <1>0, <1>9, BlockAtView DEF Kept
<1> QED
  BY <1>2, <1>12, <1>13 DEF k

(* A revert, to the first block or a later one, keeps the blocks up to it. *)
LEMMA RevertStep ==
  ASSUME NEW e \in Nat, StorageInv(e), origin' = origin, NEW n \in heads, RevertToBlock(n)
  PROVE  \E k \in Base .. e : StorageInv(k)' /\ Kept(k)
<1>0. /\ Base \in Nat /\ (~ Forked => Base = 0) /\ Base <= e
      /\ Ranges(Base, reservations, e)
      /\ last_block_number' = n /\ heads' = {m \in heads : m <= n}
  BY OriginType DEF StorageInv, Laid, RevertToBlock
<1>1. CASE n = Base /\ Forked /\ RevertToFork
  <2>1. StorageInv(n)' /\ Kept(n)
    BY <1>0, <1>1, RevertToForkStep
  <2>2. n \in Base .. e
    BY <1>0, <1>1
  <2> QED
    BY <2>1, <2>2
<1>2. CASE n = Base /\ ~ Forked /\ RevertToGenesis
  <2>1. Base \in DOMAIN number_to_diff_index /\ number_to_diff_index[Base] = 1
    BY <1>2 DEF StorageInv
  <2>2. Index(reservations, number_to_diff_index, n) = 1 /\ 1 # None
    BY <1>2, <2>1, BlockStorageAssumption DEF Index
  <2>3. reservations' = Cut(reservations, n)
    <3>1. \A r \in reservations : ~ (r.first_number <= n)
      BY <1>0, <1>2 DEF Ranges, Reservation
    <3> QED
      BY <1>2, <3>1 DEF RevertToGenesis, Cut
  <2>4. number_to_diff_index' =
          [m \in {k \in DOMAIN number_to_diff_index : k <= n} |-> number_to_diff_index[m]]
    <3>1. \A m \in DOMAIN number_to_diff_index : m \in Int /\ Base <= m
      BY <1>0 DEF StorageInv, Indexed
    <3>2. {k \in DOMAIN number_to_diff_index : k <= n} = {Base}
      BY <1>0, <1>2, <2>1, <3>1
    <3> QED
      BY <1>0, <1>2, <2>1, <3>2 DEF RevertToGenesis
  <2>5. RevertSparse(n) /\ state_diffs' = SubSeq(state_diffs, 1, 1)
    BY <1>0, <1>2 DEF RevertToGenesis
  <2>6. /\ Index(reservations, number_to_diff_index, n) # None
        /\ state_diffs' = SubSeq(state_diffs, 1, Index(reservations, number_to_diff_index, n))
    BY <2>2, <2>5
  <2>7. /\ StorageInv(Lesser(n, e))' /\ Kept(Lesser(n, e)) /\ Lesser(n, e) \in Base .. e
    BY <1>0, <2>3, <2>4, <2>5, <2>6, CutStep
  <2> QED
    BY <2>7
<1>3. CASE RevertToLater(n)
  <2>1. diff_index(n) = Index(reservations, number_to_diff_index, n)
    BY DEF diff_index, Index
  <2>2. reservations' = Cut(reservations, n)
    BY <1>3 DEF RevertToLater, RevertReservations, Cut, CutRange
  <2>3. /\ Index(reservations, number_to_diff_index, n) # None /\ RevertSparse(n)
        /\ state_diffs' = SubSeq(state_diffs, 1, Index(reservations, number_to_diff_index, n))
        /\ number_to_diff_index' =
             [m \in {k \in DOMAIN number_to_diff_index : k <= n} |-> number_to_diff_index[m]]
    BY <1>3, <2>1 DEF RevertToLater
  <2> QED
    BY <1>0, <2>2, <2>3, CutStep
<1> QED
  BY <1>1, <1>2, <1>3 DEF RevertToBlock

(* A chain starts in order. *)
LEMMA InitInv ==
  ASSUME Init
  PROVE  Base \in Nat /\ StorageInv(Base) /\ BlockAt(Base) = BaseBlock
<1>0. Base \in Nat /\ origin \in Origins /\ (~ Forked => Base = 0)
  BY OriginType DEF Init
<1>1. BaseBlock \in Block /\ BaseBlock.number = Base /\ BaseBlock.transactions = {}
  BY <1>0, BaseBlockType DEF BaseBlock
<1> DEFINE st == Stored(number_to_block)
<1>2. DOMAIN st = {Base} /\ st[Base] = BaseBlock
  BY DEF Init, Stored, Put
<1>3. \A n \in DOMAIN number_to_diff_index :
        n = Base /\ number_to_diff_index[n] = Len(state_diffs) /\ Len(state_diffs) >= 1
  <2>1. CASE Forked
    BY <2>1 DEF Init
  <2>2. CASE ~ Forked
    <3>1. state_diffs = << <<Base, genesis_diff>> >> /\ number_to_diff_index = [n \in {Base} |-> 1]
      BY <2>2 DEF Init, BaseBlock
    <3> QED
      BY <3>1
  <2> QED
    BY <2>1, <2>2
<1>4. /\ BaseBlock.state_root = state_diffs /\ reservations = {}
      /\ last_block_number = Base /\ heads = {Base}
      /\ \A n \in DOMAIN number_to_block : number_to_block[n].transactions = {}
      /\ DOMAIN transaction_hash_to_block = {} /\ DOMAIN transaction_hash_to_receipt = {}
  <2>1. \A n \in DOMAIN number_to_block : number_to_block[n] = BaseBlock
    BY DEF Init
  <2> QED
    BY <1>1, <2>1 DEF Init
<1> HIDE DEF st
<1>5. /\ Laid(Base, {}, st, Base)
      /\ Indexed(Base, {}, st, number_to_diff_index, state_diffs, Base, Base)
  BY <1>0, <1>1, <1>2, <1>3, <1>4, OneBlock
<1>6. Filed(number_to_block, transaction_hash_to_block, transaction_hash_to_receipt)
  BY <1>4, NothingFiled
<1>7. IF Forked THEN Base \notin DOMAIN number_to_block
      ELSE Base \in DOMAIN number_to_diff_index /\ number_to_diff_index[Base] = 1
  BY DEF Init
<1>8. heads \subseteq Base .. last_block_number
  BY <1>0, <1>4
<1>9. StorageInv(Base)
  BY <1>0, <1>4, <1>5, <1>6, <1>7, <1>8 DEF StorageInv, st
<1>10. BlockAt(Base) = BaseBlock
  <2>1. ~ Reserved(reservations, Base)
    BY <1>4 DEF Reserved, find_reservation
  <2> QED
    BY <1>2, <2>1 DEF BlockAt, st
<1> QED
  BY <1>0, <1>9, <1>10

(* A step that changes nothing. *)
LEMMA StutterStep ==
  ASSUME NEW e \in Nat, StorageInv(e), UNCHANGED vars
  PROVE  StorageInv(e)' /\ Kept(e)
<1>0. /\ Base' = Base /\ (Forked' <=> Forked)
      /\ Stored(number_to_block)' = Stored(number_to_block)
  BY SameOrigin DEF vars
<1>1. StorageInv(e)'
  BY <1>0 DEF StorageInv, vars
<1>2. Kept(e)
  BY <1>0, BlockAtView DEF Kept, vars
<1> QED
  BY <1>1, <1>2

(* Every step keeps the storage in order. *)
LEMMA NextInv ==
  ASSUME IInv, [Next]_vars
  PROVE  IInv'
<1>0. PICK e \in Nat : StorageInv(e)
  BY DEF IInv
<1> SUFFICES \E k \in Nat : StorageInv(k)'
  BY DEF IInv
<1>1. Base \in Nat /\ MaxNumber \in Nat
  BY <1>0, OriginType DEF StorageInv
<1>2. CASE UNCHANGED vars
  BY <1>0, <1>2, StutterStep
<1>3. CASE Next
  <2>0. origin' = origin
    BY <1>3 DEF Next
  <2>1. ASSUME NEW n \in Base .. MaxNumber, ReadBlock(n)
        PROVE  \E k \in Nat : StorageInv(k)'
    BY <1>0, <1>1, <2>0, <2>1, ReadStep
  <2>2. ASSUME NEW delay \in Delays, NEW txs \in SUBSET Transactions, NEW diff \in Diffs,
               InsertBlock(delay, txs, diff)
        PROVE  \E k \in Nat : StorageInv(k)'
    <3>1. StorageInv(e + 1)' /\ e + 1 \in Nat
      BY <1>0, <2>0, <2>2, InsertStep
    <3> QED
      BY <3>1
  <2>3. ASSUME NEW delay \in Delays, NEW txs \in SUBSET Transactions, NEW diff \in Diffs,
               InsertBlockFails(delay, txs, diff)
        PROVE  \E k \in Nat : StorageInv(k)'
    BY <1>0, <2>0, <2>3, InsertFailsStep
  <2>4. ASSUME NEW additional \in 1 .. MaxBlocks, NEW interval \in Intervals,
               ReserveBlocks(additional, interval)
        PROVE  \E k \in Nat : StorageInv(k)'
    <3>1. StorageInv(e + additional)'
      BY <1>0, <2>0, <2>4, ReserveStep
    <3>2. e + additional \in Nat
      BY BlockStorageAssumption
    <3> QED
      BY <3>1, <3>2
  <2>5. ASSUME NEW n \in heads, RevertToBlock(n)
        PROVE  \E k \in Nat : StorageInv(k)'
    <3>1. PICK k \in Base .. e : StorageInv(k)'
      BY <1>0, <2>0, <2>5, RevertStep
    <3>2. k \in Nat
      BY <1>1
    <3> QED
      BY <3>1, <3>2
  <2> QED
    BY <1>3, <2>1, <2>2, <2>3, <2>4, <2>5 DEF Next
<1> QED
  BY <1>2, <1>3

(* The storage is always in order. *)
LEMMA Invariant == Spec => []IInv
<1>1. Init => IInv
  BY InitInv DEF IInv
<1>2. IInv /\ [Next]_vars => IInv'
  BY NextInv
<1> QED
  BY <1>1, <1>2, PTL DEF Spec

-----------------------------------------------------------------------------
(* What the invariant says of the storage. *)

(* The blocks of the storage are blocks of the chain. *)
LEMMA StoredBlocks ==
  ASSUME NEW e \in Nat, StorageInv(e)
  PROVE  \A n \in DOMAIN number_to_block :
           /\ n \in Base .. e
           /\ number_to_block[n] \in Block /\ number_to_block[n].number = n
<1>1. Covered(Base, reservations, Stored(number_to_block), e)
  BY DEF StorageInv, Laid
<1>2. Forked => Base \notin DOMAIN number_to_block
  BY DEF StorageInv
<1>3. \A n \in DOMAIN number_to_block :
        n \in DOMAIN Stored(number_to_block) /\ Stored(number_to_block)[n] = number_to_block[n]
  BY <1>2, StoredDomain
<1> QED
  BY <1>1, <1>3 DEF Covered

(* The types follow from the order. *)
LEMMA InvTypeOK ==
  ASSUME IInv
  PROVE  TypeOK
<1>0. PICK e \in Nat : StorageInv(e)
  BY DEF IInv
<1>1. /\ Base \in Nat /\ last_block_number \in {e, e + 1}
      /\ Ranges(Base, reservations, e)
      /\ Indexed(Base, reservations, Stored(number_to_block), number_to_diff_index, state_diffs,
                 last_block_number, e)
  BY <1>0, OriginType DEF StorageInv, Laid
<1>2. last_block_number \in Nat /\ e <= last_block_number
  BY <1>1
<1>3. ASSUME NEW r \in reservations
      PROVE  /\ r.first_number \in Nat /\ r.last_number \in Nat
             /\ r.first_number <= r.last_number
             /\ r.previous_diff_index \in 1 .. Len(state_diffs)
  <2>1. /\ r \in Reservation /\ Base < r.first_number /\ r.first_number <= r.last_number
        /\ r.last_number <= e
    BY <1>1 DEF Ranges
  <2>2. r.first_number \in Nat /\ r.last_number \in Nat /\ r.previous_diff_index \in Nat
    BY <2>1 DEF Reservation
  <2> DEFINE n == r.first_number
  <2>3. n \in Int /\ n \in Base .. last_block_number /\ r.first_number <= n /\ n <= r.last_number
    BY <1>1, <1>2, <2>1, <2>2
  <2> HIDE DEF n
  <2>4. Reserved(reservations, n) /\ The(reservations, n) = r
    BY <1>1, <2>3, TheOne
  <2>5. n \notin DOMAIN number_to_diff_index
    BY <1>1, <2>4 DEF Indexed
  <2>6. Index(reservations, number_to_diff_index, n) = r.previous_diff_index
    BY <2>4, <2>5 DEF Index
  <2>7. r.previous_diff_index # None
    BY <2>2, BlockStorageAssumption
  <2>8. r.previous_diff_index \in 1 .. Len(state_diffs)
    BY <1>1, <2>3, <2>6, <2>7 DEF Indexed
  <2> QED
    BY <2>1, <2>2, <2>8
<1>4. ASSUME NEW n \in DOMAIN number_to_diff_index
      PROVE  number_to_diff_index[n] \in 1 .. Len(state_diffs)
  <2>1. Index(reservations, number_to_diff_index, n) = number_to_diff_index[n]
    BY DEF Index
  <2> QED
    BY <1>1, <2>1 DEF Indexed
<1>5. \A n \in DOMAIN number_to_block :
        number_to_block[n] \in Block /\ number_to_block[n].number = n
  BY <1>0, StoredBlocks
<1> QED
  BY <1>2, <1>3, <1>4, <1>5 DEF TypeOK

(* A number that is reserved is in one range, and not stored. *)
LEMMA InvEveryNumberOnce ==
  ASSUME IInv
  PROVE  EveryNumberOnce
<1>0. PICK e \in Nat : StorageInv(e)
  BY DEF IInv
<1>1. /\ Base \in Nat /\ Ranges(Base, reservations, e)
      /\ Covered(Base, reservations, Stored(number_to_block), e)
  BY <1>0, OriginType DEF StorageInv, Laid
<1>2. ChainEnd = e
  BY <1>0, EndIs
<1>3. ASSUME NEW n \in Base .. e
      PROVE  Cardinality(find_reservation(reservations, n))
               + (IF n \in DOMAIN Stored(number_to_block) THEN 1 ELSE 0) = 1
  <2>1. CASE Reserved(reservations, n)
    <3>1. /\ The(reservations, n) \in reservations
          /\ The(reservations, n).first_number <= n /\ n <= The(reservations, n).last_number
      BY <1>1, <2>1, TheType
    <3>2. n \in Int
      BY <1>1
    <3>3. find_reservation(reservations, n) = {The(reservations, n)}
      BY <1>1, <3>1, <3>2, TheOne
    <3>4. Cardinality({The(reservations, n)}) = 1
      BY FS_Singleton
    <3>5. n \notin DOMAIN Stored(number_to_block)
      BY <1>1, <2>1 DEF Covered
    <3> QED
      BY <3>3, <3>4, <3>5
  <2>2. CASE ~ Reserved(reservations, n)
    <3>1. find_reservation(reservations, n) = {}
      BY <2>2 DEF Reserved
    <3>2. Cardinality({}) = 0
      BY FS_EmptySet
    <3>3. n \in DOMAIN Stored(number_to_block)
      BY <1>1, <2>2 DEF Covered
    <3> QED
      BY <3>1, <3>2, <3>3
  <2> QED
    BY <2>1, <2>2
<1>4. \A n \in DOMAIN number_to_block : n <= e
  <2>1. \A n \in DOMAIN number_to_block : n \in Base .. e
    BY <1>0, StoredBlocks
  <2> QED
    BY <1>1, <2>1
<1>5. \A r \in reservations : r.last_number <= e
  BY <1>1 DEF Ranges
<1> QED
  BY <1>2, <1>3, <1>4, <1>5 DEF EveryNumberOnce

(* The diffs up to the index of a block lead to its state. *)
LEMMA InvDiffsExact ==
  ASSUME IInv
  PROVE  DiffsExact
<1>0. PICK e \in Nat : StorageInv(e)
  BY DEF IInv
<1>1. Indexed(Base, reservations, Stored(number_to_block), number_to_diff_index, state_diffs,
              last_block_number, e)
  BY <1>0 DEF StorageInv
<1>2. ChainEnd = e
  BY <1>0, EndIs
<1>3. ASSUME NEW n \in Base .. e, state_diffs_until_block(n) # None
      PROVE  state_diffs_until_block(n) = BlockAt(n).state_root
  <2>1. diff_index(n) = Index(reservations, number_to_diff_index, n)
    BY DEF diff_index, Index
  <2>2. /\ Index(reservations, number_to_diff_index, n) # None
        /\ state_diffs_until_block(n)
             = SubSeq(state_diffs, 1, Index(reservations, number_to_diff_index, n))
    BY <1>3, <2>1 DEF state_diffs_until_block
  <2> QED
    BY <1>1, <2>2, BlockAtView DEF Indexed
<1> QED
  BY <1>2, <1>3 DEF DiffsExact

(* The maps know the block of a transaction. *)
LEMMA InvTransactionIndexExact ==
  ASSUME IInv
  PROVE  TransactionIndexExact
<1>0. PICK e \in Nat : StorageInv(e)
  BY DEF IInv
<1>1. Filed(number_to_block, transaction_hash_to_block, transaction_hash_to_receipt)
  BY <1>0 DEF StorageInv
<1>2. \A n \in DOMAIN number_to_block : number_to_block[n].number = n
  BY <1>0, StoredBlocks
<1>3. DOMAIN transaction_hash_to_block
        = UNION {number_to_block[n].transactions : n \in DOMAIN number_to_block}
  <2>1. \A tx \in DOMAIN transaction_hash_to_block :
          \E n \in DOMAIN number_to_block : tx \in number_to_block[n].transactions
    BY <1>1 DEF Filed
  <2>2. \A n \in DOMAIN number_to_block : \A tx \in number_to_block[n].transactions :
          tx \in DOMAIN transaction_hash_to_block
    BY <1>1 DEF Filed
  <2> QED
    BY <2>1, <2>2
<1>4. ASSUME NEW tx \in DOMAIN transaction_hash_to_block
      PROVE  LET block == transaction_hash_to_block[tx]
             IN  /\ block.number \in DOMAIN number_to_block
                 /\ block = number_to_block[block.number]
                 /\ tx \in block.transactions
                 /\ transaction_hash_to_receipt[tx] = block.number
  <2>1. PICK n \in DOMAIN number_to_block : tx \in number_to_block[n].transactions
    BY <1>1 DEF Filed
  <2>2. transaction_hash_to_block[tx] = number_to_block[n]
    BY <1>1, <2>1 DEF Filed
  <2>3. transaction_hash_to_receipt[tx] = transaction_hash_to_block[tx].number
    BY <1>1 DEF Filed
  <2> QED
    BY <1>2, <2>1, <2>2, <2>3
<1>5. DOMAIN transaction_hash_to_receipt = DOMAIN transaction_hash_to_block
  BY <1>1 DEF Filed
<1> QED
  BY <1>3, <1>4, <1>5 DEF TransactionIndexExact

(* The fields of the storage have their types, whatever is mined, reserved,
   read and reverted. *)
THEOREM StorageTypes == Spec => []TypeOK
  BY Invariant, InvTypeOK, PTL

(* try_fulfilling_reservation, revert_to_block and insert_block leave every
   block number up to the last one stored, or in one reservation. *)
THEOREM NumbersOnce == Spec => []EveryNumberOnce
  BY Invariant, InvEveryNumberOnce, PTL

(* The diffs that revert_to_block keeps, and reserved blocks share, lead to the
   states that the headers of the blocks name. *)
THEOREM DiffsLeadToStates == Spec => []DiffsExact
  BY Invariant, InvDiffsExact, PTL

(* SparseBlockStorage finds a transaction and its receipt in the block that
   contains it, and nowhere once the block is deleted. *)
THEOREM TransactionsFound == Spec => []TransactionIndexExact
  BY Invariant, InvTransactionIndexExact, PTL

-----------------------------------------------------------------------------
(* The storage implements the eager chain. *)

(* A range of reserved blocks reads as empty blocks, one built on the other. *)
LEMMA ViewOf ==
  ASSUME NEW base \in Nat, NEW k \in Nat, NEW rs, NEW st, Laid(base, rs, st, k), NEW n \in base .. k
  PROVE  /\ View(rs, st, n).timestamp = calculate_timestamp_for_reserved_block(rs, st)[n]
         /\ View(rs, st, n).slot_number = calculate_slot_number_for_reserved_block(rs, st)[n]
<1> DEFINE t == calculate_timestamp_for_reserved_block(rs, st)
           s == calculate_slot_number_for_reserved_block(rs, st)
<1>1. Times(base, rs, st, t, k) /\ Slots(base, rs, st, s, k)
  BY TimesExist, SlotsExist
<1>2. t[n] = TimeAt(rs, st, t, n) /\ s[n] = SlotAt(rs, st, s, n)
  BY <1>1 DEF Times, Slots
<1>3. CASE Reserved(rs, n)
  BY <1>3 DEF View, ReservedView
<1>4. CASE ~ Reserved(rs, n)
  <2>1. View(rs, st, n) = st[n]
    BY <1>4 DEF View
  <2>2. t[n] = st[n].timestamp /\ s[n] = st[n].slot_number
    BY <1>2, <1>4 DEF TimeAt, SlotAt
  <2> QED
    BY <2>1, <2>2
<1> QED
  BY <1>3, <1>4

(* The timestamp and the slot number follow those of the block before. *)
LEMMA EmptyBlocks ==
  ASSUME NEW base \in Nat, NEW k \in Nat, NEW rs, NEW st, Laid(base, rs, st, k),
         NEW e \in base .. k, NEW r \in Reservation, r.first_number = e + 1,
         \A m \in e + 1 .. k : Reserved(rs, m) /\ The(rs, m) = r,
         View(rs, st, e).state_root = r.previous_state_root, NEW n \in e + 1 .. k
  PROVE  View(rs, st, n) = EmptyBlock(View(rs, st, n - 1), r.interval)
<1> DEFINE t == calculate_timestamp_for_reserved_block(rs, st)
           s == calculate_slot_number_for_reserved_block(rs, st)
           p == View(rs, st, n - 1)
<1>0. /\ e \in Nat /\ n \in Nat /\ n - 1 \in base .. k /\ n \in base .. k /\ n - 1 \in Nat
      /\ r.interval \in Nat /\ (n - 1 = e \/ n - 1 \in e + 1 .. k) /\ r.first_number - 1 = e
  <2>1. r.interval \in Nat
    BY BlockStorageAssumption DEF Reservation
  <2>2. (e + 1) - 1 = e /\ e \in Nat /\ n \in Nat /\ base <= e /\ e + 1 <= n /\ n <= k
    OBVIOUS
  <2>3. n - 1 \in base .. k /\ n \in base .. k /\ n - 1 \in Nat
    BY <2>2
  <2>4. n - 1 = e \/ n - 1 \in e + 1 .. k
    BY <2>2
  <2> QED
    BY <2>1, <2>2, <2>3, <2>4
<1>1. Times(base, rs, st, t, k) /\ Slots(base, rs, st, s, k)
  BY TimesExist, SlotsExist
<1>2. /\ \A m \in base .. k : t[m] \in Nat /\ s[m] \in {None} \cup Nat
  BY <1>1, TimesType, SlotsType
<1>3. p \in Block /\ p.number = n - 1 /\ p.timestamp = t[n - 1] /\ p.slot_number = s[n - 1]
  BY <1>0, ViewType, ViewOf
<1>4. \A m \in e + 1 .. k : m \in base .. k
  BY <1>0
<1>5. \A m \in e + 1 .. k : t[m] = t[e] + r.interval * (m - (e + 1) + 1)
  BY <1>0, <1>1, <1>4 DEF Times, TimeAt
<1>6. \A m \in e + 1 .. k :
        s[m] = IF ~ Amsterdam THEN None
               ELSE IF s[e] = None THEN m - (e + 1) ELSE s[e] + (m - e)
  BY <1>0, <1>1, <1>4 DEF Slots, SlotAt
<1>7. View(rs, st, n) = [number |-> n, timestamp |-> t[n], slot_number |-> s[n],
                         state_root |-> r.previous_state_root, transactions |-> {}]
  BY DEF View, ReservedView
<1>8. p.state_root = r.previous_state_root
  <2>1. CASE n - 1 = e
    BY <2>1
  <2>2. CASE n - 1 \in e + 1 .. k
    BY <2>2 DEF View, ReservedView
  <2> QED
    BY <1>0, <2>1, <2>2
<1> HIDE DEF t, s, p
<1>9. t[n] = p.timestamp + r.interval
  <2>1. CASE n - 1 = e
    <3>1. n - (e + 1) + 1 = 1
      BY <1>0, <2>1
    <3>2. r.interval * 1 = r.interval
      BY <1>0
    <3> QED
      BY <1>3, <1>5, <2>1, <3>1, <3>2
  <2>2. CASE n - 1 \in e + 1 .. k
    <3> DEFINE a == (n - 1) - (e + 1) + 1
               c == n - (e + 1) + 1
               i == r.interval
    <3>1. a \in Int /\ c \in Int /\ c = a + 1 /\ i \in Nat
      BY <1>0
    <3>2. t[n] = t[e] + i * c /\ t[n - 1] = t[e] + i * a /\ t[e] \in Nat
      BY <1>0, <1>2, <1>5, <2>2
    <3> HIDE DEF a, c, i
    <3>3. i * c = i * a + i * 1 /\ i * 1 = i
      BY <3>1, Distribute
    <3>4. i * a \in Int /\ i * c \in Int
      BY <3>1
    <3>5. t[n] = t[n - 1] + i
      BY <3>1, <3>2, <3>3, <3>4
    <3> QED
      BY <1>3, <3>5 DEF i
  <2> QED
    BY <1>0, <2>1, <2>2
<1>10. s[n] = next_slot_number(p)
  <2>1. CASE ~ Amsterdam
    BY <1>6, <2>1 DEF next_slot_number
  <2>2. CASE Amsterdam /\ n - 1 = e
    <3>1. n - (e + 1) = 0 /\ n - e = 1
      BY <1>0, <2>2
    <3> QED
      BY <1>3, <1>6, <2>2, <3>1 DEF next_slot_number
  <2>3. CASE Amsterdam /\ n - 1 \in e + 1 .. k
    <3>1. /\ s[n - 1] = IF s[e] = None THEN (n - 1) - (e + 1) ELSE s[e] + ((n - 1) - e)
          /\ s[n] = IF s[e] = None THEN n - (e + 1) ELSE s[e] + (n - e)
      BY <1>6, <2>3
    <3>2. s[e] \in {None} \cup Nat
      BY <1>2
    <3>3. s[n - 1] \in Nat /\ s[n] = s[n - 1] + 1
      BY <1>0, <2>3, <3>1, <3>2
    <3>4. s[n - 1] # None
      BY <3>3, BlockStorageAssumption
    <3> QED
      BY <1>3, <2>3, <3>3, <3>4 DEF next_slot_number
  <2> QED
    BY <1>0, <2>1, <2>2, <2>3
<1>11. n = p.number + 1
  BY <1>0, <1>3
<1> QED
  BY <1>7, <1>8, <1>9, <1>10, <1>11 DEF EmptyBlock, p

(* The eager chain's blocks, and the one that hardhat_mine makes longer. *)
Chain == [n \in Base .. ChainEnd |-> BlockAt(n)]

Longer(c, first, last, interval) ==
  LET longer[n \in first .. last] ==
        IF n \in DOMAIN c THEN c[n] ELSE Eager!EmptyBlock(longer[n - 1], interval)
  IN  longer

IsLonger(d, c, base, k, interval) ==
  d = [n \in base .. k |-> IF n \in DOMAIN c THEN c[n] ELSE Eager!EmptyBlock(d[n - 1], interval)]

(* A function that satisfies the equation of the longer chain is that chain. *)
LEMMA LongerIs ==
  ASSUME NEW base \in Nat, NEW e \in Nat, base <= e, NEW k \in Nat, NEW interval,
         NEW c, DOMAIN c = base .. e, NEW d, IsLonger(d, c, base, k, interval)
  PROVE  Longer(c, base, k, interval) = d
<1>0. d = [n \in base .. k |-> IF n \in DOMAIN c THEN c[n] ELSE Eager!EmptyBlock(d[n - 1], interval)]
  BY DEF IsLonger
<1> DEFINE g == Longer(c, base, k, interval)
<1>1. g = [n \in base .. k |-> IF n \in DOMAIN c THEN c[n] ELSE Eager!EmptyBlock(g[n - 1], interval)]
  BY <1>0, Zenon DEF Longer
<1> HIDE DEF g
<1>2. \A n \in base .. k : g[n] = d[n]
  <2> DEFINE T == {n \in base .. k : g[n] # d[n]}
  <2> SUFFICES ASSUME T # {} PROVE FALSE
    OBVIOUS
  <2>1. T \in SUBSET Nat /\ T # {}
    OBVIOUS
  <2>2. PICK n \in T : \A m \in T : n <= m
    BY <2>1, LeastNumber
  <2>3. n \in base .. k /\ g[n] # d[n]
    BY <2>2
  <2>4. CASE n \in DOMAIN c
    BY <1>0, <1>1, <2>3, <2>4
  <2>5. CASE n \notin DOMAIN c
    <3>1. n - 1 \in base .. k /\ n - 1 < n
      BY <2>3, <2>5
    <3>2. n - 1 \notin T
      BY <2>2, <2>3, <3>1
    <3>3. g[n - 1] = d[n - 1]
      BY <3>1, <3>2
    <3>4. g[n] = Eager!EmptyBlock(g[n - 1], interval) /\ d[n] = Eager!EmptyBlock(d[n - 1], interval)
      BY <1>0, <1>1, <2>3, <2>5
    <3> QED
      BY <2>3, <3>3, <3>4
  <2> QED
    BY <2>4, <2>5
<1>3. g = [n \in base .. k |-> g[n]] /\ d = [n \in base .. k |-> d[n]]
  BY <1>0, <1>1
<1> QED
  BY <1>2, <1>3 DEF g

(* The chain that the storage stands for. *)
LEMMA ChainIs ==
  ASSUME NEW e \in Nat, StorageInv(e)
  PROVE  Chain = [n \in Base .. e |-> BlockAt(n)]
<1> QED
  BY EndIs DEF Chain

(* The same after a step. *)
LEMMA NextChainIs ==
  ASSUME NEW e \in Nat, StorageInv(e)', origin' = origin, Base \in Nat
  PROVE  Chain' = [n \in Base .. e |-> BlockAt(n)']
<1>1. Base' = Base
  BY SameOrigin
<1>2. ChainEnd' = e
  BY <1>1, NextEndIs
<1> QED
  BY <1>1, <1>2 DEF Chain

(* The first block of the eager chain. *)
LEMMA FirstIs ==
  ASSUME NEW e \in Nat, StorageInv(e)
  PROVE  /\ Eager!Blocks = Base .. e /\ Eager!First = Base
         /\ \A n \in Base .. e : Chain[n] = BlockAt(n)
         /\ Eager!IsLast(e)
<1>0. Base \in Nat /\ Base <= e
  BY OriginType DEF StorageInv, Laid
<1>1. Chain = [n \in Base .. e |-> BlockAt(n)]
  BY ChainIs
<1>2. Eager!Blocks = DOMAIN Chain
  BY DEF Eager!Blocks, Chain
<1>3. Eager!Blocks = Base .. e
  BY <1>1, <1>2
<1>4. \A n \in Base .. e : n - 1 \notin Base .. e <=> n = Base
  BY <1>0
<1>5. Eager!First = CHOOSE n \in Base .. e : n - 1 \notin Base .. e
  BY <1>3 DEF Eager!First
<1>6. Base \in Base .. e
  BY <1>0
<1>7. Eager!First = Base
  BY <1>4, <1>5, <1>6
<1>8. e \in Base .. e /\ e + 1 \notin Base .. e
  BY <1>0
<1> QED
  BY <1>1, <1>3, <1>7, <1>8 DEF Eager!IsLast

(* Both chains build a block on another one in the same way. *)
LEMMA SameHeaders ==
  /\ \A b, delay, txs, diff : Eager!NextBlock(b, delay, txs, diff) = NextBlock(b, delay, txs, diff)
  /\ \A b, interval : Eager!EmptyBlock(b, interval) = EmptyBlock(b, interval)
<1>1. \A b : Eager!next_slot_number(b) = next_slot_number(b)
  BY DEF Eager!next_slot_number, next_slot_number
<1> QED
  BY <1>1 DEF Eager!NextBlock, NextBlock, Eager!EmptyBlock, EmptyBlock

(* A step that adds and deletes no block is none of the eager chain. *)
LEMMA SameChain ==
  ASSUME NEW e \in Nat, StorageInv(e), StorageInv(e)', Kept(e), origin' = origin
  PROVE  Chain' = Chain
<1>0. Base \in Nat
  BY OriginType DEF StorageInv
<1>1. Chain = [n \in Base .. e |-> BlockAt(n)]
  BY ChainIs
<1>2. Chain' = [n \in Base .. e |-> BlockAt(n)']
  BY <1>0, NextChainIs
<1>3. \A n \in Base .. e : BlockAt(n)' = BlockAt(n)
  BY DEF Kept
<1> QED
  BY <1>1, <1>2, <1>3

(* A mined block is one of the eager chain. *)
LEMMA EagerInsert ==
  ASSUME NEW e \in Nat, StorageInv(e), origin' = origin, NEW delay \in Delays,
         NEW txs \in SUBSET Transactions, NEW diff \in Diffs, InsertBlock(delay, txs, diff)
  PROVE  Eager!Insert
<1>0. Base \in Nat /\ Base <= e
  BY OriginType DEF StorageInv, Laid
<1>1. /\ StorageInv(e + 1)' /\ Kept(e)
      /\ BlockAt(e + 1)' = NextBlock(BlockAt(e), delay, txs, diff)
  BY InsertStep
<1>2. /\ Eager!Blocks = Base .. e /\ Eager!IsLast(e) /\ e \in Base .. e
      /\ \A n \in Base .. e : Chain[n] = BlockAt(n)
  BY <1>0, FirstIs
<1>3. Chain' = [n \in Base .. e + 1 |-> BlockAt(n)']
  BY <1>0, <1>1, NextChainIs
<1> DEFINE b == NextBlock(Chain[e], delay, txs, diff)
<1>4. b.number = e + 1 /\ BlockAt(e + 1)' = b
  <2>1. last_block_number = e
    BY EndIs DEF InsertBlock
  <2>2. BlockAt(e).number = e
    BY <2>1, LastBlockIs
  <2> QED
    BY <1>1, <1>2, <2>2 DEF NextBlock
<1> HIDE DEF b
<1>5. Chain' = [n \in Base .. e + 1 |-> IF n = e + 1 THEN b ELSE Chain[n]]
  <2>1. \A n \in Base .. e + 1 : BlockAt(n)' = IF n = e + 1 THEN b ELSE Chain[n]
    <3> TAKE n \in Base .. e + 1
    <3>1. CASE n = e + 1
      BY <1>4, <3>1
    <3>2. CASE n # e + 1
      <4>1. n \in Base .. e
        BY <1>0, <3>2
      <4>2. BlockAt(n)' = BlockAt(n)
        BY <1>1, <4>1 DEF Kept
      <4> QED
        BY <1>2, <3>2, <4>1, <4>2
    <3> QED
      BY <3>1, <3>2
  <2> QED
    BY <1>3, <2>1
<1>6. Base .. e + 1 = Eager!Blocks \cup {b.number}
  BY <1>0, <1>2, <1>4
<1>7. Chain' = [n \in Eager!Blocks \cup {b.number} |-> IF n = b.number THEN b ELSE Chain[n]]
  BY <1>4, <1>5, <1>6
<1>8. Chain' = Eager!Extended(b)
  BY <1>7, Zenon DEF Eager!Extended, Chain
<1>9. e \in Eager!Blocks
  BY <1>2
<1>10. Chain' = Eager!Extended(Eager!NextBlock(Chain[e], delay, txs, diff))
  BY <1>8, SameHeaders DEF b
<1> QED
  BY <1>2, <1>9, <1>10, Zenon DEF Eager!Insert, Chain

(* Reserved blocks are mined at once in the eager chain. *)
LEMMA EagerMine ==
  ASSUME NEW e \in Nat, StorageInv(e), origin' = origin, NEW additional \in 1 .. MaxBlocks,
         NEW interval \in Intervals, ReserveBlocks(additional, interval)
  PROVE  Eager!Mine
<1> DEFINE k == e + additional
           r == NewRange(e, additional, interval, state_diffs)
<1>0. /\ Base \in Nat /\ Base <= e /\ k \in Nat /\ e < k /\ Base' = Base /\ interval \in Nat
      /\ e \in Base .. k /\ e \in Base .. e
  BY OriginType, BlockStorageAssumption, SameOrigin DEF StorageInv, Laid
<1>1. /\ StorageInv(k)' /\ Kept(e) /\ last_block_number = e
      /\ \A n \in e + 1 .. k : Reserved(reservations', n) /\ The(reservations', n) = r
  BY ReserveStep
<1>2. /\ Eager!Blocks = Base .. e /\ Eager!IsLast(e) /\ Eager!First = Base
      /\ \A n \in Base .. e : Chain[n] = BlockAt(n)
  BY <1>0, FirstIs
<1>3. Chain' = [n \in Base .. k |-> BlockAt(n)']
  BY <1>0, <1>1, NextChainIs
<1>4. /\ r \in Reservation /\ r.first_number = e + 1 /\ r.interval = interval
      /\ r.previous_state_root = BlockAt(e).state_root
  <2>1. BlockAt(e).state_root = state_diffs /\ state_diffs \in Roots
    BY <1>1, LastBlockIs
  <2>2. Len(state_diffs) \in Nat
    BY <2>1 DEF Roots
  <2> QED
    BY <1>0, <2>1, <2>2 DEF NewRange, Reservation
<1> HIDE DEF k, r
<1> DEFINE rs2 == reservations'
           st2 == Stored(number_to_block)'
<1>5. Laid(Base, rs2, st2, k)
  BY <1>0, <1>1 DEF StorageInv
<1>6. \A n \in Base .. k : BlockAt(n)' = View(rs2, st2, n)
  BY BlockAtView
<1> HIDE DEF rs2, st2
<1>7. View(rs2, st2, e).state_root = r.previous_state_root
  BY <1>0, <1>1, <1>4, <1>6 DEF Kept
<1>8. ASSUME NEW n \in e + 1 .. k
      PROVE  BlockAt(n)' = Eager!EmptyBlock(BlockAt(n - 1)', interval)
  <2>1. View(rs2, st2, n) = EmptyBlock(View(rs2, st2, n - 1), r.interval)
    <3>1. \A m \in e + 1 .. k : Reserved(rs2, m) /\ The(rs2, m) = r
      BY <1>1 DEF rs2
    <3> QED
      BY <1>0, <1>4, <1>5, <1>7, <3>1, EmptyBlocks
  <2>2. n \in Base .. k /\ n - 1 \in Base .. k
    BY <1>0
  <2> QED
    BY <1>4, <1>6, <2>1, <2>2, SameHeaders
<1> DEFINE c == Chain
           d == Chain'
<1>9. DOMAIN c = Base .. e
  BY ChainIs
<1>10. \A n \in Base .. k :
         BlockAt(n)' = IF n \in DOMAIN c THEN c[n] ELSE Eager!EmptyBlock(d[n - 1], interval)
  <2> TAKE n \in Base .. k
  <2>1. CASE n \in Base .. e
    BY <1>1, <1>2, <1>9, <2>1 DEF Kept
  <2>2. CASE n \notin Base .. e
    <3>1. n \in e + 1 .. k /\ n - 1 \in Base .. k
      BY <1>0, <2>2
    <3>2. d[n - 1] = BlockAt(n - 1)'
      BY <1>3, <3>1
    <3> QED
      BY <1>8, <1>9, <2>2, <3>1, <3>2
  <2> QED
    BY <2>1, <2>2
<1>11. d = [n \in Base .. k |-> IF n \in DOMAIN c THEN c[n] ELSE Eager!EmptyBlock(d[n - 1], interval)]
  BY <1>3, <1>10
<1>12. Longer(c, Base, k, interval) = d
  <2>1. IsLonger(d, c, Base, k, interval)
    BY <1>11 DEF IsLonger
  <2> HIDE DEF c, d
  <2> QED
    BY <1>0, <1>9, <2>1, LongerIs
<1>13. Chain' = Longer(Chain, Eager!First, e + additional, interval)
  BY <1>2, <1>12 DEF k
<1>14. e \in Eager!Blocks
  BY <1>0, <1>2
<1>15. \E last \in Eager!Blocks, a \in 1 .. MaxBlocks, i \in Intervals :
         Eager!IsLast(last) /\ Chain' = Longer(Chain, Eager!First, last + a, i)
  BY <1>2, <1>13, <1>14, Zenon
<1> QED
  BY <1>15, Zenon DEF Eager!Mine, Longer, Chain, Eager!Blocks

(* A revert is one of the eager chain. *)
LEMMA EagerRevert ==
  ASSUME NEW e \in Nat, StorageInv(e), origin' = origin, NEW n \in heads, RevertToBlock(n)
  PROVE  Eager!Revert
<1>0. Base \in Nat /\ Base <= e
  BY OriginType DEF StorageInv, Laid
<1>1. PICK k \in Base .. e : StorageInv(k)' /\ Kept(k)
  BY RevertStep
<1>2. k \in Nat
  BY <1>0
<1>3. /\ Eager!Blocks = Base .. e /\ Eager!First = Base
      /\ \A m \in Base .. e : Chain[m] = BlockAt(m)
  BY FirstIs
<1>4. Chain' = [m \in Base .. k |-> BlockAt(m)']
  BY <1>0, <1>1, <1>2, NextChainIs
<1>5. \A m \in Base .. k : BlockAt(m)' = Chain[m]
  <2> TAKE m \in Base .. k
  <2>1. m \in Base .. e
    BY <1>0
  <2> QED
    BY <1>1, <1>3, <2>1 DEF Kept
<1>6. Chain' = [m \in Eager!First .. k |-> Chain[m]]
  BY <1>3, <1>4, <1>5
<1> QED
  BY <1>3, <1>6, Zenon DEF Eager!Revert, Chain

(* Every step of the storage is a step of the eager chain, or none. *)
LEMMA EagerNext ==
  ASSUME IInv, [Next]_vars
  PROVE  [Eager!Next]_Chain
<1>0. PICK e \in Nat : StorageInv(e)
  BY DEF IInv
<1>1. Base \in Nat /\ MaxNumber \in Nat
  BY <1>0, OriginType DEF StorageInv
<1>2. CASE UNCHANGED vars
  <2>1. StorageInv(e)' /\ Kept(e) /\ origin' = origin
    BY <1>0, <1>2, StutterStep DEF vars
  <2> QED
    BY <1>0, <2>1, SameChain
<1>3. CASE Next
  <2>0. origin' = origin
    BY <1>3 DEF Next
  <2>1. ASSUME NEW n \in Base .. MaxNumber, ReadBlock(n)
        PROVE  Chain' = Chain
    BY <1>0, <1>1, <2>0, <2>1, ReadStep, SameChain
  <2>2. ASSUME NEW delay \in Delays, NEW txs \in SUBSET Transactions, NEW diff \in Diffs,
               InsertBlock(delay, txs, diff)
        PROVE  Eager!Next
    BY <1>0, <2>0, <2>2, EagerInsert DEF Eager!Next
  <2>3. ASSUME NEW delay \in Delays, NEW txs \in SUBSET Transactions, NEW diff \in Diffs,
               InsertBlockFails(delay, txs, diff)
        PROVE  Chain' = Chain
    BY <1>0, <2>0, <2>3, InsertFailsStep, SameChain
  <2>4. ASSUME NEW additional \in 1 .. MaxBlocks, NEW interval \in Intervals,
               ReserveBlocks(additional, interval)
        PROVE  Eager!Next
    BY <1>0, <2>0, <2>4, EagerMine DEF Eager!Next
  <2>5. ASSUME NEW n \in heads, RevertToBlock(n)
        PROVE  Eager!Next
    BY <1>0, <2>0, <2>5, EagerRevert DEF Eager!Next
  <2> QED
    BY <1>3, <2>1, <2>2, <2>3, <2>4, <2>5 DEF Next
<1> QED
  BY <1>2, <1>3

(* The storage starts as the eager chain does. *)
LEMMA EagerInit ==
  ASSUME Init
  PROVE  Eager!Init
<1>1. Base \in Nat /\ StorageInv(Base) /\ BlockAt(Base) = BaseBlock
  BY InitInv
<1>2. ChainEnd = Base
  BY <1>1, EndIs
<1>3. Chain = [n \in {Base} |-> BaseBlock]
  <2>1. Base .. Base = {Base}
    BY <1>1
  <2> QED
    BY <1>1, <1>2, <2>1 DEF Chain
<1>4. DOMAIN Chain = {Base} /\ Chain[Base].number = Base
  BY <1>3 DEF BaseBlock
<1>5. Eager!Blocks = DOMAIN Chain
  BY DEF Eager!Blocks, Chain
<1> HIDE DEF Chain
<1>6. Eager!Blocks # {} /\ \A n \in Eager!Blocks : Eager!Blocks = {n} /\ Chain[n].number = n
  BY <1>4, <1>5
<1> QED
  BY <1>6, Zenon DEF Eager!Init, Chain

(* try_fulfilling_reservation makes no difference to any block: the storage, with
   its reservations, reads, refused blocks and reverts, implements the chain in
   which every block is there at once. *)
THEOREM StorageImplementsEagerChain == Spec => ImplementsEagerChain
<1>1. Init => Eager!Init
  BY EagerInit
<1>2. IInv /\ [Next]_vars => [Eager!Next]_Chain
  BY EagerNext
<1> QED
  BY <1>1, <1>2, Invariant, PTL DEF Spec, ImplementsEagerChain, Eager!Spec, Chain
=============================================================================
