---------------------------- MODULE BlockStorage ----------------------------
(***************************************************************************)
(* ReservableSparseBlockStorage (crates/block/storage) as LocalBlockchain  *)
(* and ForkedBlockchain use it.  hardhat_mine reserves a range of blocks   *)
(* that are built when they are first read; the diffs that lead from one   *)
(* state to the next are kept for the blocks that were really mined.       *)
(*                                                                         *)
(* number_to_block and hash_to_block change together and hold the same     *)
(* blocks; they are one variable here.  Total difficulties, and state      *)
(* overrides (which are applied on top of the diffs), are left out.        *)
(***************************************************************************)
EXTENDS BlockHeader, FiniteSets

CONSTANTS
  Origins,       \* the blocks a chain may start with
  genesis_diff,  \* the diff of the genesis block
  Transactions, Diffs, Delays, Intervals,
  ReusedHashes,  \* whether a transaction may be executed twice
  MaxBlocks      \* bound on the number of local blocks

ASSUME BlockStorageAssumption ==
  /\ Amsterdam \in BOOLEAN /\ ReusedHashes \in BOOLEAN
  /\ \A o \in Origins : /\ o.forked \in BOOLEAN /\ o.slot_number \in {None} \cup Nat
                        /\ o.number \in IF o.forked THEN Nat ELSE {0}
  /\ Delays \subseteq Nat /\ Intervals \subseteq Nat
  /\ MaxBlocks \in Nat /\ None \notin Nat

VARIABLES
  origin,                       \* the genesis block, or the forked block
  reservations,                 \* the ranges of reserved blocks
  number_to_block,
  transaction_hash_to_block,
  transaction_hash_to_receipt,  \* transaction -> the block of its receipt
  state_diffs,                  \* the mined blocks' numbers and diffs
  number_to_diff_index,
  last_block_number,
  heads          \* the block numbers at which the chain has ended: a snapshot
                 \* of the provider names one of them

vars == <<origin, reservations, number_to_block, transaction_hash_to_block,
          transaction_hash_to_receipt, state_diffs, number_to_diff_index,
          last_block_number, heads>>

Forked == origin.forked       \* ForkedBlockchain, or LocalBlockchain
Base == origin.number
MaxNumber == Base + MaxBlocks

BaseBlock ==
  [number |-> Base, timestamp |-> 0, slot_number |-> origin.slot_number,
   state_root |-> IF Forked THEN <<>> ELSE << <<Base, genesis_diff>> >>,
   transactions |-> {}]

Put(f, x, v) == [y \in DOMAIN f \cup {x} |-> IF y = x THEN v ELSE f[y]]

(* The blocks up to the forked one are read from the remote node. *)
Stored(blocks) == IF Forked THEN Put(blocks, Base, BaseBlock) ELSE blocks

-----------------------------------------------------------------------------
(* Reading a reserved block builds it. *)

find_reservation(rs, n) == {r \in rs : r.first_number <= n /\ n <= r.last_number}
Reserved(rs, n) == find_reservation(rs, n) # {}
The(rs, n) == CHOOSE r \in find_reservation(rs, n) : TRUE

(* The blocks there are. *)
Numbers(rs, stored) == DOMAIN stored \cup UNION {r.first_number .. r.last_number : r \in rs}

(* Mutant: counted from the first reserved block, not from the one before. *)
Bug_OneIntervalShort(rs, stored) ==
  LET timestamp[n \in Numbers(rs, stored)] ==
        IF Reserved(rs, n)
        THEN LET r == The(rs, n)
             IN  timestamp[r.first_number - 1] + r.interval * (n - r.first_number)
        ELSE stored[n].timestamp
  IN  timestamp

calculate_timestamp_for_reserved_block(rs, stored) ==
  LET timestamp[n \in Numbers(rs, stored)] ==
        IF Reserved(rs, n)
        THEN LET r == The(rs, n)
             IN  timestamp[r.first_number - 1] + r.interval * (n - r.first_number + 1)
        ELSE stored[n].timestamp
  IN  timestamp

calculate_slot_number_for_reserved_block(rs, stored) ==
  LET slot[n \in Numbers(rs, stored)] ==
        IF ~ Reserved(rs, n) THEN stored[n].slot_number
        ELSE IF ~ Amsterdam THEN None
        ELSE LET r == The(rs, n)
                 previous == slot[r.first_number - 1]
             IN  IF previous = None THEN n - r.first_number
                                    ELSE previous + (n - (r.first_number - 1))
  IN  slot

(* Mutant: the block that is built stays reserved. *)
Bug_KeepsBlock(rs, n) ==
  LET r == The(rs, n)
  IN  (rs \ {r})
        \cup (IF n = r.first_number THEN {} ELSE {[r EXCEPT !.last_number = n - 1]})
        \cup (IF n = r.last_number THEN {} ELSE {[r EXCEPT !.first_number = n]})

(* The range is split around the block. *)
Split(rs, n) ==
  LET r == The(rs, n)
  IN  (rs \ {r})
        \cup (IF n = r.first_number THEN {} ELSE {[r EXCEPT !.last_number = n - 1]})
        \cup (IF n = r.last_number THEN {} ELSE {[r EXCEPT !.first_number = n + 1]})

(* The header of a reserved block.  It is computed from what precedes the
   reservation, so it does not matter that the range is split first. *)
ReservedBlock(n) ==
  [number       |-> n,
   timestamp    |-> calculate_timestamp_for_reserved_block(reservations, Stored(number_to_block))[n],
   slot_number  |-> calculate_slot_number_for_reserved_block(reservations, Stored(number_to_block))[n],
   state_root   |-> The(reservations, n).previous_state_root,
   transactions |-> {}]

(* try_fulfilling_reservation: the reservations and the blocks afterwards. *)
Fulfilled(n) ==
  IF Reserved(reservations, n)
  THEN [reservations |-> Split(reservations, n),
        blocks       |-> Put(number_to_block, n, ReservedBlock(n))]
  ELSE [reservations |-> reservations, blocks |-> number_to_block]

block_by_number(n) ==
  /\ reservations' = Fulfilled(n).reservations
  /\ number_to_block' = Fulfilled(n).blocks

(* "Block must exist": without it a request that needs it panics. *)
LastBlockExists ==
  \/ Reserved(reservations, last_block_number)
  \/ last_block_number \in DOMAIN Stored(number_to_block)

last_block == Stored(Fulfilled(last_block_number).blocks)[last_block_number]

-----------------------------------------------------------------------------
(* The operations of the two blockchains. *)

ReadBlock(n) ==
  /\ Reserved(reservations, n)
  /\ block_by_number(n)
  /\ UNCHANGED <<transaction_hash_to_block, transaction_hash_to_receipt, state_diffs,
                 number_to_diff_index, last_block_number, heads>>

(* The number and the diff are recorded before the receipts and the block. *)
Advance(block, diff) ==
  /\ last_block_number' = block.number
  /\ number_to_diff_index' = Put(number_to_diff_index, block.number, Len(state_diffs) + 1)
  /\ state_diffs' = Append(state_diffs, <<block.number, diff>>)
  /\ heads' = heads \cup {block.number}

InsertBlock(delay, txs, diff) ==
  LET block == NextBlock(last_block, delay, txs, diff)
      blocks == Fulfilled(last_block_number).blocks
  IN  /\ LastBlockExists
      /\ block.number <= MaxNumber
      /\ txs \cap DOMAIN transaction_hash_to_receipt = {}
      /\ Advance(block, diff)
      /\ reservations' = Fulfilled(last_block_number).reservations
      /\ number_to_block' = Put(blocks, block.number, block)
      /\ transaction_hash_to_block' =
           [tx \in DOMAIN transaction_hash_to_block \cup txs |->
              IF tx \in txs THEN block ELSE transaction_hash_to_block[tx]]
      /\ transaction_hash_to_receipt' =
           [tx \in DOMAIN transaction_hash_to_receipt \cup txs |->
              IF tx \in txs THEN block.number ELSE transaction_hash_to_receipt[tx]]

(* A transaction has been executed before, under the same hash: its sender
   was destroyed and created again, and its nonce started over. *)
InsertBlockFails(delay, txs, diff) ==
  LET block == NextBlock(last_block, delay, txs, diff)
  IN  /\ ReusedHashes
      /\ LastBlockExists
      /\ block.number <= MaxNumber
      /\ txs \cap DOMAIN transaction_hash_to_receipt # {}
      /\ Advance(block, diff)
      /\ block_by_number(last_block_number)
      /\ UNCHANGED <<transaction_hash_to_block, transaction_hash_to_receipt>>

(* The provider mines a block before it reserves any. *)
ReserveBlocks(additional, interval) ==
  LET r == [first_number        |-> last_block_number + 1,
            last_number         |-> last_block_number + additional,
            interval            |-> interval,
            previous_state_root |-> last_block.state_root,
            previous_diff_index |-> Len(state_diffs)]
  IN  /\ LastBlockExists
      /\ state_diffs # <<>>
      /\ r.last_number <= MaxNumber
      /\ reservations' = Fulfilled(last_block_number).reservations \cup {r}
      /\ number_to_block' = Fulfilled(last_block_number).blocks
      /\ last_block_number' = r.last_number
      /\ heads' = heads \cup {r.last_number}
      /\ UNCHANGED <<transaction_hash_to_block, transaction_hash_to_receipt, state_diffs,
                     number_to_diff_index>>

(* The index of the last diff that leads to the state of block n. *)
diff_index(n) ==
  IF n \in DOMAIN number_to_diff_index THEN number_to_diff_index[n]
  ELSE IF Reserved(reservations, n) THEN The(reservations, n).previous_diff_index
  ELSE None

(* Mutant: the receipts of the deleted blocks stay. *)
Bug_KeepsReceipts(n) ==
  LET kept == {m \in DOMAIN number_to_block : m <= n}
      gone == UNION {number_to_block[m].transactions : m \in DOMAIN number_to_block \ kept}
  IN  /\ number_to_block' = [m \in kept |-> number_to_block[m]]
      /\ transaction_hash_to_block' =
           [tx \in DOMAIN transaction_hash_to_block \ gone |-> transaction_hash_to_block[tx]]
      /\ UNCHANGED transaction_hash_to_receipt

(* SparseBlockStorage::revert_to_block *)
RevertSparse(n) ==
  LET kept == {m \in DOMAIN number_to_block : m <= n}
      gone == UNION {number_to_block[m].transactions : m \in DOMAIN number_to_block \ kept}
  IN  /\ number_to_block' = [m \in kept |-> number_to_block[m]]
      /\ transaction_hash_to_block' =
           [tx \in DOMAIN transaction_hash_to_block \ gone |-> transaction_hash_to_block[tx]]
      /\ transaction_hash_to_receipt' =
           [tx \in DOMAIN transaction_hash_to_receipt \ gone |-> transaction_hash_to_receipt[tx]]

(* Only reservations that are not fully reverted are retained. *)
RevertReservations(n) ==
  reservations' =
    {[r EXCEPT !.last_number = IF @ <= n THEN @ ELSE n] :
       r \in {s \in reservations : s.first_number <= n}}

RevertToGenesis ==
  /\ RevertSparse(0)
  /\ reservations' = {}
  /\ state_diffs' = SubSeq(state_diffs, 1, 1)
  /\ number_to_diff_index' = [m \in {0} |-> 1]

(* ForkedBlockchain starts over with an empty storage. *)
RevertToFork ==
  /\ reservations' = {}
  /\ number_to_block' = [m \in {} |-> BaseBlock]
  /\ transaction_hash_to_block' = [tx \in {} |-> BaseBlock]
  /\ transaction_hash_to_receipt' = [tx \in {} |-> 0]
  /\ state_diffs' = <<>>
  /\ number_to_diff_index' = [m \in {} |-> 0]

(* Mutant: the diffs of the deleted blocks stay. *)
Bug_KeepsDiffs(n) ==
  /\ n # Base /\ n <= last_block_number /\ diff_index(n) # None
  /\ RevertSparse(n) /\ RevertReservations(n)
  /\ number_to_diff_index' =
       [m \in {k \in DOMAIN number_to_diff_index : k <= n} |-> number_to_diff_index[m]]
  /\ UNCHANGED state_diffs

(* "There must either be a block or a reservation matching the block number",
   or the process panics. *)
RevertToLater(n) ==
  /\ n # Base /\ n <= last_block_number /\ diff_index(n) # None
  /\ RevertSparse(n) /\ RevertReservations(n)
  /\ state_diffs' = SubSeq(state_diffs, 1, diff_index(n))
  /\ number_to_diff_index' =
       [m \in {k \in DOMAIN number_to_diff_index : k <= n} |-> number_to_diff_index[m]]

RevertToBlock(n) ==
  /\ \/ n = Base /\ Forked /\ RevertToFork
     \/ n = Base /\ ~ Forked /\ RevertToGenesis
     \/ RevertToLater(n)
  /\ last_block_number' = n
  /\ heads' = {m \in heads : m <= n}

Init ==
  /\ origin \in Origins
  /\ reservations = {}
  /\ number_to_block = IF Forked THEN [n \in {} |-> BaseBlock] ELSE [n \in {Base} |-> BaseBlock]
  /\ transaction_hash_to_block = [tx \in {} |-> BaseBlock]
  /\ transaction_hash_to_receipt = [tx \in {} |-> 0]
  /\ state_diffs = BaseBlock.state_root
  /\ number_to_diff_index = IF Forked THEN [n \in {} |-> 0] ELSE [n \in {Base} |-> 1]
  /\ last_block_number = Base
  /\ heads = {Base}

Next ==
  /\ UNCHANGED origin
  /\ \/ \E n \in Base .. MaxNumber : ReadBlock(n)
     \/ \E delay \in Delays, txs \in SUBSET Transactions, diff \in Diffs :
          InsertBlock(delay, txs, diff) \/ InsertBlockFails(delay, txs, diff)
     \/ \E additional \in 1 .. MaxBlocks, interval \in Intervals :
          ReserveBlocks(additional, interval)
     \/ \E n \in heads : RevertToBlock(n)

Spec == Init /\ [][Next]_vars
-----------------------------------------------------------------------------
(* Queries. *)

state_diffs_until_block(n) ==
  IF diff_index(n) = None THEN None ELSE SubSeq(state_diffs, 1, diff_index(n))

(* state_at_block_number.  ForkedBlockchain reads the block first, for its
   state root; no diffs are applied when there are none to be found. *)
state_at_block_number(n) ==
  IF state_diffs_until_block(n) = None \/ (Forked /\ Reserved(reservations, n))
  THEN <<>> ELSE state_diffs_until_block(n)

(* The block a reader gets, now or once it is built. *)
BlockAt(n) ==
  IF Reserved(reservations, n) THEN ReservedBlock(n) ELSE Stored(number_to_block)[n]

-----------------------------------------------------------------------------
Block == [number : Nat, timestamp : Nat, slot_number : {None} \cup Nat,
          state_root : Seq(Nat \X (Diffs \cup {genesis_diff})),
          transactions : SUBSET Transactions]

(* The fields of the storage have their types; numbers do not underflow. *)
TypeOK ==
  /\ \A r \in reservations : /\ r.first_number \in Nat /\ r.last_number \in Nat
                             /\ r.first_number <= r.last_number
                             /\ r.previous_diff_index \in 1 .. Len(state_diffs)
  /\ \A n \in DOMAIN number_to_block : number_to_block[n] \in Block /\ number_to_block[n].number = n
  /\ last_block_number \in Nat
  /\ \A n \in DOMAIN number_to_diff_index : number_to_diff_index[n] \in 1 .. Len(state_diffs)

(* A block that was refused has left its number behind. *)
ChainEnd == IF LastBlockExists THEN last_block_number ELSE last_block_number - 1

(* Every block number up to the last is there exactly once: stored, or in one *)
(* reservation.  So find_reservation and the maps never compete, whatever     *)
(* order reads split the ranges in and reverts cut them off.                  *)
EveryNumberOnce ==
  /\ \A n \in Base .. ChainEnd :
       Cardinality(find_reservation(reservations, n))
         + (IF n \in DOMAIN Stored(number_to_block) THEN 1 ELSE 0) = 1
  /\ \A n \in DOMAIN number_to_block : n <= ChainEnd
  /\ \A r \in reservations : r.last_number <= ChainEnd

(* Diffs that are found for a block are the ones that lead to the state its  *)
(* header names: reserved blocks share the diffs of the block before them,   *)
(* and a revert cuts off exactly the diffs of the deleted blocks.            *)
DiffsExact ==
  \A n \in Base .. ChainEnd :
    state_diffs_until_block(n) # None => state_diffs_until_block(n) = BlockAt(n).state_root

(* A transaction is found in the block that contains it, its receipt is that *)
(* block's, and both disappear with the block.                               *)
TransactionIndexExact ==
  /\ DOMAIN transaction_hash_to_block = UNION {number_to_block[n].transactions : n \in DOMAIN number_to_block}
  /\ DOMAIN transaction_hash_to_receipt = DOMAIN transaction_hash_to_block
  /\ \A tx \in DOMAIN transaction_hash_to_block :
       LET block == transaction_hash_to_block[tx]
       IN  /\ block.number \in DOMAIN number_to_block /\ block = number_to_block[block.number]
           /\ tx \in block.transactions
           /\ transaction_hash_to_receipt[tx] = block.number

(* "Retrieves the sequence of diffs from the genesis state to the state of   *)
(* the block with the provided number, if it exists": every block up to the  *)
(* last exists, and its state is the one its header names.                   *)
StateAtBlockExact ==
  \A n \in Base .. last_block_number : state_at_block_number(n) = BlockAt(n).state_root

(* "There must either be a block or a reservation matching the block number" *)
(* a snapshot was taken at, or reverting to it panics.                       *)
RevertFindsBlock ==
  \A n \in heads : n # Base => diff_index(n) # None

(* The chain in which every reserved block is already built. *)
Eager == INSTANCE EagerChain WITH chain <- [n \in Base .. ChainEnd |-> BlockAt(n)]

(* Reading reserved blocks early, late, in any order or never makes no       *)
(* difference to any block, and neither does a block that is refused: the    *)
(* storage implements the eager chain, in which a read is not even a step.   *)
ImplementsEagerChain == Eager!Spec
=============================================================================
