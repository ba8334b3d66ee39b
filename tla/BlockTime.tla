----------------------------- MODULE BlockTime ------------------------------
(***************************************************************************)
(* The clock of ProviderData (crates/edr_provider/src/data.rs): which      *)
(* timestamp the next block gets.  The provider keeps an offset to the     *)
(* wall clock, that evm_increaseTime, blocks with an explicit timestamp    *)
(* and evm_revert change, and a timestamp that a client has asked for.     *)
(*                                                                         *)
(* Times are whole seconds.  The wall clock may tick between two blocks of *)
(* one hardhat_mine request; other requests have to wait for its end.      *)
(***************************************************************************)
EXTENDS Integers, Sequences

CONSTANTS
  None,                              \* Rust's None
  MINIMUM_RESERVABLE_BLOCKS,         \* 6 in the code
  FirstTimestamps,  \* of the genesis block or the forked block
  Increments,     \* what a client adds with evm_increaseTime
  Advances,       \* how far after the latest block an explicit timestamp is
  Intervals,      \* the intervals of hardhat_mine
  MaxNow,         \* bound on the wall clock
  MaxTime,        \* bound on timestamps
  MaxBlocks,      \* bound on the length of the chain
  MaxSnapshots    \* bound on the number of snapshots

(* What is left to do of a hardhat_mine request. *)
Request == [remaining : Nat \ {0}, interval : Nat, is_first : BOOLEAN,
            reserved : BOOLEAN]

ASSUME BlockTimeAssumption ==
  /\ None \notin Int /\ None \notin Request
  /\ MINIMUM_RESERVABLE_BLOCKS \in Nat \ {0, 1}
  /\ FirstTimestamps \subseteq Nat
  /\ Increments \subseteq Nat /\ Advances \subseteq Nat /\ Intervals \subseteq Nat
  /\ MaxNow \in Nat /\ MaxTime \in Nat /\ MaxBlocks \in Nat /\ MaxSnapshots \in Nat

VARIABLES
  now,                        \* the wall clock
  timestamps,                 \* of the blocks, the first one's first
  block_time_offset_seconds,
  next_block_timestamp,       \* evm_setNextBlockTimestamp, or None
  snapshots,                  \* id -> Snapshot
  next_snapshot_id,
  request,                    \* the hardhat_mine in progress, or None
  allow_blocks_with_same_timestamp   \* from the configuration

(* What the properties tell apart; the program does not keep it. *)
VARIABLES
  torn,    \* a request failed with blocks in the chain that the clock had not followed
  pushed   \* an explicit timestamp was that of the latest block and was increased

noted == <<torn, pushed>>
clock == <<timestamps, block_time_offset_seconds, next_block_timestamp, noted>>
saved == <<snapshots, next_snapshot_id>>
vars == <<now, clock, saved, request, allow_blocks_with_same_timestamp>>

latest == timestamps[Len(timestamps)]

-----------------------------------------------------------------------------
(* A block is mined. *)

(* next_block_timestamp: where the timestamp of the next block comes from. *)
Asked(timestamp) == IF timestamp # None THEN timestamp ELSE next_block_timestamp

Candidate(timestamp) ==
  IF Asked(timestamp) # None THEN Asked(timestamp) ELSE now + block_time_offset_seconds

(* Mutant: blocks of the same timestamp are always allowed. *)
Bug_NeverIncreased(timestamp) == FALSE

timestamp_needs_increase(timestamp) ==
  Candidate(timestamp) = latest /\ ~ allow_blocks_with_same_timestamp

BlockTimestamp(timestamp) ==
  Candidate(timestamp) + (IF timestamp_needs_increase(timestamp) THEN 1 ELSE 0)

(* Mutant: an explicit timestamp does not move the clock. *)
Bug_OffsetKept(timestamp) ==
  block_time_offset_seconds + (IF timestamp_needs_increase(timestamp) THEN 1 ELSE 0)

(* Mutant: the offset has the wrong sign. *)
Bug_OffsetSign(timestamp) ==
  IF Asked(timestamp) # None THEN now - Asked(timestamp)
  ELSE block_time_offset_seconds + (IF timestamp_needs_increase(timestamp) THEN 1 ELSE 0)

(* The offset that is adopted with the block. *)
NewOffset(timestamp) ==
  IF Asked(timestamp) # None THEN Asked(timestamp) - now
  ELSE block_time_offset_seconds + (IF timestamp_needs_increase(timestamp) THEN 1 ELSE 0)

Extend(timestamp) == timestamps' = Append(timestamps, BlockTimestamp(timestamp))

(* mine_and_commit_block_impl.  The increase of an explicit timestamp does
   not reach the offset. *)
Mine(timestamp) ==
  /\ Extend(timestamp)
  /\ block_time_offset_seconds' = NewOffset(timestamp)
  /\ next_block_timestamp' = None
  /\ pushed' = (pushed \/ (Asked(timestamp) # None /\ timestamp_needs_increase(timestamp)))
  /\ UNCHANGED torn

(* The request has reserved blocks; the clock follows with the next block. *)
Reserved == request # None /\ request.reserved

(* It fails: before the block is inserted, or after, when the mem pool cannot
   be updated; then the block is in the chain and the clock is as it was.  Or
   at the end, when the subscribers cannot be notified. *)
MineFails(timestamp) ==
  \/ /\ \/ torn' = (torn \/ Reserved) /\ UNCHANGED timestamps
        \/ torn' = TRUE /\ Extend(timestamp)
     /\ UNCHANGED <<block_time_offset_seconds, next_block_timestamp, pushed>>
  \/ Mine(timestamp)

(* The bounds leave room for number_of_blocks blocks. *)
Fits(number_of_blocks, timestamp, interval) ==
  /\ Len(timestamps) + number_of_blocks <= MaxBlocks
  /\ LET longest == IF interval = 0 THEN 1 ELSE interval
     IN  BlockTimestamp(timestamp) + (number_of_blocks - 1) * longest <= MaxTime

(* evm_mine with a timestamp, or without, like interval mining and automine. *)
MineBlock(timestamp) ==
  /\ request = None
  /\ Fits(1, timestamp, 0)
  /\ timestamp # None => timestamp >= latest
  /\ Mine(timestamp) \/ MineFails(timestamp)
  /\ UNCHANGED <<now, saved, request>>

-----------------------------------------------------------------------------
(* hardhat_mine *)

(* The first block is mined without the interval. *)
MineFirstBlock(number_of_blocks, interval) ==
  /\ request = None
  /\ Fits(number_of_blocks, None, interval)
  /\ \/ /\ Mine(None)
        /\ request' = IF number_of_blocks = 1 THEN None
                      ELSE [remaining |-> number_of_blocks - 1, interval |-> interval,
                            is_first |-> TRUE, reserved |-> FALSE]
     \/ MineFails(None) /\ UNCHANGED request
  /\ UNCHANGED <<now, saved>>

(* More blocks follow while there are pending transactions, then one more,
   and the rest if it is too short to be reserved, or what a reservation has
   left. *)
MineNextBlock ==
  LET timestamp == latest + request.interval
  IN  /\ request # None
      /\ \/ /\ Mine(timestamp)
            /\ request' = IF request.remaining = 1 THEN None
                          ELSE [request EXCEPT !.remaining = @ - 1, !.is_first = FALSE]
         \/ MineFails(timestamp) /\ request' = None
      /\ UNCHANGED <<now, saved>>

(* The timestamps of reserved blocks, relative to the latest block. *)
ReservedTimestamps(additional, interval) ==
  [i \in 1 .. additional |-> latest + i * interval]

(* No pending transaction is left, and a block was mined after the first. *)
ReserveBlocks ==
  /\ request # None
  /\ ~ request.is_first
  /\ request.remaining >= MINIMUM_RESERVABLE_BLOCKS
  /\ LET additional == request.remaining - 1
     IN  timestamps' = timestamps \o ReservedTimestamps(additional, request.interval)
  /\ request' = [request EXCEPT !.remaining = 1, !.reserved = TRUE]
  /\ UNCHANGED <<now, block_time_offset_seconds, next_block_timestamp, noted, saved>>

-----------------------------------------------------------------------------
IncreaseBlockTime(increment) ==
  /\ request = None
  /\ now + block_time_offset_seconds + increment <= MaxTime
  /\ block_time_offset_seconds' = block_time_offset_seconds + increment
  /\ UNCHANGED <<now, timestamps, next_block_timestamp, noted, saved, request>>

(* Mutant: a timestamp in the past is accepted. *)
Bug_AnyTimestamp(timestamp) ==
  /\ request = None
  /\ next_block_timestamp' = timestamp
  /\ UNCHANGED <<now, timestamps, block_time_offset_seconds, noted, saved, request>>

SetNextBlockTimestamp(timestamp) ==
  /\ request = None
  /\ timestamp > latest \/ (timestamp = latest /\ allow_blocks_with_same_timestamp)
  /\ next_block_timestamp' = timestamp
  /\ UNCHANGED <<now, timestamps, block_time_offset_seconds, noted, saved, request>>

-----------------------------------------------------------------------------
(* Snapshots.  The history of a snapshot is the chain it was taken of; the
   program does not keep it. *)

NewSnapshot ==
  [block_number |-> Len(timestamps), time |-> now, history |-> timestamps,
   block_time_offset_seconds |-> block_time_offset_seconds,
   next_block_timestamp |-> next_block_timestamp]

MakeSnapshot ==
  /\ request = None
  /\ next_snapshot_id <= MaxSnapshots
  /\ snapshots' = [id \in DOMAIN snapshots \cup {next_snapshot_id} |->
                     IF id = next_snapshot_id THEN NewSnapshot ELSE snapshots[id]]
  /\ next_snapshot_id' = next_snapshot_id + 1
  /\ UNCHANGED <<now, clock, request>>

(* Mutant: only the snapshot that is used is removed. *)
Bug_KeepsLaterSnapshots(id) == [i \in DOMAIN snapshots \ {id} |-> snapshots[i]]

(* The snapshot and all later ones are removed, whether or not it exists. *)
SplitOff(id) == [i \in {j \in DOMAIN snapshots : j < id} |-> snapshots[i]]

Restore(s) ==
  /\ block_time_offset_seconds' = s.block_time_offset_seconds + (now - s.time)
  /\ timestamps' = SubSeq(timestamps, 1, s.block_number)
  /\ next_block_timestamp' = s.next_block_timestamp
  /\ UNCHANGED noted

RevertToSnapshot(id) ==
  /\ request = None
  /\ IF id \in DOMAIN snapshots THEN Restore(snapshots[id]) ELSE UNCHANGED clock
  /\ snapshots' = SplitOff(id)
  /\ UNCHANGED <<now, next_snapshot_id, request>>

Tick ==
  /\ now < MaxNow
  /\ now' = now + 1
  /\ UNCHANGED <<clock, saved, request>>

(* The first block is a genesis block with a configured date, or a forked
   block: the offset starts the clock at it. *)
Init ==
  /\ now = 1
  /\ timestamps \in {<<t>> : t \in FirstTimestamps}
  /\ block_time_offset_seconds = timestamps[1] - now
  /\ next_block_timestamp = None
  /\ snapshots = [id \in {} |-> None]
  /\ next_snapshot_id = 1
  /\ request = None
  /\ allow_blocks_with_same_timestamp \in BOOLEAN
  /\ torn = FALSE /\ pushed = FALSE

Next ==
  /\ UNCHANGED allow_blocks_with_same_timestamp
  /\ \/ Tick
     \/ MineBlock(None)
     \/ \E advance \in Advances : MineBlock(latest + advance)
     \/ \E n \in 1 .. MaxBlocks, interval \in Intervals : MineFirstBlock(n, interval)
     \/ MineNextBlock
     \/ ReserveBlocks
     \/ \E increment \in Increments : IncreaseBlockTime(increment)
     \/ \E timestamp \in 0 .. MaxTime : SetNextBlockTimestamp(timestamp)
     \/ MakeSnapshot
     \/ \E id \in 1 .. MaxSnapshots : RevertToSnapshot(id)

Spec == Init /\ [][Next]_vars
-----------------------------------------------------------------------------
Times == Seq(Int) \ {<<>>}
Snapshot == [block_number : Nat \ {0}, time : Int, history : Times,
             block_time_offset_seconds : Int, next_block_timestamp : {None} \cup Int]

(* The fields of ProviderData that make up its clock have their types. *)
TypeOK ==
  /\ now \in Int /\ timestamps \in Times
  /\ block_time_offset_seconds \in Int
  /\ next_block_timestamp \in {None} \cup Int
  /\ DOMAIN snapshots \subseteq Nat /\ next_snapshot_id \in Nat
  /\ \A id \in DOMAIN snapshots : snapshots[id] \in Snapshot
  /\ request \in {None} \cup Request

(* How far the clock may be behind the chain. *)
Lag == IF pushed THEN 1 ELSE 0

InOrder == \A i \in 2 .. Len(timestamps) : timestamps[i - 1] <= timestamps[i] + Lag
Possible == next_block_timestamp # None => next_block_timestamp >= latest

(* In both configurations, and however explicit timestamps, requests to      *)
(* increase the time, reserved blocks, failing requests and reverts follow   *)
(* one another, no block is older than its parent: the chain does not check  *)
(* it, the clock has to see to it.  Two things take it out of the clock's    *)
(* hands.  Where equal timestamps are not allowed and an explicit timestamp  *)
(* (evm_mine, hardhat_mine with interval 0) is that of the latest block, the *)
(* block is moved on by a second and the offset is not: after that a block   *)
(* may be older than its parent, by one second and never by more (Lag).  And *)
(* nothing is said once a request has failed between adding blocks to the    *)
(* chain and adopting their clock (torn): when the mem pool cannot be        *)
(* updated, or when the block after reserved ones cannot be mined.           *)
TimestampsOrdered == ~ torn => InOrder

(* Where blocks of the same timestamp are not allowed, no block has the      *)
(* timestamp of its parent: not when a client asks for it, not when failed   *)
(* requests have left the clock behind, not among hardhat_mine's blocks.     *)
NoSameTimestamp ==
  ~ allow_blocks_with_same_timestamp =>
    \A i \in 2 .. Len(timestamps) : timestamps[i - 1] # timestamps[i]

(* "timestamp must be positive" (the panic message of next_block_timestamp): *)
(* the offset never takes the clock below the epoch, even when a request has *)
(* failed half-way.                                                          *)
ClockIsPositive == now + block_time_offset_seconds >= 0

(* "Snapshotted block should exist": the chain of every snapshot that can    *)
(* still be used is a prefix of the chain.                                   *)
SnapshotsArePrefixes ==
  \A id \in DOMAIN snapshots :
    /\ id < next_snapshot_id
    /\ snapshots[id].block_number <= Len(timestamps)
    /\ SubSeq(timestamps, 1, snapshots[id].block_number) = snapshots[id].history

(* What a client has asked for is still possible: in both configurations    *)
(* the timestamp set with evm_setNextBlockTimestamp, checked when it is set, *)
(* is not below the latest block when it is used, whatever requests, failing *)
(* ones too, and reverts come between; unless a request has failed with its  *)
(* blocks in the chain (torn): the timestamp stays set then, and they may be *)
(* later.                                                                    *)
AskedIsNotPast == ~ torn => Possible

(* "now + new_offset == snapshot_date + old_offset": after evm_revert the    *)
(* clock shows what it showed when the snapshot was taken.                   *)
RevertRestoresTime ==
  [][\A id \in DOMAIN snapshots :
       RevertToSnapshot(id) =>
         now' + block_time_offset_seconds' =
           snapshots[id].time + snapshots[id].block_time_offset_seconds]_vars
=============================================================================
