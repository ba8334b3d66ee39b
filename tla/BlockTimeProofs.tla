--------------------------- MODULE BlockTimeProofs ---------------------------
(***************************************************************************)
(* Theorems about the clock of ProviderData (module BlockTime), for every  *)
(* chain length, every set of intervals, advances and increments, and any  *)
(* number of snapshots.                                                    *)
(***************************************************************************)
EXTENDS BlockTime, SequenceTheorems, TLAPS

(* Every snapshot refers to a block of the chain, the blocks up to it are    *)
(* the ones it was taken of, and later snapshots do not have earlier blocks: *)
(* so removing the later ones on evm_revert is enough.                       *)
SnapshotBlocks ==
  \A id \in DOMAIN snapshots :
    /\ id < next_snapshot_id
    /\ snapshots[id].block_number <= Len(timestamps)
    /\ Len(snapshots[id].history) = snapshots[id].block_number
    /\ \A k \in 1 .. snapshots[id].block_number :
         timestamps[k] = snapshots[id].history[k]

SnapshotOrder ==
  \A i, j \in DOMAIN snapshots :
    i < j => snapshots[i].block_number <= snapshots[j].block_number

(* The clock has not fallen behind the chain, or by the second that an       *)
(* explicit timestamp was moved on.  Behind reserved blocks it may be, but   *)
(* then the next timestamp is explicit.                                      *)
ClockKeepsUp == ~ Reserved => now + block_time_offset_seconds + Lag >= latest

NothingAsked == request # None => next_block_timestamp = None

(* Restoring a snapshot restores a clock that keeps up.                      *)
SnapshotClocks ==
  \A id \in DOMAIN snapshots :
    LET s == snapshots[id] IN
    /\ s.time <= now
    /\ s.time + s.block_time_offset_seconds + Lag >= timestamps[s.block_number]
    /\ s.next_block_timestamp # None =>
         s.next_block_timestamp >= timestamps[s.block_number]

SInv == TypeOK /\ SnapshotBlocks /\ SnapshotOrder
IInv == /\ SInv
        /\ InOrder /\ Possible
        /\ ClockKeepsUp /\ NothingAsked /\ SnapshotClocks

(* The chain only grows at its end. *)
Grows == /\ Len(timestamps) <= Len(timestamps')
         /\ \A k \in 1 .. Len(timestamps) : timestamps'[k] = timestamps[k]

------------------------------------------------------------------------------
(* The timestamp and the offset of the next block are integers. *)
LEMMA BlockTimestampType ==
  ASSUME TypeOK, NEW timestamp \in {None} \cup Int
  PROVE  /\ latest \in Int
         /\ BlockTimestamp(timestamp) \in Int
         /\ NewOffset(timestamp) \in Int
<1>1. latest \in Int
  BY DEF TypeOK, Times, latest
<1>2. Candidate(timestamp) \in Int
  BY DEF TypeOK, Candidate, Asked
<1>3. BlockTimestamp(timestamp) \in Int
  BY <1>2 DEF BlockTimestamp
<1>4. NewOffset(timestamp) \in Int
  BY DEF TypeOK, NewOffset, Asked
<1>. QED  BY <1>1, <1>3, <1>4

(* An inserted block leaves the others in place. *)
LEMMA ExtendGrows ==
  ASSUME TypeOK, NEW timestamp \in {None} \cup Int, Extend(timestamp)
  PROVE  /\ timestamps' \in Times
         /\ Len(timestamps') = Len(timestamps) + 1
         /\ timestamps'[Len(timestamps')] = BlockTimestamp(timestamp)
         /\ Grows
<1>1. timestamps \in Seq(Int) /\ BlockTimestamp(timestamp) \in Int
  BY BlockTimestampType DEF TypeOK, Times
<1>2. timestamps' = Append(timestamps, BlockTimestamp(timestamp))
  BY DEF Extend
<1>. QED  BY <1>1, <1>2 DEF Grows, Times

(* Reserved blocks follow the others. *)
LEMMA ReserveGrows ==
  ASSUME TypeOK, BlockTimeAssumption, ReserveBlocks
  PROVE  /\ timestamps' \in Times
         /\ Grows
         /\ request.remaining - 1 \in Nat
         /\ Len(timestamps') = Len(timestamps) + request.remaining - 1
         /\ \A k \in 1 .. request.remaining - 1 :
              timestamps'[Len(timestamps) + k] = latest + k * request.interval
<1>. DEFINE a == request.remaining - 1
            r == ReservedTimestamps(a, request.interval)
<1>1. timestamps \in Seq(Int) /\ latest \in Int
  BY BlockTimestampType DEF TypeOK, Times
<1>2. request.interval \in Nat /\ a \in Nat
  BY DEF TypeOK, Request, ReserveBlocks
<1>3. \A i \in 1 .. a : latest + i * request.interval \in Int
  BY <1>1, <1>2
<1>4. r \in Seq(Int) /\ Len(r) = a /\ \A i \in 1 .. a : r[i] = latest + i * request.interval
  BY <1>2, <1>3 DEF ReservedTimestamps
<1>5. timestamps' = timestamps \o r
  BY DEF ReserveBlocks
<1>. HIDE DEF r, a
<1>6. /\ timestamps' \in Seq(Int)
      /\ Len(timestamps') = Len(timestamps) + a
      /\ \A k \in 1 .. Len(timestamps) : timestamps'[k] = timestamps[k]
      /\ \A k \in 1 .. a : timestamps'[Len(timestamps) + k] = r[k]
  <2>1. timestamps' \in Seq(Int) /\ Len(timestamps') = Len(timestamps) + a
    <3>1. /\ timestamps \o r \in Seq(Int)
          /\ Len(timestamps \o r) = Len(timestamps) + Len(r)
      BY ONLY <1>1, <1>4, ConcatProperties, Zenon
    <3>. QED  BY <3>1, <1>4, <1>5
  <2>2. \A k \in 1 .. Len(timestamps) : timestamps'[k] = timestamps[k]
    BY <1>1, <1>2, <1>4, <1>5
  <2>3. \A k \in 1 .. a : timestamps'[Len(timestamps) + k] = r[k]
    BY <1>1, <1>2, <1>4, <1>5
  <2>. QED  BY <2>1, <2>2, <2>3
<1>7. timestamps' \in Times
  BY <1>1, <1>2, <1>6 DEF Times, TypeOK
<1>. QED  BY <1>2, <1>4, <1>6, <1>7 DEF Grows, a

(* A request that has reserved blocks has one block left to mine. *)
LEMMA ReservingType ==
  ASSUME request \in Request, ReserveBlocks
  PROVE  request' \in Request /\ request'.reserved = TRUE
<1>1. /\ request.interval \in Nat /\ request.is_first \in BOOLEAN
      /\ request = [remaining |-> request.remaining, interval |-> request.interval,
                    is_first |-> request.is_first, reserved |-> request.reserved]
  BY DEF Request
<1>2. request' = [remaining |-> 1, interval |-> request.interval,
                  is_first |-> request.is_first, reserved |-> TRUE]
  BY <1>1, Zenon DEF ReserveBlocks
<1>3. request' \in Request
  BY <1>1, <1>2 DEF Request
<1>. QED  BY <1>2, <1>3

(* What was taken of the chain before is still there when it grows. *)
LEMMA GrowingKeepsSnapshots ==
  ASSUME SInv, Grows, UNCHANGED saved, timestamps' \in Times
  PROVE  SnapshotBlocks' /\ SnapshotOrder'
<1>1. snapshots' = snapshots /\ next_snapshot_id' = next_snapshot_id
  BY DEF saved
<1>2. Len(timestamps) \in Nat /\ Len(timestamps') \in Nat
  BY DEF SInv, TypeOK, Times
<1>3. \A id \in DOMAIN snapshots :
        snapshots[id].block_number \in Nat /\ snapshots[id].block_number <= Len(timestamps)
  BY DEF SInv, TypeOK, SnapshotBlocks, Snapshot
<1>4. SnapshotBlocks'
  BY <1>1, <1>2, <1>3 DEF SnapshotBlocks, SInv, Grows
<1>5. SnapshotOrder'
  BY <1>1 DEF SnapshotOrder, SInv
<1>. QED  BY <1>4, <1>5

(* The same when it does not change at all. *)
LEMMA StayingKeepsSnapshots ==
  ASSUME SInv, UNCHANGED <<timestamps, saved>>
  PROVE  SnapshotBlocks' /\ SnapshotOrder'
<1>1. Grows /\ UNCHANGED saved /\ timestamps' \in Times
  BY DEF SInv, TypeOK, Times, Grows
<1>. QED  BY <1>1, GrowingKeepsSnapshots

(* The steps that mine, and what they do to the chain. *)
LEMMA MiningStep ==
  ASSUME TypeOK, BlockTimeAssumption,
         \/ \E t \in {None} \cup Int : MineBlock(t)
         \/ \E n \in 1 .. MaxBlocks, interval \in Intervals : MineFirstBlock(n, interval)
         \/ MineNextBlock
         \/ ReserveBlocks
  PROVE  /\ TypeOK'
         /\ Grows
         /\ UNCHANGED <<now, saved>>
<1>1. ASSUME NEW t \in {None} \cup Int, Mine(t) \/ MineFails(t)
      PROVE  /\ timestamps' \in Times /\ Grows
             /\ block_time_offset_seconds' \in Int
             /\ next_block_timestamp' \in {None} \cup Int
  <2>1. CASE Mine(t)
    BY <2>1, ExtendGrows, BlockTimestampType DEF Mine
  <2>2. CASE MineFails(t) /\ ~ Mine(t)
    <3>1. block_time_offset_seconds' \in Int /\ next_block_timestamp' \in {None} \cup Int
      BY <2>2 DEF MineFails, TypeOK
    <3>2. CASE Extend(t)
      BY <3>1, <3>2, ExtendGrows
    <3>3. CASE UNCHANGED timestamps
      BY <3>1, <3>3 DEF TypeOK, Times, Grows
    <3>. QED  BY <2>2, <3>2, <3>3 DEF MineFails
  <2>. QED  BY <1>1, <2>1, <2>2
<1>2. ASSUME NEW t \in {None} \cup Int, MineBlock(t)
      PROVE  TypeOK' /\ Grows /\ UNCHANGED <<now, saved>>
  BY <1>1, <1>2 DEF MineBlock, TypeOK, saved
<1>3. ASSUME NEW n \in 1 .. MaxBlocks, NEW interval \in Intervals,
             MineFirstBlock(n, interval)
      PROVE  TypeOK' /\ Grows /\ UNCHANGED <<now, saved>>
  <2>1. n \in Nat \ {0} /\ interval \in Nat
    BY DEF BlockTimeAssumption
  <2>2. request' \in {None} \cup Request
    <3>1. CASE request' = request
      BY <3>1 DEF TypeOK
    <3>2. CASE n # 1 /\ request' = [remaining |-> n - 1, interval |-> interval, is_first |-> TRUE,
                                  reserved |-> FALSE]
      <4>1. n - 1 \in Nat \ {0}
        BY <2>1, <3>2
      <4>. QED  BY <2>1, <3>2, <4>1 DEF Request
    <3>3. request' = None \/ request' = request
          \/ (n # 1 /\ request' = [remaining |-> n - 1, interval |-> interval, is_first |-> TRUE,
                                  reserved |-> FALSE])
      BY <1>3 DEF MineFirstBlock
    <3>. QED  BY <3>1, <3>2, <3>3
  <2>3. /\ timestamps' \in Times /\ Grows
        /\ block_time_offset_seconds' \in Int
        /\ next_block_timestamp' \in {None} \cup Int
    BY <1>1, <1>3 DEF MineFirstBlock
  <2>. QED  BY <1>3, <2>2, <2>3 DEF MineFirstBlock, TypeOK, saved
<1>4. ASSUME MineNextBlock PROVE TypeOK' /\ Grows /\ UNCHANGED <<now, saved>>
  <2>1. request \in Request
    BY <1>4 DEF MineNextBlock, TypeOK
  <2>2. latest + request.interval \in Int
    BY <2>1, BlockTimestampType DEF Request
  <2>3. /\ timestamps' \in Times /\ Grows
        /\ block_time_offset_seconds' \in Int
        /\ next_block_timestamp' \in {None} \cup Int
    BY <1>1, <1>4, <2>2 DEF MineNextBlock
  <2>4. request' \in {None} \cup Request
    <3>1. request' = None \/ (request.remaining # 1 /\
            request' = [request EXCEPT !.remaining = @ - 1, !.is_first = FALSE])
      BY <1>4 DEF MineNextBlock
    <3>2. ASSUME request.remaining # 1,
                 request' = [request EXCEPT !.remaining = @ - 1, !.is_first = FALSE]
          PROVE  request' \in Request
      <4>1. /\ request.remaining - 1 \in Nat \ {0} /\ request.interval \in Nat
            /\ request.reserved \in BOOLEAN
        BY <2>1, <3>2 DEF Request
      <4>2. request' = [remaining |-> request.remaining - 1,
                        interval |-> request.interval, is_first |-> FALSE,
                        reserved |-> request.reserved]
        BY <2>1, <3>2 DEF Request
      <4>. QED  BY <4>1, <4>2 DEF Request
    <3>. QED  BY <3>1, <3>2
  <2>. QED  BY <1>4, <2>3, <2>4 DEF MineNextBlock, TypeOK, saved
<1>5. ASSUME ReserveBlocks PROVE TypeOK' /\ Grows /\ UNCHANGED <<now, saved>>
  <2>1. request \in Request
    BY <1>5 DEF ReserveBlocks, TypeOK
  <2>2. request' \in Request
    BY <1>5, <2>1, ReservingType
  <2>. QED  BY <1>5, <2>2, ReserveGrows DEF ReserveBlocks, TypeOK, saved
<1>. QED  BY <1>2, <1>3, <1>4, <1>5

(* A snapshot is taken of the chain as it is. *)
LEMMA NewSnapshotType ==
  ASSUME TypeOK
  PROVE  /\ NewSnapshot \in Snapshot
         /\ NewSnapshot.block_number = Len(timestamps)
         /\ NewSnapshot.history = timestamps
<1>1. timestamps \in Times /\ Len(timestamps) \in Nat \ {0}
  BY DEF TypeOK, Times
<1>. QED  BY <1>1 DEF TypeOK, Snapshot, NewSnapshot

LEMMA MakeSnapshotStep ==
  ASSUME SInv, MakeSnapshot
  PROVE  SInv'
<1>1. /\ DOMAIN snapshots' = DOMAIN snapshots \cup {next_snapshot_id}
      /\ snapshots'[next_snapshot_id] = NewSnapshot
      /\ \A id \in DOMAIN snapshots : id # next_snapshot_id => snapshots'[id] = snapshots[id]
      /\ next_snapshot_id' = next_snapshot_id + 1
      /\ UNCHANGED <<now, clock, request>>
  BY DEF MakeSnapshot
<1>2. \A id \in DOMAIN snapshots : id < next_snapshot_id /\ id \in Nat
  BY DEF SInv, SnapshotBlocks, TypeOK
<1>3. next_snapshot_id \in Nat
  BY DEF SInv, TypeOK
<1>4. timestamps' = timestamps /\ timestamps \in Times /\ Len(timestamps) \in Nat
  BY <1>1 DEF clock, SInv, TypeOK, Times
<1>5. /\ NewSnapshot \in Snapshot
      /\ NewSnapshot.block_number = Len(timestamps)
      /\ NewSnapshot.history = timestamps
  BY NewSnapshotType DEF SInv
<1>6. \A id \in DOMAIN snapshots : snapshots'[id] = snapshots[id] /\ id < next_snapshot_id'
  BY <1>1, <1>2, <1>3
<1>7. TypeOK'
  <2>1. \A id \in DOMAIN snapshots' : snapshots'[id] \in Snapshot
    BY <1>1, <1>5, <1>6, Zenon DEF SInv, TypeOK
  <2>2. DOMAIN snapshots' \subseteq Nat /\ next_snapshot_id' \in Nat
    BY <1>1, <1>3 DEF SInv, TypeOK
  <2>. QED  BY <1>1, <2>1, <2>2 DEF SInv, TypeOK, clock
<1>8. SnapshotBlocks'
  BY <1>1, <1>3, <1>4, <1>5, <1>6 DEF SnapshotBlocks, SInv
<1>9. SnapshotOrder'
  <2>1. \A id \in DOMAIN snapshots :
          snapshots[id].block_number \in Nat /\ snapshots[id].block_number <= Len(timestamps)
    BY DEF SInv, TypeOK, SnapshotBlocks, Snapshot
  <2>. QED  BY <1>1, <1>2, <1>3, <1>4, <1>5, <1>6, <2>1 DEF SnapshotOrder, SInv
<1>. QED  BY <1>7, <1>8, <1>9 DEF SInv

(* The chain after evm_revert. *)
LEMMA RestoreTakesBack ==
  ASSUME SInv, NEW id \in DOMAIN snapshots, Restore(snapshots[id])
  PROVE  /\ timestamps' \in Times
         /\ Len(timestamps') = snapshots[id].block_number
         /\ \A k \in 1 .. snapshots[id].block_number : timestamps'[k] = timestamps[k]
<1>1. /\ snapshots[id].block_number \in Nat \ {0}
      /\ snapshots[id].block_number <= Len(timestamps)
  BY DEF SInv, TypeOK, SnapshotBlocks, Snapshot
<1>2. timestamps \in Seq(Int) /\ timestamps' = SubSeq(timestamps, 1, snapshots[id].block_number)
  BY DEF SInv, TypeOK, Times, Restore
<1>. QED  BY <1>1, <1>2 DEF Times

LEMMA RevertStep ==
  ASSUME SInv, NEW id \in Nat, RevertToSnapshot(id)
  PROVE  SInv'
<1>1. /\ DOMAIN snapshots' = {j \in DOMAIN snapshots : j < id}
      /\ \A j \in DOMAIN snapshots' : snapshots'[j] = snapshots[j]
      /\ UNCHANGED <<now, next_snapshot_id, request>>
  BY DEF RevertToSnapshot, SplitOff
<1>2. DOMAIN snapshots \subseteq Nat
  BY DEF SInv, TypeOK
<1>3. \A j \in DOMAIN snapshots : snapshots[j] \in Snapshot
  BY DEF SInv, TypeOK
<1>4. SnapshotOrder'
  BY <1>1 DEF SnapshotOrder, SInv
<1>5. CASE id \in DOMAIN snapshots
  <2>1. Restore(snapshots[id])
    BY <1>5 DEF RevertToSnapshot
  <2>2. /\ timestamps' \in Times
        /\ Len(timestamps') = snapshots[id].block_number
        /\ \A k \in 1 .. snapshots[id].block_number : timestamps'[k] = timestamps[k]
    BY <1>5, <2>1, RestoreTakesBack
  <2>3. TypeOK'
    <3>1. /\ block_time_offset_seconds' \in Int
          /\ next_block_timestamp' \in {None} \cup Int
      BY <1>3, <1>5, <2>1 DEF Restore, Snapshot, SInv, TypeOK
    <3>2. \A j \in DOMAIN snapshots' : snapshots'[j] \in Snapshot
      BY <1>1, <1>3
    <3>. QED  BY <1>1, <1>2, <2>2, <3>1, <3>2 DEF TypeOK, SInv
  <2>4. \A j \in DOMAIN snapshots' :
          /\ snapshots[j].block_number \in Nat
          /\ snapshots[id].block_number \in Nat
          /\ snapshots[j].block_number <= snapshots[id].block_number
    BY <1>1, <1>3, <1>5 DEF SInv, SnapshotOrder, Snapshot
  <2>5. SnapshotBlocks'
    BY <1>1, <2>2, <2>4, SMTT(30) DEF SnapshotBlocks, SInv
  <2>. QED  BY <1>4, <2>3, <2>5 DEF SInv
<1>6. CASE id \notin DOMAIN snapshots
  <2>1. UNCHANGED clock
    BY <1>6 DEF RevertToSnapshot
  <2>2. TypeOK'
    BY <1>1, <1>2, <1>3, <2>1 DEF clock, SInv, TypeOK
  <2>3. SnapshotBlocks'
    BY <1>1, <2>1 DEF clock, SnapshotBlocks, SInv
  <2>. QED  BY <1>4, <2>2, <2>3 DEF SInv
<1>. QED  BY <1>5, <1>6

(* The other steps change neither the chain nor the snapshots. *)
LEMMA ClockStep ==
  ASSUME SInv, BlockTimeAssumption,
         \/ Tick
         \/ \E increment \in Increments : IncreaseBlockTime(increment)
         \/ \E timestamp \in 0 .. MaxTime : SetNextBlockTimestamp(timestamp)
         \/ UNCHANGED vars
  PROVE  SInv' /\ UNCHANGED <<timestamps, saved>>
<1>1. TypeOK' /\ UNCHANGED <<timestamps, saved>>
  <2>1. CASE Tick
    BY <2>1 DEF Tick, SInv, TypeOK, clock, saved
  <2>2. CASE \E increment \in Increments : IncreaseBlockTime(increment)
    BY <2>2 DEF IncreaseBlockTime, SInv, TypeOK, saved, BlockTimeAssumption
  <2>3. CASE \E timestamp \in 0 .. MaxTime : SetNextBlockTimestamp(timestamp)
    BY <2>3 DEF SetNextBlockTimestamp, SInv, TypeOK, saved, BlockTimeAssumption
  <2>4. CASE UNCHANGED vars
    BY <2>4 DEF vars, SInv, TypeOK, clock, saved
  <2>. QED  BY <2>1, <2>2, <2>3, <2>4
<1>. QED  BY <1>1, StayingKeepsSnapshots DEF SInv

------------------------------------------------------------------------------
LEMMA SInvInit ==
  ASSUME BlockTimeAssumption, Init
  PROVE  SInv
<1>1. PICK t \in FirstTimestamps : timestamps = <<t>>
  BY DEF Init
<1>2. t \in Int
  BY DEF BlockTimeAssumption
<1>3. timestamps \in Times /\ timestamps[1] \in Int
  BY <1>1, <1>2 DEF Times
<1>4. DOMAIN snapshots = {}
  BY DEF Init
<1>. QED  BY <1>3, <1>4 DEF Init, SInv, TypeOK, SnapshotBlocks, SnapshotOrder

(* A step of the clock is one that mines, takes or uses a snapshot, or       *)
(* touches neither the chain nor the snapshots.                              *)
LEMMA StepKinds ==
  ASSUME TypeOK, BlockTimeAssumption, [Next]_vars
  PROVE  \/ \E t \in {None} \cup Int : MineBlock(t)
         \/ \E n \in 1 .. MaxBlocks, interval \in Intervals : MineFirstBlock(n, interval)
         \/ MineNextBlock
         \/ ReserveBlocks
         \/ MakeSnapshot
         \/ \E id \in Nat : RevertToSnapshot(id)
         \/ Tick
         \/ \E increment \in Increments : IncreaseBlockTime(increment)
         \/ \E timestamp \in 0 .. MaxTime : SetNextBlockTimestamp(timestamp)
         \/ UNCHANGED vars
<1>1. ASSUME NEW advance \in Advances, MineBlock(latest + advance)
      PROVE  \E t \in {None} \cup Int : MineBlock(t)
  <2>1. latest + advance \in Int
    BY BlockTimestampType DEF BlockTimeAssumption
  <2>. QED  BY <1>1, <2>1
<1>2. ASSUME NEW id \in 1 .. MaxSnapshots, RevertToSnapshot(id)
      PROVE  \E i \in Nat : RevertToSnapshot(i)
  <2>1. id \in Nat
    BY DEF BlockTimeAssumption
  <2>. QED  BY <1>2, <2>1
<1>3. MineBlock(None) => \E t \in {None} \cup Int : MineBlock(t)
  OBVIOUS
<1>. QED  BY <1>1, <1>2, <1>3, Zenon DEF Next

LEMMA SInvNext ==
  ASSUME SInv, BlockTimeAssumption, [Next]_vars
  PROVE  SInv'
<1>1. TypeOK
  BY DEF SInv
<1>2. ASSUME TypeOK', Grows, UNCHANGED <<now, saved>>
      PROVE  SInv'
  <2>1. timestamps' \in Times /\ UNCHANGED saved
    BY <1>2 DEF TypeOK
  <2>. QED  BY <1>2, <2>1, GrowingKeepsSnapshots DEF SInv
<1>. QED  BY <1>1, <1>2, StepKinds, MiningStep, MakeSnapshotStep, RevertStep, ClockStep, Zenon

(* The fields of the clock have their types (the type invariant of the       *)
(* module), for every configuration and with failing requests too.           *)
THEOREM ClockTyped == Spec => []TypeOK
<1>1. Init => SInv
  BY SInvInit, BlockTimeAssumption
<1>2. SInv /\ [Next]_vars => SInv'
  BY SInvNext, BlockTimeAssumption
<1>3. SInv => TypeOK
  BY DEF SInv
<1>. QED  BY <1>1, <1>2, <1>3, PTL DEF Spec

(* evm_revert never meets a snapshot whose block is gone or was replaced     *)
(* ("Snapshotted block should exist"): the chain a snapshot was taken of is  *)
(* a prefix of the chain for as long as the snapshot can be used.            *)
THEOREM SnapshotsUsable == Spec => []SnapshotsArePrefixes
<1>1. Init => SInv
  BY SInvInit, BlockTimeAssumption
<1>2. SInv /\ [Next]_vars => SInv'
  BY SInvNext, BlockTimeAssumption
<1>3. ASSUME SInv PROVE SnapshotsArePrefixes
  <2>. SUFFICES ASSUME NEW id \in DOMAIN snapshots
                PROVE  SubSeq(timestamps, 1, snapshots[id].block_number) =
                         snapshots[id].history
    BY <1>3 DEF SInv, SnapshotBlocks, SnapshotsArePrefixes
  <2>. DEFINE s == snapshots[id]
              p == SubSeq(timestamps, 1, s.block_number)
  <2>1. /\ timestamps \in Seq(Int) /\ s.history \in Seq(Int)
        /\ s.block_number \in Nat /\ s.block_number <= Len(timestamps)
        /\ Len(s.history) = s.block_number
        /\ \A k \in 1 .. s.block_number : timestamps[k] = s.history[k]
    BY <1>3 DEF SInv, TypeOK, SnapshotBlocks, Snapshot, Times
  <2>. HIDE DEF s
  <2>2. p \in Seq(Int) /\ Len(p) = s.block_number
    BY <2>1
  <2>3. \A k \in 1 .. Len(p) : p[k] = s.history[k]
    BY <2>1
  <2>. HIDE DEF p
  <2>4. p = s.history
    BY <2>1, <2>2, <2>3, SeqEqual
  <2>. QED  BY <2>4 DEF p, s
<1>. QED  BY <1>1, <1>2, <1>3, PTL DEF Spec

------------------------------------------------------------------------------
(* A block that is mined follows its parent, and the clock follows it; or it *)
(* stays a second behind, which is noted.                                    *)
LEMMA OrderedMine ==
  ASSUME IInv, NEW t \in {None} \cup Int, Mine(t),
         t # None => t >= latest,
         t = None => ~ Reserved
  PROVE  /\ InOrder'
         /\ now' = now => now' + block_time_offset_seconds' + Lag' >= latest'
         /\ next_block_timestamp' = None
<1>. USE DEF IInv, SInv
<1>1. /\ timestamps' \in Times
      /\ Len(timestamps') = Len(timestamps) + 1
      /\ timestamps'[Len(timestamps')] = BlockTimestamp(t)
      /\ Grows
  BY ExtendGrows DEF Mine
<1>2. /\ Candidate(t) \in Int /\ BlockTimestamp(t) \in Int /\ latest \in Int
      /\ now \in Int /\ block_time_offset_seconds \in Int
  BY BlockTimestampType DEF TypeOK, Candidate, Asked
<1>3. /\ Lag \in {0, 1} /\ Lag' \in {0, 1} /\ Lag <= Lag'
      /\ Asked(t) # None /\ timestamp_needs_increase(t) => Lag' = 1
  <2>1. /\ pushed => pushed'
        /\ Asked(t) # None /\ timestamp_needs_increase(t) => pushed'
    BY Zenon DEF Mine
  <2>. QED  BY <2>1 DEF Lag
<1>4. Candidate(t) + Lag >= latest /\ BlockTimestamp(t) >= Candidate(t)
  <2>1. Candidate(t) + Lag >= latest
    BY <1>2, <1>3 DEF Candidate, Asked, Possible, ClockKeepsUp
  <2>2. BlockTimestamp(t) >= Candidate(t)
    BY <1>2 DEF BlockTimestamp
  <2>. QED  BY <2>1, <2>2
<1>5. now + block_time_offset_seconds' + Lag' >= BlockTimestamp(t)
  <2>1. CASE Asked(t) # None
    <3>1. Asked(t) \in Int /\ Candidate(t) = Asked(t) /\ block_time_offset_seconds' = Asked(t) - now
      BY <1>2, <2>1 DEF Candidate, Mine, NewOffset
    <3>2. CASE timestamp_needs_increase(t)
      BY <1>2, <1>3, <2>1, <3>1, <3>2 DEF BlockTimestamp
    <3>3. CASE ~ timestamp_needs_increase(t)
      BY <1>2, <1>3, <3>1, <3>3 DEF BlockTimestamp
    <3>. QED  BY <3>2, <3>3
  <2>2. CASE Asked(t) = None
    <3>. DEFINE push == IF timestamp_needs_increase(t) THEN 1 ELSE 0
    <3>1. /\ Candidate(t) = now + block_time_offset_seconds
          /\ block_time_offset_seconds' = block_time_offset_seconds + push
          /\ BlockTimestamp(t) = Candidate(t) + push
      BY <2>2, Zenon DEF Candidate, Mine, NewOffset, BlockTimestamp
    <3>2. push \in Int
      OBVIOUS
    <3>3. Lag' \in Int /\ Lag' >= 0
      BY <1>3
    <3>. HIDE DEF push
    <3>4. BlockTimestamp(t) = now + block_time_offset_seconds'
      BY ONLY <1>2, <3>1, <3>2
    <3>5. block_time_offset_seconds' \in Int
      BY ONLY <1>2, <3>1, <3>2
    <3>6. now + block_time_offset_seconds' \in Int
      BY ONLY <1>2, <3>5
    <3>. QED  BY ONLY <3>3, <3>4, <3>6
  <2>. QED  BY <2>1, <2>2
<1>6. Len(timestamps) \in Nat \ {0} /\ \A k \in 1 .. Len(timestamps) : timestamps[k] \in Int
  BY DEF TypeOK, Times
<1>7. InOrder'
  <2>. SUFFICES ASSUME NEW i \in 2 .. Len(timestamps')
                PROVE  timestamps'[i - 1] <= timestamps'[i] + Lag'
    BY DEF InOrder
  <2>1. CASE i = Len(timestamps')
    <3>1. timestamps'[i - 1] = latest /\ timestamps'[i] = BlockTimestamp(t)
      BY <1>1, <1>6, <2>1 DEF Grows, latest
    <3>. QED  BY <1>2, <1>3, <1>4, <3>1
  <2>2. CASE i # Len(timestamps')
    <3>1. i \in 2 .. Len(timestamps) /\ i - 1 \in 1 .. Len(timestamps) /\ i \in 1 .. Len(timestamps)
      BY <1>1, <1>6, <2>2
    <3>2. timestamps[i - 1] <= timestamps[i] + Lag
      BY <3>1 DEF InOrder
    <3>3. timestamps'[i - 1] = timestamps[i - 1] /\ timestamps'[i] = timestamps[i]
      BY <1>1, <3>1 DEF Grows
    <3>. QED  BY <1>3, <1>6, <3>1, <3>2, <3>3
  <2>. QED  BY <2>1, <2>2
<1>8. now' = now => now' + block_time_offset_seconds' + Lag' >= latest'
  BY <1>1, <1>5 DEF latest
<1>. QED  BY <1>7, <1>8 DEF Mine

(* A request that fails and leaves no block behind whose clock is missing.   *)
LEMMA OrderedFailure ==
  ASSUME IInv, NEW t \in {None} \cup Int, MineFails(t), ~ torn', now' = now,
         t # None => t >= latest,
         t = None => ~ Reserved
  PROVE  /\ InOrder'
         /\ now' + block_time_offset_seconds' + Lag' >= latest'
         /\ \/ next_block_timestamp' = None
            \/ UNCHANGED <<latest, next_block_timestamp>>
<1>1. CASE Mine(t)
  BY <1>1, OrderedMine
<1>2. CASE ~ Mine(t)
  <2>1. /\ ~ Reserved
        /\ UNCHANGED <<timestamps, block_time_offset_seconds, next_block_timestamp, pushed>>
    BY <1>2 DEF MineFails
  <2>. QED  BY <2>1 DEF IInv, InOrder, ClockKeepsUp, Lag, latest
<1>. QED  BY <1>1, <1>2

(* The clocks of snapshots are older than the clock, and stay what they were *)
(* while the chain grows.                                                    *)
LEMMA GrowingKeepsClocks ==
  ASSUME IInv, Grows, UNCHANGED saved, now' \in Int, now' >= now, Lag' >= Lag
  PROVE  SnapshotClocks'
<1>1. snapshots' = snapshots
  BY DEF saved
<1>2. \A id \in DOMAIN snapshots : timestamps'[snapshots[id].block_number] =
                                      timestamps[snapshots[id].block_number]
  <2>1. \A id \in DOMAIN snapshots : snapshots[id].block_number \in Nat \ {0}
    BY DEF IInv, SInv, TypeOK, Snapshot
  <2>2. \A id \in DOMAIN snapshots : snapshots[id].block_number <= Len(timestamps)
    BY DEF IInv, SInv, SnapshotBlocks
  <2>3. Len(timestamps) \in Nat
    BY DEF IInv, SInv, TypeOK, Times
  <2>. QED  BY <2>1, <2>2, <2>3 DEF Grows
<1>3. \A id \in DOMAIN snapshots :
        /\ snapshots[id].time \in Int /\ now \in Int
        /\ snapshots[id].block_time_offset_seconds \in Int
        /\ timestamps[snapshots[id].block_number] \in Int
  BY DEF IInv, SInv, TypeOK, Snapshot, SnapshotBlocks, Times
<1>4. Lag \in {0, 1} /\ Lag' \in {0, 1}
  BY DEF Lag
<1>. QED  BY <1>1, <1>2, <1>3, <1>4 DEF SnapshotClocks, IInv

LEMMA IInvInit ==
  ASSUME BlockTimeAssumption, Init
  PROVE  IInv
<1>1. SInv
  BY SInvInit
<1>2. PICK t \in FirstTimestamps : timestamps = <<t>> /\ t \in Nat
  BY DEF Init, BlockTimeAssumption
<1>3. Len(timestamps) = 1 /\ latest = t
  BY <1>2 DEF latest
<1>4. DOMAIN snapshots = {}
  BY DEF Init
<1>5. ClockKeepsUp
  BY <1>2, <1>3 DEF ClockKeepsUp, Init, Lag
<1>6. InOrder /\ Possible /\ NothingAsked
  BY <1>3 DEF InOrder, Possible, NothingAsked, Init, Lag
<1>7. SnapshotClocks
  BY <1>4 DEF SnapshotClocks
<1>. QED  BY <1>1, <1>5, <1>6, <1>7 DEF IInv

(* A step that mines a block, or fails to. *)
LEMMA OrderedMining ==
  ASSUME IInv, ~ torn', BlockTimeAssumption,
         \/ \E t \in {None} \cup Int : MineBlock(t)
         \/ \E n \in 1 .. MaxBlocks, interval \in Intervals : MineFirstBlock(n, interval)
         \/ MineNextBlock
  PROVE  /\ InOrder'
         /\ now' + block_time_offset_seconds' + Lag' >= latest'
         /\ Possible' /\ NothingAsked'
<1>1. ASSUME NEW t \in {None} \cup Int, Mine(t) \/ (MineFails(t) /\ request' = None), now' = now,
             t # None => t >= latest, t = None => ~ Reserved
      PROVE  /\ InOrder'
             /\ now' + block_time_offset_seconds' + Lag' >= latest'
             /\ Possible' /\ NothingAsked'
  <2>1. CASE Mine(t)
    BY <1>1, <2>1, OrderedMine DEF Possible, NothingAsked
  <2>2. CASE MineFails(t) /\ request' = None
    BY <1>1, <2>2, OrderedFailure DEF Possible, NothingAsked, IInv
  <2>. QED  BY <1>1, <2>1, <2>2
<1>2. ASSUME NEW t \in {None} \cup Int, MineBlock(t)
      PROVE  /\ InOrder'
             /\ now' + block_time_offset_seconds' + Lag' >= latest'
             /\ Possible' /\ NothingAsked'
  BY <1>1, <1>2 DEF MineBlock, Reserved
<1>3. ASSUME NEW n \in 1 .. MaxBlocks, NEW interval \in Intervals, MineFirstBlock(n, interval)
      PROVE  /\ InOrder'
             /\ now' + block_time_offset_seconds' + Lag' >= latest'
             /\ Possible' /\ NothingAsked'
  <2>1. /\ Mine(None) \/ (MineFails(None) /\ request' = None)
        /\ now' = now /\ ~ Reserved
    BY <1>3 DEF MineFirstBlock, Reserved
  <2>. QED  BY <1>1, <2>1
<1>4. ASSUME MineNextBlock
      PROVE  /\ InOrder'
             /\ now' + block_time_offset_seconds' + Lag' >= latest'
             /\ Possible' /\ NothingAsked'
  <2>. DEFINE t == latest + request.interval
  <2>1. (Mine(t) \/ (MineFails(t) /\ request' = None)) /\ now' = now
    BY <1>4 DEF MineNextBlock
  <2>2. request.interval \in Nat /\ latest \in Int
    BY <1>4, BlockTimestampType DEF MineNextBlock, IInv, SInv, TypeOK, Request
  <2>3. t \in Int /\ t >= latest /\ t # None
    BY <2>2 DEF BlockTimeAssumption
  <2>. HIDE DEF t
  <2>. QED  BY <1>1, <2>1, <2>3
<1>. QED  BY <1>2, <1>3, <1>4

(* Reserved blocks follow their parents at the interval of the request. *)
LEMMA ReservedFollow ==
  ASSUME TypeOK, BlockTimeAssumption, ReserveBlocks
  PROVE  \A i \in Len(timestamps) + 1 .. Len(timestamps') :
           /\ timestamps'[i - 1] \in Int
           /\ timestamps'[i] = timestamps'[i - 1] + request.interval
<1>1. /\ timestamps' \in Times
      /\ Grows
      /\ request.remaining - 1 \in Nat
      /\ Len(timestamps') = Len(timestamps) + request.remaining - 1
      /\ \A k \in 1 .. request.remaining - 1 :
           timestamps'[Len(timestamps) + k] = latest + k * request.interval
  BY ReserveGrows
<1>2. request \in Request /\ latest \in Int
  BY BlockTimestampType DEF TypeOK, ReserveBlocks
<1>3. request.interval \in Nat /\ Len(timestamps) \in Nat \ {0}
  BY <1>2 DEF Request, TypeOK, Times
<1>. TAKE i \in Len(timestamps) + 1 .. Len(timestamps')
<1>4. CASE i = Len(timestamps) + 1
  <2>1. 1 \in 1 .. request.remaining - 1
    BY <1>1, <1>3, <1>4
  <2>2. timestamps'[i] = latest + 1 * request.interval
    BY <1>1, <1>4, <2>1
  <2>3. timestamps'[i - 1] = latest
    BY <1>1, <1>3, <1>4 DEF Grows, latest
  <2>. QED  BY <1>2, <1>3, <2>2, <2>3
<1>5. CASE i > Len(timestamps) + 1
  <2>. DEFINE k == i - Len(timestamps)
  <2>1. /\ k \in 1 .. request.remaining - 1 /\ k - 1 \in 1 .. request.remaining - 1
        /\ i = Len(timestamps) + k /\ i - 1 = Len(timestamps) + (k - 1)
    BY <1>1, <1>3, <1>5
  <2>2. /\ timestamps'[i] = latest + k * request.interval
        /\ timestamps'[i - 1] = latest + (k - 1) * request.interval
    BY <1>1, <2>1
  <2>. HIDE DEF k
  <2>3. k \in Int /\ (k - 1) * request.interval + request.interval = k * request.interval
    BY <1>1, <1>3, <2>1
  <2>4. (k - 1) * request.interval \in Int /\ k * request.interval \in Int
    BY <1>3, <2>3
  <2>5. /\ latest + (k - 1) * request.interval \in Int
        /\ latest + k * request.interval = latest + (k - 1) * request.interval + request.interval
    <3>. DEFINE a == (k - 1) * request.interval
                b == k * request.interval
    <3>1. a \in Int /\ b \in Int /\ a + request.interval = b
      BY <2>3, <2>4
    <3>. HIDE DEF a, b
    <3>2. latest + a \in Int /\ latest + b = latest + a + request.interval
      BY <1>2, <1>3, <3>1
    <3>. QED  BY <3>2 DEF a, b
  <2>. QED  BY <2>2, <2>5
<1>. QED  BY <1>1, <1>3, <1>4, <1>5

(* Reserved blocks. *)
LEMMA OrderedReserving ==
  ASSUME IInv, BlockTimeAssumption, ReserveBlocks
  PROVE  /\ InOrder'
         /\ Reserved'
         /\ next_block_timestamp' = None
         /\ Lag' = Lag
<1>1. TypeOK /\ request \in Request
  BY DEF IInv, SInv, TypeOK, ReserveBlocks
<1>2. timestamps' \in Times /\ Grows
  BY <1>1, ReserveGrows
<1>3. /\ request.interval \in Nat
      /\ Len(timestamps) \in Nat \ {0} /\ Len(timestamps') \in Nat
  BY <1>1, <1>2 DEF Request, TypeOK, Times
<1>4. ASSUME NEW i \in 2 .. Len(timestamps') PROVE timestamps'[i - 1] <= timestamps'[i] + Lag
  <2>1. CASE i <= Len(timestamps)
    <3>1. timestamps[i - 1] <= timestamps[i] + Lag
      BY <1>3, <2>1 DEF InOrder, IInv
    <3>2. timestamps'[i] = timestamps[i] /\ timestamps'[i - 1] = timestamps[i - 1]
      BY <1>2, <1>3, <2>1 DEF Grows
    <3>. QED  BY <3>1, <3>2
  <2>2. CASE i > Len(timestamps)
    <3>1. /\ timestamps'[i - 1] \in Int
          /\ timestamps'[i] = timestamps'[i - 1] + request.interval
      BY <1>1, <1>3, <2>2, ReservedFollow
    <3>2. Lag \in Nat
      BY DEF Lag
    <3>. QED  BY <1>3, <3>1, <3>2
  <2>. QED  BY <1>3, <2>1, <2>2
<1>5. InOrder' /\ Lag' = Lag
  <2>1. Lag' = Lag
    BY DEF ReserveBlocks, noted, Lag
  <2>. QED  BY <1>4, <2>1 DEF InOrder
<1>6. Reserved' /\ next_block_timestamp' = None
  <2>1. request' \in Request /\ request'.reserved = TRUE /\ request # None
    BY <1>1, ReservingType DEF ReserveBlocks
  <2>2. None \notin Request
    BY DEF BlockTimeAssumption
  <2>. QED  BY <2>1, <2>2 DEF ReserveBlocks, NothingAsked, IInv, Reserved
<1>. QED  BY <1>5, <1>6

LEMMA OrderedMakeSnapshot ==
  ASSUME IInv, MakeSnapshot
  PROVE  IInv'
<1>1. SInv'
  BY MakeSnapshotStep DEF IInv
<1>2. /\ UNCHANGED <<now, timestamps, block_time_offset_seconds, next_block_timestamp, request>>
      /\ Lag' = Lag
  BY DEF MakeSnapshot, clock, noted, Lag
<1>3. InOrder' /\ Possible' /\ ClockKeepsUp' /\ NothingAsked'
  BY <1>2 DEF IInv, InOrder, Possible, ClockKeepsUp, NothingAsked, latest, Reserved
<1>4. /\ NewSnapshot.time = now
      /\ NewSnapshot.block_number = Len(timestamps)
      /\ NewSnapshot.block_time_offset_seconds = block_time_offset_seconds
      /\ NewSnapshot.next_block_timestamp = next_block_timestamp
  BY DEF NewSnapshot
<1>5. now + block_time_offset_seconds + Lag >= timestamps[Len(timestamps)]
  BY DEF IInv, ClockKeepsUp, MakeSnapshot, latest, Reserved
<1>6. next_block_timestamp # None => next_block_timestamp >= timestamps[Len(timestamps)]
  BY DEF IInv, Possible, latest
<1>7. now \in Int
  BY DEF IInv, SInv, TypeOK
<1>8. \A id \in DOMAIN snapshots' :
        \/ snapshots'[id] = NewSnapshot
        \/ id \in DOMAIN snapshots /\ snapshots'[id] = snapshots[id]
  BY DEF MakeSnapshot
<1>9. SnapshotClocks'
  BY <1>2, <1>4, <1>5, <1>6, <1>7, <1>8 DEF IInv, SnapshotClocks
<1>. QED  BY <1>1, <1>3, <1>9 DEF IInv

(* evm_revert takes the clock back to one that kept up, and adds the time    *)
(* that has passed since.                                                    *)
LEMMA OrderedRevert ==
  ASSUME IInv, NEW id \in Nat, RevertToSnapshot(id)
  PROVE  IInv'
<1>1. SInv'
  BY RevertStep DEF IInv
<1>2. /\ DOMAIN snapshots' = {j \in DOMAIN snapshots : j < id}
      /\ \A j \in DOMAIN snapshots' : snapshots'[j] = snapshots[j]
      /\ UNCHANGED <<now, next_snapshot_id, request>>
      /\ request = None
  BY DEF RevertToSnapshot, SplitOff
<1>3. CASE id \in DOMAIN snapshots
  <2>. DEFINE s == snapshots[id]
  <2>1. Restore(s) /\ s \in Snapshot
    BY <1>3 DEF RevertToSnapshot, IInv, SInv, TypeOK
  <2>2. /\ timestamps' \in Times
        /\ Len(timestamps') = s.block_number
        /\ \A k \in 1 .. s.block_number : timestamps'[k] = timestamps[k]
    BY <1>3, <2>1, RestoreTakesBack DEF IInv
  <2>3. /\ s.time <= now
        /\ s.time + s.block_time_offset_seconds + Lag >= timestamps[s.block_number]
        /\ s.next_block_timestamp # None =>
             s.next_block_timestamp >= timestamps[s.block_number]
        /\ s.block_number <= Len(timestamps)
    BY <1>3 DEF IInv, SInv, SnapshotClocks, SnapshotBlocks
  <2>4. /\ s.block_number \in Nat \ {0} /\ s.time \in Int /\ now \in Int
        /\ s.block_time_offset_seconds \in Int /\ Len(timestamps) \in Nat
        /\ \A k \in 1 .. Len(timestamps) : timestamps[k] \in Int
    BY <2>1 DEF Snapshot, IInv, SInv, TypeOK, Times
  <2>5. /\ block_time_offset_seconds' = s.block_time_offset_seconds + (now - s.time)
        /\ next_block_timestamp' = s.next_block_timestamp
        /\ now' = now /\ Lag' = Lag /\ Lag \in {0, 1}
    BY <1>2, <2>1 DEF Restore, noted, Lag
  <2>. HIDE DEF s
  <2>6. latest' = timestamps[s.block_number] /\ timestamps[s.block_number] \in Int
    BY <2>2, <2>3, <2>4 DEF latest
  <2>7. ClockKeepsUp'
    BY <2>3, <2>4, <2>5, <2>6, SMTT(30) DEF ClockKeepsUp
  <2>8. Possible' /\ NothingAsked'
    BY <1>2, <2>3, <2>5, <2>6 DEF Possible, NothingAsked
  <2>9. InOrder'
    <3>. SUFFICES ASSUME NEW i \in 2 .. Len(timestamps')
                  PROVE  timestamps'[i - 1] <= timestamps'[i] + Lag'
      BY DEF InOrder
    <3>1. i - 1 \in 1 .. s.block_number /\ i \in 1 .. s.block_number /\ i \in 2 .. Len(timestamps)
      BY <2>2, <2>3, <2>4
    <3>2. timestamps[i - 1] <= timestamps[i] + Lag
      BY <3>1 DEF InOrder, IInv
    <3>. QED  BY <2>2, <2>5, <3>1, <3>2
  <2>10. SnapshotClocks'
    <3>1. \A j \in DOMAIN snapshots' :
            /\ j \in DOMAIN snapshots
            /\ snapshots[j].block_number \in Nat \ {0}
            /\ snapshots[j].block_number <= s.block_number
      BY <1>2, <1>3 DEF IInv, SInv, TypeOK, Snapshot, SnapshotOrder, s
    <3>2. \A j \in DOMAIN snapshots' :
            timestamps'[snapshots[j].block_number] = timestamps[snapshots[j].block_number]
      BY <2>2, <2>4, <3>1
    <3>. QED  BY <1>2, <2>5, <3>1, <3>2 DEF SnapshotClocks, IInv
  <2>. QED  BY <1>1, <2>7, <2>8, <2>9, <2>10 DEF IInv
<1>4. CASE id \notin DOMAIN snapshots
  <2>1. /\ UNCHANGED <<timestamps, block_time_offset_seconds, next_block_timestamp>>
        /\ Lag' = Lag
    BY <1>4 DEF RevertToSnapshot, clock, noted, Lag
  <2>2. InOrder' /\ Possible' /\ ClockKeepsUp' /\ NothingAsked'
    BY <1>2, <2>1 DEF IInv, InOrder, Possible, ClockKeepsUp, NothingAsked, latest, Reserved
  <2>3. SnapshotClocks'
    BY <1>2, <2>1 DEF SnapshotClocks, IInv
  <2>. QED  BY <1>1, <2>2, <2>3 DEF IInv
<1>. QED  BY <1>3, <1>4

(* Time that passes, or is added, only helps; a timestamp that is asked for  *)
(* is checked.                                                               *)
LEMMA OrderedClock ==
  ASSUME IInv, BlockTimeAssumption,
         \/ Tick
         \/ \E increment \in Increments : IncreaseBlockTime(increment)
         \/ \E timestamp \in 0 .. MaxTime : SetNextBlockTimestamp(timestamp)
         \/ UNCHANGED vars
  PROVE  IInv'
<1>1. SInv' /\ UNCHANGED <<timestamps, saved>>
  BY ClockStep DEF IInv
<1>2. InOrder' /\ latest' = latest /\ Lag' = Lag /\ Lag \in {0, 1}
  <2>1. Lag' = Lag
    BY DEF Tick, IncreaseBlockTime, SetNextBlockTimestamp, vars, clock, noted, Lag
  <2>. QED  BY <1>1, <2>1 DEF InOrder, IInv, latest, Lag
<1>3. /\ now \in Int /\ block_time_offset_seconds \in Int /\ latest \in Int
      /\ Increments \subseteq Nat /\ MaxTime \in Nat
  BY BlockTimestampType DEF IInv, SInv, TypeOK, BlockTimeAssumption
<1>4. /\ Possible' /\ ClockKeepsUp' /\ NothingAsked'
      /\ now' \in Int /\ now' >= now
  <2>1. CASE Tick
    BY <1>2, <1>3, <2>1
       DEF Tick, clock, IInv, Possible, ClockKeepsUp, NothingAsked, Reserved
  <2>2. CASE \E increment \in Increments : IncreaseBlockTime(increment)
    BY <1>2, <1>3, <2>2
       DEF IncreaseBlockTime, IInv, Possible, ClockKeepsUp, NothingAsked, Reserved
  <2>3. CASE \E timestamp \in 0 .. MaxTime : SetNextBlockTimestamp(timestamp)
    BY <1>2, <1>3, <2>3
       DEF SetNextBlockTimestamp, IInv, Possible, ClockKeepsUp, NothingAsked, Reserved
  <2>4. CASE UNCHANGED vars
    BY <1>2, <1>3, <2>4
       DEF vars, clock, IInv, Possible, ClockKeepsUp, NothingAsked, Reserved
  <2>. QED  BY <2>1, <2>2, <2>3, <2>4
<1>5. Grows /\ UNCHANGED saved
  BY <1>1 DEF IInv, SInv, TypeOK, Times, Grows
<1>6. SnapshotClocks'
  BY <1>2, <1>4, <1>5, GrowingKeepsClocks
<1>. QED  BY <1>1, <1>2, <1>4, <1>6 DEF IInv

(* What was noted is not forgotten. *)
LEMMA NotedStays ==
  ASSUME TypeOK, BlockTimeAssumption, [Next]_vars
  PROVE  (~ torn' => ~ torn) /\ Lag' >= Lag
<1>. DEFINE Kept == (~ torn' => ~ torn) /\ (pushed => pushed')
<1>1. ASSUME NEW t \in {None} \cup Int, Mine(t) \/ MineFails(t) PROVE Kept
  <2>1. CASE Mine(t)
    BY <2>1, Zenon DEF Mine
  <2>2. CASE torn' = (torn \/ Reserved) /\ pushed' = pushed
    BY <2>2, Zenon
  <2>3. CASE torn' = TRUE /\ pushed' = pushed
    BY <2>3, Zenon
  <2>. QED  BY <1>1, <2>1, <2>2, <2>3, Zenon DEF MineFails
<1>2. UNCHANGED noted => Kept
  BY DEF noted
<1>3. \A t \in {None} \cup Int : MineBlock(t) => Kept
  BY <1>1 DEF MineBlock
<1>4. \A n \in 1 .. MaxBlocks, interval \in Intervals : MineFirstBlock(n, interval) => Kept
  BY <1>1 DEF MineFirstBlock
<1>5. MineNextBlock => Kept
  <2>. SUFFICES ASSUME MineNextBlock PROVE Kept
    OBVIOUS
  <2>1. latest + request.interval \in Int
    BY BlockTimestampType DEF MineNextBlock, TypeOK, Request
  <2>. QED  BY <1>1, <2>1 DEF MineNextBlock
<1>6. /\ ReserveBlocks \/ MakeSnapshot \/ Tick => UNCHANGED noted
      /\ UNCHANGED vars => UNCHANGED noted
      /\ \A id \in Nat : RevertToSnapshot(id) => UNCHANGED noted
      /\ \A increment \in Increments : IncreaseBlockTime(increment) => UNCHANGED noted
      /\ \A timestamp \in 0 .. MaxTime : SetNextBlockTimestamp(timestamp) => UNCHANGED noted
  BY DEF ReserveBlocks, MakeSnapshot, Tick, vars, clock, RevertToSnapshot, Restore,
         IncreaseBlockTime, SetNextBlockTimestamp
<1>. HIDE DEF Kept
<1>7. Kept
  BY <1>2, <1>3, <1>4, <1>5, <1>6, StepKinds, Zenon
<1>. QED  BY <1>7 DEF Kept, Lag

LEMMA IInvNext ==
  ASSUME IInv, ~ torn', BlockTimeAssumption, [Next]_vars
  PROVE  IInv'
<1>1. TypeOK /\ SInv /\ SInv'
  BY SInvNext DEF IInv, SInv
<1>2. ASSUME \/ \E t \in {None} \cup Int : MineBlock(t)
             \/ \E n \in 1 .. MaxBlocks, interval \in Intervals : MineFirstBlock(n, interval)
             \/ MineNextBlock
             \/ ReserveBlocks
      PROVE  IInv'
  <2>1. Grows /\ UNCHANGED <<now, saved>>
    BY <1>1, <1>2, MiningStep
  <2>2. UNCHANGED saved /\ now' \in Int /\ now' >= now /\ Lag' >= Lag
    BY <1>1, <2>1, NotedStays DEF TypeOK
  <2>3. SnapshotClocks'
    BY <2>1, <2>2, GrowingKeepsClocks
  <2>4. CASE ReserveBlocks
    BY <1>1, <2>3, <2>4, OrderedReserving DEF IInv, Possible, ClockKeepsUp, NothingAsked
  <2>5. CASE ~ ReserveBlocks
    BY <1>1, <1>2, <2>3, <2>5, OrderedMining DEF IInv, ClockKeepsUp
  <2>. QED  BY <2>4, <2>5
<1>. QED  BY <1>1, <1>2, StepKinds, OrderedMakeSnapshot, OrderedRevert, OrderedClock, Zenon

(* What is invariant whatever fails. *)
TInv == SInv /\ (~ torn => IInv)

LEMMA TInvInvariant == Spec => []TInv
<1>1. Init => TInv
  BY IInvInit, BlockTimeAssumption DEF TInv, IInv
<1>2. TInv /\ [Next]_vars => TInv'
  <2>. SUFFICES ASSUME TInv, [Next]_vars  PROVE TInv'
    OBVIOUS
  <2>1. SInv'
    BY SInvNext, BlockTimeAssumption DEF TInv
  <2>2. ASSUME ~ torn' PROVE IInv'
    <3>1. ~ torn
      BY <2>2, NotedStays, BlockTimeAssumption DEF TInv, SInv
    <3>. QED  BY <2>2, <3>1, IInvNext, BlockTimeAssumption DEF TInv
  <2>. QED  BY <2>1, <2>2 DEF TInv
<1>. QED  BY <1>1, <1>2, PTL DEF Spec

(* In both configurations no block is older than its parent, whatever        *)
(* explicit timestamps, time increases, hardhat_mine requests, failing       *)
(* requests, snapshots and reverts come in which order; or by one second,    *)
(* and only once an explicit timestamp was that of the latest block where    *)
(* that is not allowed.  This holds until a request fails between adding     *)
(* blocks and adopting their clock.  The chain itself does not check it      *)
(* (validate_next_block).                                                    *)
THEOREM ClockKeepsOrder == Spec => []TimestampsOrdered
<1>1. TInv => TimestampsOrdered
  BY DEF TInv, IInv, TimestampsOrdered
<1>. QED  BY <1>1, TInvInvariant, PTL

(* Until such a failure a timestamp that set_next_block_timestamp has        *)
(* accepted can still be used when the next block is mined, in both          *)
(* configurations.                                                           *)
THEOREM AskedStaysPossible == Spec => []AskedIsNotPast
<1>1. TInv => AskedIsNotPast
  BY DEF TInv, IInv, AskedIsNotPast
<1>. QED  BY <1>1, TInvInvariant, PTL

------------------------------------------------------------------------------
(* The clock and the epoch.  Every time that can become the clock's is not   *)
(* below it: those of the blocks, what a client asked for, and what a        *)
(* snapshot restores, to which the time since the snapshot is added.         *)
BlocksPositive == \A k \in 1 .. Len(timestamps) : timestamps[k] >= 0
AskedPositive == next_block_timestamp # None => next_block_timestamp >= 0
SnapshotsPositive ==
  \A id \in DOMAIN snapshots :
    LET s == snapshots[id] IN
    /\ s.time <= now
    /\ s.time + s.block_time_offset_seconds >= 0
    /\ s.next_block_timestamp # None => s.next_block_timestamp >= 0

PInv == SInv /\ ClockIsPositive /\ BlocksPositive /\ AskedPositive /\ SnapshotsPositive

LEMMA PInvInit ==
  ASSUME BlockTimeAssumption, Init
  PROVE  PInv
<1>1. SInv /\ DOMAIN snapshots = {}
  BY SInvInit DEF Init
<1>2. PICK t \in FirstTimestamps : timestamps = <<t>>
  BY DEF Init
<1>3. t \in Nat /\ Len(timestamps) = 1 /\ timestamps[1] = t
  BY <1>2 DEF BlockTimeAssumption
<1>4. BlocksPositive
  BY <1>3 DEF BlocksPositive
<1>5. ClockIsPositive
  BY <1>3 DEF Init, ClockIsPositive
<1>. QED  BY <1>1, <1>4, <1>5 DEF Init, PInv, AskedPositive, SnapshotsPositive

(* A block that is mined, or only inserted, from a timestamp that is not     *)
(* below the epoch.                                                          *)
LEMMA PositiveMine ==
  ASSUME PInv, BlockTimeAssumption, NEW t \in {None} \cup Int, t # None => t >= 0,
         Mine(t) \/ MineFails(t), now' = now
  PROVE  ClockIsPositive' /\ BlocksPositive' /\ AskedPositive'
<1>1. TypeOK /\ None \notin Int
  BY DEF PInv, SInv, BlockTimeAssumption
<1>2. /\ now \in Int /\ block_time_offset_seconds \in Int
      /\ next_block_timestamp \in {None} \cup Int
      /\ now + block_time_offset_seconds >= 0
      /\ next_block_timestamp # None => next_block_timestamp >= 0
  BY <1>1 DEF TypeOK, PInv, ClockIsPositive, AskedPositive
<1>3. Asked(t) \in {None} \cup Int /\ (Asked(t) # None => Asked(t) >= 0)
  BY <1>2 DEF Asked
<1>4. Candidate(t) \in Int /\ Candidate(t) >= 0
  BY <1>2, <1>3 DEF Candidate
<1>5. BlockTimestamp(t) \in Int /\ BlockTimestamp(t) >= 0
  BY <1>4 DEF BlockTimestamp
<1>6. NewOffset(t) \in Int /\ now + NewOffset(t) >= 0
  BY <1>2, <1>3 DEF NewOffset
<1>7. Extend(t) => BlocksPositive'
  <2>. SUFFICES ASSUME Extend(t) PROVE BlocksPositive'
    OBVIOUS
  <2>1. /\ timestamps' \in Times
        /\ Len(timestamps') = Len(timestamps) + 1
        /\ timestamps'[Len(timestamps')] = BlockTimestamp(t)
        /\ Grows /\ Len(timestamps) \in Nat
    BY <1>1, ExtendGrows DEF TypeOK, Times
  <2>. QED  BY <1>5, <2>1 DEF PInv, BlocksPositive, Grows
<1>8. CASE Mine(t)
  BY <1>6, <1>7, <1>8 DEF Mine, ClockIsPositive, AskedPositive
<1>9. CASE /\ Extend(t) \/ UNCHANGED timestamps
           /\ UNCHANGED <<block_time_offset_seconds, next_block_timestamp>>
  BY <1>7, <1>9 DEF PInv, ClockIsPositive, AskedPositive, BlocksPositive
<1>. QED  BY <1>8, <1>9 DEF MineFails

LEMMA PInvNext ==
  ASSUME PInv, BlockTimeAssumption, [Next]_vars
  PROVE  PInv'
<1>1. SInv /\ TypeOK /\ SInv'
  BY SInvNext DEF PInv, SInv
<1>2. /\ now \in Int /\ block_time_offset_seconds \in Int /\ Len(timestamps) \in Nat \ {0}
      /\ latest \in Int /\ latest >= 0 /\ None \notin Int
  BY <1>1, BlockTimestampType DEF TypeOK, Times, latest, PInv, BlocksPositive, BlockTimeAssumption
<1>3. ASSUME UNCHANGED saved, now' \in Int, now' >= now,
             ClockIsPositive', BlocksPositive', AskedPositive'
      PROVE  PInv'
  <2>1. \A id \in DOMAIN snapshots : snapshots[id].time \in Int
    BY <1>1 DEF TypeOK, Snapshot
  <2>2. SnapshotsPositive'
    BY <1>2, <1>3, <2>1 DEF PInv, saved, SnapshotsPositive
  <2>. QED  BY <1>1, <1>3, <2>2 DEF PInv
<1>4. ASSUME NEW t \in {None} \cup Int, MineBlock(t) PROVE PInv'
  <2>1. t # None => t >= 0
    BY <1>2, <1>4 DEF MineBlock
  <2>2. (Mine(t) \/ MineFails(t)) /\ now' = now /\ UNCHANGED saved
    BY <1>4 DEF MineBlock
  <2>. QED  BY <1>2, <1>3, <2>1, <2>2, PositiveMine
<1>5. ASSUME NEW n \in 1 .. MaxBlocks, NEW interval \in Intervals, MineFirstBlock(n, interval)
      PROVE  PInv'
  <2>1. (Mine(None) \/ MineFails(None)) /\ now' = now /\ UNCHANGED saved
    BY <1>5 DEF MineFirstBlock
  <2>2. ClockIsPositive' /\ BlocksPositive' /\ AskedPositive'
    BY <2>1, PositiveMine
  <2>. QED  BY <1>2, <1>3, <2>1, <2>2
<1>6. ASSUME MineNextBlock PROVE PInv'
  <2>1. request \in Request
    BY <1>1, <1>6 DEF MineNextBlock, TypeOK
  <2>2. latest + request.interval \in Int /\ latest + request.interval >= 0
    BY <1>2, <2>1 DEF Request
  <2>3. /\ Mine(latest + request.interval) \/ MineFails(latest + request.interval)
        /\ now' = now /\ UNCHANGED saved
    BY <1>6 DEF MineNextBlock
  <2>. QED  BY <1>2, <1>3, <2>2, <2>3, PositiveMine
<1>7. ASSUME ReserveBlocks PROVE PInv'
  <2>1. request \in Request /\ request.interval \in Nat
    BY <1>1, <1>7 DEF ReserveBlocks, TypeOK, Request
  <2>2. /\ Grows
        /\ request.remaining - 1 \in Nat
        /\ Len(timestamps') = Len(timestamps) + request.remaining - 1
        /\ \A k \in 1 .. request.remaining - 1 :
             timestamps'[Len(timestamps) + k] = latest + k * request.interval
    BY <1>1, <1>7, ReserveGrows
  <2>3. \A k \in Nat : latest + k * request.interval >= 0
    BY <1>2, <2>1
  <2>4. \A k \in 1 .. Len(timestamps') :
          \/ k \in 1 .. Len(timestamps)
          \/ /\ k - Len(timestamps) \in 1 .. request.remaining - 1
             /\ k = Len(timestamps) + (k - Len(timestamps))
    BY <1>2, <2>2
  <2>5. BlocksPositive'
    <3>. SUFFICES ASSUME NEW k \in 1 .. Len(timestamps') PROVE timestamps'[k] >= 0
      BY DEF BlocksPositive
    <3>1. CASE k \in 1 .. Len(timestamps)
      BY <2>2, <3>1 DEF Grows, PInv, BlocksPositive
    <3>2. CASE k \notin 1 .. Len(timestamps)
      <4>. DEFINE j == k - Len(timestamps)
      <4>1. j \in 1 .. request.remaining - 1 /\ k = Len(timestamps) + j
        BY <2>4, <3>2
      <4>. HIDE DEF j
      <4>2. timestamps'[k] = latest + j * request.interval /\ j \in Nat
        BY <2>2, <4>1
      <4>. QED  BY <2>3, <4>2
    <3>. QED  BY <3>1, <3>2
  <2>. QED  BY <1>2, <1>3, <1>7, <2>5 DEF ReserveBlocks, PInv, ClockIsPositive, AskedPositive
<1>8. ASSUME MakeSnapshot PROVE PInv'
  <2>1. /\ DOMAIN snapshots' = DOMAIN snapshots \cup {next_snapshot_id}
        /\ \A id \in DOMAIN snapshots' : snapshots'[id] = NewSnapshot \/
             (id \in DOMAIN snapshots /\ snapshots'[id] = snapshots[id])
        /\ UNCHANGED <<now, clock, request>>
    BY <1>8 DEF MakeSnapshot
  <2>2. /\ NewSnapshot.time <= now
        /\ NewSnapshot.time + NewSnapshot.block_time_offset_seconds >= 0
        /\ NewSnapshot.next_block_timestamp # None => NewSnapshot.next_block_timestamp >= 0
    BY <1>2 DEF NewSnapshot, PInv, ClockIsPositive, AskedPositive
  <2>3. SnapshotsPositive'
    BY <2>1, <2>2 DEF PInv, SnapshotsPositive
  <2>. QED  BY <1>1, <2>1, <2>3 DEF PInv, clock, ClockIsPositive, AskedPositive, BlocksPositive
<1>9. ASSUME NEW id \in Nat, RevertToSnapshot(id) PROVE PInv'
  <2>1. /\ \A j \in DOMAIN snapshots' : j \in DOMAIN snapshots /\ snapshots'[j] = snapshots[j]
        /\ now' = now
    BY <1>9 DEF RevertToSnapshot, SplitOff
  <2>2. SnapshotsPositive'
    BY <2>1 DEF PInv, SnapshotsPositive
  <2>3. CASE id \in DOMAIN snapshots
    <3>1. Restore(snapshots[id]) /\ snapshots[id] \in Snapshot
      BY <1>1, <1>9, <2>3 DEF RevertToSnapshot, TypeOK
    <3>2. /\ snapshots[id].time \in Int /\ snapshots[id].block_time_offset_seconds \in Int
          /\ snapshots[id].block_number \in Nat
          /\ snapshots[id].block_number <= Len(timestamps)
      BY <1>1, <2>3, <3>1 DEF Snapshot, SInv, SnapshotBlocks
    <3>3. ClockIsPositive'
      <4>1. block_time_offset_seconds' =
              snapshots[id].block_time_offset_seconds + (now - snapshots[id].time)
        BY <3>1 DEF Restore
      <4>2. /\ snapshots[id].time <= now
            /\ snapshots[id].time + snapshots[id].block_time_offset_seconds >= 0
        BY <2>3 DEF PInv, SnapshotsPositive
      <4>. QED  BY <1>2, <2>1, <3>2, <4>1, <4>2 DEF ClockIsPositive
    <3>4. AskedPositive'
      BY <2>3, <3>1 DEF Restore, PInv, SnapshotsPositive, AskedPositive
    <3>5. BlocksPositive'
      BY <1>1, <1>2, <2>3, <3>1, <3>2, RestoreTakesBack DEF PInv, BlocksPositive
    <3>. QED  BY <1>1, <2>2, <3>3, <3>4, <3>5 DEF PInv
  <2>4. CASE id \notin DOMAIN snapshots
    BY <1>1, <1>9, <2>1, <2>2, <2>4
       DEF RevertToSnapshot, clock, PInv, ClockIsPositive, AskedPositive, BlocksPositive
  <2>. QED  BY <2>3, <2>4
<1>10. CASE Tick
  BY <1>2, <1>3, <1>10 DEF Tick, clock, saved, PInv, ClockIsPositive, AskedPositive, BlocksPositive
<1>11. ASSUME NEW increment \in Increments, IncreaseBlockTime(increment) PROVE PInv'
  <2>1. increment \in Nat
    BY DEF BlockTimeAssumption
  <2>. QED  BY <1>2, <1>3, <1>11, <2>1
              DEF IncreaseBlockTime, PInv, ClockIsPositive, AskedPositive, BlocksPositive
<1>12. ASSUME NEW timestamp \in 0 .. MaxTime, SetNextBlockTimestamp(timestamp) PROVE PInv'
  BY <1>2, <1>3, <1>12 DEF SetNextBlockTimestamp, PInv, ClockIsPositive, AskedPositive, BlocksPositive,
                     BlockTimeAssumption
<1>13. CASE UNCHANGED vars
  BY <1>2, <1>3, <1>13 DEF vars, clock, saved, PInv, ClockIsPositive, AskedPositive, BlocksPositive
<1>. QED  BY <1>1, <1>4, <1>5, <1>6, <1>7, <1>8, <1>9, <1>10, <1>11, <1>12, <1>13, StepKinds, Zenon

(* The panic "timestamp must be positive" of next_block_timestamp is out of  *)
(* reach: in no configuration, and not after requests that failed half-way,  *)
(* does the offset take the clock below the epoch.                           *)
THEOREM ClockStaysPositive == Spec => []ClockIsPositive
<1>1. Init => PInv
  BY PInvInit, BlockTimeAssumption
<1>2. PInv /\ [Next]_vars => PInv'
  BY PInvNext, BlockTimeAssumption
<1>3. PInv => ClockIsPositive
  BY DEF PInv
<1>. QED  BY <1>1, <1>2, <1>3, PTL DEF Spec

------------------------------------------------------------------------------
(* Where blocks of the same timestamp are not allowed.  Reserved blocks rely *)
(* on the interval of their request.                                         *)
IntervalPositive == request # None => request.interval # 0

DInv == SInv /\ NoSameTimestamp /\ IntervalPositive

(* The timestamp of a block that is mined is never that of its parent. *)
LEMMA StrictExtend ==
  ASSUME DInv, NEW t \in {None} \cup Int, Extend(t) \/ UNCHANGED timestamps,
         UNCHANGED allow_blocks_with_same_timestamp
  PROVE  NoSameTimestamp'
<1>1. CASE UNCHANGED timestamps
  BY <1>1 DEF DInv, NoSameTimestamp
<1>2. CASE Extend(t) /\ ~ allow_blocks_with_same_timestamp
  <2>1. TypeOK
    BY DEF DInv, SInv
  <2>2. Candidate(t) \in Int /\ latest \in Int
    BY <2>1, BlockTimestampType DEF TypeOK, Candidate, Asked
  <2>3. BlockTimestamp(t) # latest
    BY <1>2, <2>2 DEF BlockTimestamp, timestamp_needs_increase
  <2>4. /\ Len(timestamps) \in Nat \ {0}
        /\ Len(timestamps') = Len(timestamps) + 1
        /\ timestamps'[Len(timestamps')] = BlockTimestamp(t)
        /\ Grows
    BY <1>2, <2>1, ExtendGrows DEF TypeOK, Times
  <2>5. timestamps'[Len(timestamps)] = latest
    BY <2>4 DEF Grows, latest
  <2>6. ASSUME NEW i \in 2 .. Len(timestamps') PROVE timestamps'[i - 1] # timestamps'[i]
    <3>1. CASE i = Len(timestamps')
      BY <2>3, <2>4, <2>5, <3>1
    <3>2. CASE i # Len(timestamps')
      <4>1. i \in 2 .. Len(timestamps) /\ i - 1 \in 1 .. Len(timestamps) /\ i \in 1 .. Len(timestamps)
        BY <2>4, <3>2
      <4>2. timestamps[i - 1] # timestamps[i]
        BY <1>2, <4>1 DEF DInv, NoSameTimestamp
      <4>. QED  BY <2>4, <4>1, <4>2 DEF Grows
    <3>. QED  BY <3>1, <3>2
  <2>. QED  BY <2>6 DEF NoSameTimestamp
<1>. QED  BY <1>1, <1>2 DEF NoSameTimestamp

LEMMA StrictMine ==
  ASSUME DInv, NEW t \in {None} \cup Int, Mine(t) \/ MineFails(t),
         UNCHANGED allow_blocks_with_same_timestamp
  PROVE  NoSameTimestamp'
BY StrictExtend DEF Mine, MineFails

LEMMA StrictReserve ==
  ASSUME DInv, BlockTimeAssumption, ReserveBlocks, UNCHANGED allow_blocks_with_same_timestamp
  PROVE  NoSameTimestamp'
<1>1. TypeOK /\ request \in Request /\ request.interval # 0
  BY DEF DInv, SInv, TypeOK, ReserveBlocks, IntervalPositive
<1>2. timestamps' \in Times /\ Grows
  BY <1>1, ReserveGrows
<1>3. /\ request.interval \in Nat
      /\ Len(timestamps) \in Nat \ {0} /\ Len(timestamps') \in Nat
  BY <1>1, <1>2 DEF Request, TypeOK, Times
<1>4. ASSUME ~ allow_blocks_with_same_timestamp, NEW i \in 2 .. Len(timestamps')
      PROVE  timestamps'[i - 1] # timestamps'[i]
  <2>1. CASE i <= Len(timestamps)
    <3>1. timestamps[i - 1] # timestamps[i]
      BY <1>3, <1>4, <2>1 DEF DInv, NoSameTimestamp
    <3>2. timestamps'[i] = timestamps[i] /\ timestamps'[i - 1] = timestamps[i - 1]
      BY <1>2, <1>3, <2>1 DEF Grows
    <3>. QED  BY <3>1, <3>2
  <2>2. CASE i > Len(timestamps)
    <3>1. /\ timestamps'[i - 1] \in Int
          /\ timestamps'[i] = timestamps'[i - 1] + request.interval
      BY <1>1, <1>3, <2>2, ReservedFollow
    <3>. QED  BY <1>1, <1>3, <3>1
  <2>. QED  BY <1>3, <2>1, <2>2
<1>. QED  BY <1>4 DEF NoSameTimestamp

(* A chain that was in the past, or is as it was. *)
LEMMA StrictRevert ==
  ASSUME DInv, NEW id \in Nat, RevertToSnapshot(id), UNCHANGED allow_blocks_with_same_timestamp
  PROVE  NoSameTimestamp'
<1>1. CASE id \in DOMAIN snapshots
  <2>1. Restore(snapshots[id]) /\ SInv
    BY <1>1 DEF RevertToSnapshot, DInv
  <2>2. /\ Len(timestamps') = snapshots[id].block_number
        /\ \A k \in 1 .. snapshots[id].block_number : timestamps'[k] = timestamps[k]
    BY <1>1, <2>1, RestoreTakesBack
  <2>3. /\ snapshots[id].block_number \in Nat
        /\ snapshots[id].block_number <= Len(timestamps) /\ Len(timestamps) \in Nat
    BY <1>1, <2>1 DEF SInv, TypeOK, Times, Snapshot, SnapshotBlocks
  <2>. QED  BY <2>2, <2>3 DEF DInv, NoSameTimestamp
<1>2. CASE id \notin DOMAIN snapshots
  BY <1>2 DEF RevertToSnapshot, clock, DInv, NoSameTimestamp
<1>. QED  BY <1>1, <1>2

LEMMA DInvNext ==
  ASSUME DInv, 0 \notin Intervals, BlockTimeAssumption, [Next]_vars
  PROVE  DInv'
<1>1. SInv /\ TypeOK /\ SInv' /\ UNCHANGED allow_blocks_with_same_timestamp
  BY SInvNext DEF DInv, SInv, Next, vars
<1>2. ASSUME NoSameTimestamp', request' = request \/ request' = None
      PROVE  DInv'
  BY <1>1, <1>2 DEF DInv, IntervalPositive
<1>3. ASSUME NEW t \in {None} \cup Int, MineBlock(t) PROVE DInv'
  BY <1>1, <1>2, <1>3, StrictMine DEF MineBlock
<1>4. ASSUME NEW n \in 1 .. MaxBlocks, NEW interval \in Intervals, MineFirstBlock(n, interval)
      PROVE  DInv'
  <2>1. NoSameTimestamp'
    BY <1>1, <1>4, StrictMine DEF MineFirstBlock
  <2>2. request' = request \/ request' = None \/ request'.interval = interval
    BY <1>4 DEF MineFirstBlock
  <2>. QED  BY <1>1, <2>1, <2>2 DEF DInv, IntervalPositive
<1>5. ASSUME MineNextBlock PROVE DInv'
  <2>1. request \in Request /\ latest + request.interval \in Int
    BY <1>1, <1>5, BlockTimestampType DEF MineNextBlock, TypeOK, Request
  <2>2. NoSameTimestamp'
    BY <1>1, <1>5, <2>1, StrictMine DEF MineNextBlock
  <2>3. request' = None \/ request'.interval = request.interval
    BY <1>5, <2>1 DEF MineNextBlock, Request
  <2>. QED  BY <1>1, <1>5, <2>2, <2>3 DEF DInv, IntervalPositive, MineNextBlock
<1>6. ASSUME ReserveBlocks PROVE DInv'
  <2>1. request \in Request
    BY <1>1, <1>6 DEF ReserveBlocks, TypeOK
  <2>2. request'.interval = request.interval /\ request # None
    BY <1>6, <2>1 DEF ReserveBlocks, Request
  <2>3. NoSameTimestamp'
    BY <1>1, <1>6, StrictReserve
  <2>. QED  BY <1>1, <2>2, <2>3 DEF DInv, IntervalPositive
<1>7. ASSUME NEW id \in Nat, RevertToSnapshot(id) PROVE DInv'
  BY <1>1, <1>2, <1>7, StrictRevert DEF RevertToSnapshot
<1>8. ASSUME UNCHANGED <<timestamps, request>> PROVE DInv'
  BY <1>1, <1>2, <1>8 DEF DInv, NoSameTimestamp
<1>9. /\ MakeSnapshot \/ Tick => UNCHANGED <<timestamps, request>>
      /\ UNCHANGED vars => UNCHANGED <<timestamps, request>>
      /\ \A increment \in Increments : IncreaseBlockTime(increment) => UNCHANGED <<timestamps, request>>
      /\ \A timestamp \in 0 .. MaxTime :
           SetNextBlockTimestamp(timestamp) => UNCHANGED <<timestamps, request>>
  BY DEF MakeSnapshot, Tick, IncreaseBlockTime, SetNextBlockTimestamp, clock, vars
<1>. QED  BY <1>1, <1>3, <1>4, <1>5, <1>6, <1>7, <1>8, <1>9, StepKinds, Zenon

(* Where blocks of the same timestamp are not allowed, no block has that of  *)
(* its parent, after any number of failed requests too, as long as no        *)
(* hardhat_mine has the interval 0: reserve_blocks gives the timestamps of   *)
(* its blocks without asking timestamp_needs_increase.                       *)
THEOREM TimestampsDiffer == 0 \notin Intervals /\ Spec => []NoSameTimestamp
<1>. SUFFICES ASSUME 0 \notin Intervals PROVE Spec => []NoSameTimestamp
  OBVIOUS
<1>1. Init => DInv
  <2>. SUFFICES ASSUME Init PROVE DInv
    OBVIOUS
  <2>1. SInv
    BY SInvInit, BlockTimeAssumption
  <2>2. Len(timestamps) = 1
    BY DEF Init
  <2>. QED  BY <2>1, <2>2 DEF Init, DInv, NoSameTimestamp, IntervalPositive
<1>2. DInv /\ [Next]_vars => DInv'
  BY DInvNext, BlockTimeAssumption
<1>3. DInv => NoSameTimestamp
  BY DEF DInv
<1>. QED  BY <1>1, <1>2, <1>3, PTL DEF Spec
==============================================================================
