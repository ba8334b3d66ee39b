----------------------------- MODULE StateCache -----------------------------
(***************************************************************************)
(* The states of a local chain (crates/edr_provider/src/data.rs): they are *)
(* kept in a small LRU cache, and computed again from the diffs of the     *)
(* blocks and the changes made outside of blocks when they are not in it.  *)
(*                                                                         *)
(* The two ways to a state have to agree.  The changes are built by        *)
(* StateDiff (crates/state/api/src/diff.rs), the block builder             *)
(* (crates/edr_chain_l1/src/block.rs) and ProviderData, and committed by   *)
(* PersistentStateTrie (crates/state/persistent_trie).                     *)
(*                                                                         *)
(* A state root is the state itself: hashes do not collide.  Balance,      *)
(* nonce and code of an account are one value, its info.                   *)
(***************************************************************************)
EXTENDS Integers, Sequences, SequencesExt

CONSTANTS
  Addresses,
  Slots,          \* the storage slots of an account
  Values,         \* what a slot holds, 0 among them
  Infos,          \* what clients and transactions make of an account's info
  Empty,          \* the info of an empty account
  None,           \* Rust's None: no such account
  TxKinds,        \* what transactions do: "touch", "create", "selfdestruct"
  MaxTransactions,    \* bound on the transactions of a block
  max_cached_states,
  Faulty,         \* whether a mem pool update may fail
  MaxStateId,     \* bound on the number of states that are computed
  MaxBlocks,      \* bound on the length of the chain
  MaxSnapshots    \* bound on the number of snapshots

ASSUME StateCacheAssumption ==
  /\ Slots \subseteq Nat /\ 0 \in Values /\ Values \subseteq Nat
  /\ None \notin [info : Infos \cup {Empty}, storage : [Slots -> Values]]
  /\ TxKinds \subseteq {"touch", "create", "selfdestruct"}
  /\ max_cached_states \in Nat \ {0} /\ Faulty \in BOOLEAN
  /\ MaxTransactions \in Nat /\ MaxStateId \in Nat /\ MaxBlocks \in Nat
  /\ MaxSnapshots \in Nat

VARIABLES
  state_diffs,      \* of the blocks, the genesis block's first
  irregular_state,  \* block number -> StateOverride
  cache,            \* block_state_cache, block_number_to_state_id, current_state_id
  snapshots,        \* id -> Snapshot
  next_snapshot_id

vars == <<state_diffs, irregular_state, cache, snapshots, next_snapshot_id>>

last_block_number == Len(state_diffs)

-----------------------------------------------------------------------------
(* States and diffs. *)

(* HashMap::insert into an empty map, and HashMap::extend: what f has counts. *)
Only(x, v) == [y \in {x} |-> v]
Over(f, g) == [x \in DOMAIN f \cup DOMAIN g |-> IF x \in DOMAIN f THEN f[x] ELSE g[x]]

Storage == [Slots -> Values]
NoStorage == [slot \in Slots |-> 0]
NoWrite == [slot \in {} |-> 0]
NoChange == [address \in {} |-> Empty]

Account == [info : Infos \cup {Empty}, storage : Storage]
State == [Addresses -> {None} \cup Account]

AccountDiff(info, storage, status) == [info |-> info, storage |-> storage, status |-> status]

(* The storage of an account that may not exist. *)
StorageOf(account) == IF account = None THEN NoStorage ELSE account.storage

(* StateDiff::apply_account_change *)
apply_account_change(diff, address, info) ==
  IF address \in DOMAIN diff
  THEN [diff EXCEPT ![address].info = info]
  ELSE Over(Only(address, AccountDiff(info, NoWrite, {})), diff)

(* StateDiff::apply_storage_change *)
apply_storage_change(diff, address, slot, value, info) ==
  IF address \in DOMAIN diff
  THEN [diff EXCEPT ![address].storage = Over(Only(slot, value), @)]
  ELSE Over(Only(address, AccountDiff(info, Only(slot, value), {"created"})), diff)

(* StateDiff::apply_diff *)
apply_diff(diff, other) ==
  [address \in DOMAIN diff \cup DOMAIN other |->
     IF address \notin DOMAIN other THEN diff[address]
     ELSE IF address \notin DOMAIN diff THEN other[address]
     ELSE AccountDiff(other[address].info,
                      Over(other[address].storage, diff[address].storage),
                      diff[address].status \cup other[address].status)]

(* PersistentAccountAndStorageTrie::commit, for one account that is touched. *)
Removed(diff) ==
  (diff.info = Empty /\ "created" \notin diff.status) \/ "selfdestructed" \in diff.status

CommittedAccount(account, diff) ==
  IF Removed(diff) THEN None
  ELSE LET base == IF "created" \in diff.status THEN NoStorage ELSE StorageOf(account)
       IN  [info |-> diff.info, storage |-> [slot \in Slots |-> Over(diff.storage, base)[slot]]]

commit(state, diff) ==
  [address \in Addresses |->
     IF address \in DOMAIN diff THEN CommittedAccount(state[address], diff[address])
     ELSE state[address]]

(* The diff of a block and of the changes made after it. *)
OverriddenDiff(diffs, overrides, number) ==
  IF number \in DOMAIN overrides THEN apply_diff(diffs[number], overrides[number].diff)
  ELSE diffs[number]

(* state_at_block_number, compute_state_at_block *)
ComputeState(diffs, overrides, number) ==
  LET state[n \in 0 .. number] ==
        IF n = 0 THEN [address \in Addresses |-> None]
        ELSE commit(state[n - 1], OverriddenDiff(diffs, overrides, n))
  IN  state[number]

state_at_block_number(number) == ComputeState(state_diffs, irregular_state, number)

-----------------------------------------------------------------------------
(* The cache: its states, the most recently used first. *)

(* add_state_to_cache; LruCache::push drops the least recently used state. *)
add_state_to_cache(c, state, number) ==
  LET id == c.current_state_id + 1
  IN  [current_state_id |-> id,
       block_state_cache |->
         SubSeq(<<[id |-> id, state |-> state]>> \o c.block_state_cache, 1,
                IF Len(c.block_state_cache) < max_cached_states
                THEN Len(c.block_state_cache) + 1 ELSE max_cached_states),
       block_number_to_state_id |-> Over(Only(number, id), c.block_number_to_state_id)]

(* Where the cache holds the state of a block. *)
Hits(c, number) ==
  {i \in DOMAIN c.block_state_cache :
     /\ number \in DOMAIN c.block_number_to_state_id
     /\ c.block_state_cache[i].id = c.block_number_to_state_id[number]}

(* The cache after get_or_compute_state: the state is its first one. *)
get_or_compute_state(number) ==
  IF Hits(cache, number) # {}
  THEN LET i == CHOOSE i \in Hits(cache, number) : TRUE
       IN  [cache EXCEPT !.block_state_cache = <<@[i]>> \o RemoveAt(@, i)]
  ELSE add_state_to_cache(cache, state_at_block_number(number), number)

MostRecent(c) == c.block_state_cache[1].state

(* A request that reads the state of a block. *)
Read(number) ==
  /\ cache.current_state_id < MaxStateId
  /\ cache' = get_or_compute_state(number)
  /\ UNCHANGED <<state_diffs, irregular_state, snapshots, next_snapshot_id>>

-----------------------------------------------------------------------------
(* Changes made outside of a block. *)

(* The override of the last block; its root is the one of its first change. *)
StateOverride(state_root) ==
  IF last_block_number \in DOMAIN irregular_state
  THEN irregular_state[last_block_number]
  ELSE [diff |-> NoChange, state_root |-> state_root]

(* Mutant: the change is recorded for the genesis block. *)
Bug_OverridesGenesis(override) == irregular_state' = Over(Only(1, override), irregular_state)

Overrides(override) ==
  irregular_state' = Over(Only(last_block_number, override), irregular_state)

(* set_balance, set_nonce, set_code *)
SetAccount(address, info) ==
  LET c == get_or_compute_state(last_block_number)
      modified_state == [MostRecent(c) EXCEPT ![address] =
                           [info |-> info, storage |-> StorageOf(@)]]
      override == StateOverride(modified_state)
  IN  /\ cache.current_state_id + 1 < MaxStateId
      /\ Overrides([override EXCEPT !.diff = apply_account_change(@, address, info)])
      /\ cache' = add_state_to_cache(c, modified_state, last_block_number)
      /\ UNCHANGED <<state_diffs, snapshots, next_snapshot_id>>

(* set_account_storage_slot *)
SetAccountStorageSlot(address, slot, value) ==
  LET c == get_or_compute_state(last_block_number)
      old == MostRecent(c)[address]
      info == IF old = None THEN Empty ELSE old.info
      modified_state == [MostRecent(c) EXCEPT ![address] =
                           [info |-> info, storage |-> [StorageOf(@) EXCEPT ![slot] = value]]]
      override == StateOverride(modified_state)
  IN  /\ cache.current_state_id + 1 < MaxStateId
      /\ Overrides([override EXCEPT !.diff =
                      apply_storage_change(@, address, slot, value, info)])
      /\ cache' = add_state_to_cache(c, modified_state, last_block_number)
      /\ UNCHANGED <<state_diffs, snapshots, next_snapshot_id>>

-----------------------------------------------------------------------------
(* Blocks. *)

(* What a transaction does to one account, as the EVM reports it: it changes
   the info and a slot, creates a contract, or destroys one. *)
Writes(account) ==
  {NoWrite} \cup (IF account = None THEN {} ELSE {Only(slot, value) : slot \in Slots, value \in Values})

TransactionDiffs(state) ==
  UNION {UNION {
    {Only(address, AccountDiff(info, storage, {})) :
       info \in Infos, storage \in IF "touch" \in TxKinds THEN Writes(state[address]) ELSE {}},
    {Only(address, AccountDiff(info, Only(slot, value), {"created"})) :
       info \in {i \in Infos : "create" \in TxKinds /\ state[address] = None},
       slot \in Slots, value \in Values},
    {Only(address, AccountDiff(info, NoWrite, {"selfdestructed"})) :
       info \in {i \in Infos : "selfdestruct" \in TxKinds /\ state[address] # None}}
  } : address \in Addresses}

(* EthBlockBuilder::add_transaction_result: built holds the state and the diff
   of the block under construction. *)
add_transaction_result(built, diff) ==
  [state |-> commit(built.state, diff), diff |-> apply_diff(built.diff, diff)]

(* The blocks that mine_block can build on a state. *)
BuiltBlocks(state) ==
  LET built[n \in 0 .. MaxTransactions] ==
        IF n = 0 THEN {[state |-> state, diff |-> NoChange]}
        ELSE built[n - 1] \cup UNION {
               {add_transaction_result(b, diff) : diff \in TransactionDiffs(b.state)} :
               b \in built[n - 1]}
  IN  built[MaxTransactions]

(* mine_and_commit_block_impl; when the mem pool update fails, the block is in
   the chain and its state not in the cache. *)
MineBlock ==
  LET c == get_or_compute_state(last_block_number)
  IN  /\ last_block_number < MaxBlocks /\ cache.current_state_id + 1 < MaxStateId
      /\ \E built \in BuiltBlocks(MostRecent(c)) :
           /\ state_diffs' = Append(state_diffs, built.diff)
           /\ \/ cache' = add_state_to_cache(c, built.state, last_block_number + 1)
              \/ Faulty /\ cache' = c
      /\ UNCHANGED <<irregular_state, snapshots, next_snapshot_id>>

-----------------------------------------------------------------------------
(* Snapshots.  The state at the time is only here to state properties. *)

(* Mutant: the changes of the last block are left out. *)
Bug_WithoutLastOverride ==
  /\ next_snapshot_id <= MaxSnapshots
  /\ snapshots' = Over(snapshots, Only(next_snapshot_id,
       [block_number |-> last_block_number,
        block_number_to_state_id |-> cache.block_number_to_state_id,
        irregular_state |-> [n \in DOMAIN irregular_state \ {last_block_number} |->
                               irregular_state[n]],
        state |-> state_at_block_number(last_block_number)]))
  /\ next_snapshot_id' = next_snapshot_id + 1
  /\ UNCHANGED <<state_diffs, irregular_state, cache>>

MakeSnapshot ==
  /\ next_snapshot_id <= MaxSnapshots
  /\ snapshots' = Over(snapshots, Only(next_snapshot_id,
       [block_number |-> last_block_number,
        block_number_to_state_id |-> cache.block_number_to_state_id,
        irregular_state |-> irregular_state,
        state |-> state_at_block_number(last_block_number)]))
  /\ next_snapshot_id' = next_snapshot_id + 1
  /\ UNCHANGED <<state_diffs, irregular_state, cache>>

(* Mutant: the blocks keep the states they had. *)
Bug_StateIdsKept(s) ==
  /\ state_diffs' = SubSeq(state_diffs, 1, s.block_number)
  /\ irregular_state' = s.irregular_state
  /\ UNCHANGED cache

Restore(s) ==
  /\ cache' = [cache EXCEPT !.block_number_to_state_id = s.block_number_to_state_id]
  /\ state_diffs' = SubSeq(state_diffs, 1, s.block_number)
  /\ irregular_state' = s.irregular_state

RevertToSnapshot(id) ==
  /\ IF id \in DOMAIN snapshots THEN Restore(snapshots[id])
     ELSE UNCHANGED <<state_diffs, irregular_state, cache>>
  /\ snapshots' = [i \in {j \in DOMAIN snapshots : j < id} |-> snapshots[i]]
  /\ UNCHANGED next_snapshot_id

-----------------------------------------------------------------------------
(* The genesis block defines accounts; its state is in the cache. *)
Init ==
  /\ \E address \in Addresses, info \in Infos :
       state_diffs = <<Only(address, AccountDiff(info, NoWrite, {"created"}))>>
  /\ irregular_state = [number \in {} |-> None]
  /\ cache = [current_state_id |-> 0,
              block_state_cache |-> <<[id |-> 0, state |-> state_at_block_number(1)]>>,
              block_number_to_state_id |-> Only(1, 0)]
  /\ snapshots = [id \in {} |-> None]
  /\ next_snapshot_id = 1

Next ==
  \/ \E number \in 1 .. last_block_number : Read(number)
  \/ \E address \in Addresses, info \in Infos : SetAccount(address, info)
  \/ \E address \in Addresses, slot \in Slots, value \in Values :
       SetAccountStorageSlot(address, slot, value)
  \/ MineBlock
  \/ MakeSnapshot
  \/ \E id \in 1 .. MaxSnapshots : RevertToSnapshot(id)

Spec == Init /\ [][Next]_vars

-----------------------------------------------------------------------------
(* The cache has room for what it holds, and knows blocks of the chain only. *)
TypeOK ==
  /\ last_block_number >= 1
  /\ cache.current_state_id \in Nat
  /\ Len(cache.block_state_cache) \in 1 .. max_cached_states
  /\ \A i \in DOMAIN cache.block_state_cache :
       /\ cache.block_state_cache[i].state \in State
       /\ cache.block_state_cache[i].id \in 0 .. cache.current_state_id
  /\ DOMAIN cache.block_number_to_state_id \subseteq 1 .. last_block_number
  /\ DOMAIN irregular_state \subseteq 1 .. last_block_number

(* "assert_eq!(cached_state.state_root()?, calculated_state.state_root()?)"  *)
(* (the tests of data.rs): for every block the state in the cache is the one *)
(* that is computed from the diffs, after any changes, blocks, evictions,    *)
(* failures and reverts.                                                     *)
CacheCoherent ==
  \A number \in 1 .. last_block_number : \A i \in Hits(cache, number) :
    cache.block_state_cache[i].state = state_at_block_number(number)

(* What evm_revert will find: the chain and the overrides of a snapshot give *)
(* the state it was taken in, and so do the states still in the cache.       *)
SnapshotsRestorable ==
  \A id \in DOMAIN snapshots :
    LET s == snapshots[id]
        c == [cache EXCEPT !.block_number_to_state_id = s.block_number_to_state_id]
    IN  /\ s.block_number <= last_block_number
        /\ ComputeState(state_diffs, s.irregular_state, s.block_number) = s.state
        /\ \A i \in Hits(c, s.block_number) : cache.block_state_cache[i].state = s.state

(* A request that does not revert leaves the states of all but the last      *)
(* block alone.                                                              *)
HistoryIsFixed ==
  [][\/ \E id \in 1 .. MaxSnapshots : RevertToSnapshot(id)
     \/ \A number \in 1 .. last_block_number - 1 :
          state_at_block_number(number)' = state_at_block_number(number)]_vars

(* "The resulting state root." (StateOverride): the root that is kept with   *)
(* the changes of a block is the one of the state with all of them.          *)
OverrideRootExact ==
  \A number \in DOMAIN irregular_state :
    irregular_state[number].state_root = state_at_block_number(number)
=============================================================================
