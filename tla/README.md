# TLA+ specifications of the EDR provider

EDR (Ethereum Development Runtime) is a library that simulates an Ethereum node
for development: a JSON-RPC provider over a local chain, or over a local chain
that continues a remote one (a fork). These specifications cover the part of it
that keeps state between requests: the mem pool, the chain's storage, the clock,
the state cache, the miner, the filters, the state of a fork, the RPC client
with its disk cache, and the threads around them; and the two cheatcodes of the
Solidity test runner whose bookkeeping spans call frames. They were written from
the source under `crates/`; `PROJECT.json` maps every definition to its lines.

Run a model with `tlc -workers 2 -config X.cfg M`, a proof with `tlapm M.tla`.

## 1. Inventory

| Component | State it keeps | Operations | What is hard about it |
|---|---|---|---|
| **Mem pool** (`mem_pool`) | pending and future queues per sender, a hash map, the order counter, the block gas limit | add, replace, promote, drop, `update` after every change of the account state | three views of one set kept by hand; `update` fails half-way when a remote account cannot be fetched; nonces advanced by others |
| **Miner** (`block/miner`, block builders) | the block being built, the iterator over the pool | take the next transaction in FIFO or priority order, skip its sender, include it, or fail the block | one bad transaction fails the block for everybody; skipping in mid-sequence |
| **Automining** (`ProviderData::send_transaction`) | a snapshot, two mining loops | send, mine until mined, mine the rest, revert on error | loops that must end, and all-or-nothing over several committed blocks |
| **Block storage** (`block/storage`, local part of `blockchain/{local,fork}`) | blocks, ranges of reserved blocks, transaction and receipt indexes, state diffs | insert, reserve (`hardhat_mine`), read (which builds a reserved block), revert | lazy construction in read order, five indexes cut by a revert, refusal half-way through an insert |
| **Clock** (`ProviderData`, `time.rs`) | offset to the wall clock, the timestamp asked for, snapshots of both | mine, `evm_increaseTime`, `evm_setNextBlockTimestamp`, `hardhat_mine`, snapshot, revert | the wall clock moves between a check and its use; failing requests |
| **State cache** (`ProviderData`, `state/api`, `state/persistent_trie`) | LRU of states, block number to state id, overrides made outside of blocks | read, `hardhat_set*`, mine, snapshot, revert | a state is reached on two paths, cached and recomputed, that must agree |
| **Provider and interval miner** (`provider.rs`, `interval.rs`) | the mutex on the data, the mining task, its cancellation channel | handle a request, set interval mining, mine, drop | a request joins a task that may be waiting for the request's lock |
| **Filters and subscriptions** (`filter.rs`, `ProviderData`) | events per filter, deadlines, the last id | create with a backlog, poll, remove, notify of a block or a transaction | the seam between backlog and announcements and between remote and local blocks; expiry against late polls; blocks that are taken back |
| **Forked and remote state** (`state/fork`, `state/remote`, `state/persistent_trie`) | local accounts, storage and counted code, removed slots, two caches | read, commit a transaction, `hardhat_set*`, rebuild from diffs | remote values showing through; code found by hash after its account was fetched; counts |
| **RPC client** (`edr_rpc_client`, `edr_rpc_eth`) | the directory of answers, the latest block number | read, remove, send, resolve a tag, check the depth, write | awaits between the answer and the check of its block; reorgs; keys that collide; damaged files and restarts |
| **Cheatcodes** (`foundry/cheatcodes`): pranks and `expectRevert` | pranks by depth, one expected revert, `tx.origin` | the hooks for calls and creations that begin or end | nested frames, each with its own wishes, seen through one depth counter |

The requests of a client are handled one at a time: `Provider::handle_request`
locks `ProviderData` for the whole request, and the interval miner locks it for
every block. All components but the provider itself and the RPC client, whose
calls are awaited by several tasks, therefore see a sequence of whole requests. Mining connects them: `mine_and_commit_block_impl` asks the
clock for a timestamp, the miner for a block, inserts the block into the
storage, updates the pool, resets what the client asked for, notifies the
subscribers and caches the state, in this order, and an error leaves what was
done before it. A snapshot saves the pool, the clock and the map of state ids,
and names a block of the chain; a revert puts them back.

What makes the components correct: the views of the pool agree and its pending
transactions are executable; a reserved block is the block that would have been
built at once; timestamps do not decrease; a recomputed state is the cached one;
a send is all or nothing and returns; the data has one user at a time and
nobody waits for ever; a filter loses and repeats nothing; a fork reads like a
plain map of accounts; what the disk cache serves cannot change any more and
belongs to the request; a frame gets the sender, origin and outcome its caller
asked for.

## 2. Modules

| Module | Models | Actions |
|---|---|---|
| `Vecs` | the `Vec` and `IndexMap` operations the queues need, without recursion | |
| `MemPool`, `MCMemPool` | `crates/mem_pool`, and the requests that change the pool | `AddTransaction`, `RemoveTransaction`, `SetBlockGasLimit`, `SetBalance`, `SetNonce`, `MineBlock` |
| `AutoMine`, `MCAutoMine` | extends `MemPool`: the miner's loop, the commit of a block, `send_transaction`, `evm_mine`, the base fee | `SendTransaction`, `EvmMine`, `StartBlock`, `TakeTransaction` (skip, include, fail), `FinishBlock`, `FinishSend`, ... |
| `BlockHeader` | the header fields a reserved block derives from its parent | |
| `EagerChain` | abstract: a chain whose blocks are all there | `Insert`, `Mine`, `Revert` |
| `BlockStorage`, `MCBlockStorage` | `ReservableSparseBlockStorage` as the two blockchains use it; refines `EagerChain` | `ReadBlock`, `InsertBlock`, `InsertBlockFails`, `ReserveBlocks`, `RevertToBlock` |
| `BlockTime` | the clock and its snapshots | `MineBlock`, `MineFirstBlock`, `MineNextBlock`, `ReserveBlocks`, `IncreaseBlockTime`, `SetNextBlockTimestamp`, `MakeSnapshot`, `RevertToSnapshot`, `Tick` |
| `StateCache` | cached and recomputed states of a local chain | `Read`, `SetAccount`, `SetAccountStorageSlot`, `MineBlock`, `MakeSnapshot`, `RevertToSnapshot` |
| `Filters`, `MCFilters` | filters and subscriptions on a forked chain | `NewPendingTransactionFilter`, `NewBlockFilter`, `NewLogFilter`, `GetFilterChanges`, `GetFilterLogs`, `RemoveFilter`, `AddPendingTransaction`, `MineBlock`, `MineBlockFails`, `ReserveBlocks`, `RevertToSnapshot`, `Tick` |
| `ForkState`, `MCForkState` | `ForkedState` over `PersistentStateTrie` and `CachedRemoteState` | `TouchAccount`, `CreateAccount`, `DestroyAccount` (a committed transaction), `ModifyAccount`, `SetStorageSlot`, `Read`, `Recompute`, `Confirm` |
| `CacheKey` | what is hashed into the key of a request, and which requests have one | |
| `RpcClient`, `MCRpcClient` | extends `CacheKey`: the calls of the client, one action per await; the remote chain | `Call`, `ReadCache`, `RemoveFromCache`, `Send`, `MissingTrieNode`, `ResolveWriteKey`, `CheckBlockNumber`, `AskBlockNumber`, `RememberBlockNumber`, `WriteToCache`, `Fail`, `Extend`, `Reorg`, `Expire`, `Damage`, `Restart` |
| `Cheatcodes` | the inspector's hooks for pranks and expected reverts | `Prank`, `StopPrank`, `ExpectRevert`, `Call`, `Create`, `DelegateCall`, `End` |
| `IntervalMining` | threads, mutex, interval mining tasks, drop of the provider | one per step between two awaits |
| `MiningProofs` (of `MemPool`, `AutoMine` and `IntervalMining`), `BlockStorageProofs`, `BlockTimeProofs`, `StateCacheProofs`, `ForkStateProofs`, `RpcClientProofs`, `CheatcodesProofs`, `FiltersProofs` | the theorems | |

Names follow the source. Common abstractions: a transaction or a block stands
for its own hash, a state for its own root (hashes do not collide); a map is a
function whose domain is the keys present. Definitions named `Bug_...` are
single faults, used to see that each property can fail.

*MemPool.* The account state is a variable. `MineBlock` takes any prefix of each
sender's executable queue and leaves the new balances open, so it covers
whatever the miner and the EVM do. An account in `Authorities` may have its
nonce advanced by others (EIP-7702 authorisations, impersonated contracts that
create); looking up an account in `Faulty` may fail, which cuts `update` short
after any of the callers. An empty pending queue stops the process
(`expect`), so no action is taken past it. The variable `faulty`
chooses, once and for all, between behaviours in which the lookups of `Faulty`
may fail and ones in which none does; the properties named `Reliably...` are
about the latter.

*AutoMine.* A request that mines is a sequence of steps: a block is started,
takes the pool's transactions one by one and is finished or failed. The gas a
transaction uses, and whether it is reverted, are open; the validation by revm
is marked external. The request keeps, besides its snapshot, what the provider
looked like before it (`before`), for the property that compares. Blob
transactions (they bypass the pool) and failing lookups are left out; there is
no interval miner here, since it cannot run in the middle of a request.

*BlockStorage.* `number_to_block` and `hash_to_block` change together and are
one variable. The numbers a snapshot may name are the variable `heads`.
`ReusedHashes` lets a transaction be submitted again, which makes the storage
refuse a block half-way. The base of the chain, a genesis block or a forked one,
is chosen in the initial state from `Origins`.

*BlockTime.* The wall clock is the action `Tick`, which may come between two
blocks of one `hardhat_mine`. Whether blocks of one timestamp are allowed is
chosen in the initial state. Mining may fail before the block is inserted,
between insertion and the end, and at the end. Two variables are kept only for
the properties: `torn`, that a request failed with blocks in the chain that the
clock had not followed (a mem pool update failed, or the block after reserved
ones), and `pushed`, that an explicit timestamp was that of the latest block and
was increased, which the offset does not follow. `TimestampsOrdered` and
`AskedIsNotPast` are stated for both configurations and say nothing once `torn`
is set; `TimestampsOrdered` allows a block to be one second older than its parent
once `pushed` is set.

*StateCache.* Balance, nonce and code are one value. `TxKinds` says what
transactions do to an account: change it, create it, destroy it.

*Filters.* A block is its own hash, an event a block and the place of a log in it.
The bloom filter of a block holds what its logs have and any of `FalsePositives`.
`received` and `since` keep what a client was given and when its filter was made;
`silent` keeps the blocks that were added without an announcement (reserved ones,
and ones whose mem pool update failed).

*ForkState.* `plain` is the abstract state, a map of accounts that each change is
applied to. A transaction commits one account, which the EVM has read first. The
constants `Emptied`, `Codeless`, `Ephemeral` and `Destroys` switch on four
situations in which the overlay does not keep its promise (section 5); `Remote`
gives the remote state block by block, since a state that is built again is read
at another number than the one it replaces.

*RpcClient.* A key is the sequence of bytes that goes into the hash, with the
widths of words scaled down in their order. `MaxReorg` and `MaxDelay` bound how
many blocks a reorg replaces and how many arrive between an answer and the check
of its block: the code bounds the second by its retries (9, at most 32 s apart)
and relies on the sum to stay within `safe_block_depth`. The retries of a failing
HTTP request are part of `Send`. `Floats` and `One` stand for f64: percentiles are
multiplied, rounded to the nearest of `Floats` and cut; `MCFloats` has numbers of
eight binary digits.

*Cheatcodes.* The contracts are free in what they do. Each frame records what was
promised to it: `from`, `origin`, `prank` and `due`. A call or creation that runs
nothing (no code, a precompile, not enough funds) has an end but is not `opened`:
the inspector is told that it begins and ends, and `initialize_interp`, which
raises `max_depth`, is not called for it. `Allowed` switches on five situations in
which depths are not enough to go by (section 5). Reverts are expected of any
contract, for any reason, with internal reverts not expected
(`internal_expect_revert` off, the default).

*IntervalMining.* The mutex is tokio's, first come first served (external).
Every `select!` of `interval_mining_loop` has one action per branch.

## 3. Runs

| Run | Instance | Shows |
|---|---|---|
| `mempool` | 2 senders, 7 transactions with competing bids and gaps, 2 balances, 2 gas limits, 4 accepted transactions (3 where the lookup of one account fails); one sender's nonce is advanced by others | the hash map and the queues agree (`HashMapExact`) and pending queues are consecutive (`PendingConsecutive`) also when an `update` stops anywhere; while none does, pending queues start at the account's nonce (`ReliablyContiguous`), nothing promotable waits (`ReliablyWaits`), everything queued is valid (`ReliablyValid`), there is no empty pending queue (`ReliablyNonEmpty`) and nothing is lost silently (`ReliablyKept`) |
| `automine` | 2 senders, 3 transactions, blocks of gas limit 2, base fee 7 to 10 with the main chain's parameters, both orders | `SendIsAtomic` over several blocks, `BlockNoncesFollow`, `BlockLosesNothing`, and under fairness `MiningReturns` |
| `automine_stuck` | the same | violation, section 5 |
| `storage` | up to 5 blocks on a genesis block and on a forked one without a slot number, 2 transactions that may be submitted again, blocks of equal timestamp | `EveryNumberOnce`, `DiffsExact`, `TransactionIndexExact`, and the refinement `ImplementsEagerChain` |
| `block_time` | 5 blocks, 2 snapshots, timestamps to 3, equal timestamps allowed or not, failures | until a request fails between adding blocks and adopting their clock, no block is older than its parent, or by the one second an explicit timestamp was moved on (`TimestampsOrdered`), and a timestamp that was accepted can be used (`AskedIsNotPast`); with such failures too, `SnapshotsArePrefixes`, `NoSameTimestamp`, `ClockIsPositive` |
| `block_time_revert` | | violation, section 5 |
| `state_cache` | 1 account, 1 slot, 2 infos, 3 blocks of up to 2 transactions, a cache of 2 states, a snapshot, failing updates | cached and recomputed states agree (`CacheCoherent`), snapshots can be restored, the state of a past block does not change (`HistoryIsFixed`) |
| `interval_mining` | 3 threads, 3 tasks, failing blocks | `LockExclusive`, `OneMiner`, and under fairness `RequestsReturn`, `MinerProceeds`, `DropEnds` |
| `filters` | 2 remote blocks and 3 more, 4 kinds of log filter, a filter of each kind, 2 ticks of the clock | nothing asked for is lost (`NoEventLost`) or given twice or out of order (`EventsInOrder`), nothing else is given (`OnlyWanted`), who polls in time keeps the filter (`OnlyIdleRemoved`) |
| `fork_state` | a contract of the remote node and an account it does not have, 2 codes, 1 slot of 3 values, 2 diffs (any number of changes once a slot was set by hand) | `OverlayExact`, `CodeAvailable` |
| `rpc_client` | 2 tasks, 3 calls, 5 requests, 4 remote blocks, reorgs of 1, delay of 1, depth 2 | `CachedIsFinal`, `ReadsOwnAnswer` |
| `cheatcodes` | 2 contracts, 4 frames, 0 to 2 expected reverts | `SenderAsPranked`, `OriginAsPranked`, `OutcomeAsExpected` |

**Bounds.** They are named constants. Two senders are enough for the pool, whose
operations treat one sender at a time and are related only through the hash
map, the counter and the early return of `update`; four transactions make a
replacement, a gap, its closing and a promotion happen in one behaviour. A block
of gas limit 2 holds two small transactions or one large one, so a sequence is
split over blocks; a base fee of 9 falls to 8 and 7 and no further, so a price
of 8 has to wait and is served. Five blocks hold a reserved range that is split by a
read and reserved again after a revert. `MINIMUM_RESERVABLE_BLOCKS` is 6 in the code and 2 in the
configurations of `BlockTime`, so that a reserved range fits in a short chain;
the proofs take any value above 1. A cache of two states evicts with three
blocks. Three threads and tasks let two requests compete while a third replaces
the miner. One filter at a time is enough for `Filters`, where filters share
nothing but the id counter; five blocks put one before, at and behind the seam
and leave one to be reverted. `MaxChanges` bounds the diffs a state of a fork is
built from; `hardhat_setStorageAt` ends the record of diffs in the model, and
from there on every sequence of changes is explored. With a depth of two, a reorg and a late block
are the most the margin allows; one more breaks it (`RpcClientLate`). Four frames
hold a prank below a prank and a call below both. No run needs symmetry.

**Fairness.** `AutoMine`: weak fairness of the steps of the request that is
being handled, i.e. the thread keeps running. `IntervalMining`: weak fairness of
the steps of threads and tasks; strong fairness of `Return`, because a batch of
requests is finite although each of its requests may set interval mining again;
strong fairness of the cancellation branches, because `select!` picks at random
among the branches that are ready. The sending of requests is not fair, and
neither is the drop of the provider. The other modules state safety only: in
them a request is one step, or, in `RpcClient`, may fail at any step. A test that
ends is a deadlock of `Cheatcodes`, so none is looked for there.

## 4. Proofs

All are checked by TLAPS, for every value of the constants that satisfies the
`ASSUME`s of the modules (types of the constants, `None` different from the
values it is used beside, `Threads` and `Tasks` disjoint).

- `MiningProofs`: `TypeCorrect`, `HashMapAgrees` (`HashMapExact`) and
  `PendingNeverAhead` (`PendingConsecutive`), with failing lookups and advanced
  nonces. The inductive invariant is the conjunction of the three: adding to a
  queue keeps the hash map exact only because the new transaction is in no
  queue yet, and promotion keeps the queue consecutive only because the entries
  it moves are distinct entries of the same sender. Each operation is shown to
  touch one sender (`ChangedAt`), or, for `update`, to keep a subset of each
  sender's entries; the combination is then pure set reasoning. The lemmas on
  retaining, splitting, replacing and appending come first.

  For the behaviours without failing lookups, `PendingExecutable`
  (`ReliablyContiguous`), `FutureTrulyWaits` (`ReliablyWaits`),
  `QueuedStaysValid` (`ReliablyValid`), `NoEmptyQueue` (`ReliablyNonEmpty`) and
  `NothingSilentlyLost` (`ReliablyKept`). Their invariant `RInv` adds `Steady`:
  what is queued is valid (`HashesValid`), no pending queue is empty, and the
  future queue of an account that only its own transactions advance holds
  different nonces, all past the end of the pending queue (`OwnWaiting`). The
  properties need each other: a consecutive queue starts at the account's
  nonce because its entries are valid and its first is not ahead; the promotion
  loop ends at the gap, never early, because the nonces it looks for are
  different and there are no more of them than entries (a counting argument
  about injections, `PromotionStops`); and mining a prefix keeps the future
  queue waiting because the nonce moves by exactly what was taken off the
  pending queue (`MineBlockUpdates`). `NothingSilentlyLost` assumes `FeesFit`:
  110 times every fee fits in the fee type, which is 128 bits wide in the code;
  otherwise the minimum bid of a replacement wraps around.

  For the requests that mine (`AutoSpec`), `MiningTypeCorrect`, `NoncesFollow`
  (`BlockNoncesFollow`), `SendAllOrNothing` (`SendIsAtomic`) and
  `NothingLostByBlocks` (`BlockLosesNothing`), where the provider is `Ordinary`: no
  lookup fails, no transaction brings authorizations (with either, the pool itself is
  not consecutive and a block may start at a wrong nonce), and every gas limit is at
  least the elasticity multiplier, so that the gas target the base fee is divided by
  is not zero. The steps between two blocks are steps of the pool, so the pool's
  invariants carry over (`SoundGives`, `SoundFrom`). The invariant `AutoInv` adds the
  block under construction (`Built`): as many of a sender's pending transactions are in
  the block as its nonce has moved, and what the queue still holds are all the others,
  in order; a sender that is passed over loses the whole queue. It adds that a send
  keeps a snapshot that is sound and is what was there before it (`SendOK`), over all
  the blocks it has committed since. Writing the proof that balances stay natural numbers
  showed that `IsInvalid` lacked the overflow of the gas payment, which revm reports
  as an error of the transaction; the model has it now.

  For the threads and tasks around the mutex (`IntervalSpec`), `MiningTyped`, `DataIsExclusive` (`LockExclusive`) and
  `MinersHandOver` (`OneMiner`), for any number of threads and tasks and with
  failing blocks. `MutexInv` adds to `LockExclusive` that everybody in the queue
  waits, nobody is in it twice or holds the lock, and the lock is with one who
  asked for it; without it the next hand-over could give the lock to a task that
  has gone. `JoinInv` says that a thread joins a task exactly while it says so.
- `BlockStorageProofs`: `StorageTypes`, `NumbersOnce` (`EveryNumberOnce`),
  `DiffsLeadToStates` (`DiffsExact`), `TransactionsFound` (`TransactionIndexExact`)
  and `StorageImplementsEagerChain` (`ImplementsEagerChain`), for any origin,
  intervals, hardfork and number of blocks, refused blocks included. The invariant
  says that some number `e` is the end of the chain (`StorageInv(e)`): the ranges lie
  behind the first block, do not overlap and cover exactly the numbers up to `e`
  that are not stored (`Laid`); where the index of a block's diffs is found, the
  diffs up to it lead to the block's state, indexes grow with the numbers, and all
  diffs lead to the last block unless one was refused (`Indexed`); each
  transaction is filed under its one block (`Filed`). One relation between two
  storages, `Continues`, covers reading, inserting, reserving and reverting: a range
  is the same or the rest of one, and a built block is the one a reader would have
  got. It implies that every block reads the same in both (`ViewContinues`), because
  timestamps and slots counted from the rest of a range are those counted from its
  start. The timestamps and slots are recursive functions; that they exist, are
  determined by their equations and agree is shown by looking at the least number
  where it would fail (`LeastNumber`, from the library's well-founded minimum), so no
  induction rule is needed. The refinement maps the storage to the function from
  numbers to what a reader gets; a reservation is a `Mine` step because each reserved
  block is the empty block on the one before it (`EmptyBlocks`), a read and a refused
  block are no step.
- `BlockTimeProofs`: `ClockTyped` and `SnapshotsUsable` (`SnapshotsArePrefixes`)
  in every behaviour, from `SInv`, which adds that a later snapshot has a
  longer history (reverting to one cuts the chain where the earlier ones still
  fit). `ClockKeepsOrder` (`TimestampsOrdered`) and `AskedStaysPossible`
  (`AskedIsNotPast`) in both configurations, with failing requests too as long as
  none has left blocks whose clock was not adopted (`torn`), from `IInv`, which adds
  that the clock, now and in every snapshot, is behind the latest block by at most
  the second an explicit timestamp was moved on, except behind blocks just reserved:
  that is what the order of timestamps rests on, and what a torn request loses. `ClockStaysPositive` (`ClockIsPositive`) in
  every behaviour, from an invariant that gives the same of every snapshot, at the
  time it was made. `TimestampsDiffer` (`NoSameTimestamp`) where no blocks are
  reserved with interval 0, which the code accepts and which breaks it
  (section 5); that the chain of a snapshot is a prefix is what carries it over a
  revert.
- `StateCacheProofs`: `StateCacheTypeCorrect` and `HistoryStaysFixed`
  (`HistoryIsFixed`) in every behaviour. `CacheStaysCoherent` (`CacheCoherent`) and
  `SnapshotsStayRestorable` (`SnapshotsRestorable`) for any accounts, slots, size of
  the cache, failing requests and number of blocks, changes and snapshots, under two
  conditions, each there because of a disagreement of section 5: no request or
  transaction empties or destroys an account (`Harmless`), and `hardhat_setStorageAt`
  is asked for an account that was already changed after the last block, or that has
  no other slots to lose (`Spares`). Changes of slots, also of several slots of one
  account and of accounts that transactions have written to, are within them. TLC
  agrees on an instance with two slots.
  The heart is that committing two diffs in turn gives what committing the merged one
  gives, for the diffs of a block's transactions and for a block's own with the
  changes after it: a merged entry carries the marks of both, so one that is marked
  as created may follow only where there was no storage but what it writes (`Clean`), and none may be
  marked as destroyed or leave an account empty (`Lasting`). The invariant `ChainInv`
  gives the types, that ids are not from the future, and that a snapshot is of a chain
  which the later ones only prolong. `Coherent` says that a state found under an id is
  the computed one for every block that the current map, or that of any snapshot,
  gives this id: the snapshots have to be part of it, because a revert brings their
  maps back and keeps the cache. The state computed from the diffs is a recursive
  function over the blocks; that it exists and depends on the blocks up to its number
  only is a least-number argument (`LeastNumber`).
- `ForkStateProofs`: `OverlayIsExact` (`OverlayExact`) and `CodeIsAvailable`
  (`CodeAvailable`), for any addresses, slots, codes and number of changes, where the
  case is `Benign`: the remote node stays at the state of the fork, an account with
  storage there has a nonce, and the four situations do not occur that break one of
  the two (section 5). The invariant says that the local state, read over the
  accounts of the fork, shows the plain map (`Shows`); a slot set to zero does so
  because it is one of the removed slots, and a created account because there was no
  storage at its address at the fork. The counts of the codes cover the accounts that
  name them, or the code was fetched (`Covered`): `modify_account` does count a code
  of the remote node too low, and it is the cache that saves it. What is cached is
  the state of the fork (`CacheOK`). And committing the recorded diffs one after the
  other, from nothing, leads to a state that shows the same map (`Rebuilds`), which is
  what a recomputed state rests on; that the run of commits exists at all for any
  number of diffs is again a least-number argument (`RunExists`).
- `RpcClientProofs`: `CacheServesFinal` (`CachedIsFinal`), for any tasks, calls
  and chain, if the requests name their blocks by number or tag
  (`NumberedRequests`; the others are stored unchecked, section 5) and
  `MaxReorg + MaxDelay <= safe_block_depth` (`SafeDepth`; one more breaks it). The
  invariant follows an answer through the awaits: the blocks it covers are either
  still those of the chain, or the highest of them is so close to the head that
  the check, which sees at most `MaxDelay` blocks more, refuses it; a block that
  passes is deeper than any reorg reaches, and stays so because the chain only
  grows from there.

  `KeysNeverMixed` (`ReadsOwnAnswer`), for any requests of the shapes that the
  methods have (`FormedRequests`: addresses, hashes and numbers are words, blocks are
  named by number, hash or tag or not at all, and of the percentiles no two become
  the same when they are multiplied by 100 in f64, rounded and cut, which some do,
  section 5; `WholePercentsToldApart` shows that whole percents do not). That the hashed sequence determines the
  request is shown method by method: the first element names the method
  (`VariantGives`), and the codes of the parts are prefix free, since a list is
  preceded by its length and a choice by its marker, so that equal sequences split at
  the same places (`SplitStream`, `KeysDiffer`). The invariant
  then follows a key from the call through the awaits to the file: whatever is open or
  stored carries the request its key was made of.
- `CheatcodesProofs`: `PranksReachTheirCalls` (`SenderAsPranked`),
  `OriginsFollowPranks` (`OriginAsPranked`) and `RevertsAsExpected`
  (`OutcomeAsExpected`), for any contracts and depth, with `Allowed = {}`: each of
  the five situations it switches on breaks one of them (section 5). The
  invariant relates the maps of the inspector, keyed by depth, to the stack: the
  pranks below the top are those of the frames that asked for them, nothing is
  kept for a depth that is not on the stack, and the origin of every frame is
  that of the innermost prank above it. Of the expected revert it says whose it is,
  and that `max_depth` is above its depth once a call of that frame is under way or
  was counted (`Waits`): a call that opens no frame relies on an earlier one for
  that, and has none when it is the first.
- `FiltersProofs`: `NothingAskedForIsLost` (`NoEventLost`), `ToldOnceInOrder`
  (`EventsInOrder`), `ToldOnlyWhatIsAsked` (`OnlyWanted`) and `PolledFiltersStay`
  (`OnlyIdleRemoved`), for any fork, logs, criteria and false positives of the bloom
  filter, and any number of filters, blocks and transactions. The invariant
  (`FilterInv`) says of each filter what its client was given and what it holds:
  nothing of it is later than the latest block or transaction (`Bounded`), it is in
  order, or for a subscription without repetition (`Ordered`), and it is what the
  client asked for of every block of the chain (`Knows`). `Bounded` is what makes the
  others inductive: a new block was made after everything a filter knows, the blocks
  that were taken back included, so its events can be appended, and none of the old
  ones can be mistaken for one of its. A search is `FlattenSeq` of its pieces;
  `FlattenLists` shows that pieces that follow each other make one list
  (`LeastNumber` again), which gives what a block, a range and the two sides of the
  fork contribute (`MatchingIs`, `FetchIs`, `LogsAre`). `BloomMissesNothing` shows
  that skipping a block loses nothing, and `WantedIsAsked` that the code's test of
  ranges, addresses and topics is the client's.

Only model-checked: the liveness properties (`MiningReturns`, `RequestsReturn`,
`MinerProceeds`, `DropEnds`) and everything that rests on fairness or `ENABLED`, which
are out of the prover's reach. The cases in which a safety property is false are
shown by TLC only (section 5), and the theorems name the conditions that exclude them.

## 5. Disagreements between the code and what it says

Two are runs with an expected violation:

- `automine_stuck`: `send_transaction` mines "until the sent transaction is
  mined", but when the gas limit splits the sender's sequence over two blocks,
  the pool update after the first may drop the sent transaction because the
  remaining balance does not cover it. The loop then mines empty blocks for ever
  with the provider locked. `MiningReturns` shows that, with prices the base fee
  comes down to, this is the only way not to return.
- `block_time_revert`: `evm_revert` adds the time since the snapshot to the
  offset where its comment asks for the difference.

Others were met on the way. Each has a configuration that shows it, or is shown
by the run's own configuration with the constants that are named:

| Configuration (module) | Property | What happens |
|---|---|---|
| `AutoMineCheap` (`MCAutoMine`) | `SendReturns` | a pending transaction below the lowest base fee, queued while automining was off, keeps the second loop going for ever |
| `AutoMineAborts` (`MCAutoMine`) | `PendingIsMinable` | two transactions affordable one by one, not together, fail every block |
| `MemPoolUpdatePromotes` (`MCMemPool`) | `FutureWaits` | `update` does not promote what an advanced nonce made executable |
| `MemPoolEmptyQueue` (`MCMemPool`) | `NoEmptyPendingQueue` | a failing `update` leaves an empty queue, on which later requests panic |
| `MemPoolHasTransactions` (`MCMemPool`) | `HasTransactionsExact` | dropping a sender's last pending transaction leaves an empty future queue that counts as transactions |
| `MemPool`, `Authorities = {}` | `NoSilentLoss` | a `hardhat_setBalance` that fails has dropped transactions for a balance that is not set |
| `BlockStorageState` (`MCBlockStorage`) | `StateAtBlockExact` | the state of a reserved block on a fork is the remote state without any local change once the block has been read, which removes the reservation its diffs were found by |
| `BlockStorageRevert` (`MCBlockStorage`) | `RevertFindsBlock` | reverting to a reserved block that has been read panics |
| `BlockStorageReuse` (`MCBlockStorage`) | `LastBlockExists` | a refused block leaves the last block number behind it |
| `BlockTime` | `TimestampsOrdered` with `Lag` 0 | where equal timestamps are not allowed, `evm_mine` with the timestamp of the latest block moves the block on by a second and not the offset: the next block is a second older than its parent |
| `BlockTime` | `InOrder`, `Possible` | a request that fails after its block was inserted leaves the clock, and the timestamp asked for, as they were: later blocks may be older than their parents by any time |
| `BlockTime`, `Intervals = {0}` | `NoSameTimestamp` | reserved blocks of one timestamp, where equal timestamps are not allowed |
| `StateCacheStorage` (`StateCache`) | `CacheCoherent` | after `hardhat_setStorageAt` the recomputed state has lost the other slots |
| `StateCache`, `Infos = {i1, Empty}` | `CacheCoherent` | an emptied account stays when the state is recomputed |
| `StateCache`, `TxKinds = {"touch", "selfdestruct"}` | `CacheCoherent` | an account that is destroyed and funded again in one block is lost when the state is recomputed |
| `StateCacheRoot` (`StateCache`) | `OverrideRootExact` | the root recorded with the changes at a block is that of the first change |
| `IntervalMiningAlive` (`IntervalMining`) | `MinerIsAlive` | after an error while mining the provider keeps a miner that has ended |
| `FiltersExpire` (`MCFilters`) | `SubscriptionsLast` | a subscription, which is never polled, ends after five minutes |
| `FiltersRevert` (`MCFilters`) | `KnownIsInChain` | logs that a revert takes back stay in the filter and are not reported as removed |
| `ForkStateEmpty` (`MCForkState`) | `EmptyIsNone` | reading a slot of an account that does not exist makes the account exist, empty |
| `ForkState`, `Remote <- MCRemoteMoves` (`MCForkState`) | `OverlayExact` | a state that is built again reads what its diffs do not cover at a later remote block |
| `ForkState`, `Destroys = TRUE`; `ForkState`, `Emptied = TRUE`, `Remote <- MCRemotePaid` (`MCForkState`) | `OverlayExact` | a remote account that is destroyed, or left empty, is back at the next read |
| `ForkState`, `Ephemeral = TRUE`; `ForkState`, `Codeless = TRUE` (`MCForkState`) | `CodeAvailable` | code in use is dropped when the same code is deployed and destroyed in one transaction, and when an account that uses it is changed without loading it |
| `RpcClientLate` (`MCRpcClient`) | `CachedIsFinal` | more blocks between the answer and the check than the margin leaves |
| `RpcClientUnchecked` (`MCRpcClient`) | `CachedIsFinal` | "the client only caches responses for finalized blocks", but a receipt, and that there is none, is stored at once |
| `RpcClient`, `Requests <- MCHundredths` | `ReadsOwnAnswer` | whole hundredths share a key when the product with 100 is rounded down, as 0.28 and 0.29 do in f64 and 0.27 and 0.28 in the eight digits of `MCFloats` |
| `RpcClient`, `Requests <- MCThousandths` | `ReadsOwnAnswer` | percentiles that differ in the third digit share a key |
| `CheatcodesCreate` (`Cheatcodes`) | `OriginRestored` | a creation that ends a single prank removes the pranks of outer frames, whose origin is not given back |
| `CheatcodesLeftover` (`Cheatcodes`) | `OriginAsPranked` | the prank of a frame that has ended meets the next frame of its depth |
| `Cheatcodes`, `Allowed = {"partial"}` | `OutcomeAsExpected` | after one of two expected reverts, the expecting frame's own revert counts as the second |
| `Cheatcodes`, `Allowed = {"no frame"}` | `OutcomeAsExpected` | the first call after `expectRevert` opens no frame, as one of an account without code or one without funds: it is taken for a call that never got deeper and fails the expectation, also when it ended as expected |
| `Cheatcodes`, `Allowed = {"delegate"}` | `OriginRestored` | a delegate prank sets the origin for a frame that does not give it back |

## 6. Plan

In order of importance.

1. Done: mem pool, block storage with its abstract chain, clock, state cache,
   provider and interval miner, automining; type invariants and first safety
   theorems.
2. Done: filters, forked state, RPC client and its disk cache, pranks and
   expected reverts.
3. Done: proofs of the safety properties of every run, with the refinement of
   `EagerChain`.
4. The cache of remote blocks in memory, with the duplicate blocks it takes to be
   impossible, and the receipts of a remote block; expected calls and emits;
   the multi-fork backend of the test runner.
5. Gas estimation as a pure algorithm against its reference; `CancellableThread`;
   blob transactions in `AutoMine`.

## 7. Not modelled

Execution of transactions (revm, outside the repository), tries and hashing,
JSON-RPC parsing, gas estimation, traces and console output, the Solidity test
runner and most of its cheatcodes, the Node bindings, OP stack and other chains
(the same provider with other headers and fees), tools and benchmarks. The
reasons are with the components in `PROJECT.json`.

Measured in lines, that is most of the repository. Of some 137 000 lines, about a
third belong to the fork of Foundry (test runner, fuzzer, cheatcodes that read and
write files, environment and JSON), and most of the others convert data (RPC
types, transactions and receipts of several chains, signing, DWARF and source
maps, stack traces) or bind the library to Node: they keep no state between two
calls, so there is nothing to interleave and no sequence to get wrong, and a
model of them would repeat them. The specifications aim at the lines that do
keep state.
