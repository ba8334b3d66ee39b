------------------------------ MODULE MemPool -------------------------------
(***************************************************************************)
(* The mem pool of crates/mem_pool and the handlers of the provider that   *)
(* change it.  The account state it is validated against is a variable:    *)
(* mining a block and the hardhat_set* requests change it and then call    *)
(* `update`.                                                               *)
(***************************************************************************)
EXTENDS Vecs

CONSTANTS
  Address,         \* the accounts that send transactions
  Transactions,    \* the signed transactions clients may submit
  Balances,        \* the balances an account may have
  BlockGasLimits,  \* the block gas limits: numbers or None (not enforced)
  transaction_gas_cap,  \* EIP-7825: a number, or None
  None,            \* Rust's None
  FeeModulus,      \* 2^width of the integers fees are computed in
  Authorities,     \* accounts whose nonce other accounts' transactions advance
  Faulty,          \* accounts whose state lookup may fail (remote, not cached)
  MaxNonce,        \* bound on account nonces
  MaxOrderId       \* bound on the number of accepted transactions

TransactionType ==
  [caller : Address, nonce : Nat, gas_limit : Nat, gas_price : Nat,
   max_priority_fee_per_gas : {None} \cup Nat, value : Nat]

ASSUME MemPoolAssumption ==
  /\ Transactions \subseteq TransactionType
  /\ Balances \subseteq Nat /\ Balances # {}
  /\ BlockGasLimits \subseteq {None} \cup Nat /\ BlockGasLimits # {}
  /\ transaction_gas_cap \in {None} \cup Nat
  /\ None \notin Nat
  /\ FeeModulus \in Nat \ {0}
  /\ Authorities \subseteq Address /\ Faulty \subseteq Address
  /\ MaxNonce \in Nat /\ MaxOrderId \in Nat

VARIABLES
  block_gas_limit,
  pending_transactions,  \* caller -> executable now, in nonce order
  future_transactions,   \* caller -> waiting for a nonce gap to close
  hash_to_transaction,   \* the transactions known by hash
  next_order_id,
  state,                 \* caller -> nonce and balance in the latest block
  faulty                 \* the accounts whose lookup may fail: fixed, and none
                         \* where the chain is not forked

pool == <<block_gas_limit, pending_transactions, future_transactions,
          hash_to_transaction, next_order_id>>
vars == <<pool, state, faulty>>

(* A transaction stands for its own hash: equal hashes, equal transactions. *)
OrderedTransaction == [order_id : Nat, transaction : Transactions]

EmptyMap == [a \in {} |-> <<>>]

-----------------------------------------------------------------------------
(* Fees and funds. *)

(* The gas is charged at most at u128::MAX. *)
max_cost(tx) ==
  LET product == tx.gas_limit * tx.gas_price
  IN  IF product < FeeModulus THEN product ELSE FeeModulus - 1

upfront_cost(tx) == max_cost(tx) + tx.value

(* 110% of the fee, rounded up, the product wrapping as release builds do. *)
min_new_fee(fee) ==
  LET product == (fee * 110) % FeeModulus
  IN  product \div 100 + (IF product % 100 = 0 THEN 0 ELSE 1)

priority_fee(tx) ==
  IF tx.max_priority_fee_per_gas = None THEN tx.gas_price
                                        ELSE tx.max_priority_fee_per_gas

(* Mutant: the priority fee is not compared. *)
Bug_OnlyGasPrice(old, new) == new.gas_price >= min_new_fee(old.gas_price)

validate_replacement_transaction(old, new) ==
  /\ new.gas_price >= min_new_fee(old.gas_price)
  /\ priority_fee(new) >= min_new_fee(priority_fee(old))

within_limit(tx, limit) == limit # None => tx.gas_limit <= limit

is_valid_tx(tx, limit, sender) ==
  /\ within_limit(tx, limit)
  /\ upfront_cost(tx) <= sender.balance
  /\ tx.nonce >= sender.nonce

-----------------------------------------------------------------------------
(* Lookups. *)

account_next_nonce(a) ==
  IF a \in DOMAIN pending_transactions
  THEN LET q == pending_transactions[a] IN q[Len(q)].transaction.nonce + 1
  ELSE state[a].nonce

(* last_pending_nonce and the miner's iterator expect a queue not to be empty;
   a panic ends the process. *)
empty_queue_panics(a) ==
  a \in DOMAIN pending_transactions /\ pending_transactions[a] = <<>>

has_transactions == DOMAIN pending_transactions # {} \/ DOMAIN future_transactions # {}

SameNonce(q, tx) == {i \in DOMAIN q : q[i].transaction.nonce = tx.nonce}

-----------------------------------------------------------------------------
(* add_transaction *)

Known(ot) == Put(hash_to_transaction, ot.transaction, ot)

(* *replaced_transaction = transaction: the first entry with the nonce. *)
ReplacedAt(q, tx) == Find(q, LAMBDA ot : ot.transaction.nonce = tx.nonce)

ReplaceIn(queues, ot) ==
  LET tx == ot.transaction
      q  == queues[tx.caller]
      i  == ReplacedAt(q, tx)
  IN  [queues EXCEPT ![tx.caller] = [q EXCEPT ![i] = ot]]

(* Mutant: the hash of the replaced transaction stays. *)
Bug_KeepsReplacedHash(queues, ot) == Put(hash_to_transaction, ot.transaction, ot)

ReplacedHash(queues, ot) ==
  LET tx  == ot.transaction
      q   == queues[tx.caller]
      old == q[ReplacedAt(q, tx)].transaction
  IN  Put(Without(hash_to_transaction, {old}), tx, ot)

ReplacementAccepted(queues, tx) ==
  /\ SameNonce(At(queues, tx.caller), tx) # {}
  /\ LET q == queues[tx.caller]
     IN  validate_replacement_transaction(q[ReplacedAt(q, tx)].transaction, tx)

(* Mutant: a closed gap promotes nothing. *)
Bug_NoPromotion(q, n) == {}

(* The nonces that follow n without a gap among the entries of q. *)
PromotedNonces(q, n) ==
  {m \in n + 1 .. n + Len(q) :
     \A k \in n + 1 .. m : Found(q, LAMBDA ot : ot.transaction.nonce = k)}

PromotedAt(q, m) == Find(q, LAMBDA ot : ot.transaction.nonce = m)

InsertPending(ot) ==
  LET tx  == ot.transaction
      a   == tx.caller
      q   == At(future_transactions, a)
      run == PromotedNonces(q, tx.nonce)
      promoted == [k \in 1 .. Cardinality(run) |-> q[PromotedAt(q, tx.nonce + k)]]
      left == Keep(q, DOMAIN q \ {PromotedAt(q, m) : m \in run})
  IN  \/ /\ ReplacementAccepted(pending_transactions, tx)
         /\ pending_transactions' = ReplaceIn(pending_transactions, ot)
         /\ hash_to_transaction' = ReplacedHash(pending_transactions, ot)
         /\ UNCHANGED future_transactions
      \/ /\ SameNonce(At(pending_transactions, a), tx) = {}
         /\ pending_transactions' =
              Put(pending_transactions, a,
                  Append(At(pending_transactions, a), ot) \o promoted)
         /\ future_transactions' =
              IF a \in DOMAIN future_transactions
              THEN PutBack(future_transactions, a, left)
              ELSE future_transactions
         /\ hash_to_transaction' = Known(ot)

InsertFuture(ot) ==
  LET tx == ot.transaction
      a  == tx.caller
  IN  /\ UNCHANGED pending_transactions
      /\ \/ /\ ReplacementAccepted(future_transactions, tx)
            /\ future_transactions' = ReplaceIn(future_transactions, ot)
            /\ hash_to_transaction' = ReplacedHash(future_transactions, ot)
         \/ /\ SameNonce(At(future_transactions, a), tx) = {}
            /\ future_transactions' =
                 Put(future_transactions, a, Append(At(future_transactions, a), ot))
            /\ hash_to_transaction' = Known(ot)

(* A request that fails one of the checks leaves everything as it was. *)
AddTransaction(tx) ==
  LET a  == tx.caller
      ot == [order_id |-> next_order_id, transaction |-> tx]
  IN  /\ next_order_id < MaxOrderId
      /\ within_limit(tx, transaction_gas_cap)
      /\ within_limit(tx, block_gas_limit)
      /\ tx \notin DOMAIN hash_to_transaction
      /\ tx.nonce >= state[a].nonce
      /\ upfront_cost(tx) <= state[a].balance
      /\ ~ empty_queue_panics(a)
      /\ \/ tx.nonce >  account_next_nonce(a) /\ InsertFuture(ot)
         \/ tx.nonce <= account_next_nonce(a) /\ InsertPending(ot)
      /\ next_order_id' = next_order_id + 1
      /\ UNCHANGED <<block_gas_limit, state>>

-----------------------------------------------------------------------------
(* remove_transaction (hardhat_dropTransaction) *)

HashAt(q, tx) == Find(q, LAMBDA ot : ot.transaction = tx)

(* Mutant: the entry stays when its last transaction is removed. *)
Bug_LeavesEmptyEntry(tx) ==
  LET a == tx.caller
      q == pending_transactions[a]
      i == HashAt(q, tx)
  IN  /\ Found(At(pending_transactions, a), LAMBDA ot : ot.transaction = tx)
      /\ pending_transactions' = Put(pending_transactions, a, Front(q, i - 1))
      /\ future_transactions' =
           Put(future_transactions, a, At(future_transactions, a) \o Rest(q, i))

RemovePending(tx) ==
  LET a == tx.caller
      q == pending_transactions[a]
      i == HashAt(q, tx)
  IN  /\ Found(At(pending_transactions, a), LAMBDA ot : ot.transaction = tx)
      /\ pending_transactions' = PutBack(pending_transactions, a, Front(q, i - 1))
      /\ future_transactions' =
           Put(future_transactions, a, At(future_transactions, a) \o Rest(q, i))

RemoveFuture(tx) ==
  LET a == tx.caller
      q == future_transactions[a]
  IN  /\ ~ Found(At(pending_transactions, a), LAMBDA ot : ot.transaction = tx)
      /\ Found(At(future_transactions, a), LAMBDA ot : ot.transaction = tx)
      /\ future_transactions' =
           PutBack(future_transactions, a, Keep(q, DOMAIN q \ {HashAt(q, tx)}))
      /\ UNCHANGED pending_transactions

RemoveTransaction(tx) ==
  /\ tx \in DOMAIN hash_to_transaction
  /\ hash_to_transaction' = Without(hash_to_transaction, {tx})
  /\ RemovePending(tx) \/ RemoveFuture(tx)
  /\ UNCHANGED <<block_gas_limit, next_order_id, state>>

-----------------------------------------------------------------------------
(* update *)

Retained(q, limit, sender) ==
  Retain(q, LAMBDA ot : is_valid_tx(ot.transaction, limit, sender))

Dropped(q, limit, sender) ==
  {ot.transaction : ot \in {o \in Elements(q) : ~ is_valid_tx(o.transaction, limit, sender)}}

(* Mutant: the nonces of the retained transactions are not looked at. *)
Bug_NoGapCheck(q, n) == Len(q)

(* How many entries have consecutive nonces that start at n. *)
Consecutive(q, n) ==
  CHOOSE k \in 0 .. Len(q) :
    /\ \A i \in 1 .. k : q[i].transaction.nonce = n + i - 1
    /\ k < Len(q) => q[k + 1].transaction.nonce # n + k

(***************************************************************************)
(* The loop over the pending queues has treated the callers S, the loop    *)
(* over the future queues the callers F.  `update` succeeds when both have *)
(* treated every caller, and it then removes the empty entries; a failing  *)
(* state lookup returns early and leaves the rest, and the empty entries,  *)
(* as they are.                                                            *)
(***************************************************************************)
StillPending(S, limit, st) ==
  [a \in DOMAIN pending_transactions |->
     IF a \notin S THEN pending_transactions[a]
     ELSE LET q == Retained(pending_transactions[a], limit, st[a])
          IN  Front(q, Consecutive(q, st[a].nonce))]

Invalidated(a, limit, st) ==
  LET q == Retained(pending_transactions[a], limit, st[a])
  IN  Rest(q, Consecutive(q, st[a].nonce))

ThenFuture(S, limit, st) ==
  LET moved == {a \in S : Invalidated(a, limit, st) # <<>>}
  IN  [a \in DOMAIN future_transactions \cup moved |->
         At(future_transactions, a)
           \o (IF a \in moved THEN Invalidated(a, limit, st) ELSE <<>>)]

UpdateUpTo(S, F, limit, st) ==
  LET p == StillPending(S, limit, st)
      f == ThenFuture(S, limit, st)
      g == [a \in DOMAIN f |-> IF a \in F THEN Retained(f[a], limit, st[a]) ELSE f[a]]
  IN  /\ pending_transactions' = IF S = DOMAIN p THEN NonEmpty(p) ELSE p
      /\ future_transactions' = IF S = DOMAIN p /\ F = DOMAIN f THEN NonEmpty(g) ELSE g
      /\ hash_to_transaction' =
           Without(hash_to_transaction,
                   UNION ({Dropped(pending_transactions[a], limit, st[a]) : a \in S}
                          \cup {Dropped(f[a], limit, st[a]) : a \in F}))

(* Mutant: the accounts are looked up as they were before the step. *)
Bug_StaleState(limit, st) ==
  LET S == DOMAIN pending_transactions
  IN  UpdateUpTo(S, DOMAIN ThenFuture(S, limit, state), limit, state)

Update(limit, st) ==
  LET S == DOMAIN pending_transactions
  IN  UpdateUpTo(S, DOMAIN ThenFuture(S, limit, st), limit, st)

UpdateFails(limit, st) ==
  LET D == DOMAIN pending_transactions
      f == ThenFuture(D, limit, st)
  IN  \/ \E a \in D \cap faulty : \E S \in SUBSET (D \ {a}) : UpdateUpTo(S, {}, limit, st)
      \/ \E a \in DOMAIN f \cap faulty : \E F \in SUBSET (DOMAIN f \ {a}) :
           UpdateUpTo(D, F, limit, st)

-----------------------------------------------------------------------------
(* The provider's handlers. *)

(* The limit is set before `update` may fail; a request cannot disable it. *)
SetBlockGasLimit(limit) ==
  /\ limit # None
  /\ block_gas_limit' = limit
  /\ Update(limit, state) \/ UpdateFails(limit, state)
  /\ UNCHANGED <<next_order_id, state>>

(* Mutant: the pool is not updated. *)
Bug_SetBalanceOnly(a, balance) ==
  state' = [state EXCEPT ![a].balance = balance] /\ UNCHANGED pool

(* The modified state is adopted only after `update` has succeeded. *)
SetBalance(a, balance) ==
  LET st == [state EXCEPT ![a].balance = balance]
  IN  /\ \/ Update(block_gas_limit, st) /\ state' = st
         \/ UpdateFails(block_gas_limit, st) /\ UNCHANGED state
      /\ UNCHANGED <<block_gas_limit, next_order_id>>

(* Refused while the pool reports transactions, and never lowers the nonce. *)
SetNonce(a, nonce) ==
  LET st == [state EXCEPT ![a].nonce = nonce]
  IN  /\ ~ has_transactions
      /\ nonce >= state[a].nonce
      /\ Update(block_gas_limit, st)
      /\ state' = st
      /\ UNCHANGED <<block_gas_limit, next_order_id>>

(***************************************************************************)
(* A block is mined and committed.  Of every sender it holds the first     *)
(* mined[a] pending transactions, which can be executed only when they     *)
(* start at the account's nonce; the nonce of an authority may advance     *)
(* once more.  What the transactions do to the balances is left open.  The *)
(* block is part of the chain when `update` is called, so the new state    *)
(* stands whether or not that succeeds.                                    *)
(***************************************************************************)
MineBlock ==
  \E mined \in [Address -> 0 .. MaxOrderId], bumped \in SUBSET Authorities,
     balance \in [Address -> Balances] :
    LET st == [a \in Address |->
                 [nonce   |-> state[a].nonce + mined[a] + (IF a \in bumped THEN 1 ELSE 0),
                  balance |-> balance[a]]]
    IN  /\ \A a \in Address :
             LET q == At(pending_transactions, a)
             IN  /\ ~ empty_queue_panics(a)
                 /\ mined[a] <= Len(q)
                 /\ mined[a] > 0 => q[1].transaction.nonce = state[a].nonce
                 /\ st[a].nonce <= MaxNonce
        /\ Update(block_gas_limit, st) \/ UpdateFails(block_gas_limit, st)
        /\ state' = st
        /\ UNCHANGED <<block_gas_limit, next_order_id>>

Init ==
  /\ block_gas_limit \in BlockGasLimits
  /\ pending_transactions = EmptyMap
  /\ future_transactions = EmptyMap
  /\ hash_to_transaction = EmptyMap
  /\ next_order_id = 0
  /\ state \in [Address -> [nonce : {0}, balance : Balances]]
  /\ faulty \in {{}, Faulty}

Next ==
  /\ \/ \E tx \in Transactions : AddTransaction(tx)
     \/ \E tx \in Transactions : RemoveTransaction(tx)
     \/ \E limit \in BlockGasLimits : SetBlockGasLimit(limit)
     \/ \E a \in Address, balance \in Balances : SetBalance(a, balance)
     \/ \E a \in Address, nonce \in 0 .. MaxNonce : SetNonce(a, nonce)
     \/ MineBlock
  /\ UNCHANGED faulty

Spec == Init /\ [][Next]_vars
-----------------------------------------------------------------------------
IsQueues(queues) ==
  /\ DOMAIN queues \subseteq Address
  /\ \A a \in Address : At(queues, a) \in Seq(OrderedTransaction)

(* The variables have the types of the fields of MemPool. *)
TypeOK ==
  /\ block_gas_limit \in {None} \cup Nat
  /\ IsQueues(pending_transactions)
  /\ IsQueues(future_transactions)
  /\ DOMAIN hash_to_transaction \subseteq Transactions
  /\ \A tx \in DOMAIN hash_to_transaction : hash_to_transaction[tx] \in OrderedTransaction
  /\ next_order_id \in Nat
  /\ state \in [Address -> [nonce : Nat, balance : Nat]]
  /\ faulty \in SUBSET Address

(* The queues p and f of an account and the hashes agree. *)
AccountExact(a, p, f, hashes) ==
  /\ \A ot \in Elements(p) \cup Elements(f) :
       /\ ot.transaction.caller = a
       /\ ot.transaction \in DOMAIN hashes
       /\ hashes[ot.transaction] = ot
  /\ Distinct(p) /\ Distinct(f)
  /\ Elements(p) \cap Elements(f) = {}

Exact(pending, future, hashes) ==
  /\ \A a \in Address : AccountExact(a, At(pending, a), At(future, a), hashes)
  /\ \A tx \in DOMAIN hashes :
       /\ hashes[tx].transaction = tx
       /\ hashes[tx] \in Elements(At(pending, tx.caller)) \cup Elements(At(future, tx.caller))

(* hash_to_transaction and the queues are two views of one set of            *)
(* transactions, kept up to date by hand in add_transaction,                 *)
(* remove_transaction and update: every queued transaction is found by its   *)
(* hash, as the entry that is queued; every hash leads to a queued entry, in *)
(* the queues of its own sender; and no transaction is queued twice.         *)
HashMapExact ==
  Exact(pending_transactions, future_transactions, hash_to_transaction)

(* The miner executes a sender's pending queue front to back, and fails the  *)
(* block on a wrong nonce: the queue holds consecutive nonces that start at  *)
(* the nonce the account has in the latest block.                            *)
PendingContiguous ==
  \A a \in Address : \A i \in DOMAIN At(pending_transactions, a) :
    At(pending_transactions, a)[i].transaction.nonce = state[a].nonce + i - 1

(* q holds consecutive nonces, the first of them at most n. *)
ConsecutiveUpTo(q, n) ==
  \A i \in DOMAIN q : /\ q[i].transaction.nonce = q[1].transaction.nonce + i - 1
                      /\ q[1].transaction.nonce <= n

(* Even when the lookup of an account has failed and its queue was left      *)
(* alone, the queue holds consecutive nonces, none of them ahead of the      *)
(* account: a late update finds the executable ones without a gap.           *)
PendingConsecutive ==
  \A a \in Address : ConsecutiveUpTo(At(pending_transactions, a), state[a].nonce)

FutureIsAhead(a) ==
  \A i \in DOMAIN At(future_transactions, a) :
    future_transactions[a][i].transaction.nonce > account_next_nonce(a)

(* Future transactions wait for "the account's next (pending) nonce" to      *)
(* become "high enough": the comment on future_transactions.                 *)
FutureWaits == \A a \in Address : FutureIsAhead(a)

(* It holds for the senders whose nonce only their own transactions advance, *)
(* whatever the other senders' transactions do: every transaction that fills *)
(* a gap promotes the ones that waited for it.                               *)
OwnFutureWaits == \A a \in Address \ Authorities : FutureIsAhead(a)

Queued(a) == Elements(At(pending_transactions, a)) \cup Elements(At(future_transactions, a))

(* Whatever is queued could still be accepted now: after every change of the *)
(* state or of the block gas limit `update` has dropped what became invalid. *)
QueuedValid ==
  \A a \in Address : \A ot \in Queued(a) :
    is_valid_tx(ot.transaction, block_gas_limit, state[a])

(* "Empty maps should be deleted", "Empty queues should be removed": the     *)
(* expectations of last_pending_nonce and of the iterator the miner uses.    *)
NoEmptyPendingQueue ==
  \A a \in DOMAIN pending_transactions : pending_transactions[a] # <<>>

(* "Whether the mempool has any transactions": has_transactions is true      *)
(* exactly when something is queued.                                         *)
HasTransactionsExact == has_transactions <=> DOMAIN hash_to_transaction # {}

OutbidBy(old, new) ==
  /\ new.caller = old.caller /\ new.nonce = old.nonce
  /\ 100 * new.gas_price >= 110 * old.gas_price
  /\ 100 * priority_fee(new) >= 110 * priority_fee(old)

NothingLost ==
  \A tx \in DOMAIN hash_to_transaction \ DOMAIN hash_to_transaction' :
    \/ RemoveTransaction(tx)
    \/ ~ is_valid_tx(tx, block_gas_limit', state'[tx.caller])
    \/ \E new \in DOMAIN hash_to_transaction' \ DOMAIN hash_to_transaction :
         OutbidBy(tx, new)

(* A transaction leaves the pool only if it was dropped by request, is no    *)
(* longer valid in the state the step adopts, or was outbid: another one of  *)
(* the same sender and nonce took its place and pays 10% more in both fees.  *)
NoSilentLoss == [][NothingLost]_vars

-----------------------------------------------------------------------------
(* The properties that need every lookup to succeed. *)
Reliable == faulty = {}

(* The miner executes a sender's pending queue front to back, and fails the  *)
(* block on a wrong nonce: while no lookup fails, update, add and            *)
(* remove leave consecutive nonces that start at the account's.              *)
ReliablyContiguous == Reliable => PendingContiguous

(* While no lookup fails, every transaction that fills a gap promotes        *)
(* the ones of its sender that waited for it, whatever the other senders'    *)
(* transactions do.                                                          *)
ReliablyWaits == Reliable => OwnFutureWaits

(* While no lookup fails, whatever is queued could be accepted now:          *)
(* every operation that changes the state or the block gas limit calls       *)
(* update, which has dropped what became invalid.                            *)
ReliablyValid == Reliable => QueuedValid

(* "Empty maps should be deleted", "Empty queues should be removed": while   *)
(* no lookup fails, last_pending_nonce and the miner's iterator find no      *)
(* empty queue.                                                              *)
ReliablyNonEmpty == Reliable => NoEmptyPendingQueue

(* While no lookup fails, a transaction leaves the pool only if it was       *)
(* dropped by request, is no longer valid in the state the step adopts, or   *)
(* was outbid by 10% in both fees.                                           *)
ReliablyKept == [][Reliable => NothingLost]_vars
=============================================================================
