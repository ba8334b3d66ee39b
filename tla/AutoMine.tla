------------------------------ MODULE AutoMine ------------------------------
(***************************************************************************)
(* The requests that mine, composed with the mem pool: evm_mine and, with  *)
(* automining on, eth_sendTransaction.  A block is built transaction by    *)
(* transaction (`mine_block` of crates/block/miner) and committed          *)
(* (`mine_and_commit_block_impl`); `send_transaction` mines blocks until   *)
(* the sent transaction and everything else pending is mined, and reverts  *)
(* to a snapshot when a block fails.  One request is handled at a time,    *)
(* under the lock of the provider.  The chain is past the London hardfork. *)
(* Blob transactions, which never enter the pool, are left out, and so are *)
(* authorizations and lookups of accounts that fail (Authorities, Faulty). *)
(***************************************************************************)
EXTENDS MemPool

CONSTANTS
  MineOrderings,           \* the configured orders: "Fifo", "Priority"
  min_gas_price,
  InitialBaseFees,         \* the base fees the first block may have
  NextBaseFees,            \* the arguments of hardhat_setNextBlockBaseFeePerGas
  elasticity_multiplier,   \* EIP-1559: 2 on the main chain
  max_change_denominator   \* EIP-1559: 8 on the main chain

ASSUME AutoMineAssumption ==
  /\ MineOrderings \subseteq {"Fifo", "Priority"}
  /\ min_gas_price \in Nat
  /\ InitialBaseFees \subseteq Nat /\ NextBaseFees \subseteq Nat
  /\ elasticity_multiplier \in Nat \ {0} /\ max_change_denominator \in Nat \ {0}

VARIABLES
  mine_ordering,
  is_auto_mining,
  last_header,                  \* the header of the last block
  mined,                        \* the transactions in the chain
  next_block_base_fee_per_gas,  \* what the client asked for, or None
  request,                      \* the request that is mining, or None
  builder                       \* the block being built, or None

chain == <<last_header, mined, state>>
restored == <<pool, chain, next_block_base_fee_per_gas>>
autoVars == <<restored, mine_ordering, is_auto_mining, request, builder, faulty>>

Idle == request = None

-----------------------------------------------------------------------------
(* Base fees. *)

MaxOf(m, n) == IF m > n THEN m ELSE n
MinOf(m, n) == IF m < n THEN m ELSE n

(* Mutant: the base fee does not come down. *)
Bug_NeverFalls(parent) ==
  LET target == parent.gas_limit \div elasticity_multiplier
      Change(gas) == (parent.base_fee * gas) \div (target * max_change_denominator)
  IN  IF parent.gas_used > target
      THEN parent.base_fee + MaxOf(1, Change(parent.gas_used - target))
      ELSE parent.base_fee

calculate_next_base_fee_per_gas(parent) ==
  LET target == parent.gas_limit \div elasticity_multiplier
      Change(gas) == (parent.base_fee * gas) \div (target * max_change_denominator)
  IN  CASE parent.gas_used = target -> parent.base_fee
        [] parent.gas_used > target ->
             parent.base_fee + MaxOf(1, Change(parent.gas_used - target))
        [] parent.gas_used < target ->
             MaxOf(0, parent.base_fee - Change(target - parent.gas_used))

NextBaseFee ==
  IF next_block_base_fee_per_gas = None
  THEN calculate_next_base_fee_per_gas(last_header)
  ELSE next_block_base_fee_per_gas

(* What the sender pays per gas. *)
effective_gas_price(tx, base_fee) ==
  MinOf(tx.gas_price, base_fee + priority_fee(tx))

(* What the miner is left with; the difference wraps in release builds. *)
effective_miner_fee(tx, base_fee) ==
  MinOf(priority_fee(tx), (tx.gas_price - base_fee) % FeeModulus)

-----------------------------------------------------------------------------
(* The iterator over the pending transactions. *)

ComesBefore(l, r, base_fee) ==
  LET fee(ot) == effective_miner_fee(ot.transaction, base_fee)
  IN  IF mine_ordering = "Fifo" \/ fee(l) = fee(r)
      THEN l.order_id < r.order_id
      ELSE fee(l) > fee(r)

NextCaller(queues, base_fee) ==
  CHOOSE a \in DOMAIN queues :
    \A b \in DOMAIN queues \ {a} : ComesBefore(queues[a][1], queues[b][1], base_fee)

TakeFirst(queues, a) == PutBack(queues, a, Rest(queues[a], 1))

(* Mutant: only the transaction itself is passed over. *)
Bug_PassesOver(queues, a) == TakeFirst(queues, a)

remove_caller(queues, a) == Without(queues, {a})

-----------------------------------------------------------------------------
(* mine_block *)

StartBlock ==
  /\ request # None /\ builder = None
  /\ request.kind = "send" /\ request.tx \in mined => DOMAIN pending_transactions # {}
  /\ builder' = [queues |-> pending_transactions, txs |-> {}, st |-> state,
                 header |-> [base_fee  |-> NextBaseFee, gas_used |-> 0,
                             gas_limit |-> block_gas_limit]]
  /\ UNCHANGED <<restored, mine_ordering, is_auto_mining, request>>

Candidate ==
  builder.queues[NextCaller(builder.queues, builder.header.base_fee)][1].transaction

(* The sender has to wait for another block. *)
IsSkipped(tx) ==
  \/ tx.gas_price < min_gas_price
  \/ tx.gas_limit > builder.header.gas_limit - builder.header.gas_used
  \/ tx.gas_price < builder.header.base_fee

(* Any other error of the transaction is an error of the block: a wrong nonce,
   a payment for gas that does not fit its integer, a lack of funds. *)
IsInvalid(tx) ==
  \/ tx.nonce # builder.st[tx.caller].nonce
  \/ tx.gas_limit * tx.gas_price >= FeeModulus
  \/ upfront_cost(tx) > builder.st[tx.caller].balance

(* Mutant: the sender's nonce is advanced although nothing was executed. *)
Bug_AdvancesNonce ==
  /\ IsSkipped(Candidate)
  /\ builder' = [builder EXCEPT !.queues = remove_caller(@, Candidate.caller),
                                !.st[Candidate.caller].nonce = @ + 1]
  /\ UNCHANGED <<restored, request>>

Skip ==
  /\ IsSkipped(Candidate)
  /\ builder' = [builder EXCEPT !.queues = remove_caller(@, Candidate.caller)]
  /\ UNCHANGED <<restored, request>>

(* The sender after a transaction that used so much gas and sent so much value
   (none when it was reverted). *)
Executed(sender, tx, used, sent, base_fee) ==
  [nonce   |-> sender.nonce + 1,
   balance |-> sender.balance - used * effective_gas_price(tx, base_fee) - sent]

Include ==
  LET tx == Candidate
      a  == tx.caller
  IN  /\ ~ IsSkipped(tx) /\ ~ IsInvalid(tx)
      /\ \E used \in 1 .. tx.gas_limit, sent \in {0, tx.value} :
           builder' =
             [builder EXCEPT
                !.queues = TakeFirst(@, a),
                !.txs = @ \cup {tx},
                !.st[a] = Executed(@, tx, used, sent, builder.header.base_fee),
                !.header.gas_used = @ + used]
      /\ UNCHANGED <<restored, request>>

(* Mutant: the base fee the client asked for is not restored. *)
Bug_ForgetsBaseFee(s) ==
  /\ block_gas_limit' = s.mem_pool[1] /\ pending_transactions' = s.mem_pool[2]
  /\ future_transactions' = s.mem_pool[3] /\ hash_to_transaction' = s.mem_pool[4]
  /\ next_order_id' = s.mem_pool[5]
  /\ last_header' = s.chain[1] /\ mined' = s.chain[2] /\ state' = s.chain[3]
  /\ UNCHANGED next_block_base_fee_per_gas

revert_to_snapshot(s) ==
  /\ block_gas_limit' = s.mem_pool[1] /\ pending_transactions' = s.mem_pool[2]
  /\ future_transactions' = s.mem_pool[3] /\ hash_to_transaction' = s.mem_pool[4]
  /\ next_order_id' = s.mem_pool[5]
  /\ last_header' = s.chain[1] /\ mined' = s.chain[2] /\ state' = s.chain[3]
  /\ next_block_base_fee_per_gas' = s.next_block_base_fee_per_gas

(* The block is given up; a send takes back the blocks it has committed. *)
FailBlock ==
  /\ ~ IsSkipped(Candidate) /\ IsInvalid(Candidate)
  /\ builder' = None /\ request' = None
  /\ \/ request.kind = "mine" /\ UNCHANGED restored
     \/ request.kind = "send" /\ revert_to_snapshot(request.snapshot)

TakeTransaction ==
  /\ builder # None /\ DOMAIN builder.queues # {}
  /\ Skip \/ Include \/ FailBlock
  /\ UNCHANGED <<mine_ordering, is_auto_mining>>

(* mine_and_commit_block_impl: the block is inserted, the pool updated. *)
FinishBlock ==
  /\ builder # None /\ DOMAIN builder.queues = {}
  /\ last_header' = builder.header
  /\ mined' = mined \cup builder.txs
  /\ state' = builder.st
  /\ Update(block_gas_limit, builder.st)
  /\ next_block_base_fee_per_gas' = None
  /\ builder' = None
  /\ request' = IF request.kind = "mine" THEN None ELSE request
  /\ UNCHANGED <<block_gas_limit, next_order_id, mine_ordering, is_auto_mining>>

-----------------------------------------------------------------------------
(* The requests. *)

validate_auto_mine_transaction(tx) ==
  /\ tx.nonce = account_next_nonce(tx.caller)
  /\ priority_fee(tx) >= min_gas_price
  /\ tx.gas_price >= NextBaseFee

make_snapshot ==
  [mem_pool |-> pool, chain |-> chain,
   next_block_base_fee_per_gas |-> next_block_base_fee_per_gas]

(* send_transaction: a transaction that is refused changes nothing. *)
SendTransaction(tx) ==
  /\ Idle
  /\ AddTransaction(tx)
  /\ \/ ~ is_auto_mining /\ UNCHANGED request
     \/ /\ is_auto_mining
        /\ validate_auto_mine_transaction(tx)
        /\ request' = [kind |-> "send", tx |-> tx, snapshot |-> make_snapshot,
                       before |-> restored]
  /\ UNCHANGED <<last_header, mined, next_block_base_fee_per_gas, mine_ordering,
                 is_auto_mining, builder>>

(* The sent transaction is mined and nothing is pending any more. *)
FinishSend ==
  /\ request # None /\ builder = None
  /\ request.kind = "send" /\ request.tx \in mined
  /\ DOMAIN pending_transactions = {}
  /\ request' = None
  /\ UNCHANGED <<restored, mine_ordering, is_auto_mining, builder>>

(* evm_mine *)
EvmMine ==
  /\ Idle
  /\ request' = [kind |-> "mine"]
  /\ UNCHANGED <<restored, mine_ordering, is_auto_mining, builder>>

SetAutoMining(enabled) ==
  /\ Idle
  /\ is_auto_mining' = enabled
  /\ UNCHANGED <<restored, mine_ordering, request, builder>>

SetNextBlockBaseFeePerGas(fee) ==
  /\ Idle
  /\ next_block_base_fee_per_gas' = fee
  /\ UNCHANGED <<pool, chain, mine_ordering, is_auto_mining, request, builder>>

(* A transaction is dropped or a balance set, as in MemPool. *)
ChangePool ==
  /\ Idle
  /\ \/ \E tx \in Transactions : RemoveTransaction(tx)
     \/ \E a \in Address, balance \in Balances : SetBalance(a, balance)
  /\ UNCHANGED <<last_header, mined, next_block_base_fee_per_gas, mine_ordering,
                 is_auto_mining, request, builder>>

AutoInit ==
  /\ Init
  /\ mine_ordering \in MineOrderings
  /\ is_auto_mining \in BOOLEAN
  /\ \E fee \in InitialBaseFees :
       last_header = [base_fee |-> fee, gas_used |-> 0, gas_limit |-> block_gas_limit]
  /\ mined = {}
  /\ next_block_base_fee_per_gas = None
  /\ request = None
  /\ builder = None

(* What the thread that handles a request does until it returns. *)
Handle ==
  /\ StartBlock \/ TakeTransaction \/ FinishBlock \/ FinishSend
  /\ UNCHANGED faulty

AutoNext ==
  \/ /\ \/ \E tx \in Transactions : SendTransaction(tx)
        \/ EvmMine
        \/ \E enabled \in BOOLEAN : SetAutoMining(enabled)
        \/ \E fee \in NextBaseFees : SetNextBlockBaseFeePerGas(fee)
        \/ ChangePool
     /\ UNCHANGED faulty
  \/ Handle

(* The thread keeps running. *)
AutoSpec == AutoInit /\ [][AutoNext]_autoVars /\ WF_autoVars(Handle)
-----------------------------------------------------------------------------
Headers == [base_fee : Nat, gas_used : Nat, gas_limit : Nat]

(* The pool has its type, and so have the chain, the request and the block. *)
AutoTypeOK ==
  /\ TypeOK
  /\ mine_ordering \in MineOrderings /\ is_auto_mining \in BOOLEAN
  /\ last_header \in Headers /\ mined \subseteq Transactions
  /\ next_block_base_fee_per_gas \in {None} \cup NextBaseFees
  /\ request # None => request.kind \in {"send", "mine"}
  /\ builder # None =>
       /\ request # None
       /\ IsQueues(builder.queues) /\ builder.header \in Headers
       /\ builder.txs \subseteq Transactions
       /\ builder.st \in [Address -> [nonce : Nat, balance : Nat]]

(* A send with automining is all or nothing, over however many blocks it     *)
(* takes: it returns with its transaction in the chain and nothing pending,  *)
(* or with the pool, the chain and the base fee asked for as they were.      *)
SendIsAtomic ==
  [][request # None /\ request'= None /\ request.kind = "send" =>
       \/ request.tx \in mined' /\ DOMAIN pending_transactions' = {}
       \/ restored' = request.before]_autoVars

(* Passing over a sender passes over the whole sender: the transactions that *)
(* are left continue at the nonce the sender has reached in the block, so a  *)
(* skipped transaction never makes the block fail on a later one's nonce.    *)
BlockNoncesFollow ==
  builder # None =>
    \A a \in DOMAIN builder.queues : \A i \in DOMAIN builder.queues[a] :
      builder.queues[a][i].transaction.nonce = builder.st[a].nonce + i - 1

(* What a committed block takes out of the pool is in the chain, or the      *)
(* sender has become too poor for it: a skipped transaction waits.           *)
BlockLosesNothing ==
  [][FinishBlock =>
       \A tx \in DOMAIN hash_to_transaction \ DOMAIN hash_to_transaction' :
         tx \in mined' \/ upfront_cost(tx) > state'[tx.caller].balance]_autoVars

(* The sent transaction has left the pool and is not in the chain. *)
SentIsLost ==
  /\ request # None /\ request.kind = "send"
  /\ request.tx \notin mined /\ request.tx \notin DOMAIN hash_to_transaction

(* When every price is one the base fee comes down to, a request that mines  *)
(* returns, however many blocks the gas limit and the base fee make it take, *)
(* unless the pool drops the very transaction the request waits for.         *)
MiningReturns == request # None ~> (request = None \/ SentIsLost)

(* "Mine blocks until the sent transaction is mined" (send_transaction): a   *)
(* request that mines returns.                                               *)
SendReturns == request # None ~> request = None

(* "Pending transactions can be mined immediately": no block fails because   *)
(* of a transaction that is pending.                                         *)
PendingIsMinable == [][~ (TakeTransaction /\ FailBlock)]_autoVars
=============================================================================
