----------------------------- MODULE MCMemPool ------------------------------
(* Small instances of MemPool. *)
EXTENDS MemPool

CONSTANTS alice, bob

Tx(a, nonce, gas, price, priority, value) ==
  [caller |-> a, nonce |-> nonce, gas_limit |-> gas, gas_price |-> price,
   max_priority_fee_per_gas |-> priority, value |-> value]

(* Alice has two bids for her first nonce, one of them too low to replace the
   other, and a chain of three; Bob's second transaction needs a lot of gas. *)
MCTransactions ==
  {Tx(alice, 0, 1, 10, None, 0), Tx(alice, 0, 1, 11, 11, 0), Tx(alice, 0, 2, 11, 10, 0),
   Tx(alice, 1, 2, 10, 5, 5), Tx(alice, 2, 1, 10, None, 0),
   Tx(bob, 0, 1, 10, 10, 0), Tx(bob, 1, 2, 10, None, 0)}
MCAddress == {alice, bob}
MCBalances == {15, 40}
MCBlockGasLimits == {1, 2}

(* Fewer transactions are accepted where lookups may fail. *)
MCNext == Next /\ (faulty # {} => next_order_id' < MaxOrderId)

MCSpec == Init /\ [][MCNext]_vars
=============================================================================
