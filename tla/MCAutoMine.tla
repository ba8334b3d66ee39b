----------------------------- MODULE MCAutoMine -----------------------------
(***************************************************************************)
(* Transactions for AutoMine.  A block of gas limit 2 holds one large or   *)
(* two small transactions.  With the parameters of the main chain a base   *)
(* fee of 8 falls to 7 and no further, one of 9 falls to 8.                *)
(***************************************************************************)
EXTENDS AutoMine

CONSTANTS alice, bob

Tx(caller, nonce, gas_limit, gas_price, tip) ==
  [caller |-> caller, nonce |-> nonce, gas_limit |-> gas_limit,
   gas_price |-> gas_price, max_priority_fee_per_gas |-> tip, value |-> 0]

MCTransactions ==
  {Tx(alice, 0, 1, 8, None), Tx(alice, 1, 1, 8, 1), Tx(bob, 0, 2, 9, 2)}

(* The price of Alice's is below every base fee the chain comes down to. *)
MCWithCheap == {Tx(alice, 0, 1, 6, None), Tx(bob, 0, 1, 9, None)}
=============================================================================
