---------------------------- MODULE BlockHeader -----------------------------
(***************************************************************************)
(* The part of a block header that the chain's storage computes: number,   *)
(* timestamp, slot number (EIP-7843) and state root.  A state is the       *)
(* sequence of the diffs that lead to it, each with its block number, and  *)
(* stands for its own root; a block stands for its own hash.               *)
(***************************************************************************)
EXTENDS Naturals, Sequences

CONSTANTS
  Amsterdam,   \* whether the hardfork has slot numbers
  None         \* Rust's None

next_slot_number(parent) ==
  IF ~ Amsterdam THEN None
  ELSE IF parent.slot_number = None THEN 0 ELSE parent.slot_number + 1

(* The block built on a parent, delay seconds later. *)
NextBlock(parent, delay, txs, diff) ==
  [number       |-> parent.number + 1,
   timestamp    |-> parent.timestamp + delay,
   slot_number  |-> next_slot_number(parent),
   state_root   |-> Append(parent.state_root, <<parent.number + 1, diff>>),
   transactions |-> txs]

(* An empty block that changes nothing. *)
EmptyBlock(parent, interval) ==
  [number       |-> parent.number + 1,
   timestamp    |-> parent.timestamp + interval,
   slot_number  |-> next_slot_number(parent),
   state_root   |-> parent.state_root,
   transactions |-> {}]
=============================================================================
