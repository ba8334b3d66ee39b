----------------------------- MODULE EagerChain -----------------------------
(***************************************************************************)
(* What the chain's storage promises: a chain in which every block is      *)
(* there, also the ones hardhat_mine only reserves.  Reading a block does  *)
(* not change the chain.                                                   *)
(***************************************************************************)
EXTENDS BlockHeader

CONSTANTS Transactions, Diffs, Delays, Intervals, MaxBlocks

VARIABLE chain     \* number -> block, from the first one on

Blocks == DOMAIN chain
First == CHOOSE n \in Blocks : n - 1 \notin Blocks
IsLast(n) == n \in Blocks /\ n + 1 \notin Blocks
Extended(block) == [n \in Blocks \cup {block.number} |->
                      IF n = block.number THEN block ELSE chain[n]]

Insert ==
  \E last \in Blocks, delay \in Delays, txs \in SUBSET Transactions, diff \in Diffs :
    /\ IsLast(last)
    /\ chain' = Extended(NextBlock(chain[last], delay, txs, diff))

(* A number of empty blocks, a fixed interval apart. *)
Mine ==
  \E last \in Blocks, additional \in 1 .. MaxBlocks, interval \in Intervals :
    LET longer[n \in First .. last + additional] ==
          IF n \in Blocks THEN chain[n] ELSE EmptyBlock(longer[n - 1], interval)
    IN  IsLast(last) /\ chain' = longer

Revert == \E n \in Blocks : chain' = [m \in First .. n |-> chain[m]]

Next == Insert \/ Mine \/ Revert

Init == Blocks # {} /\ \A n \in Blocks : Blocks = {n} /\ chain[n].number = n

Spec == Init /\ [][Next]_chain
=============================================================================
