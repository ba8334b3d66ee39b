--------------------------- MODULE MCBlockStorage ---------------------------
(* A small instance of BlockStorage: on a genesis block, and on a forked block
   that has no slot number. *)
EXTENDS BlockStorage

GenesisBlock == [forked |-> FALSE, number |-> 0, slot_number |-> 0]
ForkedBlock == [forked |-> TRUE, number |-> 2, slot_number |-> None]

Both == {GenesisBlock, ForkedBlock}
OnlyGenesis == {GenesisBlock}
OnlyForked == {ForkedBlock}
=============================================================================
