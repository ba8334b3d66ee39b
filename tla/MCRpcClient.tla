---------------------------- MODULE MCRpcClient -----------------------------
(* Small instances of RpcClient.  Addresses, topics and slots are numbers. *)
EXTENDS RpcClient

Account(method, n) == [method |-> method, address |-> 1, block |-> Number(n)]
Block(spec) == [method |-> "GetBlockByNumber", block |-> spec, include_tx_data |-> TRUE]
Logs(from, to, topics) ==
  [method |-> "GetLogs", from_block |-> Number(from), to_block |-> Number(to),
   addresses |-> <<>>, topics |-> topics]
ByHash(method, h) == [method |-> method, hash |-> h]

(* The number of the latest block; a block by number and by tag. *)
MCBlocks == {[method |-> "BlockNumber"], Block(Number(2)), Block(Tag("safe"))}

(* Two log filters that differ in where they allow a topic, over a range that
   ends later than its first block. *)
MCRequests == MCBlocks \cup {Logs(1, 2, <<None, <<3>>>>), Logs(1, 2, <<<<3>>, None>>)}

(* A transaction, and a block that is known by its hash before its number is. *)
MCByHash ==
  {ByHash("GetTransactionReceipt", 1), Block(Number(2))}

(* Numbers of eight binary digits and no exponent below -9. *)
MCOne == 512
MCFloats == (0 .. 127) \cup {m * 2 ^ e : m \in 128 .. 255, e \in 0 .. 9}

Fees(percentile) ==
  [method |-> "FeeHistory", block_count |-> 1, block |-> Number(1),
   reward_percentiles |-> <<percentile>>]

(* The numbers nearest to 0.27 and 0.28; 100 times the second is below 28. *)
MCHundredths == {Fees(138), Fees(143)}

(* Two numbers between one hundredth and the next. *)
MCThousandths == {Fees(129), Fees(130)}
=============================================================================
