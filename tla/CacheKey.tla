------------------------------ MODULE CacheKey ------------------------------
(***************************************************************************)
(* The keys of the disk cache of the RPC client: KeyHasher and the traits  *)
(* of the cacheable methods (crates/edr_rpc_client/src/cache and           *)
(* crates/edr_rpc_eth/src/cacheable_method_invocation.rs).  The hash is    *)
(* taken to be free of collisions, so that a key is the sequence of bytes  *)
(* that goes into it; the widths of words are scaled down, in their order. *)
(***************************************************************************)
EXTENDS Integers, Sequences, SequencesExt

CONSTANTS
  None,    \* Rust's None
  Floats,  \* the numbers that f64 has, in a unit so small that they are whole
  One      \* 1 in that unit

ASSUME CacheKeyAssumption == Floats \subseteq Nat /\ One \in Nat \ {0}

(* A fixed width, little endian: a small value and zeros. *)
Bytes(width, value) == [i \in 1 .. width |-> IF i = 1 THEN value ELSE 0]
hash_u8(value) == Bytes(1, value)
hash_bool(value) == hash_u8(IF value THEN 1 ELSE 0)
hash_u64(value) == Bytes(2, value)
hash_address(value) == Bytes(3, value)
hash_b256(value) == Bytes(4, value)
hash_u256(value) == Bytes(4, value)

(* The hashed values of a list one after the other, after their number. *)
hash_list(hashed) == hash_u64(Len(hashed)) \o FlattenSeq(hashed)
hash_b256s(values) == hash_list([i \in DOMAIN values |-> hash_b256(values[i])])

(* A marker and, if there is one, the value. *)
hash_option(value, hashed) == IF value = None THEN hash_u8(0) ELSE hash_u8(1) \o hashed

-----------------------------------------------------------------------------
(* CacheableBlockSpec: a number, a hash or a tag.  Only the first two can be
   hashed; no block at all, "latest" and "pending" are not cacheable. *)
Number(n) == [by |-> "number", number |-> n]
Hash(h, canonical) == [by |-> "hash", hash |-> h, require_canonical |-> canonical]
Tag(tag) == [by |-> tag]

SpecIsCacheable(spec) == IF spec = None THEN FALSE ELSE spec.by \notin {"latest", "pending"}
SpecIsResolved(spec) == spec.by \in {"number", "hash"}

hash_block_spec(spec) ==
  IF spec.by = "number" THEN hash_u8(0) \o hash_u64(spec.number)
  ELSE hash_u8(1) \o hash_b256(spec.hash)
         \o hash_option(spec.require_canonical, hash_bool(spec.require_canonical))

(* Mutant: a position that allows every topic leaves no mark. *)
Bug_SkipsNone(topics) ==
  IF topics = None THEN <<>> ELSE hash_u8(1) \o hash_b256s(topics)

(* What one position of a log filter allows: None, or some topics. *)
hash_topics(topics) == hash_option(topics, hash_b256s(topics))

(* The variant of a range is 1; EthRpcClient never asks for logs by hash. *)
hash_log_filter_options(r) ==
  hash_u8(1) \o hash_block_spec(r.from_block) \o hash_block_spec(r.to_block)
    \o hash_list([i \in DOMAIN r.addresses |-> hash_address(r.addresses[i])])
    \o hash_list([i \in DOMAIN r.topics |-> hash_topics(r.topics[i])])

(* The result of an operation on f64: the nearest number it has, of two the
   even one. *)
Nearest(x) ==
  LET below == Max({f \in Floats : f < x})
      above == Min({f \in Floats : f > x})
      even  == (below \div (above - below)) % 2 = 0
  IN  IF x \in Floats THEN x
      ELSE IF x - below < above - x \/ (x - below = above - x /\ even) THEN below
      ELSE above

(* A percentile is multiplied, rounded by that, and cut. *)
RESOLUTION == 100
InHundredths(value) == Nearest(value * RESOLUTION) \div One
hash_reward_percentile(value) == hash_u64(InHundredths(value))

-----------------------------------------------------------------------------
(* A request is a record of its method and its arguments. *)
cache_key_variant(r) ==
  [GetBalance |-> 1, GetBlockByNumber |-> 2, GetBlockByHash |-> 3, GetCode |-> 6, GetLogs |-> 7,
   GetStorageAt |-> 8, GetTransactionByHash |-> 11, GetTransactionCount |-> 12,
   GetTransactionReceipt |-> 13, NetVersion |-> 14, FeeHistory |-> 15, GetProof |-> 16][r.method]

(* The blocks that a request names by number, hash or tag. *)
BlockSpecs(r) ==
  CASE r.method = "GetLogs" -> {r.from_block, r.to_block}
    [] r.method \in {"GetBlockByHash", "GetTransactionByHash", "GetTransactionReceipt",
                     "NetVersion", "BlockNumber"} -> {}
    [] OTHER -> {r.block}

(* Whether the request is a CachedRequestMethod, and whether it has a key. *)
IsCacheable(r) == r.method # "BlockNumber" /\ \A spec \in BlockSpecs(r) : SpecIsCacheable(spec)
HasKey(r) == IsCacheable(r) /\ \A spec \in BlockSpecs(r) : SpecIsResolved(spec)

(* The key of a request that has one. *)
key_hasher(r) ==
  hash_u8(cache_key_variant(r)) \o
  CASE r.method \in {"GetBalance", "GetCode", "GetTransactionCount"} ->
         hash_address(r.address) \o hash_block_spec(r.block)
    [] r.method = "GetStorageAt" ->
         hash_address(r.address) \o hash_u256(r.position) \o hash_block_spec(r.block)
    [] r.method = "GetProof" ->
         hash_address(r.address) \o hash_b256s(r.storage_keys) \o hash_block_spec(r.block)
    [] r.method = "GetBlockByNumber" -> hash_block_spec(r.block) \o hash_bool(r.include_tx_data)
    [] r.method = "GetBlockByHash" -> hash_b256(r.hash) \o hash_bool(r.include_tx_data)
    [] r.method \in {"GetTransactionByHash", "GetTransactionReceipt"} -> hash_b256(r.hash)
    [] r.method = "FeeHistory" ->
         hash_u256(r.block_count) \o hash_block_spec(r.block)
           \o hash_list([i \in DOMAIN r.reward_percentiles |->
                           hash_reward_percentile(r.reward_percentiles[i])])
    [] r.method = "GetLogs" -> hash_log_filter_options(r)
    [] r.method = "NetVersion" -> <<>>

(* Mutant: of a range of blocks the first one is checked. *)
Bug_ChecksFirst(r) ==
  LET spec == IF r.method = "GetLogs" THEN r.from_block ELSE r.block
  IN  IF BlockSpecs(r) # {} /\ spec.by = "number" THEN spec.number ELSE None

(* The block number that has to be safe before an answer is stored: None if
   there is nothing to check.  Of a range of blocks it is the last one. *)
NeedsSafetyCheck(r) ==
  LET spec == IF r.method = "GetLogs" THEN r.to_block ELSE r.block
  IN  IF BlockSpecs(r) # {} /\ spec.by = "number" THEN spec.number ELSE None

(* The request under which an answer is stored: itself, or the one for the
   block that the node found for a tag, or None. *)
resolve_write_key(r, number) ==
  IF HasKey(r) THEN r
  ELSE IF IsCacheable(r) /\ r.method = "GetBlockByNumber" /\ number # None
       THEN [r EXCEPT !.block = Number(number)]
  ELSE None
=============================================================================
