----------------------------- MODULE RpcClient ------------------------------
(***************************************************************************)
(* RpcClient (crates/edr_rpc_client) as EthRpcClient uses it               *)
(* (crates/edr_rpc_eth): the answers of a remote node are kept in a        *)
(* directory, which outlives the process.  An answer that depends on a     *)
(* block number is kept only if that block is deep enough to be safe from  *)
(* a reorg of the remote chain.                                            *)
(*                                                                         *)
(* Every await of the code is a step: calls interleave with each other,    *)
(* with the remote chain and with the end of the process.  Of an answer    *)
(* the blocks matter that it depends on; a block is a number that is never *)
(* used twice and stands for its hash.                                     *)
(***************************************************************************)
EXTENDS CacheKey

CONSTANTS
  Callers,        \* the tasks that use the client
  Requests,       \* what they ask for
  Transactions,   \* of the remote chain
  safe_block_depth,
  MaxReorg,       \* how many blocks a reorg replaces at most
  MaxDelay,       \* how many blocks arrive between an answer and its check
  MaxBlocks,      \* bound on the length of the remote chain
  MaxIds,         \* bound on the number of remote blocks, replaced ones included
  MaxCalls        \* bound on the number of calls

ASSUME RpcClientAssumption ==
  /\ safe_block_depth \in Nat /\ MaxReorg \in Nat /\ MaxDelay \in Nat
  /\ MaxBlocks \in Nat /\ MaxIds \in Nat /\ MaxCalls \in Nat
  /\ None \notin Nat

VARIABLES
  chain,                \* the remote chain, a sequence of blocks
  ids,                  \* how many blocks there ever were
  mined,                \* transaction -> the block it is in, or None
  cached_block_number,  \* None, or a number and whether its time has not run out
  disk,                 \* key -> a request and its answer, or None if damaged
  call,                 \* caller -> where it is in its call
  calls                 \* how many calls there were

remote == <<chain, ids, mined>>
vars == <<remote, cached_block_number, disk, call, calls>>

Put(f, x, v) == [y \in DOMAIN f \cup {x} |-> IF y = x THEN v ELSE f[y]]
Without(f, x) == [y \in DOMAIN f \ {x} |-> f[y]]

-----------------------------------------------------------------------------
(* The remote node. *)
Latest == Len(chain)
BlockAt(n) == IF n \in 1 .. Latest THEN chain[n] ELSE None
InChain(h) == \E n \in 1 .. Latest : chain[n] = h

(* The numbers of the blocks that an answer to a request by number covers. *)
Covered(r) ==
  CASE r.method = "GetLogs" -> r.from_block.number .. r.to_block.number
    [] r.method = "FeeHistory" -> (r.block.number - r.block_count + 1) .. r.block.number
    [] OTHER -> {r.block.number}

(* The answer of the node to a request that has a key. *)
Answer(r) ==
  CASE r.method = "NetVersion" -> <<>>
    [] r.method = "GetBlockByHash" -> <<IF InChain(r.hash) THEN r.hash ELSE None>>
    [] r.method \in {"GetTransactionByHash", "GetTransactionReceipt"} -> <<mined[r.hash]>>
    [] OTHER -> IF NeedsSafetyCheck(r) # None THEN [n \in Covered(r) |-> BlockAt(n)]
                ELSE <<IF InChain(r.block.hash) THEN r.block.hash ELSE None>>

(* The state of a block that the node does not have is an error. *)
HasAnswer(r) ==
  r.method \in {"GetBalance", "GetCode", "GetTransactionCount", "GetStorageAt", "GetProof"} =>
    \A n \in DOMAIN Answer(r) : Answer(r)[n] # None

Init ==
  /\ chain = <<1>> /\ ids = 1
  /\ mined = [t \in Transactions |-> None]
  /\ cached_block_number = None
  /\ disk = [k \in {} |-> None]
  /\ call = [c \in Callers |-> [at |-> "idle"]]
  /\ calls = 0

(* Whether the answer of a caller waits for the check of its block. *)
Unchecked(c) == call[c].at \in {"got", "check", "number"} /\ call[c].request.method # "BlockNumber"

(* A block arrives, with transactions that were pending. *)
Extend ==
  /\ Latest < MaxBlocks /\ ids < MaxIds
  /\ \A c \in Callers : Unchecked(c) => Latest < call[c].head + MaxDelay
  /\ chain' = Append(chain, ids + 1) /\ ids' = ids + 1
  /\ \E T \in SUBSET {t \in Transactions : mined[t] = None} :
       mined' = [t \in Transactions |-> IF t \in T THEN ids + 1 ELSE mined[t]]
  /\ UNCHANGED <<cached_block_number, disk, call, calls>>

(* The last k blocks are replaced; their transactions are pending again. *)
Reorg(k) ==
  /\ k < Latest /\ ids + k <= MaxIds
  /\ chain' = [n \in 1 .. Latest |-> IF n <= Latest - k THEN chain[n] ELSE ids + n - (Latest - k)]
  /\ ids' = ids + k
  /\ mined' = [t \in Transactions |->
                 IF \E n \in Latest - k + 1 .. Latest : chain[n] = mined[t] THEN None ELSE mined[t]]
  /\ UNCHANGED <<cached_block_number, disk, call, calls>>

-----------------------------------------------------------------------------
(* A call. *)
Goto(c, at) == call' = [call EXCEPT ![c].at = at]
Return(c) == call' = [call EXCEPT ![c] = [at |-> "idle"]]

(* call_with_resolver; block_number goes past the cache. *)
Call(c, r) ==
  /\ call[c].at = "idle" /\ calls < MaxCalls
  /\ calls' = calls + 1
  /\ call' = [call EXCEPT ![c] =
       [request |-> r, write |-> None, answer |-> None, head |-> 0,
        at |-> IF r.method = "BlockNumber" THEN "number" ELSE IF HasKey(r) THEN "read" ELSE "send"]]
  /\ UNCHANGED <<remote, cached_block_number, disk>>

(* read_response_from_cache: a file that cannot be read, is damaged or is
   outdated counts as missing. *)
ReadCache(c) ==
  LET key == key_hasher(call[c].request)
  IN  /\ call[c].at = "read"
      /\ \/ Goto(c, "send")
         \/ key \in DOMAIN disk /\ disk[key] = None /\ Goto(c, "remove")
         \/ key \in DOMAIN disk /\ disk[key] # None /\ Return(c)
      /\ UNCHANGED <<remote, cached_block_number, disk, calls>>

(* remove_from_cache: whatever the file holds by now; an error is logged. *)
RemoveFromCache(c) ==
  /\ call[c].at = "remove"
  /\ disk' \in {disk, Without(disk, key_hasher(call[c].request))}
  /\ Goto(c, "send")
  /\ UNCHANGED <<remote, cached_block_number, calls>>

(* The node answers.  For a tag it picks a block; what it says of a tag to
   the other methods is never stored. *)
Answered(c, number, answer) ==
  call' = [call EXCEPT ![c].at = "got", ![c].answer = answer, ![c].head = Latest,
                       ![c].write = resolve_write_key(call[c].request, number)]

Send(c) ==
  LET r == call[c].request
  IN  /\ call[c].at \in {"send", "resend"}
      /\ \/ HasKey(r) /\ HasAnswer(r) /\ Answered(c, None, Answer(r))
         \/ /\ ~HasKey(r) /\ r.method = "GetBlockByNumber"
            /\ \E n \in IF r.block.by = "earliest" THEN {1} ELSE 1 .. Latest :
                 Answered(c, n, [m \in {n} |-> BlockAt(m)])
         \/ ~HasKey(r) /\ r.method # "GetBlockByNumber" /\ Answered(c, None, <<>>)
      /\ UNCHANGED <<remote, cached_block_number, disk, calls>>

(* retry_on_sporadic_failure *)
MissingTrieNode(c) ==
  /\ call[c].at = "send"
  /\ Goto(c, "resend")
  /\ UNCHANGED <<remote, cached_block_number, disk, calls>>

(* try_write_response_to_cache, up to the check of the block number. *)
ResolveWriteKey(c) ==
  /\ call[c].at = "got"
  /\ IF call[c].write = None THEN Return(c)
     ELSE Goto(c, IF NeedsSafetyCheck(call[c].write) = None THEN "write" ELSE "check")
  /\ UNCHANGED <<remote, cached_block_number, disk, calls>>

(* largest_safe_block_number and is_safe_block_number *)
is_safe_block_number(number, latest) ==
  latest >= safe_block_depth /\ number <= latest - safe_block_depth

Validate(c, latest) ==
  IF is_safe_block_number(NeedsSafetyCheck(call[c].write), latest) THEN Goto(c, "write")
  ELSE Return(c)

(* cached_block_number: the number is used while it is fresh. *)
CheckBlockNumber(c) ==
  /\ call[c].at = "check"
  /\ IF cached_block_number = None THEN Goto(c, "number")
     ELSE IF cached_block_number.fresh THEN Validate(c, cached_block_number.number)
     ELSE Goto(c, "number")
  /\ UNCHANGED <<remote, cached_block_number, disk, calls>>

(* block_number: the node is asked, and later the answer is remembered. *)
AskBlockNumber(c) ==
  /\ call[c].at = "number"
  /\ call' = [call EXCEPT ![c].at = "remember", ![c].head = Latest]
  /\ UNCHANGED <<remote, cached_block_number, disk, calls>>

RememberBlockNumber(c) ==
  /\ call[c].at = "remember"
  /\ cached_block_number' = [number |-> call[c].head, fresh |-> TRUE]
  /\ IF call[c].write = None THEN Return(c) ELSE Validate(c, call[c].head)
  /\ UNCHANGED <<remote, disk, calls>>

(* write_response_to_cache: a temporary file is moved to its place. *)
WriteToCache(c) ==
  /\ call[c].at = "write"
  /\ disk' = Put(disk, key_hasher(call[c].write),
                 [request |-> call[c].write, answer |-> call[c].answer])
  /\ Return(c)
  /\ UNCHANGED <<remote, cached_block_number, calls>>

(* An error ends the call: of the node, or in making a directory; an error in
   writing the file is only logged. *)
Fail(c) ==
  /\ call[c].at \in {"read", "send", "resend", "check", "number", "write"}
  /\ Return(c)
  /\ UNCHANGED <<remote, cached_block_number, disk, calls>>

Step(c) ==
  \/ ReadCache(c) \/ RemoveFromCache(c)
  \/ Send(c) \/ MissingTrieNode(c)
  \/ ResolveWriteKey(c)
  \/ CheckBlockNumber(c) \/ AskBlockNumber(c) \/ RememberBlockNumber(c)
  \/ WriteToCache(c)
  \/ Fail(c)

-----------------------------------------------------------------------------
(* Around the calls: the block time goes by, a file is damaged or gets out of
   date, the process ends and another one starts. *)
Expire ==
  /\ cached_block_number # None
  /\ cached_block_number' = [cached_block_number EXCEPT !.fresh = FALSE]
  /\ UNCHANGED <<remote, disk, call, calls>>

Damage(key) ==
  /\ disk' = [disk EXCEPT ![key] = None]
  /\ UNCHANGED <<remote, cached_block_number, call, calls>>

Restart ==
  /\ cached_block_number' = None
  /\ call' = [c \in Callers |-> [at |-> "idle"]]
  /\ UNCHANGED <<remote, disk, calls>>

Next ==
  \/ Extend
  \/ \E k \in 1 .. MaxReorg : Reorg(k)
  \/ \E c \in Callers : (\E r \in Requests : Call(c, r)) \/ Step(c)
  \/ Expire
  \/ \E key \in DOMAIN disk : Damage(key)
  \/ Restart

Spec == Init /\ [][Next]_vars

-----------------------------------------------------------------------------
(* What the cache serves is what the node would answer: an answer that may
   still change is never stored, whatever happens between the moment the node
   gave it and the moment its block was found to be deep enough. *)
CachedIsFinal ==
  \A key \in DOMAIN disk :
    disk[key] # None => disk[key].answer = Answer(disk[key].request)

(* What a caller reads is the answer to its own request. *)
ReadsOwnAnswer ==
  \A r \in Requests :
    HasKey(r) /\ key_hasher(r) \in DOMAIN disk =>
      LET entry == disk[key_hasher(r)] IN entry # None => entry.request = r
=============================================================================
