----------------------------- MODULE ForkState ------------------------------
(***************************************************************************)
(* ForkedState (crates/state/fork): a local state on top of the state of a *)
(* remote node.  It is made of a PersistentStateTrie, which keeps code     *)
(* apart from accounts and counts its uses, of the slots that were set to  *)
(* zero, and of a CachedRemoteState.  The blockchain builds it again from  *)
(* the diffs of the blocks when the provider no longer has it.             *)
(*                                                                         *)
(* Of a nonce it matters whether it is zero.  Code stands for its own      *)
(* hash.  The changes of a transaction are committed one account at a      *)
(* time, a block for each.                                                 *)
(***************************************************************************)
EXTENDS Integers, Sequences, FiniteSets

CONSTANTS
  None,       \* Rust's None
  NoCode,     \* the empty code, of hash KECCAK_EMPTY
  Address, Slots, Codes, Balances,
  Values,     \* the values of a slot
  Remote,     \* how many blocks after the fork -> address -> account, or None
  Emptied,    \* whether an account of the remote node may be left empty
  Codeless,   \* whether an account may be changed without loading its code
  Ephemeral,  \* whether code in use is deployed and destroyed in one transaction
  Destroys,   \* whether a contract of the remote node is destroyed (before Cancun)
  MaxChanges  \* bound on the number of changes

Storage == [Slots -> Values]
Account == [balance : Balances, nonce : {0, 1}, code : Codes \cup {NoCode}, storage : Storage]
AccountInfo == [balance : Balances, nonce : {0, 1}, code : Codes \cup {NoCode}]
Zeros == [i \in Slots |-> 0]

ASSUME ForkStateAssumption ==
  /\ NoCode \notin Codes /\ None \notin Account /\ None \notin AccountInfo
  /\ 0 \in Balances /\ Balances \subseteq Nat /\ 0 \in Values
  /\ Emptied \in BOOLEAN /\ Codeless \in BOOLEAN
  /\ Ephemeral \in BOOLEAN /\ Destroys \in BOOLEAN
  /\ MaxChanges \in Nat
  /\ Remote \in [0 .. MaxChanges -> [Address -> {None} \cup Account]]

VARIABLES
  accounts,        \* the local trie: address -> balance, nonce and code
  storage_tries,   \* address -> Storage
  contracts,       \* code -> how often it is used
  removed_storage_slots,
  block_number,    \* of the remote state, counted from the forked block
  cacheable,       \* whether that block is old enough to be cached
  account_cache,   \* address -> its info, and the slots cached
  code_cache,      \* the code that was fetched
  log,             \* the diffs of the blocks, or None (see SetStorageSlot)
  plain            \* the state as a plain map: not kept by the program

local == <<accounts, storage_tries, contracts, removed_storage_slots>>
caches == <<account_cache, code_cache>>
vars == <<local, block_number, cacheable, caches, log, plain>>

Put(f, x, v) == [y \in DOMAIN f \cup {x} |-> IF y = x THEN v ELSE f[y]]
Without(f, x) == [y \in DOMAIN f \ {x} |-> f[y]]

Nothing == [balance |-> 0, nonce |-> 0, code |-> NoCode, storage |-> Zeros]
is_empty(info) == info.balance = 0 /\ info.nonce = 0 /\ info.code = NoCode
Info(account) == [balance |-> account.balance, nonce |-> account.nonce, code |-> account.code]

-----------------------------------------------------------------------------
(* The remote state and its cache. *)

(* An empty account is no account. *)
RemoteBasic(a) ==
  LET account == Remote[block_number][a]
  IN  IF account = None \/ is_empty(account) THEN None ELSE Info(account)

RemoteStorage(a, i) ==
  IF Remote[block_number][a] = None THEN 0 ELSE Remote[block_number][a].storage[i]

basic_mut(a) ==
  IF a \in DOMAIN account_cache THEN account_cache[a].info ELSE RemoteBasic(a)

storage_mut(a, i) ==
  IF a \in DOMAIN account_cache /\ i \in DOMAIN account_cache[a].storage
  THEN account_cache[a].storage[i] ELSE RemoteStorage(a, i)

(* The slots of a that are not found in the local state. *)
RemoteSlots(a, slots) ==
  {i \in slots : /\ <<a, i>> \notin removed_storage_slots
                 /\ a \notin DOMAIN storage_tries \/ storage_tries[a][i] = 0}

(* The code that is cached once a and some of its slots have been read:
   fetch_remote_account, for accounts and for slots. *)
CodesAfter(a, slots) ==
  LET fetched == a \notin DOMAIN account_cache
                   /\ (a \notin DOMAIN accounts \/ RemoteSlots(a, slots) # {})
      info == RemoteBasic(a)
  IN  code_cache \cup (IF fetched /\ info # None THEN {info.code} \ {NoCode} ELSE {})

(* An account that does not exist is cached as a default one with its slots. *)
AccountsAfter(a, slots) ==
  LET read == RemoteSlots(a, slots)
      old == IF a \in DOMAIN account_cache THEN account_cache[a].storage ELSE [i \in {} |-> 0]
      info == basic_mut(a)
      entry == [info    |-> IF info = None THEN Info(Nothing) ELSE info,
                storage |-> [i \in DOMAIN old \cup read |-> storage_mut(a, i)]]
  IN  IF cacheable /\ (read # {} \/ (a \notin DOMAIN accounts /\ info # None))
      THEN Put(account_cache, a, entry) ELSE account_cache

Load(a, slots) ==
  /\ code_cache' = CodesAfter(a, slots)
  /\ account_cache' = AccountsAfter(a, slots)

-----------------------------------------------------------------------------
(* Reading the forked state. *)

basic(a) == IF a \in DOMAIN accounts THEN accounts[a] ELSE basic_mut(a)

(* Mutant: a slot that was set to zero is looked up in the remote state. *)
Bug_ZeroIsUnset(a, i) ==
  LET value == IF a \in DOMAIN storage_tries THEN storage_tries[a][i] ELSE 0
  IN  IF value # 0 THEN value ELSE storage_mut(a, i)

storage(a, i) ==
  LET value == IF a \in DOMAIN storage_tries THEN storage_tries[a][i] ELSE 0
  IN  IF value # 0 \/ <<a, i>> \in removed_storage_slots THEN value ELSE storage_mut(a, i)

(* code_by_hash finds the code, with the given code cache. *)
CodeFound(code, cache) == code # NoCode => contracts[code] > 0 \/ code \in cache

View(a) == IF basic(a) = None THEN Info(Nothing) ELSE basic(a)

-----------------------------------------------------------------------------
(* Code that is inserted and removed: SharedMap. *)

(* Mutant: code that is already there is not counted. *)
Bug_NotCounted(counts, code) ==
  IF code = NoCode THEN counts ELSE [counts EXCEPT ![code] = 1]

insert_code(counts, code) == IF code = NoCode THEN counts ELSE [counts EXCEPT ![code] = @ + 1]

remove_code(counts, code) ==
  IF code = NoCode \/ counts[code] = 0 THEN counts ELSE [counts EXCEPT ![code] = @ - 1]

(***************************************************************************)
(* A change of one account, as the EVM leaves it behind: what it is now,   *)
(* whether its code was loaded, the slots that were written, and whether   *)
(* it was created or destroyed.  (It is touched.)                          *)
(***************************************************************************)
Change(info, loaded, writes, created, destroyed) ==
  [info |-> info, loaded |-> loaded, writes |-> writes, created |-> created,
   destroyed |-> destroyed]

State == [accounts |-> accounts, storage_tries |-> storage_tries, contracts |-> contracts,
          removed_storage_slots |-> removed_storage_slots]

EmptyState == [accounts |-> [a \in {} |-> None], storage_tries |-> [a \in {} |-> Zeros],
               contracts |-> [code \in Codes |-> 0], removed_storage_slots |-> {}]

(* PersistentStateTrie::commit, the part about code. *)
CommitCode(st, a, change) ==
  LET old == IF a \in DOMAIN st.accounts THEN st.accounts[a].code ELSE NoCode
      new == change.info.code
  IN  IF change.destroyed THEN remove_code(st.contracts, new)
      ELSE IF (is_empty(change.info) /\ ~ change.created) \/ old = new THEN st.contracts
      ELSE remove_code(IF change.loaded THEN insert_code(st.contracts, new) ELSE st.contracts, old)

CommitSlots(st, a, change) ==
  st.removed_storage_slots \cup {<<a, i>> : i \in {j \in DOMAIN change.writes : change.writes[j] = 0}}

(* PersistentAccountAndStorageTrie::commit *)
commit(st, a, change) ==
  LET gone == (is_empty(change.info) /\ ~ change.created) \/ change.destroyed
      old == IF a \in DOMAIN st.storage_tries /\ ~ change.created THEN st.storage_tries[a] ELSE Zeros
      new == [i \in Slots |-> IF i \in DOMAIN change.writes THEN change.writes[i] ELSE old[i]]
  IN  [contracts |-> CommitCode(st, a, change),
       removed_storage_slots |-> CommitSlots(st, a, change),
       accounts |-> IF gone THEN Without(st.accounts, a) ELSE Put(st.accounts, a, change.info),
       storage_tries |-> IF gone THEN Without(st.storage_tries, a) ELSE Put(st.storage_tries, a, new)]

Adopt(st) ==
  /\ accounts' = st.accounts
  /\ storage_tries' = st.storage_tries
  /\ contracts' = st.contracts
  /\ removed_storage_slots' = st.removed_storage_slots

Record(a, change) ==
  /\ log # None => Len(log) < MaxChanges
  /\ log' = IF log = None THEN None ELSE Append(log, <<a, change>>)

(* What a change makes of a plain map. *)
Applied(account, change) ==
  IF (is_empty(change.info) /\ ~ change.created) \/ change.destroyed THEN Nothing
  ELSE [balance |-> change.info.balance, nonce |-> change.info.nonce, code |-> change.info.code,
        storage |-> [i \in Slots |->
          IF i \in DOMAIN change.writes THEN change.writes[i]
          ELSE IF change.created THEN 0 ELSE account.storage[i]]]

(* A transaction changes an account that the EVM has read. *)
Commit(a, change) ==
  /\ Load(a, DOMAIN change.writes)
  /\ CodeFound(View(a).code, CodesAfter(a, DOMAIN change.writes))
  /\ Adopt(commit(State, a, change))
  /\ Record(a, change)
  /\ plain' = [plain EXCEPT ![a] = Applied(@, change)]
  /\ UNCHANGED <<block_number, cacheable>>

Writes == UNION {[I -> Values] : I \in SUBSET Slots}

OnRemote(a) == Remote[block_number][a] # None

(* It runs, is paid, or sends. *)
TouchAccount(a) ==
  \E balance \in Balances, nonce \in {0, 1}, loaded \in BOOLEAN, writes \in Writes :
    LET info == [View(a) EXCEPT !.balance = balance, !.nonce = nonce]
    IN  /\ nonce >= View(a).nonce
        /\ is_empty(info) => Emptied \/ ~ OnRemote(a)
        /\ ~ loaded => Codeless /\ View(a).code # NoCode /\ DOMAIN writes = {}
        /\ View(a).code = NoCode => (balance >= View(a).balance \/ nonce = 1) /\ DOMAIN writes = {}
        /\ Commit(a, Change(info, loaded, writes, FALSE, FALSE))

CreateAccount(a) ==
  \E code \in Codes, writes \in Writes :
    /\ View(a).code = NoCode /\ View(a).nonce = 0
    /\ Commit(a, Change([View(a) EXCEPT !.nonce = 1, !.code = code], TRUE, writes, TRUE, FALSE))

(* The account that is destroyed still names its code. *)
Destroyed(code) == [balance |-> 0, nonce |-> 1, code |-> code]

DestroyAccount(a) ==
  \E code \in Codes :
    \/ /\ View(a).code = NoCode /\ View(a).nonce = 0 /\ (OnRemote(a) => Destroys)
       /\ (\E b \in Address : View(b).code = code) => Ephemeral
       /\ Commit(a, Change(Destroyed(code), TRUE, [i \in {} |-> 0], TRUE, TRUE))
    \/ /\ View(a).code = code
       /\ OnRemote(a) => Destroys
       /\ Commit(a, Change(Destroyed(code), TRUE, [i \in {} |-> 0], FALSE, TRUE))

-----------------------------------------------------------------------------
(* hardhat_setBalance and hardhat_setCode: modify_account.  The diff that is
   recorded has the code.  That the account may vanish when the state is built
   again from a diff that leaves it empty is the subject of StateCache. *)
ModifyAccount(a, info) ==
  LET old == View(a).code
      counts == IF info.code = old THEN contracts
                ELSE remove_code(insert_code(contracts, info.code), old)
  IN  /\ Load(a, {})
      /\ CodeFound(old, CodesAfter(a, {}))
      /\ contracts' = counts
      /\ accounts' = Put(accounts, a, info)
      /\ storage_tries' = IF a \in DOMAIN storage_tries THEN storage_tries
                          ELSE Put(storage_tries, a, Zeros)
      /\ IF is_empty(info) /\ ~ Emptied THEN log' = None
         ELSE Record(a, Change(info, TRUE, [i \in {} |-> 0], FALSE, FALSE))
      /\ plain' = [plain EXCEPT ![a].balance = info.balance, ![a].code = info.code]
      /\ UNCHANGED <<removed_storage_slots, block_number, cacheable>>

(* hardhat_setStorageAt.  The code is needed for the diff.  What becomes of
   the diff when the state is built again is the subject of StateCache. *)
SetStorageSlot(a, i, value) ==
  LET info == View(a)
  IN  /\ Load(a, {})
      /\ CodeFound(info.code, CodesAfter(a, {}))
      /\ removed_storage_slots' =
           removed_storage_slots \cup (IF value = 0 THEN {<<a, i>>} ELSE {})
      /\ storage_tries' =
           LET old == IF a \in DOMAIN storage_tries THEN storage_tries[a] ELSE Zeros
           IN  Put(storage_tries, a, [old EXCEPT ![i] = value])
      /\ accounts' = Put(accounts, a, info)
      /\ log' = None
      /\ plain' = [plain EXCEPT ![a].storage[i] = value]
      /\ UNCHANGED <<contracts, block_number, cacheable>>

(* A request reads an account and some of its slots. *)
Read(a, slots) ==
  /\ Load(a, slots)
  /\ UNCHANGED <<local, block_number, cacheable, log, plain>>

(* state_at_block_number: the state of the latest block was evicted and is
   built from the diffs, over the remote state of a block of its number. *)
Recompute ==
  LET st[n \in 0 .. MaxChanges] ==
        IF n = 0 THEN EmptyState ELSE commit(st[n - 1], log[n][1], log[n][2])
  IN  /\ log # None
      /\ Adopt(st[Len(log)])
      /\ block_number' = Len(log)
      /\ account_cache' = [a \in {} |-> None]
      /\ code_cache' = {}
      /\ UNCHANGED <<cacheable, log, plain>>

(* Enough blocks have followed on the remote chain. *)
Confirm ==
  /\ ~ cacheable
  /\ cacheable' = TRUE
  /\ UNCHANGED <<local, block_number, caches, log, plain>>

Init ==
  /\ accounts = EmptyState.accounts
  /\ storage_tries = EmptyState.storage_tries
  /\ contracts = EmptyState.contracts
  /\ removed_storage_slots = {}
  /\ block_number = 0
  /\ cacheable \in BOOLEAN
  /\ account_cache = [a \in {} |-> None]
  /\ code_cache = {}
  /\ log = <<>>
  /\ plain = [a \in Address |-> IF Remote[0][a] = None THEN Nothing ELSE Remote[0][a]]

Next ==
  \/ \E a \in Address : TouchAccount(a) \/ CreateAccount(a) \/ DestroyAccount(a)
  \/ \E a \in Address, balance \in Balances : ModifyAccount(a, [View(a) EXCEPT !.balance = balance])
  \/ \E a \in Address, code \in Codes \cup {NoCode} : ModifyAccount(a, [View(a) EXCEPT !.code = code])
  \/ \E a \in Address, i \in Slots, value \in Values : SetStorageSlot(a, i, value)
  \/ \E a \in Address, slots \in SUBSET Slots : Read(a, slots)
  \/ Recompute
  \/ Confirm

Spec == Init /\ [][Next]_vars
-----------------------------------------------------------------------------
(* The overlay behaves like a plain map of accounts that started as the      *)
(* remote state: whatever was set, cleared, created or fetched before, in    *)
(* whichever order, and whether the state was kept or built again, a read    *)
(* never shows a remote value that was overwritten.                          *)
OverlayExact ==
  \A a \in Address : /\ View(a) = Info(plain[a])
                     /\ \A i \in Slots : storage(a, i) = plain[a].storage[i]

(* "It's an invariant of this trait getting an AccountInfo by calling basic, *)
(* one can call code_by_hash with AccountInfo.code_hash and get the code":   *)
(* the counts of the local state never drop code that an account still       *)
(* names, and fetched code is kept even when accounts may not be cached.     *)
CodeAvailable ==
  \A a \in Address : CodeFound(View(a).code, CodesAfter(a, {}))

(* "If the account is empty, we must return None to signify non-existence",  *)
(* whether or not a slot of it was read before.                              *)
EmptyIsNone ==
  \A a \in Address \ DOMAIN accounts : basic(a) # None => ~ is_empty(basic(a))
=============================================================================
