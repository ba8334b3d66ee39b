------------------------------ MODULE Filters -------------------------------
(***************************************************************************)
(* The filters and subscriptions of ProviderData (crates/edr_provider):    *)
(* eth_newFilter and its relatives, eth_subscribe, polling, expiry, and    *)
(* what mining, submitting and reverting do to them.                       *)
(*                                                                         *)
(* A block is known by the order in which it was made, its hash; an event  *)
(* is a pair of numbers, the block's hash and the log's place in it, or    *)
(* the place of a submitted transaction among all of them.  Block n is     *)
(* chain[n]; the blocks up to fork_block_number are the remote node's.     *)
(***************************************************************************)
EXTENDS Integers, Sequences, SequencesExt

CONSTANTS
  None,               \* Rust's None
  Addresses, Topics,
  fork_block_number,
  RemoteLogs,         \* the logs of the remote blocks
  LogLists,           \* the sequences of logs a mined block may contain
  FalsePositives,     \* the sets a bloom filter may hold by accident
  LogFilterOptions,   \* what clients ask for
  Lifetime,           \* five minutes
  MaxNow,             \* bound on the wall clock
  MaxBlocks,          \* bound on the number of blocks that are made
  MaxTransactions,    \* bound on the number of transactions
  MaxFilters          \* bound on the number of filters

Log == [address : Addresses, topics : Seq(Topics)]

ASSUME FiltersAssumption ==
  /\ fork_block_number \in Nat \ {0} /\ Len(RemoteLogs) = fork_block_number
  /\ RemoteLogs \in Seq(Seq(Log)) /\ LogLists \subseteq Seq(Log)
  /\ \A options \in LogFilterOptions :
       /\ options.from_block \in Nat \cup {None} /\ options.to_block \in Nat \cup {None}
       /\ options.addresses \in SUBSET Addresses
       /\ options.topics \in Seq({None} \cup SUBSET Topics)
  /\ None \notin Nat
  /\ Lifetime \in Nat \ {0}
  /\ MaxNow \in Nat /\ MaxBlocks \in Nat /\ MaxTransactions \in Nat /\ MaxFilters \in Nat

VARIABLES
  now,
  chain,
  minted,          \* how many blocks were made, taken back or not
  heads,           \* the block numbers a snapshot may name
  submitted,       \* how many transactions were announced
  filters,         \* id -> Filter
  last_filter_id,
  received,        \* id -> what the client was given: not kept by the program
  since,           \* id -> the blocks and transactions there were, and the
                   \* time of the last poll: not kept either
  silent           \* the blocks nobody was told of: not kept either

blocks == <<chain, minted, heads, silent>>
history == <<received, since>>
vars == <<now, blocks, submitted, filters, last_filter_id, history>>

last_block_number == Len(chain)

Put(f, x, v) == [y \in DOMAIN f \cup {x} |-> IF y = x THEN v ELSE f[y]]

-----------------------------------------------------------------------------
(* Logs and what matches them. *)

matches_address_filter(address, addresses) == addresses = {} \/ address \in addresses

(* Mutant: a filter longer than the log's topics is cut short. *)
Bug_ZipOnly(topics, topics_filter) ==
  \A i \in DOMAIN topics_filter \cap DOMAIN topics :
    topics_filter[i] = None \/ topics[i] \in topics_filter[i]

matches_topics_filter(topics, topics_filter) ==
  /\ Len(topics_filter) <= Len(topics)
  /\ \A i \in DOMAIN topics_filter : topics_filter[i] = None \/ topics[i] \in topics_filter[i]

(* The addresses and topics of a block's logs, and some that are not there. *)
logs_bloom(logs, more) ==
  more \cup UNION {{logs[i].address} \cup Range(logs[i].topics) : i \in DOMAIN logs}

(* Mutant: every address has to be in the block. *)
Bug_EveryAddress(bloom, criteria) ==
  /\ criteria.addresses \subseteq bloom
  /\ \A i \in DOMAIN criteria.topics :
       criteria.topics[i] = None \/ criteria.topics[i] \cap bloom # {}

bloom_contains_log_filter(bloom, criteria) ==
  \/ criteria.addresses \cap bloom # {}
  \/ \A i \in DOMAIN criteria.topics :
       criteria.topics[i] = None \/ criteria.topics[i] \cap bloom # {}

Matches(log, criteria) ==
  /\ matches_address_filter(log.address, criteria.addresses)
  /\ matches_topics_filter(log.topics, criteria.topics)

InRange(n, criteria) ==
  /\ criteria.from_block <= n
  /\ criteria.to_block # None => n <= criteria.to_block

(* The places of a block's logs that match, in order. *)
Matching(block, criteria) ==
  FlattenSeq([i \in DOMAIN block.logs |->
    IF Matches(block.logs[i], criteria) THEN << <<block.hash, i>> >> ELSE <<>>])

filter_logs(block, n, criteria) ==
  IF InRange(n, criteria) THEN Matching(block, criteria) ELSE <<>>

(* One block after the other, those that there are. *)
try_fetch_logs(list, first, last, criteria) ==
  FlattenSeq([n \in DOMAIN list |->
    IF n \in first .. last THEN Matching(list[n], criteria) ELSE <<>>])

(* Blockchain::logs.  On a fork the first part comes from the remote node and
   the rest from the local storage. *)
logs(criteria) ==
  LET to_block == IF criteria.to_block = None THEN last_block_number ELSE criteria.to_block
      fetch(first, last) == try_fetch_logs(chain, first, last, criteria)
  IN  IF criteria.from_block > fork_block_number THEN fetch(criteria.from_block, to_block)
      ELSE IF to_block <= fork_block_number THEN fetch(criteria.from_block, to_block)
      ELSE fetch(criteria.from_block, fork_block_number) \o fetch(fork_block_number + 1, to_block)

(* validate_filter_criteria: tags other than "earliest" are the latest block. *)
Criteria(options) ==
  [from_block |-> IF options.from_block = None THEN last_block_number ELSE options.from_block,
   to_block   |-> options.to_block,
   addresses  |-> options.addresses,
   topics     |-> options.topics]

-----------------------------------------------------------------------------
(* Creation, polling and removal. *)

new_filter_deadline == now + Lifetime

Install(kind, criteria, events, is_subscription) ==
  LET id == last_filter_id + 1
  IN  /\ id <= MaxFilters
      /\ last_filter_id' = id
      /\ filters' = Put(filters, id, [kind |-> kind, criteria |-> criteria, events |-> events,
                                      deadline |-> new_filter_deadline,
                                      is_subscription |-> is_subscription])
      /\ received' = Put(received, id, <<>>)
      /\ since' = Put(since, id, [blocks |-> minted, transactions |-> submitted,
                                  polled |-> now])
      /\ UNCHANGED <<now, blocks, submitted>>

NewPendingTransactionFilter(is_subscription) ==
  Install("NewPendingTransactions", None, <<>>, is_subscription)

(* It starts with the latest block. *)
NewBlockFilter(is_subscription) ==
  Install("NewHeads", None, << <<chain[last_block_number].hash, 1>> >>, is_subscription)

(* It starts with the logs that are there already. *)
NewLogFilter(options, is_subscription) ==
  Install("Logs", Criteria(options), logs(Criteria(options)), is_subscription)

(* Mutant: the deadline stays. *)
Bug_NotRefreshed(id) ==
  /\ received' = [received EXCEPT ![id] = @ \o filters[id].events]
  /\ since' = [since EXCEPT ![id].polled = now]
  /\ filters' = [filters EXCEPT ![id].events = <<>>]

(* Mutant: the events stay. *)
Bug_NotTaken(id) ==
  /\ received' = [received EXCEPT ![id] = @ \o filters[id].events]
  /\ since' = [since EXCEPT ![id].polled = now]
  /\ filters' = [filters EXCEPT ![id].deadline = new_filter_deadline]

take_events(id) ==
  /\ received' = [received EXCEPT ![id] = @ \o filters[id].events]
  /\ since' = [since EXCEPT ![id].polled = now]
  /\ filters' = [filters EXCEPT ![id].events = <<>>, ![id].deadline = new_filter_deadline]

(* Subscriptions can be polled too, and have their backlog then; an id that is
   not known is answered with null. *)
GetFilterChanges(id) ==
  \/ /\ id \in DOMAIN filters
     /\ take_events(id)
     /\ UNCHANGED <<now, blocks, submitted, last_filter_id>>
  \/ id \notin DOMAIN filters /\ UNCHANGED vars

(* An error for other filters, whose deadline it leaves alone. *)
GetFilterLogs(id) ==
  /\ id \in DOMAIN filters
  /\ filters[id].kind = "Logs"
  /\ take_events(id)
  /\ UNCHANGED <<now, blocks, submitted, last_filter_id>>

Retain(ids) ==
  /\ filters' = [id \in ids |-> filters[id]]
  /\ received' = [id \in ids |-> received[id]]
  /\ since' = [id \in ids |-> since[id]]

(* eth_uninstallFilter, and eth_unsubscribe for subscriptions. *)
RemoveFilter(id, is_subscription) ==
  /\ id \in DOMAIN filters
  /\ filters[id].is_subscription = is_subscription
  /\ Retain(DOMAIN filters \ {id})
  /\ UNCHANGED <<now, blocks, submitted, last_filter_id>>

-----------------------------------------------------------------------------
(* Notification. *)

has_expired(filter) == now > filter.deadline

(* A filter is given events: a subscriber at once. *)
Given(filter, events) ==
  IF filter.is_subscription THEN filter ELSE [filter EXCEPT !.events = @ \o events]

Called(id, events) ==
  IF filters[id].is_subscription THEN received[id] \o events ELSE received[id]

AddPendingTransaction ==
  LET event(id) ==
        IF filters[id].kind = "NewPendingTransactions" THEN << <<submitted + 1, 1>> >> ELSE <<>>
  IN  /\ submitted < MaxTransactions
      /\ submitted' = submitted + 1
      /\ filters' = [id \in DOMAIN filters |-> Given(filters[id], event(id))]
      /\ received' = [id \in DOMAIN filters |-> Called(id, event(id))]
      /\ UNCHANGED <<now, blocks, last_filter_id, since>>

(* What a mined block is to a filter. *)
News(filter, block, bloom, n) ==
  CASE filter.kind = "NewHeads" -> << <<block.hash, 1>> >>
    [] filter.kind = "Logs" /\ bloom_contains_log_filter(bloom, filter.criteria) ->
         filter_logs(block, n, filter.criteria)
    [] OTHER -> <<>>

(* Everybody is told, then the outdated filters are removed. *)
notify_subscribers_about_mined_block(block, bloom, n) ==
  LET kept == {id \in DOMAIN filters : ~ has_expired(filters[id])}
      news(id) == News(filters[id], block, bloom, n)
  IN  /\ filters' = [id \in kept |-> Given(filters[id], news(id))]
      /\ received' = [id \in kept |-> Called(id, news(id))]
      /\ since' = [id \in kept |-> since[id]]

NewBlocks(list) ==
  [i \in 1 .. Len(list) |-> [hash |-> minted + i, logs |-> list[i]]]

InsertBlocks(list) ==
  /\ minted + Len(list) <= MaxBlocks
  /\ chain' = chain \o NewBlocks(list)
  /\ minted' = minted + Len(list)
  /\ heads' = heads \cup {Len(chain) + Len(list)}

(* mine_and_commit_block_impl *)
MineBlock(list, more) ==
  LET block == NewBlocks(<<list>>)[1]
  IN  /\ InsertBlocks(<<list>>)
      /\ notify_subscribers_about_mined_block(block, logs_bloom(list, more), Len(chain) + 1)
      /\ UNCHANGED <<now, silent, submitted, last_filter_id>>

(* The mem pool cannot be updated: the block stays, and nobody is told. *)
MineBlockFails(list) ==
  /\ InsertBlocks(<<list>>)
  /\ silent' = silent \cup {minted + 1}
  /\ UNCHANGED <<now, submitted, filters, last_filter_id, history>>

(* hardhat_mine reserves empty blocks between two that it mines; fewer here
   than MINIMUM_RESERVABLE_BLOCKS. *)
ReserveBlocks(additional) ==
  /\ InsertBlocks([i \in 1 .. additional |-> <<>>])
  /\ silent' = silent \cup (minted + 1 .. minted + additional)
  /\ UNCHANGED <<now, submitted, filters, last_filter_id, history>>

(* Filters are not part of a snapshot. *)
RevertToSnapshot(n) ==
  /\ n < Len(chain)
  /\ chain' = SubSeq(chain, 1, n)
  /\ heads' = {m \in heads : m <= n}
  /\ UNCHANGED <<now, minted, silent, submitted, filters, last_filter_id, history>>

Tick ==
  /\ now < MaxNow
  /\ now' = now + 1
  /\ UNCHANGED <<blocks, submitted, filters, last_filter_id, history>>

Init ==
  /\ now = 0
  /\ chain = [n \in 1 .. fork_block_number |-> [hash |-> n, logs |-> RemoteLogs[n]]]
  /\ minted = fork_block_number
  /\ heads = {fork_block_number}
  /\ silent = {}
  /\ submitted = 0
  /\ filters = [id \in {} |-> None]
  /\ last_filter_id = 0
  /\ received = [id \in {} |-> <<>>]
  /\ since = [id \in {} |-> None]

Next ==
  \/ Tick
  \/ \E is_subscription \in BOOLEAN :
       \/ NewPendingTransactionFilter(is_subscription)
       \/ NewBlockFilter(is_subscription)
       \/ \E options \in LogFilterOptions : NewLogFilter(options, is_subscription)
       \/ \E id \in DOMAIN filters : RemoveFilter(id, is_subscription)
  \/ \E id \in 1 .. MaxFilters + 1 : GetFilterChanges(id) \/ GetFilterLogs(id)
  \/ AddPendingTransaction
  \/ \E list \in LogLists : (\E more \in FalsePositives : MineBlock(list, more)) \/ MineBlockFails(list)
  \/ \E additional \in 1 .. MaxBlocks : ReserveBlocks(additional)
  \/ \E n \in heads : RevertToSnapshot(n)

Spec == Init /\ [][Next]_vars
-----------------------------------------------------------------------------
(* What the client of a filter has been given, or will be with its next poll. *)
Known(id) == Range(received[id]) \cup Range(filters[id].events)

(* The logs of the block that the filter asks for, one topic position after
   the other: the definition the bloom filter and the range checks are for. *)
Wanted(n, criteria) ==
  {<<chain[n].hash, i>> : i \in
     {j \in DOMAIN chain[n].logs :
        LET log == chain[n].logs[j]
        IN  /\ n >= criteria.from_block
            /\ n \in 1 .. (IF criteria.to_block = None THEN n ELSE criteria.to_block)
            /\ criteria.addresses # {} => log.address \in criteria.addresses
            /\ \A k \in DOMAIN criteria.topics :
                 k \in DOMAIN log.topics
                   /\ (criteria.topics[k] # None => log.topics[k] \in criteria.topics[k])}}

(* The filter was there when the block came, and nobody was told. *)
Missed(id, block) == block.hash \in silent /\ block.hash > since[id].blocks

(* No event is lost, between the backlog a filter starts with and the blocks *)
(* that are announced to it, on either side of the fork, after reverts, and  *)
(* for what the bloom filter lets through: a client knows every log of the   *)
(* chain that it has asked for, every block since its filter was made, and   *)
(* every transaction submitted since; only blocks that were never announced  *)
(* may be missing.                                                           *)
NoEventLost ==
  \A id \in DOMAIN filters :
    LET filter == filters[id]
    IN  /\ filter.kind = "Logs" =>
             \A n \in DOMAIN chain :
               Wanted(n, filter.criteria) \subseteq Known(id) \/ Missed(id, chain[n])
        /\ filter.kind = "NewHeads" =>
             \A n \in DOMAIN chain :
               \/ chain[n].hash <= since[id].blocks
               \/ <<chain[n].hash, 1>> \in Known(id)
               \/ Missed(id, chain[n])
        /\ filter.kind = "NewPendingTransactions" =>
             \A t \in since[id].transactions + 1 .. submitted : <<t, 1>> \in Known(id)

Before(d, e) == d[1] < e[1] \/ (d[1] = e[1] /\ d[2] < e[2])

Increasing(s) == \A i, j \in DOMAIN s : i < j => Before(s[i], s[j])

(* Nothing is given to a client twice, and to a filter everything in the     *)
(* order in which it happened: a poll takes what it returns, and the backlog *)
(* ends where the announcements begin.  (A subscription that is polled has   *)
(* its backlog after the announcements.)                                     *)
EventsInOrder ==
  \A id \in DOMAIN filters :
    LET all == received[id] \o filters[id].events
    IN  IF filters[id].is_subscription
        THEN \A i, j \in DOMAIN all : all[i] = all[j] => i = j
        ELSE Increasing(all)

(* A client is given only what it has asked for: no log of the chain that    *)
(* its criteria exclude, although the bloom filter is inexact.               *)
OnlyWanted ==
  \A id \in DOMAIN filters : filters[id].kind = "Logs" =>
    \A n \in DOMAIN chain : \A e \in Known(id) :
      e[1] = chain[n].hash => e \in Wanted(n, filters[id].criteria)

(* Whoever polls in time keeps the filter: unless its owner removes it with  *)
(* eth_uninstallFilter or eth_unsubscribe, it goes only when a block is      *)
(* mined and its last poll was longer ago than its lifetime.                 *)
OnlyIdleRemoved ==
  [][\A id \in DOMAIN filters \ DOMAIN filters' :
       \/ RemoveFilter(id, filters[id].is_subscription)
       \/ minted' > minted /\ now > since[id].polled + Lifetime]_vars

(* A subscription lasts until eth_unsubscribe.                               *)
SubscriptionsLast ==
  [][\A id \in DOMAIN filters \ DOMAIN filters' :
       filters[id].is_subscription => RemoveFilter(id, TRUE)]_vars

(* A client whose log filter has been polled knows no log that is not in the *)
(* chain: "removed: true when the log was removed, due to a chain            *)
(* reorganization" is never said of a log that a revert takes back.          *)
KnownIsInChain ==
  \A id \in DOMAIN filters : filters[id].kind = "Logs" =>
    \A e \in Range(filters[id].events) : \E n \in DOMAIN chain : chain[n].hash = e[1]
=============================================================================
