----------------------------- MODULE MCFilters ------------------------------
(* A small instance of Filters: a fork of two blocks. *)
EXTENDS Filters

CONSTANTS a, b, t, u

MCAddresses == {a, b}
MCTopics == {t, u}

L(address, topics) == [address |-> address, topics |-> topics]

MCRemoteLogs == << <<L(a, <<t>>)>>, <<L(b, <<u>>)>> >>
MCLogLists == {<<>>, <<L(a, <<t>>)>>, <<L(b, <<>>), L(b, <<u, t>>)>>}
MCFalsePositives == {{}, {a, t}}

Ask(from, to, addresses, topics) ==
  [from_block |-> from, to_block |-> to, addresses |-> addresses, topics |-> topics]

(* Everything from the latest block on; two addresses from the first block
   on; a second topic, over the fork block; a range that ends in the future. *)
MCLogFilterOptions ==
  {Ask(None, None, {}, <<>>), Ask(0, None, {a, b}, <<{t}>>), Ask(2, None, {}, <<None, {t, u}>>),
   Ask(2, 3, {b}, <<{t, u}>>)}
=============================================================================
