-------------------------------- MODULE Vecs --------------------------------
(***************************************************************************)
(* What Rust's Vec and IndexMap do to the queues of the mem pool, without  *)
(* recursion, so that the operators can be reasoned about as well as       *)
(* evaluated.  A vector is a sequence; a map is a function whose domain is *)
(* the set of keys present (the order of the keys is left out).            *)
(***************************************************************************)
EXTENDS Naturals, Sequences, FiniteSets

(* The k-th smallest element of a finite set of positions. *)
Rank(K, i) == Cardinality({j \in K : j <= i})
NthSmallest(K, k) == CHOOSE i \in K : Rank(K, i) = k

(* The elements of s at the positions K, in their order. *)
Keep(s, K) == [k \in 1 .. Cardinality(K) |-> s[NthSmallest(K, k)]]

(* Vec::retain *)
Retain(s, Test(_)) == Keep(s, {i \in DOMAIN s : Test(s[i])})

(* Iterator::find: the first position that passes the test, if there is one. *)
First(K) == CHOOSE i \in K : \A j \in K : i <= j
Found(s, Test(_)) == \E i \in DOMAIN s : Test(s[i])
Find(s, Test(_)) == First({i \in DOMAIN s : Test(s[i])})

(* The elements of a vector. *)
Elements(s) == {s[i] : i \in DOMAIN s}
Distinct(s) == \A i, j \in DOMAIN s : s[i] = s[j] => i = j

(* Vec::split_off(k): what stays, and what is split off. *)
Front(s, k) == SubSeq(s, 1, k)
Rest(s, k)  == SubSeq(s, k + 1, Len(s))

-----------------------------------------------------------------------------
(* IndexMap: the vector stored under a key, an absent key counting as empty;
   insertion; removal; retain(|_, v| !v.is_empty()). *)
At(m, a)       == IF a \in DOMAIN m THEN m[a] ELSE <<>>
Put(m, a, s)   == [b \in DOMAIN m \cup {a} |-> IF b = a THEN s ELSE m[b]]
Without(m, D)  == [b \in DOMAIN m \ D |-> m[b]]
NonEmpty(m)    == Without(m, {a \in DOMAIN m : m[a] = <<>>})
(* A vector is stored back, its key removed when nothing is left of it. *)
PutBack(m, a, s) == IF s = <<>> THEN Without(m, {a}) ELSE Put(m, a, s)
=============================================================================
