--------------------------- MODULE ForkStateProofs --------------------------
(***************************************************************************)
(* Proofs about ForkState.                                                 *)
(*                                                                         *)
(* The invariant OverlayInv says of the local state of ForkedState that    *)
(*   - read over the accounts of the fork it shows the plain map (Shows),  *)
(*     where a slot that was written to zero is one of the removed slots;  *)
(*   - its counts cover the accounts that name a code (Counted), or the    *)
(*     code is one that was fetched and is kept (Covered);                 *)
(*   - what is cached is what the remote node has (CacheOK);               *)
(*   - while the diffs of the blocks can be followed at all, committing    *)
(*     them one by one from the empty state leads to a local state that    *)
(*     shows the same plain map (Rebuilds).                                *)
(* Every change of an account is one commit (Committed), so most actions   *)
(* are CommitStep with an Allowed change; modify_account and               *)
(* set_account_storage_slot write the tries themselves.                    *)
(***************************************************************************)
EXTENDS ForkState, FiniteSetTheorems, WellFoundedInduction, TLAPS

(* The remote node stays at the state of the fork, and an account that has
   storage there has a nonce. *)
RemoteSettled ==
  /\ \A n \in 0 .. MaxChanges : Remote[n] = Remote[0]
  /\ \A a \in Address : Remote[0][a] # None /\ Remote[0][a].nonce = 0 => Remote[0][a].storage = Zeros

(* What ForkedState does not handle does not happen: the last remnant of an
   account of the remote node vanishes, code is not loaded, code in use is
   deployed and destroyed in one transaction. *)
Undisturbed == ~ Emptied /\ ~ Codeless /\ ~ Ephemeral /\ ~ Destroys

Benign == RemoteSettled /\ Undisturbed

-----------------------------------------------------------------------------
(* What a local state shows over the state of the fork. *)

(* An account as it was at the fork. *)
Started(a) == IF Remote[0][a] = None THEN Nothing ELSE Remote[0][a]

InfoIn(st, a) == IF a \in DOMAIN st.accounts THEN st.accounts[a] ELSE Info(Started(a))

ValueIn(st, a, i) == IF a \in DOMAIN st.storage_tries THEN st.storage_tries[a][i] ELSE 0

SlotIn(st, a, i) ==
  IF ValueIn(st, a, i) # 0 \/ <<a, i>> \in st.removed_storage_slots
  THEN ValueIn(st, a, i) ELSE Started(a).storage[i]

Shows(st, pl) ==
  \A a \in Address : /\ InfoIn(st, a) = Info(pl[a])
                     /\ \A i \in Slots : SlotIn(st, a, i) = pl[a].storage[i]

StateOK(st) ==
  /\ DOMAIN st.accounts \subseteq Address /\ IsFiniteSet(DOMAIN st.accounts)
  /\ \A a \in DOMAIN st.accounts : st.accounts[a] \in AccountInfo
  /\ \A a \in DOMAIN st.storage_tries : st.storage_tries[a] \in Storage
  /\ st.contracts \in [Codes -> Nat]

(* The accounts that name a code; the count covers them. *)
Users(st, code) == {a \in DOMAIN st.accounts : st.accounts[a].code = code}
Counted(st, code) == Cardinality(Users(st, code)) <= st.contracts[code]

(* The plain accounts: none has lost the nonce it had at the fork. *)
PlainOK(pl) ==
  /\ pl \in [Address -> Account]
  /\ \A a \in Address : pl[a].nonce = 0 => Started(a).nonce = 0

(* An account that does not exist reads as an empty one. *)
LEMMA NothingType == Nothing \in Account /\ Info(Nothing) \in AccountInfo
  BY ForkStateAssumption DEF Nothing, Account, AccountInfo, Info, Storage, Zeros

(* What basic returns of an account. *)
LEMMA InfoType ==
  ASSUME NEW account \in Account
  PROVE  /\ Info(account) \in AccountInfo
         /\ Info(account).balance = account.balance /\ Info(account).nonce = account.nonce
         /\ Info(account).code = account.code
BY DEF Info, Account, AccountInfo

(* The accounts of the fork are accounts. *)
LEMMA StartedType ==
  ASSUME NEW a \in Address
  PROVE  Started(a) \in Account
<1>1. Remote[0] \in [Address -> {None} \cup Account]
  <2>1. 0 \in 0 .. MaxChanges
    BY ForkStateAssumption
  <2> QED
    BY <2>1, ForkStateAssumption
<1>2. Remote[0][a] \in {None} \cup Account
  BY <1>1
<1> QED
  BY <1>2, NothingType DEF Started

(* An empty account has the info of nothing. *)
LEMMA EmptyInfo ==
  ASSUME NEW account, is_empty(account)
  PROVE  Info(account) = Info(Nothing)
BY DEF is_empty, Info, Nothing

-----------------------------------------------------------------------------
(* One change is committed. *)

Changes == [info : AccountInfo, loaded : BOOLEAN, writes : Writes, created : BOOLEAN,
            destroyed : BOOLEAN]

Gone(change) == (is_empty(change.info) /\ ~ change.created) \/ change.destroyed

(* A change that is made of an account of pl. *)
Allowed(pl, a, change) ==
  /\ change \in Changes /\ change.loaded
  /\ Gone(change) => Remote[0][a] = None
  /\ ~ Gone(change) => (change.info.nonce = 0 => pl[a].nonce = 0)
  /\ change.created => Started(a).storage = Zeros
  /\ change.destroyed =>
       /\ change.info.code \in Codes
       /\ \/ pl[a].code = change.info.code
          \/ \A b \in Address : pl[b].code # change.info.code

(* Written slots and their values. *)
LEMMA WritesAre ==
  ASSUME NEW writes \in Writes
  PROVE  /\ DOMAIN writes \subseteq Slots
         /\ \A i \in DOMAIN writes : writes[i] \in Values
BY DEF Writes

(* A change leaves an account. *)
LEMMA AppliedType ==
  ASSUME NEW account \in Account, NEW change \in Changes
  PROVE  Applied(account, change) \in Account
<1>1. CASE Gone(change)
  BY <1>1, NothingType DEF Applied, Gone
<1>2. CASE ~ Gone(change)
  <2> DEFINE s == [i \in Slots |->
          IF i \in DOMAIN change.writes THEN change.writes[i]
          ELSE IF change.created THEN 0 ELSE account.storage[i]]
  <2>1. Applied(account, change) =
          [balance |-> change.info.balance, nonce |-> change.info.nonce,
           code |-> change.info.code, storage |-> s]
    BY <1>2 DEF Applied, Gone
  <2>2. s \in Storage
    <3>1. 0 \in Values /\ account.storage \in [Slots -> Values] /\ change.writes \in Writes
      BY ForkStateAssumption DEF Account, Storage, Changes
    <3> QED
      BY <3>1, WritesAre DEF Storage
  <2>3. /\ change.info.balance \in Balances /\ change.info.nonce \in {0, 1}
        /\ change.info.code \in Codes \cup {NoCode}
    BY DEF Changes, AccountInfo
  <2> HIDE DEF s
  <2> QED
    BY <2>1, <2>2, <2>3 DEF Account
<1> QED
  BY <1>1, <1>2

(* The plain accounts after a change. *)
LEMMA AppliedPlain ==
  ASSUME NEW pl, PlainOK(pl), NEW a \in Address, NEW change, Allowed(pl, a, change),
         NEW pl2, pl2 = [pl EXCEPT ![a] = Applied(pl[a], change)]
  PROVE  PlainOK(pl2)
<1>1. pl \in [Address -> Account] /\ pl[a] \in Account /\ change \in Changes
  BY DEF PlainOK, Allowed
<1>2. Applied(pl[a], change) \in Account
  BY <1>1, AppliedType
<1>3. pl2 \in [Address -> Account] /\ pl2[a] = Applied(pl[a], change)
      /\ \A b \in Address : b # a => pl2[b] = pl[b]
  BY <1>1, <1>2
<1>4. Applied(pl[a], change).nonce = 0 => Started(a).nonce = 0
  <2>1. CASE Gone(change)
    <3>1. Remote[0][a] = None
      BY <2>1 DEF Allowed
    <3> QED
      BY <3>1 DEF Started, Nothing
  <2>2. CASE ~ Gone(change)
    <3>1. Applied(pl[a], change).nonce = change.info.nonce
      BY <2>2 DEF Applied, Gone
    <3> QED
      BY <2>2, <3>1 DEF Allowed, PlainOK
  <2> QED
    BY <2>1, <2>2
<1> QED
  BY <1>3, <1>4 DEF PlainOK

(* A key is removed. *)
LEMMA WithoutFacts ==
  ASSUME NEW f, NEW x
  PROVE  /\ DOMAIN Without(f, x) = DOMAIN f \ {x}
         /\ \A y \in DOMAIN f : y # x => Without(f, x)[y] = f[y]
BY DEF Without

(* The counts stay natural numbers ... *)
LEMMA CodeTypes ==
  ASSUME NEW counts \in [Codes -> Nat], NEW code \in Codes \cup {NoCode}
  PROVE  /\ insert_code(counts, code) \in [Codes -> Nat]
         /\ remove_code(counts, code) \in [Codes -> Nat]
BY ForkStateAssumption DEF insert_code, remove_code

(* The value that a slot of the changed account holds before its write. *)
Older(st, a, change, i) == IF change.created THEN 0 ELSE ValueIn(st, a, i)

(* What commit leaves, read field by field. *)
LEMMA Committed ==
  ASSUME NEW st, StateOK(st), NEW a \in Address, NEW change \in Changes,
         NEW st2, st2 = commit(st, a, change)
  PROVE  /\ StateOK(st2)
         /\ st2.contracts = CommitCode(st, a, change)
         /\ st2.removed_storage_slots = CommitSlots(st, a, change)
         /\ Gone(change) => /\ a \notin DOMAIN st2.accounts
                            /\ a \notin DOMAIN st2.storage_tries
         /\ ~ Gone(change) => /\ a \in DOMAIN st2.accounts /\ st2.accounts[a] = change.info
                              /\ a \in DOMAIN st2.storage_tries
                              /\ \A i \in Slots : st2.storage_tries[a][i] =
                                   IF i \in DOMAIN change.writes THEN change.writes[i]
                                   ELSE Older(st, a, change, i)
         /\ \A b \in Address : b # a =>
              /\ b \in DOMAIN st2.accounts <=> b \in DOMAIN st.accounts
              /\ b \in DOMAIN st.accounts => st2.accounts[b] = st.accounts[b]
              /\ b \in DOMAIN st2.storage_tries <=> b \in DOMAIN st.storage_tries
              /\ b \in DOMAIN st.storage_tries => st2.storage_tries[b] = st.storage_tries[b]
<1> DEFINE old == IF a \in DOMAIN st.storage_tries /\ ~ change.created
                  THEN st.storage_tries[a] ELSE Zeros
           new == [i \in Slots |-> IF i \in DOMAIN change.writes THEN change.writes[i] ELSE old[i]]
<1>1. /\ st2.contracts = CommitCode(st, a, change)
      /\ st2.removed_storage_slots = CommitSlots(st, a, change)
      /\ st2.accounts = IF Gone(change) THEN Without(st.accounts, a)
                        ELSE Put(st.accounts, a, change.info)
      /\ st2.storage_tries = IF Gone(change) THEN Without(st.storage_tries, a)
                             ELSE Put(st.storage_tries, a, new)
  BY DEF commit, Gone
<1>2. old \in Storage /\ \A i \in Slots : old[i] = Older(st, a, change, i)
  <2>1. 0 \in Values
    BY ForkStateAssumption
  <2>2. Zeros \in Storage /\ \A i \in Slots : Zeros[i] = 0
    BY <2>1 DEF Zeros, Storage
  <2>3. a \in DOMAIN st.storage_tries => st.storage_tries[a] \in Storage
    BY DEF StateOK
  <2>4. CASE a \in DOMAIN st.storage_tries /\ ~ change.created
    BY <2>4, <2>3 DEF Older, ValueIn
  <2>5. CASE a \notin DOMAIN st.storage_tries \/ change.created
    BY <2>5, <2>2 DEF Older, ValueIn
  <2> QED
    BY <2>4, <2>5
<1> HIDE DEF old
<1>3. new \in Storage
  <2>1. change.writes \in Writes
    BY DEF Changes
  <2> QED
    BY <2>1, <1>2, WritesAre DEF Storage
<1>4. \A i \in Slots : new[i] = IF i \in DOMAIN change.writes THEN change.writes[i]
                                ELSE Older(st, a, change, i)
  BY <1>2
<1> HIDE DEF new
<1>5. CommitCode(st, a, change) \in [Codes -> Nat]
  <2>1. /\ st.contracts \in [Codes -> Nat]
        /\ change.info.code \in Codes \cup {NoCode}
        /\ a \in DOMAIN st.accounts => st.accounts[a].code \in Codes \cup {NoCode}
    BY DEF StateOK, Changes, AccountInfo
  <2>2. PICK o : /\ o = (IF a \in DOMAIN st.accounts THEN st.accounts[a].code ELSE NoCode)
                 /\ o \in Codes \cup {NoCode}
    BY <2>1
  <2>3. PICK c : c = change.info.code
    OBVIOUS
  <2>4. /\ remove_code(st.contracts, c) \in [Codes -> Nat]
        /\ insert_code(st.contracts, c) \in [Codes -> Nat]
        /\ remove_code(st.contracts, o) \in [Codes -> Nat]
    BY <2>1, <2>2, <2>3, CodeTypes
  <2>5. remove_code(insert_code(st.contracts, c), o) \in [Codes -> Nat]
    BY <2>4, <2>2, CodeTypes
  <2>6. CommitCode(st, a, change) \in
          {remove_code(st.contracts, c), st.contracts, remove_code(st.contracts, o),
           remove_code(insert_code(st.contracts, c), o)}
    BY <2>2, <2>3 DEF CommitCode
  <2> QED
    BY <2>1, <2>4, <2>5, <2>6
<1>6. IsFiniteSet(DOMAIN st.accounts) /\ IsFiniteSet(DOMAIN st.accounts \cup {a})
      /\ IsFiniteSet(DOMAIN st.accounts \ {a})
  BY FS_AddElement, FS_RemoveElement DEF StateOK
<1>7. change.info \in AccountInfo
  BY DEF Changes
<1>8. CASE Gone(change)
  <2>1. st2.accounts = Without(st.accounts, a) /\ st2.storage_tries = Without(st.storage_tries, a)
    BY <1>1, <1>8
  <2>2. /\ DOMAIN st2.accounts = DOMAIN st.accounts \ {a}
        /\ DOMAIN st2.storage_tries = DOMAIN st.storage_tries \ {a}
        /\ \A b \in DOMAIN st.accounts : b # a => st2.accounts[b] = st.accounts[b]
        /\ \A b \in DOMAIN st.storage_tries : b # a => st2.storage_tries[b] = st.storage_tries[b]
    <3>1. PICK f, g : f = st.accounts /\ g = st.storage_tries
      OBVIOUS
    <3>2. /\ DOMAIN Without(f, a) = DOMAIN f \ {a}
          /\ \A b \in DOMAIN f : b # a => Without(f, a)[b] = f[b]
      BY WithoutFacts
    <3>3. /\ DOMAIN Without(g, a) = DOMAIN g \ {a}
          /\ \A b \in DOMAIN g : b # a => Without(g, a)[b] = g[b]
      BY WithoutFacts
    <3>4. st2.accounts = Without(f, a) /\ st2.storage_tries = Without(g, a)
      BY <2>1, <3>1
    <3> QED
      BY <3>1, <3>2, <3>3, <3>4
  <2>3. StateOK(st2)
    BY <2>2, <1>1, <1>5, <1>6 DEF StateOK
  <2> QED
    BY <2>2, <2>3, <1>1, <1>8
<1>9. CASE ~ Gone(change)
  <2>1. st2.accounts = Put(st.accounts, a, change.info) /\ st2.storage_tries = Put(st.storage_tries, a, new)
    BY <1>1, <1>9
  <2>2. /\ DOMAIN st2.accounts = DOMAIN st.accounts \cup {a} /\ st2.accounts[a] = change.info
        /\ DOMAIN st2.storage_tries = DOMAIN st.storage_tries \cup {a} /\ st2.storage_tries[a] = new
        /\ \A b \in DOMAIN st.accounts : b # a => st2.accounts[b] = st.accounts[b]
        /\ \A b \in DOMAIN st.storage_tries : b # a => st2.storage_tries[b] = st.storage_tries[b]
    <3>1. PICK f, g, v, w : f = st.accounts /\ g = st.storage_tries /\ v = change.info /\ w = new
      OBVIOUS
    <3>2. /\ DOMAIN Put(f, a, v) = DOMAIN f \cup {a} /\ Put(f, a, v)[a] = v
          /\ \A b \in DOMAIN f : b # a => Put(f, a, v)[b] = f[b]
      BY DEF Put
    <3>3. /\ DOMAIN Put(g, a, w) = DOMAIN g \cup {a} /\ Put(g, a, w)[a] = w
          /\ \A b \in DOMAIN g : b # a => Put(g, a, w)[b] = g[b]
      BY DEF Put
    <3>4. st2.accounts = Put(f, a, v) /\ st2.storage_tries = Put(g, a, w)
      BY <2>1, <3>1
    <3> QED
      BY <3>1, <3>2, <3>3, <3>4
  <2>3. StateOK(st2)
    BY <2>2, <1>1, <1>3, <1>5, <1>6, <1>7 DEF StateOK
  <2> QED
    BY <2>2, <2>3, <1>1, <1>4, <1>9
<1> QED
  BY <1>8, <1>9

(* The slots that a commit marks as removed are those written to zero. *)
LEMMA MarkedSlots ==
  ASSUME NEW st, NEW a \in Address, NEW change
  PROVE  /\ \A b, i : b # a => (<<b, i>> \in CommitSlots(st, a, change)
                                   <=> <<b, i>> \in st.removed_storage_slots)
         /\ \A i : i \notin DOMAIN change.writes =>
              (<<a, i>> \in CommitSlots(st, a, change) <=> <<a, i>> \in st.removed_storage_slots)
         /\ \A i \in DOMAIN change.writes :
              change.writes[i] = 0 => <<a, i>> \in CommitSlots(st, a, change)
BY DEF CommitSlots

(* A commit shows exactly the change that it makes of the plain accounts. *)
LEMMA CommitShows ==
  ASSUME NEW st, StateOK(st), NEW pl, PlainOK(pl), Shows(st, pl), NEW a \in Address,
         NEW change, Allowed(pl, a, change), NEW st2, st2 = commit(st, a, change),
         NEW pl2, pl2 = [pl EXCEPT ![a] = Applied(pl[a], change)]
  PROVE  StateOK(st2) /\ Shows(st2, pl2)
<1>1. change \in Changes /\ pl \in [Address -> Account] /\ pl[a] \in Account
  BY DEF Allowed, PlainOK
<1>2. /\ StateOK(st2)
      /\ st2.removed_storage_slots = CommitSlots(st, a, change)
      /\ Gone(change) => /\ a \notin DOMAIN st2.accounts
                         /\ a \notin DOMAIN st2.storage_tries
      /\ ~ Gone(change) => /\ a \in DOMAIN st2.accounts /\ st2.accounts[a] = change.info
                           /\ a \in DOMAIN st2.storage_tries
                           /\ \A i \in Slots : st2.storage_tries[a][i] =
                                IF i \in DOMAIN change.writes THEN change.writes[i]
                                ELSE Older(st, a, change, i)
      /\ \A b \in Address : b # a =>
           /\ b \in DOMAIN st2.accounts <=> b \in DOMAIN st.accounts
           /\ b \in DOMAIN st.accounts => st2.accounts[b] = st.accounts[b]
           /\ b \in DOMAIN st2.storage_tries <=> b \in DOMAIN st.storage_tries
           /\ b \in DOMAIN st.storage_tries => st2.storage_tries[b] = st.storage_tries[b]
  BY <1>1, Committed
<1>3. pl2[a] = Applied(pl[a], change) /\ \A b \in Address : b # a => pl2[b] = pl[b]
  BY <1>1
<1>4. ASSUME NEW b \in Address, b # a
      PROVE  InfoIn(st2, b) = Info(pl2[b]) /\ \A i \in Slots : SlotIn(st2, b, i) = pl2[b].storage[i]
  <2>1. InfoIn(st2, b) = InfoIn(st, b)
    BY <1>2, <1>4 DEF InfoIn
  <2>2. ASSUME NEW i \in Slots
        PROVE  SlotIn(st2, b, i) = SlotIn(st, b, i)
    <3>1. ValueIn(st2, b, i) = ValueIn(st, b, i)
      BY <1>2, <1>4 DEF ValueIn
    <3>2. <<b, i>> \in st2.removed_storage_slots <=> <<b, i>> \in st.removed_storage_slots
      BY <1>2, <1>4, MarkedSlots
    <3> QED
      BY <3>1, <3>2 DEF SlotIn
  <2> QED
    BY <2>1, <2>2, <1>3, <1>4 DEF Shows
<1>5. Zeros \in Storage /\ \A i \in Slots : Zeros[i] = 0
  BY ForkStateAssumption DEF Zeros, Storage
<1>6. InfoIn(st2, a) = Info(pl2[a])
  <2>1. CASE Gone(change)
    <3>1. Started(a) = Nothing
      BY <2>1 DEF Allowed, Started
    <3>2. Applied(pl[a], change) = Nothing
      BY <2>1 DEF Applied, Gone
    <3> QED
      BY <1>2, <1>3, <2>1, <3>1, <3>2 DEF InfoIn
  <2>2. CASE ~ Gone(change)
    <3>1. InfoIn(st2, a) = change.info
      BY <1>2, <2>2 DEF InfoIn
    <3>2. change.info \in AccountInfo
      BY <1>1 DEF Changes
    <3>3. change.info = [balance |-> change.info.balance, nonce |-> change.info.nonce,
                         code |-> change.info.code]
      BY <3>2 DEF AccountInfo
    <3>4. /\ Applied(pl[a], change).balance = change.info.balance
          /\ Applied(pl[a], change).nonce = change.info.nonce
          /\ Applied(pl[a], change).code = change.info.code
      BY <2>2 DEF Applied, Gone
    <3> QED
      BY <1>3, <3>1, <3>3, <3>4 DEF Info
  <2> QED
    BY <2>1, <2>2
<1>7. ASSUME NEW i \in Slots
      PROVE  SlotIn(st2, a, i) = pl2[a].storage[i]
  <2>1. CASE Gone(change)
    <3>1. Started(a) = Nothing /\ Applied(pl[a], change) = Nothing
      BY <2>1 DEF Allowed, Started, Applied, Gone
    <3>2. Nothing.storage[i] = 0
      BY <1>5 DEF Nothing
    <3>3. ValueIn(st2, a, i) = 0
      BY <1>2, <2>1 DEF ValueIn
    <3> QED
      BY <1>3, <3>1, <3>2, <3>3 DEF SlotIn
  <2>2. CASE ~ Gone(change)
    <3>1. Applied(pl[a], change).storage[i] =
            IF i \in DOMAIN change.writes THEN change.writes[i]
            ELSE IF change.created THEN 0 ELSE pl[a].storage[i]
      BY <2>2 DEF Applied, Gone
    <3>2. ValueIn(st2, a, i) = IF i \in DOMAIN change.writes THEN change.writes[i]
                               ELSE Older(st, a, change, i)
      BY <1>2, <2>2 DEF ValueIn
    <3>3. CASE i \in DOMAIN change.writes
      <4>1. change.writes[i] = 0 => <<a, i>> \in st2.removed_storage_slots
        <5>1. st2.removed_storage_slots = CommitSlots(st, a, change)
          BY <1>2
        <5> QED
          BY <5>1, <3>3, MarkedSlots, Zenon
      <4>2. ValueIn(st2, a, i) = change.writes[i]
        BY <3>2, <3>3
      <4> QED
        BY <1>3, <3>1, <3>3, <4>1, <4>2 DEF SlotIn
    <3>4. CASE i \notin DOMAIN change.writes /\ change.created
      <4>1. ValueIn(st2, a, i) = 0
        BY <3>2, <3>4 DEF Older
      <4>2. Started(a).storage[i] = 0
        BY <3>4, <1>5 DEF Allowed
      <4> QED
        BY <1>3, <3>1, <3>4, <4>1, <4>2 DEF SlotIn
    <3>5. CASE i \notin DOMAIN change.writes /\ ~ change.created
      <4>1. ValueIn(st2, a, i) = ValueIn(st, a, i)
        BY <3>2, <3>5 DEF Older
      <4>2. <<a, i>> \in st2.removed_storage_slots <=> <<a, i>> \in st.removed_storage_slots
        BY <1>2, <3>5, MarkedSlots
      <4>3. SlotIn(st2, a, i) = SlotIn(st, a, i)
        BY <4>1, <4>2 DEF SlotIn
      <4>4. SlotIn(st, a, i) = pl[a].storage[i]
        BY DEF Shows
      <4> QED
        BY <1>3, <3>1, <3>5, <4>3, <4>4
    <3> QED
      BY <3>3, <3>4, <3>5
  <2> QED
    BY <2>1, <2>2
<1>8. ASSUME NEW b \in Address
      PROVE  InfoIn(st2, b) = Info(pl2[b]) /\ \A i \in Slots : SlotIn(st2, b, i) = pl2[b].storage[i]
  BY <1>4, <1>6, <1>7
<1> QED
  BY <1>2, <1>8 DEF Shows

(* One element more or less of a finite set. *)
LEMMA Resized ==
  ASSUME NEW U, IsFiniteSet(U), NEW U2, NEW a, U \ {a} = U2 \ {a}
  PROVE  /\ Cardinality(U) \in Nat /\ Cardinality(U2) \in Nat
         /\ a \notin U2 => Cardinality(U2) <= Cardinality(U)
         /\ a \in U /\ a \notin U2 => Cardinality(U2) = Cardinality(U) - 1
         /\ a \in U => Cardinality(U2) <= Cardinality(U)
         /\ Cardinality(U2) <= Cardinality(U) + 1
<1> DEFINE V == U \ {a}
<1>1. IsFiniteSet(V) /\ Cardinality(V) \in Nat /\ Cardinality(U) \in Nat
      /\ Cardinality(V) = IF a \in U THEN Cardinality(U) - 1 ELSE Cardinality(U)
  BY FS_RemoveElement, FS_CardinalityType
<1>2. IsFiniteSet(V \cup {a}) /\ Cardinality(V \cup {a}) = Cardinality(V) + 1
  BY <1>1, FS_AddElement
<1>3. CASE a \in U2
  <2>1. U2 = V \cup {a}
    BY <1>3
  <2> QED
    BY <1>1, <1>2, <2>1, <1>3
<1>4. CASE a \notin U2
  <2>1. U2 = V
    BY <1>4
  <2> QED
    BY <1>1, <2>1
<1> QED
  BY <1>3, <1>4

(* ... and change by one, for the code that is added or removed. *)
LEMMA CodeCounts ==
  ASSUME NEW counts \in [Codes -> Nat], NEW c \in Codes \cup {NoCode}, NEW code \in Codes
  PROVE  /\ counts[code] \in Nat
         /\ insert_code(counts, c)[code] = IF c = code THEN counts[code] + 1 ELSE counts[code]
         /\ remove_code(counts, c)[code] =
              IF c = code /\ counts[code] # 0 THEN counts[code] - 1 ELSE counts[code]
BY ForkStateAssumption DEF insert_code, remove_code

(* A commit keeps the count of a code above the number of its users. *)
LEMMA CommitCounts ==
  ASSUME NEW st, StateOK(st), NEW pl, PlainOK(pl), Shows(st, pl), NEW a \in Address,
         NEW change, Allowed(pl, a, change), NEW st2, st2 = commit(st, a, change),
         NEW code \in Codes, Counted(st, code)
  PROVE  Counted(st2, code)
<1>1. change \in Changes /\ change.loaded
  BY DEF Allowed
<1>2. /\ StateOK(st2)
      /\ st2.contracts = CommitCode(st, a, change)
      /\ Gone(change) => a \notin DOMAIN st2.accounts
      /\ ~ Gone(change) => a \in DOMAIN st2.accounts /\ st2.accounts[a] = change.info
      /\ \A b \in Address : b # a =>
           /\ b \in DOMAIN st2.accounts <=> b \in DOMAIN st.accounts
           /\ b \in DOMAIN st.accounts => st2.accounts[b] = st.accounts[b]
  BY <1>1, Committed
<1> DEFINE U == Users(st, code)
           U2 == Users(st2, code)
<1>3. U \ {a} = U2 \ {a}
  BY <1>2 DEF Users, StateOK
<1>4. IsFiniteSet(U)
  BY FS_Subset DEF StateOK, Users
<1>5. /\ Gone(change) => a \notin U2
      /\ ~ Gone(change) => (a \in U2 <=> change.info.code = code)
  BY <1>2 DEF Users
<1>6. PICK o : o = (IF a \in DOMAIN st.accounts THEN st.accounts[a].code ELSE NoCode)
  OBVIOUS
<1>7. PICK n, c : n = st.contracts /\ c = change.info.code
  OBVIOUS
<1>8. /\ n \in [Codes -> Nat] /\ o \in Codes \cup {NoCode} /\ c \in Codes \cup {NoCode}
      /\ a \in U <=> o = code
  BY <1>1, <1>6, <1>7, ForkStateAssumption DEF StateOK, Changes, AccountInfo, Users
<1>9. CommitCode(st, a, change) =
        IF change.destroyed THEN remove_code(n, c)
        ELSE IF Gone(change) \/ o = c THEN n
        ELSE remove_code(insert_code(n, c), o)
  BY <1>1, <1>6, <1>7 DEF CommitCode, Gone
<1>10. n[code] \in Nat /\ Cardinality(U) <= n[code]
  BY <1>7, <1>8 DEF Counted
<1> HIDE DEF U, U2
<1>11. /\ Cardinality(U) \in Nat /\ Cardinality(U2) \in Nat
       /\ a \notin U2 => Cardinality(U2) <= Cardinality(U)
       /\ a \in U /\ a \notin U2 => Cardinality(U2) = Cardinality(U) - 1
       /\ a \in U => Cardinality(U2) <= Cardinality(U)
       /\ Cardinality(U2) <= Cardinality(U) + 1
  BY <1>3, <1>4, Resized
<1>12. Cardinality(U2) <= CommitCode(st, a, change)[code]
  <2>1. CASE change.destroyed
    <3>1. CommitCode(st, a, change)[code] = IF c = code /\ n[code] # 0 THEN n[code] - 1 ELSE n[code]
      BY <1>8, <1>9, <2>1, CodeCounts
    <3>2. a \notin U2 /\ Gone(change)
      BY <2>1, <1>5 DEF Gone
    <3>3. CASE c # code
      BY <3>1, <3>2, <3>3, <1>10, <1>11
    <3>4. CASE c = code /\ pl[a].code = c
      <4>1. pl[a] \in Account
        BY DEF PlainOK
      <4>2. InfoIn(st, a).code = code
        BY <4>1, <3>4, InfoType DEF Shows
      <4>3. Started(a) = Nothing
        BY <3>2 DEF Allowed, Started
      <4>4. a \in DOMAIN st.accounts
        BY <4>2, <4>3, ForkStateAssumption DEF InfoIn, Info, Nothing
      <4>5. a \in U
        BY <4>2, <4>4, <1>6, <1>8 DEF InfoIn
      <4> QED
        BY <4>5, <3>1, <3>2, <1>10, <1>11
    <3>5. CASE c = code /\ \A b \in Address : pl[b].code # c
      <4>1. ASSUME NEW b \in U
            PROVE  FALSE
        <5>1. b \in Address /\ b \in DOMAIN st.accounts /\ st.accounts[b].code = code
          BY <4>1 DEF U, Users, StateOK
        <5>2. pl[b] \in Account
          BY <5>1 DEF PlainOK
        <5>3. Info(pl[b]).code = pl[b].code
          BY <5>2, InfoType
        <5>4. InfoIn(st, b) = Info(pl[b]) /\ InfoIn(st, b) = st.accounts[b]
          BY <5>1 DEF Shows, InfoIn
        <5> QED
          BY <5>1, <5>3, <5>4, <3>5
      <4>2. U2 = {}
        BY <4>1, <3>2, <1>3
      <4>3. Cardinality(U2) = 0
        BY <4>2, FS_EmptySet
      <4> QED
        BY <4>3, <3>1, <1>10
    <3> QED
      BY <3>3, <3>4, <3>5, <2>1, <1>7 DEF Allowed
  <2>2. CASE ~ change.destroyed /\ Gone(change)
    BY <2>2, <1>5, <1>9, <1>10, <1>11
  <2>3. CASE ~ Gone(change) /\ o = c
    <3>1. a \in U2 <=> a \in U
      BY <2>3, <1>5, <1>7, <1>8
    <3>2. CommitCode(st, a, change) = n
      BY <2>3, <1>9 DEF Gone
    <3> QED
      BY <3>1, <3>2, <1>10, <1>11
  <2>4. CASE ~ Gone(change) /\ o # c
    <3>1. CommitCode(st, a, change) = remove_code(insert_code(n, c), o)
      BY <2>4, <1>9 DEF Gone
    <3>2. PICK k : k = insert_code(n, c) /\ k \in [Codes -> Nat]
      BY <1>8, CodeTypes
    <3>3. k[code] = IF c = code THEN n[code] + 1 ELSE n[code]
      BY <3>2, <1>8, CodeCounts
    <3>4. CommitCode(st, a, change)[code] = IF o = code /\ k[code] # 0 THEN k[code] - 1 ELSE k[code]
      BY <3>1, <3>2, <1>8, CodeCounts
    <3>5. a \in U2 <=> c = code
      BY <2>4, <1>5, <1>7
    <3> QED
      BY <2>4, <3>3, <3>4, <3>5, <1>8, <1>10, <1>11
  <2> QED
    BY <2>1, <2>2, <2>3, <2>4 DEF Gone
<1> QED
  BY <1>2, <1>12 DEF Counted, U2

-----------------------------------------------------------------------------
(* The state that is kept, and the one that the diffs give. *)

Exact(st, pl) == StateOK(st) /\ Shows(st, pl) /\ \A code \in Codes : Counted(st, code)

(* f runs through the diffs of l. *)
RunOf(f, l) ==
  /\ f[0] = EmptyState
  /\ \A n \in 1 .. Len(l) : f[n] = commit(f[n - 1], l[n][1], l[n][2])

Rebuilds(l, pl) ==
  l # None => /\ l \in Seq(Address \X Changes) /\ Len(l) <= MaxChanges
              /\ \A f : RunOf(f, l) => Exact(f[Len(l)], pl)

(* What is cached is the state of the fork, and its code is cached with it. *)
CacheOK(cached, codes) ==
  \A a \in DOMAIN cached :
    /\ a \in Address
    /\ cached[a].info = Info(Started(a))
    /\ \A i \in DOMAIN cached[a].storage : cached[a].storage[i] = Started(a).storage[i]
    /\ Started(a).code # NoCode => Started(a).code \in codes

(* A code that is counted too low has been fetched. *)
Covered(st, codes) == \A code \in Codes : Counted(st, code) \/ code \in codes

Overlay(st, pl, cached, codes, l) ==
  /\ PlainOK(pl)
  /\ StateOK(st) /\ Shows(st, pl) /\ Covered(st, codes)
  /\ CacheOK(cached, codes)
  /\ Rebuilds(l, pl)

OverlayInv ==
  /\ block_number \in 0 .. MaxChanges
  /\ Overlay(State, plain, account_cache, code_cache, log)

-----------------------------------------------------------------------------
(* Reading, when the remote node stays where it is. *)

(* RemoteState::basic and RemoteState::storage return what was there at the
   fork; an empty account is reported as none. *)
LEMMA RemoteNow ==
  ASSUME RemoteSettled, block_number \in 0 .. MaxChanges, NEW a \in Address
  PROVE  /\ Remote[block_number][a] = Remote[0][a]
         /\ RemoteBasic(a) = None => Info(Started(a)) = Info(Nothing)
         /\ RemoteBasic(a) # None => RemoteBasic(a) = Info(Started(a))
         /\ \A i \in Slots : RemoteStorage(a, i) = Started(a).storage[i]
<1>1. Remote[block_number] = Remote[0]
  BY DEF RemoteSettled
<1>2. Remote[block_number][a] = Remote[0][a]
  BY <1>1
<1>3. Remote[0][a] \in {None} \cup Account
  <2>1. 0 \in 0 .. MaxChanges
    BY ForkStateAssumption
  <2> QED
    BY <2>1, ForkStateAssumption
<1>4. CASE Remote[0][a] = None
  <2>1. RemoteBasic(a) = None /\ Started(a) = Nothing
    BY <1>2, <1>4 DEF RemoteBasic, Started
  <2>2. \A i \in Slots : RemoteStorage(a, i) = 0 /\ Nothing.storage[i] = 0
    BY <1>2, <1>4 DEF RemoteStorage, Nothing, Zeros
  <2> QED
    BY <2>1, <2>2, <1>2
<1>5. CASE Remote[0][a] # None
  <2>1. Started(a) = Remote[0][a]
    BY <1>5 DEF Started
  <2>2. \A i \in Slots : RemoteStorage(a, i) = Started(a).storage[i]
    BY <1>2, <1>5, <2>1 DEF RemoteStorage
  <2>3. CASE is_empty(Remote[0][a])
    <3>1. Info(Started(a)) = Info(Nothing)
      BY <2>1, <2>3, EmptyInfo
    <3>2. RemoteBasic(a) = None
      BY <1>2, <2>3 DEF RemoteBasic
    <3> QED
      BY <3>1, <3>2, <2>2, <1>2
  <2>4. CASE ~ is_empty(Remote[0][a])
    <3>1. RemoteBasic(a) = Info(Started(a))
      BY <1>2, <1>5, <2>1, <2>4 DEF RemoteBasic
    <3>2. Info(Started(a)) # None
      BY StartedType, InfoType, ForkStateAssumption
    <3> QED
      BY <3>1, <3>2, <2>2, <1>2
  <2> QED
    BY <2>3, <2>4
<1> QED
  BY <1>4, <1>5

(* What the caches give is the state of the fork. *)
LEMMA CachedNow ==
  ASSUME RemoteSettled, block_number \in 0 .. MaxChanges, NEW a \in Address,
         CacheOK(account_cache, code_cache)
  PROVE  /\ basic_mut(a) = None => Info(Started(a)) = Info(Nothing)
         /\ basic_mut(a) # None => basic_mut(a) = Info(Started(a))
         /\ \A i \in Slots : storage_mut(a, i) = Started(a).storage[i]
         /\ \A i : a \in DOMAIN account_cache /\ i \in DOMAIN account_cache[a].storage
                     => storage_mut(a, i) = Started(a).storage[i]
<1>1. Info(Started(a)) # None
  BY StartedType, InfoType, ForkStateAssumption
<1>2. /\ RemoteBasic(a) = None => Info(Started(a)) = Info(Nothing)
      /\ RemoteBasic(a) # None => RemoteBasic(a) = Info(Started(a))
      /\ \A i \in Slots : RemoteStorage(a, i) = Started(a).storage[i]
  BY RemoteNow
<1>3. a \in DOMAIN account_cache =>
        /\ account_cache[a].info = Info(Started(a))
        /\ \A i \in DOMAIN account_cache[a].storage :
             account_cache[a].storage[i] = Started(a).storage[i]
  BY DEF CacheOK
<1>4. basic_mut(a) = IF a \in DOMAIN account_cache THEN account_cache[a].info ELSE RemoteBasic(a)
  BY DEF basic_mut
<1>5. \A i : storage_mut(a, i) =
        IF a \in DOMAIN account_cache /\ i \in DOMAIN account_cache[a].storage
        THEN account_cache[a].storage[i] ELSE RemoteStorage(a, i)
  BY DEF storage_mut
<1>6. /\ basic_mut(a) = None => Info(Started(a)) = Info(Nothing)
      /\ basic_mut(a) # None => basic_mut(a) = Info(Started(a))
  BY <1>1, <1>2, <1>3, <1>4
<1>7. /\ \A i \in Slots : storage_mut(a, i) = Started(a).storage[i]
      /\ \A i : a \in DOMAIN account_cache /\ i \in DOMAIN account_cache[a].storage
                  => storage_mut(a, i) = Started(a).storage[i]
  BY <1>2, <1>3, <1>5
<1> QED
  BY <1>6, <1>7

(* A read shows what the local state shows over the state of the fork. *)
LEMMA ReadNow ==
  ASSUME RemoteSettled, OverlayInv, NEW a \in Address
  PROVE  /\ View(a) = InfoIn(State, a) /\ View(a) = Info(plain[a])
         /\ \A i \in Slots : storage(a, i) = plain[a].storage[i]
<1>1. /\ block_number \in 0 .. MaxChanges /\ StateOK(State) /\ Shows(State, plain)
      /\ CacheOK(account_cache, code_cache)
  BY DEF OverlayInv, Overlay
<1>2. /\ basic_mut(a) = None => Info(Started(a)) = Info(Nothing)
      /\ basic_mut(a) # None => basic_mut(a) = Info(Started(a))
      /\ \A i \in Slots : storage_mut(a, i) = Started(a).storage[i]
  BY <1>1, CachedNow
<1>3. /\ State.accounts = accounts /\ State.storage_tries = storage_tries
      /\ State.removed_storage_slots = removed_storage_slots
  BY DEF State
<1>4. View(a) = InfoIn(State, a)
  <2>1. CASE a \in DOMAIN accounts
    <3>1. accounts[a] \in AccountInfo
      BY <1>1, <1>3, <2>1 DEF StateOK
    <3>2. basic(a) = accounts[a] /\ basic(a) # None
      BY <3>1, <2>1, ForkStateAssumption DEF basic
    <3> QED
      BY <3>2, <1>3, <2>1 DEF View, InfoIn
  <2>2. CASE a \notin DOMAIN accounts
    <3>1. basic(a) = basic_mut(a) /\ InfoIn(State, a) = Info(Started(a))
      BY <2>2, <1>3 DEF basic, InfoIn
    <3> QED
      BY <3>1, <1>2 DEF View
  <2> QED
    BY <2>1, <2>2
<1>5. ASSUME NEW i \in Slots
      PROVE  storage(a, i) = SlotIn(State, a, i)
  <2>1. ValueIn(State, a, i) = IF a \in DOMAIN storage_tries THEN storage_tries[a][i] ELSE 0
    BY <1>3 DEF ValueIn
  <2>2. storage_mut(a, i) = Started(a).storage[i]
    BY <1>2
  <2> QED
    BY <2>1, <2>2, <1>3 DEF storage, SlotIn
<1> QED
  BY <1>1, <1>4, <1>5 DEF Shows

(* An account that is not in the local state has its code fetched. *)
LEMMA FetchedCode ==
  ASSUME RemoteSettled, block_number \in 0 .. MaxChanges, NEW a \in Address, NEW slots,
         CacheOK(account_cache, code_cache)
  PROVE  /\ code_cache \subseteq CodesAfter(a, slots)
         /\ a \notin DOMAIN accounts \/ a \in DOMAIN AccountsAfter(a, slots) =>
              (Started(a).code # NoCode => Started(a).code \in CodesAfter(a, slots))
<1>1. code_cache \subseteq CodesAfter(a, slots)
  BY DEF CodesAfter
<1>2. CASE a \in DOMAIN account_cache
  BY <1>1, <1>2 DEF CacheOK
<1>3. CASE a \notin DOMAIN account_cache /\ a \in DOMAIN accounts /\ RemoteSlots(a, slots) = {}
  <2>1. AccountsAfter(a, slots) = account_cache
    BY <1>3 DEF AccountsAfter
  <2> QED
    BY <2>1, <1>1, <1>3
<1>4. CASE a \notin DOMAIN account_cache /\ (a \notin DOMAIN accounts \/ RemoteSlots(a, slots) # {})
  <2>1. /\ RemoteBasic(a) = None => Info(Started(a)) = Info(Nothing)
        /\ RemoteBasic(a) # None => RemoteBasic(a) = Info(Started(a))
    BY RemoteNow
  <2>2. Info(Started(a)).code = Started(a).code
    BY StartedType, InfoType
  <2>3. CASE RemoteBasic(a) = None
    <3>1. Started(a).code = NoCode
      BY <2>1, <2>2, <2>3 DEF Info, Nothing
    <3> QED
      BY <3>1, <1>1
  <2>4. CASE RemoteBasic(a) # None
    <3>1. RemoteBasic(a).code = Started(a).code
      BY <2>1, <2>2, <2>4
    <3>2. CodesAfter(a, slots) = code_cache \cup ({RemoteBasic(a).code} \ {NoCode})
      BY <1>4, <2>4 DEF CodesAfter
    <3> QED
      BY <3>1, <3>2, <1>1
  <2> QED
    BY <2>3, <2>4
<1> QED
  BY <1>2, <1>3, <1>4

(* Reading keeps the caches true to the state of the fork. *)
LEMMA LoadKeeps ==
  ASSUME RemoteSettled, block_number \in 0 .. MaxChanges, NEW a \in Address,
         NEW slots \in SUBSET Slots, CacheOK(account_cache, code_cache)
  PROVE  CacheOK(AccountsAfter(a, slots), CodesAfter(a, slots))
<1> DEFINE read == RemoteSlots(a, slots)
           old == IF a \in DOMAIN account_cache THEN account_cache[a].storage ELSE [i \in {} |-> 0]
           info == basic_mut(a)
           entry == [info    |-> IF info = None THEN Info(Nothing) ELSE info,
                     storage |-> [i \in DOMAIN old \cup read |-> storage_mut(a, i)]]
<1>1. code_cache \subseteq CodesAfter(a, slots)
  BY FetchedCode
<1>2. CacheOK(account_cache, CodesAfter(a, slots))
  BY <1>1 DEF CacheOK
<1>3. CASE AccountsAfter(a, slots) = account_cache
  BY <1>2, <1>3
<1>4. CASE AccountsAfter(a, slots) = Put(account_cache, a, entry)
  <2>1. /\ info = None => Info(Started(a)) = Info(Nothing)
        /\ info # None => info = Info(Started(a))
        /\ \A i \in Slots : storage_mut(a, i) = Started(a).storage[i]
        /\ \A i : a \in DOMAIN account_cache /\ i \in DOMAIN account_cache[a].storage
                    => storage_mut(a, i) = Started(a).storage[i]
    BY CachedNow
  <2>2. entry.info = Info(Started(a))
    BY <2>1
  <2>3. \A i \in DOMAIN entry.storage : entry.storage[i] = Started(a).storage[i]
    <3>1. read \subseteq Slots
      BY DEF RemoteSlots
    <3>2. \A i \in DOMAIN old : storage_mut(a, i) = Started(a).storage[i]
      BY <2>1
    <3>3. entry.storage = [i \in DOMAIN old \cup read |-> storage_mut(a, i)]
      OBVIOUS
    <3> HIDE DEF read, old, entry
    <3> QED
      BY <3>1, <3>2, <3>3, <2>1
  <2> HIDE DEF entry
  <2>4. PICK g : g = AccountsAfter(a, slots)
    OBVIOUS
  <2>5. /\ DOMAIN g = DOMAIN account_cache \cup {a} /\ g[a] = entry
        /\ \A b \in DOMAIN account_cache : b # a => g[b] = account_cache[b]
    BY <2>4, <1>4 DEF Put
  <2>6. Started(a).code # NoCode => Started(a).code \in CodesAfter(a, slots)
    BY <2>4, <2>5, FetchedCode
  <2>7. CacheOK(g, CodesAfter(a, slots))
    BY <1>2, <2>2, <2>3, <2>5, <2>6 DEF CacheOK
  <2> QED
    BY <2>4, <2>7
<1> QED
  BY <1>3, <1>4 DEF AccountsAfter

-----------------------------------------------------------------------------
(* What a step does, as a relation of the state before and after. *)

(* A commit leaves a local state that shows the changed accounts and covers
   their codes. *)
LEMMA ExactNext ==
  ASSUME NEW st, NEW pl, PlainOK(pl), Exact(st, pl), NEW a \in Address,
         NEW change, Allowed(pl, a, change), NEW st2, st2 = commit(st, a, change),
         NEW pl2, pl2 = [pl EXCEPT ![a] = Applied(pl[a], change)]
  PROVE  Exact(st2, pl2)
<1>1. StateOK(st) /\ Shows(st, pl)
  BY DEF Exact
<1>2. StateOK(st2) /\ Shows(st2, pl2)
  BY <1>1, CommitShows
<1>3. ASSUME NEW code \in Codes
      PROVE  Counted(st2, code)
  <2>1. Counted(st, code)
    BY DEF Exact
  <2> QED
    BY <1>1, <2>1, CommitCounts
<1> QED
  BY <1>2, <1>3 DEF Exact

(* One more diff. *)
Logged(l, a, change, l2) ==
  /\ l # None => Len(l) < MaxChanges
  /\ l2 = IF l = None THEN None ELSE Append(l, <<a, change>>)

(* The diff that is recorded with a commit takes the rebuilt state there as
   well. *)
LEMMA RebuildsNext ==
  ASSUME NEW l, NEW pl, PlainOK(pl), Rebuilds(l, pl), NEW a \in Address,
         NEW change, Allowed(pl, a, change),
         NEW l2, Logged(l, a, change, l2),
         NEW pl2, pl2 = [pl EXCEPT ![a] = Applied(pl[a], change)]
  PROVE  Rebuilds(l2, pl2)
<1> SUFFICES ASSUME l2 # None
             PROVE  /\ l2 \in Seq(Address \X Changes) /\ Len(l2) <= MaxChanges
                    /\ \A f : RunOf(f, l2) => Exact(f[Len(l2)], pl2)
  BY DEF Rebuilds
<1>1. l # None /\ l2 = Append(l, <<a, change>>) /\ Len(l) < MaxChanges
  BY DEF Logged
<1>2. l \in Seq(Address \X Changes) /\ Len(l) < MaxChanges /\ MaxChanges \in Nat
  BY <1>1, ForkStateAssumption DEF Rebuilds
<1>3. PICK last : last = <<a, change>>
  OBVIOUS
<1>4. last \in Address \X Changes /\ last[1] = a /\ last[2] = change
  BY <1>3 DEF Allowed
<1>5. PICK k : k = Len(l) /\ k \in Nat
  BY <1>2
<1>6. /\ l2 \in Seq(Address \X Changes) /\ Len(l2) = k + 1 /\ l2[k + 1] = last
      /\ \A n \in 1 .. k : l2[n] = l[n]
  BY <1>1, <1>2, <1>3, <1>4, <1>5
<1>7. ASSUME NEW f, RunOf(f, l2)
      PROVE  Exact(f[k + 1], pl2)
  <2>1. f[0] = EmptyState /\ \A n \in 1 .. k + 1 : f[n] = commit(f[n - 1], l2[n][1], l2[n][2])
    BY <1>6, <1>7 DEF RunOf
  <2>2. \A n \in 1 .. k : f[n] = commit(f[n - 1], l[n][1], l[n][2])
    BY <2>1, <1>5, <1>6
  <2>3. RunOf(f, l)
    BY <2>1, <2>2, <1>5 DEF RunOf
  <2>4. Exact(f[k], pl)
    BY <2>3, <1>1, <1>5 DEF Rebuilds
  <2>5. k + 1 \in 1 .. k + 1 /\ (k + 1) - 1 = k
    BY <1>5
  <2>6. f[k + 1] = commit(f[k], l2[k + 1][1], l2[k + 1][2])
    BY <2>1, <2>5
  <2>7. f[k + 1] = commit(f[k], a, change)
    BY <2>6, <1>6, <1>4
  <2>8. PICK st, st2 : st = f[k] /\ st2 = f[k + 1]
    OBVIOUS
  <2>9. Exact(st, pl) /\ st2 = commit(st, a, change)
    BY <2>4, <2>7, <2>8
  <2>10. Exact(st2, pl2)
    BY <2>9, ExactNext
  <2> QED
    BY <2>8, <2>10
<1>8. Len(l2) <= MaxChanges
  BY <1>2, <1>5, <1>6
<1>9. \A f : RunOf(f, l2) => Exact(f[Len(l2)], pl2)
  BY <1>6, <1>7, Zenon
<1> QED
  BY <1>6, <1>8, <1>9

(* A commit, with what it reads. *)
Made(st, pl, l, a, change, st2, pl2, l2) ==
  /\ Allowed(pl, a, change)
  /\ st2 = commit(st, a, change)
  /\ pl2 = [pl EXCEPT ![a] = Applied(pl[a], change)]
  /\ Logged(l, a, change, l2)

Loaded(codes, cached2, codes2) == CacheOK(cached2, codes2) /\ codes \subseteq codes2

(* A recorded commit keeps the invariant. *)
LEMMA CommitKeeps ==
  ASSUME NEW st, NEW pl, NEW cached, NEW codes, NEW l, Overlay(st, pl, cached, codes, l),
         NEW a \in Address, NEW change, NEW st2, NEW pl2, NEW l2,
         Made(st, pl, l, a, change, st2, pl2, l2),
         NEW cached2, NEW codes2, Loaded(codes, cached2, codes2)
  PROVE  Overlay(st2, pl2, cached2, codes2, l2)
<1> USE DEF Made, Loaded
<1>1. /\ PlainOK(pl) /\ StateOK(st) /\ Shows(st, pl) /\ Covered(st, codes) /\ Rebuilds(l, pl)
  BY DEF Overlay
<1>2. PlainOK(pl2)
  BY <1>1, AppliedPlain
<1>3. StateOK(st2) /\ Shows(st2, pl2)
  BY <1>1, CommitShows
<1>4. Covered(st2, codes2)
  <2>1. ASSUME NEW code \in Codes, code \notin codes2
        PROVE  Counted(st2, code)
    <3>1. Counted(st, code)
      BY <1>1, <2>1 DEF Covered
    <3> QED
      BY <3>1, <1>1, CommitCounts
  <2> QED
    BY <2>1 DEF Covered
<1>5. Rebuilds(l2, pl2)
  BY <1>1, RebuildsNext
<1> QED
  BY <1>2, <1>3, <1>4, <1>5 DEF Overlay

(* An account is set in the local state, with its code counted if it changes. *)
LEMMA PutKeeps ==
  ASSUME NEW st, NEW pl, PlainOK(pl), StateOK(st), Shows(st, pl),
         NEW codes, Covered(st, codes), NEW codes2, codes \subseteq codes2,
         NEW a \in Address, NEW info \in AccountInfo,
         a \notin DOMAIN st.accounts => (pl[a].code # NoCode => pl[a].code \in codes2),
         NEW pl2 \in [Address -> Account], Info(pl2[a]) = info, pl2[a].nonce = pl[a].nonce,
         \A b \in Address : b # a => pl2[b] = pl[b],
         NEW st2, st2.accounts = Put(st.accounts, a, info),
         st2.contracts = IF info.code = pl[a].code THEN st.contracts
                         ELSE remove_code(insert_code(st.contracts, info.code), pl[a].code),
         \A b \in DOMAIN st2.storage_tries : st2.storage_tries[b] \in Storage,
         \A b \in Address : \A i \in Slots : SlotIn(st2, b, i) = pl2[b].storage[i]
  PROVE  PlainOK(pl2) /\ StateOK(st2) /\ Shows(st2, pl2) /\ Covered(st2, codes2)
<1>1. PlainOK(pl2)
  BY DEF PlainOK
<1>2. /\ DOMAIN st2.accounts = DOMAIN st.accounts \cup {a} /\ st2.accounts[a] = info
      /\ \A b \in DOMAIN st.accounts : b # a => st2.accounts[b] = st.accounts[b]
  <2>1. PICK f : f = st.accounts
    OBVIOUS
  <2>2. st2.accounts = Put(f, a, info)
    BY <2>1
  <2>3. /\ DOMAIN Put(f, a, info) = DOMAIN f \cup {a} /\ Put(f, a, info)[a] = info
        /\ \A b \in DOMAIN f : b # a => Put(f, a, info)[b] = f[b]
    BY DEF Put
  <2> QED
    BY <2>1, <2>2, <2>3
<1>3. PICK n, c, o : n = st.contracts /\ c = info.code /\ o = pl[a].code
  OBVIOUS
<1>4. n \in [Codes -> Nat] /\ c \in Codes \cup {NoCode} /\ o \in Codes \cup {NoCode}
  BY <1>3 DEF StateOK, AccountInfo, PlainOK, Account
<1>5. PICK k : k = insert_code(n, c) /\ k \in [Codes -> Nat]
  BY <1>4, CodeTypes
<1>6. st2.contracts = IF c = o THEN n ELSE remove_code(k, o)
  BY <1>3, <1>5
<1>7. st2.contracts \in [Codes -> Nat]
  BY <1>4, <1>5, <1>6, CodeTypes
<1>8. StateOK(st2)
  <2>1. IsFiniteSet(DOMAIN st.accounts \cup {a})
    BY FS_AddElement DEF StateOK
  <2> QED
    BY <2>1, <1>2, <1>7 DEF StateOK
<1>9. Shows(st2, pl2)
  <2>1. ASSUME NEW b \in Address
        PROVE  InfoIn(st2, b) = Info(pl2[b])
    <3>1. CASE b = a
      BY <3>1, <1>2 DEF InfoIn
    <3>2. CASE b # a
      <4>1. InfoIn(st2, b) = InfoIn(st, b)
        BY <3>2, <1>2 DEF InfoIn
      <4> QED
        BY <4>1, <3>2 DEF Shows
    <3> QED
      BY <3>1, <3>2
  <2> QED
    BY <2>1 DEF Shows
<1>10. ASSUME NEW code \in Codes, code \notin codes2
       PROVE  Counted(st2, code)
  <2>1. Counted(st, code)
    BY <1>10 DEF Covered
  <2> DEFINE U == Users(st, code)
             U2 == Users(st2, code)
  <2>2. U \ {a} = U2 \ {a}
    BY <1>2 DEF Users
  <2>3. IsFiniteSet(U)
    BY FS_Subset DEF StateOK, Users
  <2>4. a \in U2 <=> c = code
    BY <1>2, <1>3 DEF Users
  <2>5. o = code => a \in U
    <3> SUFFICES ASSUME o = code PROVE a \in U
      OBVIOUS
    <3>1. a \in DOMAIN st.accounts
      BY <1>3, <1>10, ForkStateAssumption
    <3>2. pl[a] \in Account
      BY DEF PlainOK
    <3>3. Info(pl[a]).code = pl[a].code
      BY <3>2, InfoType
    <3>4. st.accounts[a] = Info(pl[a])
      BY <3>1 DEF Shows, InfoIn
    <3> QED
      BY <3>1, <3>3, <3>4, <1>3 DEF Users
  <2>6. n[code] \in Nat /\ Cardinality(U) <= n[code]
    BY <2>1, <1>3, <1>4 DEF Counted
  <2> HIDE DEF U, U2
  <2>7. /\ Cardinality(U) \in Nat /\ Cardinality(U2) \in Nat
        /\ a \notin U2 => Cardinality(U2) <= Cardinality(U)
        /\ a \in U /\ a \notin U2 => Cardinality(U2) = Cardinality(U) - 1
        /\ a \in U => Cardinality(U2) <= Cardinality(U)
        /\ Cardinality(U2) <= Cardinality(U) + 1
    BY <2>2, <2>3, Resized
  <2>8. k[code] = IF c = code THEN n[code] + 1 ELSE n[code]
    BY <1>4, <1>5, CodeCounts
  <2>9. remove_code(k, o)[code] = IF o = code /\ k[code] # 0 THEN k[code] - 1 ELSE k[code]
    BY <1>4, <1>5, CodeCounts
  <2>10. Cardinality(U2) <= st2.contracts[code]
    <3>1. CASE c = o
      BY <3>1, <1>6, <2>4, <2>5, <2>6, <2>7
    <3>2. CASE c # o
      <4>1. st2.contracts[code] = remove_code(k, o)[code]
        BY <3>2, <1>6
      <4> QED
        BY <3>2, <4>1, <2>4, <2>5, <2>6, <2>7, <2>8, <2>9
    <3> QED
      BY <3>1, <3>2
  <2> QED
    BY <2>10 DEF Counted, U2
<1> QED
  BY <1>1, <1>8, <1>9, <1>10 DEF Covered

-----------------------------------------------------------------------------
(* The actions. *)

(* What a transaction may make of an account. *)
LEMMA CommitStep ==
  ASSUME RemoteSettled, OverlayInv, NEW a \in Address, NEW change, Allowed(plain, a, change),
         Commit(a, change)
  PROVE  OverlayInv'
<1>1. /\ block_number \in 0 .. MaxChanges
      /\ Overlay(State, plain, account_cache, code_cache, log)
      /\ CacheOK(account_cache, code_cache)
      /\ plain \in [Address -> Account]
  BY DEF OverlayInv, Overlay, PlainOK
<1>2. DOMAIN change.writes \in SUBSET Slots
  BY WritesAre DEF Allowed, Changes
<1>3. PICK slots \in SUBSET Slots : slots = DOMAIN change.writes
  BY <1>2
<1>4. /\ code_cache' = CodesAfter(a, slots) /\ account_cache' = AccountsAfter(a, slots)
      /\ code_cache \subseteq CodesAfter(a, slots)
      /\ CacheOK(AccountsAfter(a, slots), CodesAfter(a, slots))
  BY <1>1, <1>3, FetchedCode, LoadKeeps DEF Commit, Load
<1>5. CacheOK(account_cache', code_cache') /\ code_cache \subseteq code_cache'
  BY <1>4
<1>6. PICK st2 : st2 = commit(State, a, change)
  OBVIOUS
<1>7. State' = st2
  <2>1. /\ accounts' = st2.accounts /\ storage_tries' = st2.storage_tries
        /\ contracts' = st2.contracts /\ removed_storage_slots' = st2.removed_storage_slots
    BY <1>6 DEF Commit, Adopt
  <2>2. st2 = [accounts |-> st2.accounts, storage_tries |-> st2.storage_tries,
               contracts |-> st2.contracts,
               removed_storage_slots |-> st2.removed_storage_slots]
    BY <1>6 DEF commit
  <2> QED
    BY <2>1, <2>2 DEF State
<1>8. /\ plain' = [plain EXCEPT ![a] = Applied(plain[a], change)]
      /\ log # None => Len(log) < MaxChanges
      /\ log' = IF log = None THEN None ELSE Append(log, <<a, change>>)
      /\ block_number' = block_number
  BY DEF Commit, Record
<1>9. PICK st, pl, l, pl2, l2, codes, cached2, codes2 :
         /\ st = State /\ pl = plain /\ l = log /\ codes = code_cache
         /\ pl2 = plain' /\ l2 = log' /\ cached2 = account_cache' /\ codes2 = code_cache'
  OBVIOUS
<1>10. Overlay(st2, pl2, cached2, codes2, l2)
  <2>1. PICK cached : cached = account_cache
    OBVIOUS
  <2>2. Overlay(st, pl, cached, codes, l)
    BY <1>1, <1>9, <2>1
  <2>3. st2 = commit(st, a, change) /\ Allowed(pl, a, change)
    BY <1>6, <1>9
  <2>4. /\ pl2 = [pl EXCEPT ![a] = Applied(pl[a], change)]
        /\ Logged(l, a, change, l2)
    BY <1>8, <1>9 DEF Logged
  <2>5. CacheOK(cached2, codes2) /\ codes \subseteq codes2
    BY <1>5, <1>9
  <2> QED
    <3>1. Made(st, pl, l, a, change, st2, pl2, l2) /\ Loaded(codes, cached2, codes2)
      BY <2>3, <2>4, <2>5 DEF Made, Loaded
    <3> QED
      BY <2>2, <3>1, CommitKeeps
<1> QED
  BY <1>1, <1>7, <1>8, <1>9, <1>10 DEF OverlayInv

(* The account as it is seen, with a field or two changed. *)
LEMMA ViewType ==
  ASSUME RemoteSettled, OverlayInv, NEW a \in Address
  PROVE  /\ View(a) \in AccountInfo
         /\ View(a).balance = plain[a].balance /\ View(a).nonce = plain[a].nonce
         /\ View(a).code = plain[a].code
         /\ OnRemote(a) <=> Remote[0][a] # None
<1>1. View(a) = Info(plain[a])
  BY ReadNow
<1>2. plain[a] \in Account /\ block_number \in 0 .. MaxChanges
  BY DEF OverlayInv, Overlay, PlainOK
<1>3. Remote[block_number][a] = Remote[0][a]
  BY <1>2, RemoteNow
<1> QED
  BY <1>1, <1>2, <1>3, InfoType DEF OnRemote

(* A transaction that pays, calls or writes to an account. *)
LEMMA TouchStep ==
  ASSUME Benign, OverlayInv, NEW a \in Address, TouchAccount(a)
  PROVE  OverlayInv'
<1>1. RemoteSettled /\ ~ Emptied /\ ~ Codeless
  BY DEF Benign, Undisturbed
<1>2. PICK v : /\ v = View(a) /\ v \in AccountInfo
               /\ v.nonce = plain[a].nonce /\ v.code = plain[a].code
  BY <1>1, ViewType
<1>3. PICK balance \in Balances, nonce \in {0, 1}, loaded \in BOOLEAN, writes \in Writes :
        LET info == [View(a) EXCEPT !.balance = balance, !.nonce = nonce]
        IN  /\ nonce >= View(a).nonce
            /\ is_empty(info) => Emptied \/ ~ OnRemote(a)
            /\ ~ loaded => Codeless /\ View(a).code # NoCode /\ DOMAIN writes = {}
            /\ Commit(a, Change(info, loaded, writes, FALSE, FALSE))
  BY DEF TouchAccount
<1>4. PICK info : info = [View(a) EXCEPT !.balance = balance, !.nonce = nonce]
  OBVIOUS
<1>5. /\ nonce >= v.nonce
      /\ is_empty(info) => Remote[0][a] = None
      /\ loaded /\ Commit(a, Change(info, loaded, writes, FALSE, FALSE))
  BY <1>1, <1>2, <1>3, <1>4, ViewType
<1>6. info \in AccountInfo /\ info.nonce = nonce
  <2>1. info = [[v EXCEPT !.balance = balance] EXCEPT !.nonce = nonce]
    BY <1>2, <1>4
  <2> QED
    BY <2>1, <1>2 DEF AccountInfo
<1>7. PICK change : change = Change(info, loaded, writes, FALSE, FALSE)
  OBVIOUS
<1>8. /\ change \in Changes /\ change.info = info /\ change.loaded /\ ~ change.created
      /\ ~ change.destroyed
  BY <1>5, <1>6, <1>7 DEF Changes, Change
<1>9. Allowed(plain, a, change)
  <2>1. Gone(change) <=> is_empty(info)
    BY <1>8 DEF Gone
  <2>2. nonce = 0 => plain[a].nonce = 0
    <3>1. v.nonce \in {0, 1}
      BY <1>2 DEF AccountInfo
    <3>2. nonce >= v.nonce
      BY <1>5
    <3> QED
      BY <3>1, <3>2, <1>2
  <2> QED
    BY <2>1, <2>2, <1>5, <1>6, <1>8 DEF Allowed
<1>10. Commit(a, change)
  BY <1>5, <1>7
<1> QED
  BY <1>1, <1>9, <1>10, CommitStep

(* A transaction that deploys a contract. *)
LEMMA CreateStep ==
  ASSUME Benign, OverlayInv, NEW a \in Address, CreateAccount(a)
  PROVE  OverlayInv'
<1>1. RemoteSettled
  BY DEF Benign
<1>2. PICK v : /\ v = View(a) /\ v \in AccountInfo
               /\ v.nonce = plain[a].nonce /\ v.code = plain[a].code
  BY <1>1, ViewType
<1>3. PICK code \in Codes, writes \in Writes :
        /\ View(a).nonce = 0
        /\ Commit(a, Change([View(a) EXCEPT !.nonce = 1, !.code = code], TRUE, writes, TRUE, FALSE))
  BY DEF CreateAccount
<1>4. PICK info : info = [[v EXCEPT !.nonce = 1] EXCEPT !.code = code]
  OBVIOUS
<1>5. info \in AccountInfo /\ info.nonce = 1
  BY <1>2, <1>4 DEF AccountInfo
<1>6. PICK change : change = Change(info, TRUE, writes, TRUE, FALSE)
  OBVIOUS
<1>7. Commit(a, change)
  BY <1>2, <1>3, <1>4, <1>6
<1>8. /\ change \in Changes /\ change.info = info /\ change.loaded /\ change.created
      /\ ~ change.destroyed
  BY <1>5, <1>6 DEF Changes, Change
<1>9. Started(a).storage = Zeros
  <2>1. Started(a).nonce = 0
    BY <1>2, <1>3 DEF OverlayInv, Overlay, PlainOK
  <2> QED
    BY <2>1, <1>1 DEF Started, RemoteSettled, Nothing
<1>10. Allowed(plain, a, change)
  BY <1>5, <1>8, <1>9 DEF Allowed, Gone
<1> QED
  BY <1>1, <1>7, <1>10, CommitStep

(* No slot is written. *)
LEMMA NoWrites == [i \in {} |-> 0] \in Writes
<1>1. [i \in {} |-> 0] \in [{} -> Values] /\ {} \in SUBSET Slots
  OBVIOUS
<1> QED
  BY <1>1 DEF Writes

(* A transaction that destroys a contract. *)
LEMMA DestroyStep ==
  ASSUME Benign, OverlayInv, NEW a \in Address, DestroyAccount(a)
  PROVE  OverlayInv'
<1>1. RemoteSettled /\ ~ Ephemeral /\ ~ Destroys
  BY DEF Benign, Undisturbed
<1>2. \A b \in Address : View(b).code = plain[b].code /\ View(b).nonce = plain[b].nonce
  BY <1>1, ViewType
<1>3. PICK code \in Codes, created \in BOOLEAN :
        /\ Commit(a, Change(Destroyed(code), TRUE, [i \in {} |-> 0], created, TRUE))
        /\ OnRemote(a) => Destroys
        /\ \/ plain[a].code = code
           \/ \A b \in Address : plain[b].code # code
  <2>1. PICK code \in Codes :
          \/ /\ View(a).code = NoCode /\ View(a).nonce = 0 /\ (OnRemote(a) => Destroys)
             /\ (\E b \in Address : View(b).code = code) => Ephemeral
             /\ Commit(a, Change(Destroyed(code), TRUE, [i \in {} |-> 0], TRUE, TRUE))
          \/ /\ View(a).code = code
             /\ OnRemote(a) => Destroys
             /\ Commit(a, Change(Destroyed(code), TRUE, [i \in {} |-> 0], FALSE, TRUE))
    BY DEF DestroyAccount
  <2>2. CASE /\ (OnRemote(a) => Destroys)
             /\ (\E b \in Address : View(b).code = code) => Ephemeral
             /\ Commit(a, Change(Destroyed(code), TRUE, [i \in {} |-> 0], TRUE, TRUE))
    <3>1. \A b \in Address : plain[b].code # code
      BY <2>2, <1>1, <1>2
    <3> QED
      BY <3>1, <2>2
  <2>3. CASE /\ View(a).code = code
             /\ OnRemote(a) => Destroys
             /\ Commit(a, Change(Destroyed(code), TRUE, [i \in {} |-> 0], FALSE, TRUE))
    BY <2>3, <1>2
  <2> QED
    BY <2>1, <2>2, <2>3
<1>4. Remote[0][a] = None
  BY <1>1, <1>3, ViewType
<1>5. PICK info : info = Destroyed(code) /\ info \in AccountInfo /\ info.code = code
  <2>1. 0 \in Balances /\ code \in Codes
    BY ForkStateAssumption
  <2>2. Destroyed(code) \in AccountInfo /\ Destroyed(code).code = code
    BY <2>1 DEF Destroyed, AccountInfo
  <2> QED
    BY <2>2
<1>6. PICK writes \in Writes : writes = [i \in {} |-> 0]
  BY NoWrites
<1>7. PICK change : change = Change(info, TRUE, writes, created, TRUE)
  OBVIOUS
<1>8. /\ change \in Changes /\ change.info = info /\ change.loaded /\ change.destroyed
  BY <1>5, <1>6, <1>7 DEF Changes, Change
<1>9. Commit(a, change)
  BY <1>3, <1>5, <1>6, <1>7
<1>10. Started(a).storage = Zeros
  BY <1>4 DEF Started, Nothing
<1>11. Allowed(plain, a, change)
  BY <1>3, <1>4, <1>5, <1>8, <1>10 DEF Allowed, Gone
<1> QED
  BY <1>1, <1>9, <1>11, CommitStep

(* The slots that modify_account leaves, and those that set_account_storage_slot
   leaves. *)
LEMMA ModifiedSlots ==
  ASSUME NEW st, StateOK(st), NEW a \in Address, NEW st2,
         st2.storage_tries = IF a \in DOMAIN st.storage_tries THEN st.storage_tries
                             ELSE Put(st.storage_tries, a, Zeros),
         st2.removed_storage_slots = st.removed_storage_slots
  PROVE  /\ \A b \in DOMAIN st2.storage_tries : st2.storage_tries[b] \in Storage
         /\ \A b \in Address : \A i \in Slots : SlotIn(st2, b, i) = SlotIn(st, b, i)
<1>1. PICK f, g : f = st.storage_tries /\ g = st2.storage_tries
  OBVIOUS
<1>2. \A b \in DOMAIN f : f[b] \in Storage
  BY <1>1 DEF StateOK
<1>3. Zeros \in Storage /\ \A i \in Slots : Zeros[i] = 0
  BY ForkStateAssumption DEF Zeros, Storage
<1>4. /\ \A b \in DOMAIN g : g[b] \in Storage
      /\ \A b \in Address : \A i \in Slots :
           (IF b \in DOMAIN g THEN g[b][i] ELSE 0) = (IF b \in DOMAIN f THEN f[b][i] ELSE 0)
  <2>1. CASE a \in DOMAIN f
    BY <2>1, <1>1, <1>2
  <2>2. CASE a \notin DOMAIN f
    <3>1. g = Put(f, a, Zeros)
      BY <2>2, <1>1
    <3>2. /\ DOMAIN g = DOMAIN f \cup {a} /\ g[a] = Zeros
          /\ \A b \in DOMAIN f : b # a => g[b] = f[b]
      BY <3>1 DEF Put
    <3> QED
      BY <3>2, <2>2, <1>2, <1>3
  <2> QED
    BY <2>1, <2>2
<1>5. \A b \in Address : \A i \in Slots : ValueIn(st2, b, i) = ValueIn(st, b, i)
  BY <1>1, <1>4 DEF ValueIn
<1>6. \A b \in Address : \A i \in Slots : SlotIn(st2, b, i) = SlotIn(st, b, i)
  BY <1>5 DEF SlotIn
<1> QED
  BY <1>1, <1>4, <1>6

(* A slot is set outside a transaction: it shows its value, zero included, and
   the other slots show theirs. *)
LEMMA SlotWritten ==
  ASSUME NEW st, StateOK(st), NEW a \in Address, NEW j \in Slots, NEW value \in Values, NEW st2,
         st2.storage_tries =
           Put(st.storage_tries, a,
               [IF a \in DOMAIN st.storage_tries THEN st.storage_tries[a] ELSE Zeros
                  EXCEPT ![j] = value]),
         st2.removed_storage_slots =
           st.removed_storage_slots \cup (IF value = 0 THEN {<<a, j>>} ELSE {})
  PROVE  /\ \A b \in DOMAIN st2.storage_tries : st2.storage_tries[b] \in Storage
         /\ \A b \in Address : \A i \in Slots :
              SlotIn(st2, b, i) = IF b = a /\ i = j THEN value ELSE SlotIn(st, b, i)
<1>1. PICK f, g : f = st.storage_tries /\ g = st2.storage_tries
  OBVIOUS
<1>2. \A b \in DOMAIN f : f[b] \in Storage
  BY <1>1 DEF StateOK
<1>3. Zeros \in Storage /\ \A i \in Slots : Zeros[i] = 0
  BY ForkStateAssumption DEF Zeros, Storage
<1>4. PICK o : o = IF a \in DOMAIN f THEN f[a] ELSE Zeros
  OBVIOUS
<1>5. o \in Storage /\ \A i \in Slots : o[i] = ValueIn(st, a, i)
  BY <1>1, <1>2, <1>3, <1>4 DEF ValueIn
<1>6. PICK w : w = [o EXCEPT ![j] = value]
  OBVIOUS
<1>7. w \in Storage /\ \A i \in Slots : w[i] = IF i = j THEN value ELSE o[i]
  BY <1>5, <1>6 DEF Storage
<1>8. g = Put(f, a, w)
  BY <1>1, <1>4, <1>6
<1>9. /\ DOMAIN g = DOMAIN f \cup {a} /\ g[a] = w
      /\ \A b \in DOMAIN f : b # a => g[b] = f[b]
  BY <1>8 DEF Put
<1>10. \A b \in DOMAIN g : g[b] \in Storage
  BY <1>2, <1>7, <1>9
<1>11. ASSUME NEW b \in Address, NEW i \in Slots
       PROVE  /\ ValueIn(st2, b, i) = IF b = a /\ i = j THEN value ELSE ValueIn(st, b, i)
              /\ <<b, i>> \in st2.removed_storage_slots <=>
                   (<<b, i>> \in st.removed_storage_slots \/ (value = 0 /\ b = a /\ i = j))
  <2>1. ValueIn(st2, b, i) = (IF b \in DOMAIN g THEN g[b][i] ELSE 0)
        /\ ValueIn(st, b, i) = (IF b \in DOMAIN f THEN f[b][i] ELSE 0)
    BY <1>1 DEF ValueIn
  <2>2. ValueIn(st2, b, i) = IF b = a /\ i = j THEN value ELSE ValueIn(st, b, i)
    BY <2>1, <1>5, <1>7, <1>9
  <2>3. <<b, i>> \in st2.removed_storage_slots <=>
          (<<b, i>> \in st.removed_storage_slots \/ (value = 0 /\ b = a /\ i = j))
    OBVIOUS
  <2> QED
    BY <2>2, <2>3
<1>12. ASSUME NEW b \in Address, NEW i \in Slots
       PROVE  SlotIn(st2, b, i) = IF b = a /\ i = j THEN value ELSE SlotIn(st, b, i)
  <2>1. CASE b = a /\ i = j
    BY <2>1, <1>11 DEF SlotIn
  <2>2. CASE ~ (b = a /\ i = j)
    <3>1. /\ ValueIn(st2, b, i) = ValueIn(st, b, i)
          /\ <<b, i>> \in st2.removed_storage_slots <=> <<b, i>> \in st.removed_storage_slots
      BY <2>2, <1>11
    <3> QED
      BY <2>2, <3>1 DEF SlotIn
  <2> QED
    BY <2>1, <2>2
<1> QED
  BY <1>1, <1>10, <1>12

(* hardhat_setBalance and hardhat_setCode *)
LEMMA ModifyStep ==
  ASSUME Benign, OverlayInv, NEW a \in Address, NEW info \in AccountInfo,
         info.nonce = plain[a].nonce, ModifyAccount(a, info)
  PROVE  OverlayInv'
<1>1. RemoteSettled /\ ~ Emptied
  BY DEF Benign, Undisturbed
<1>2. /\ block_number \in 0 .. MaxChanges /\ PlainOK(plain) /\ StateOK(State)
      /\ Shows(State, plain) /\ Covered(State, code_cache) /\ Rebuilds(log, plain)
      /\ CacheOK(account_cache, code_cache)
  BY DEF OverlayInv, Overlay
<1>3. /\ View(a).code = plain[a].code /\ View(a) = InfoIn(State, a)
      /\ plain \in [Address -> Account] /\ plain[a] \in Account
  BY <1>1, <1>2, ViewType, ReadNow DEF PlainOK
<1>4. /\ code_cache' = CodesAfter(a, {}) /\ account_cache' = AccountsAfter(a, {})
      /\ code_cache \subseteq CodesAfter(a, {})
      /\ CacheOK(AccountsAfter(a, {}), CodesAfter(a, {}))
      /\ a \notin DOMAIN accounts =>
           (Started(a).code # NoCode => Started(a).code \in CodesAfter(a, {}))
  <2>1. {} \in SUBSET Slots
    OBVIOUS
  <2>2. code_cache' = CodesAfter(a, {}) /\ account_cache' = AccountsAfter(a, {})
    BY DEF ModifyAccount, Load
  <2> QED
    BY <1>1, <1>2, <2>1, <2>2, FetchedCode, LoadKeeps
<1>5. a \notin DOMAIN accounts => (plain[a].code # NoCode => plain[a].code \in code_cache')
  <2> SUFFICES ASSUME a \notin DOMAIN accounts
               PROVE  plain[a].code # NoCode => plain[a].code \in code_cache'
    OBVIOUS
  <2>1. View(a) = Info(Started(a))
    BY <1>3 DEF InfoIn, State
  <2>2. Info(Started(a)).code = Started(a).code
    BY StartedType, InfoType
  <2> QED
    BY <1>3, <1>4, <2>1, <2>2
<1>6. PICK pl2 : pl2 = [plain EXCEPT ![a] = [[plain[a] EXCEPT !.balance = info.balance]
                                               EXCEPT !.code = info.code]]
  OBVIOUS
<1>7. plain' = pl2
  BY <1>3, <1>6 DEF ModifyAccount
<1>8. /\ pl2 \in [Address -> Account] /\ \A b \in Address : b # a => pl2[b] = plain[b]
      /\ Info(pl2[a]) = info /\ pl2[a].nonce = plain[a].nonce /\ pl2[a].storage = plain[a].storage
      /\ pl2[a] = [balance |-> info.balance, nonce |-> info.nonce, code |-> info.code,
                   storage |-> plain[a].storage]
  <2>1. PICK p : p = plain[a] /\ p \in Account
    BY <1>3
  <2>2. PICK q : q = [[p EXCEPT !.balance = info.balance] EXCEPT !.code = info.code]
    OBVIOUS
  <2>3. /\ info = [balance |-> info.balance, nonce |-> info.nonce, code |-> info.code]
        /\ info.balance \in Balances /\ info.code \in Codes \cup {NoCode}
    BY DEF AccountInfo
  <2>4. /\ q \in Account /\ q.balance = info.balance /\ q.code = info.code /\ q.nonce = p.nonce
        /\ q.storage = p.storage
    BY <2>1, <2>2, <2>3 DEF Account
  <2>5. p.nonce = info.nonce
    BY <2>1
  <2>6. Info(q) = info
    BY <2>3, <2>4, <2>5 DEF Info
  <2>7. q = [balance |-> info.balance, nonce |-> info.nonce, code |-> info.code,
             storage |-> p.storage]
    BY <2>4, <2>5 DEF Account
  <2>8. pl2 = [plain EXCEPT ![a] = q]
    BY <1>6, <2>1, <2>2
  <2>9. pl2[a] = q /\ pl2 \in [Address -> Account] /\ \A b \in Address : b # a => pl2[b] = plain[b]
    BY <2>4, <2>8, <1>3
  <2> QED
    BY <2>1, <2>4, <2>6, <2>7, <2>9
<1>9. PICK st, st2 : st = State /\ st2 = State'
  OBVIOUS
<1>10. /\ st2.accounts = Put(st.accounts, a, info)
       /\ st2.contracts = IF info.code = plain[a].code THEN st.contracts
                          ELSE remove_code(insert_code(st.contracts, info.code), plain[a].code)
       /\ st2.storage_tries = IF a \in DOMAIN st.storage_tries THEN st.storage_tries
                              ELSE Put(st.storage_tries, a, Zeros)
       /\ st2.removed_storage_slots = st.removed_storage_slots
       /\ st.accounts = accounts
  BY <1>3, <1>9 DEF State, ModifyAccount
<1>11. PICK pl : pl = plain
  OBVIOUS
<1>12. /\ \A b \in DOMAIN st2.storage_tries : st2.storage_tries[b] \in Storage
       /\ \A b \in Address : \A i \in Slots : SlotIn(st2, b, i) = pl2[b].storage[i]
  <2>1. StateOK(st) /\ Shows(st, pl)
    BY <1>2, <1>9, <1>11
  <2>2. /\ \A b \in DOMAIN st2.storage_tries : st2.storage_tries[b] \in Storage
        /\ \A b \in Address : \A i \in Slots : SlotIn(st2, b, i) = SlotIn(st, b, i)
    BY <2>1, <1>10, ModifiedSlots
  <2>3. \A b \in Address : pl2[b].storage = pl[b].storage
    BY <1>8, <1>11
  <2> QED
    BY <2>1, <2>2, <2>3 DEF Shows
<1>13. PICK codes, codes2 : codes = code_cache /\ codes2 = code_cache'
  OBVIOUS
<1>14. PlainOK(pl2) /\ StateOK(st2) /\ Shows(st2, pl2) /\ Covered(st2, codes2)
  <2>1. /\ PlainOK(pl) /\ StateOK(st) /\ Shows(st, pl) /\ Covered(st, codes)
        /\ codes \subseteq codes2
        /\ a \notin DOMAIN st.accounts => (pl[a].code # NoCode => pl[a].code \in codes2)
    BY <1>2, <1>4, <1>5, <1>9, <1>10, <1>11, <1>13
  <2>2. /\ Info(pl2[a]) = info /\ pl2[a].nonce = pl[a].nonce /\ pl2 \in [Address -> Account]
        /\ \A b \in Address : b # a => pl2[b] = pl[b]
    BY <1>8, <1>11
  <2>3. /\ st2.accounts = Put(st.accounts, a, info)
        /\ st2.contracts = IF info.code = pl[a].code THEN st.contracts
                           ELSE remove_code(insert_code(st.contracts, info.code), pl[a].code)
    BY <1>10, <1>11
  <2> QED
    BY <2>1, <2>2, <2>3, <1>12, PutKeeps
<1>15. Rebuilds(log', pl2)
  <2>1. CASE is_empty(info)
    <3>1. log' = None
      BY <2>1, <1>1 DEF ModifyAccount
    <3> QED
      BY <3>1 DEF Rebuilds
  <2>2. CASE ~ is_empty(info)
    <3>1. PICK writes \in Writes : writes = [i \in {} |-> 0]
      BY NoWrites
    <3>2. PICK change : change = Change(info, TRUE, writes, FALSE, FALSE)
      OBVIOUS
    <3>3. /\ change \in Changes /\ change.info = info /\ change.loaded /\ ~ change.created
          /\ ~ change.destroyed /\ change.writes = writes
      BY <3>1, <3>2 DEF Changes, Change
    <3>4. PICK l, l2 : l = log /\ l2 = log'
      OBVIOUS
    <3>5. Logged(l, a, change, l2)
      <4>1. Record(a, change)
        BY <2>2, <3>1, <3>2 DEF ModifyAccount
      <4> QED
        BY <4>1, <3>4 DEF Record, Logged
    <3>6. ~ Gone(change)
      BY <2>2, <3>3 DEF Gone
    <3>7. Allowed(pl, a, change)
      BY <3>3, <3>6, <1>11 DEF Allowed
    <3>8. Applied(pl[a], change) = pl2[a]
      <4>1. PICK s : s = pl[a].storage /\ s \in [Slots -> Values]
        BY <1>3, <1>11 DEF Account, Storage
      <4>2. Applied(pl[a], change) =
              [balance |-> info.balance, nonce |-> info.nonce, code |-> info.code,
               storage |-> [i \in Slots |-> s[i]]]
        <5>1. DOMAIN writes = {}
          BY <3>1
        <5> QED
          BY <3>3, <3>6, <4>1, <5>1 DEF Applied, Gone
      <4>3. [i \in Slots |-> s[i]] = s
        BY <4>1
      <4> QED
        BY <4>1, <4>2, <4>3, <1>8, <1>11
    <3>9. pl2 = [pl EXCEPT ![a] = Applied(pl[a], change)]
      BY <3>8, <1>3, <1>6, <1>8, <1>11
    <3>10. PlainOK(pl) /\ Rebuilds(l, pl)
      BY <1>2, <1>11, <3>4
    <3>11. Rebuilds(l2, pl2)
      BY <3>5, <3>7, <3>9, <3>10, RebuildsNext
    <3> QED
      BY <3>4, <3>11
  <2> QED
    BY <2>1, <2>2
<1>16. block_number' = block_number
  BY DEF ModifyAccount
<1>17. CacheOK(account_cache', code_cache')
  BY <1>4
<1> QED
  BY <1>2, <1>7, <1>9, <1>13, <1>14, <1>15, <1>16, <1>17 DEF OverlayInv, Overlay

(* hardhat_setStorageAt *)
LEMMA SetStorageStep ==
  ASSUME Benign, OverlayInv, NEW a \in Address, NEW j \in Slots, NEW value \in Values,
         SetStorageSlot(a, j, value)
  PROVE  OverlayInv'
<1>1. RemoteSettled
  BY DEF Benign
<1>2. /\ block_number \in 0 .. MaxChanges /\ PlainOK(plain) /\ StateOK(State)
      /\ Shows(State, plain) /\ Covered(State, code_cache)
      /\ CacheOK(account_cache, code_cache)
  BY DEF OverlayInv, Overlay
<1>3. PICK info : /\ info = View(a) /\ info \in AccountInfo /\ info = Info(plain[a])
                  /\ info.code = plain[a].code /\ info = InfoIn(State, a)
  BY <1>1, ViewType, ReadNow
<1>4. /\ code_cache' = CodesAfter(a, {}) /\ account_cache' = AccountsAfter(a, {})
      /\ code_cache \subseteq CodesAfter(a, {})
      /\ CacheOK(AccountsAfter(a, {}), CodesAfter(a, {}))
      /\ a \notin DOMAIN accounts =>
           (Started(a).code # NoCode => Started(a).code \in CodesAfter(a, {}))
  <2>1. {} \in SUBSET Slots
    OBVIOUS
  <2>2. code_cache' = CodesAfter(a, {}) /\ account_cache' = AccountsAfter(a, {})
    BY DEF SetStorageSlot, Load
  <2> QED
    BY <1>1, <1>2, <2>1, <2>2, FetchedCode, LoadKeeps
<1>5. a \notin DOMAIN accounts => (plain[a].code # NoCode => plain[a].code \in code_cache')
  <2> SUFFICES ASSUME a \notin DOMAIN accounts
               PROVE  plain[a].code # NoCode => plain[a].code \in code_cache'
    OBVIOUS
  <2>1. info = Info(Started(a))
    BY <1>3 DEF InfoIn, State
  <2>2. Info(Started(a)).code = Started(a).code
    BY StartedType, InfoType
  <2> QED
    BY <1>3, <1>4, <2>1, <2>2
<1>6. PICK pl, pl2 : pl = plain /\ pl2 = plain'
  OBVIOUS
<1>7. pl \in [Address -> Account] /\ pl[a] \in Account
  BY <1>2, <1>6 DEF PlainOK
<1>8. PICK p, s : p = pl[a] /\ p \in Account /\ s = [p.storage EXCEPT ![j] = value]
  BY <1>7
<1>9. s \in Storage /\ s[j] = value /\ \A i \in Slots : i # j => s[i] = p.storage[i]
  <2>1. p.storage \in [Slots -> Values]
    BY <1>8 DEF Account, Storage
  <2> QED
    BY <2>1, <1>8 DEF Storage
<1>10. PICK q : q = [p EXCEPT !.storage = s]
  OBVIOUS
<1>11. /\ q \in Account /\ q.storage = s /\ q.balance = p.balance /\ q.nonce = p.nonce
       /\ q.code = p.code
  BY <1>8, <1>9, <1>10 DEF Account
<1>12. pl2 = [pl EXCEPT ![a] = q]
  BY <1>6, <1>8, <1>10 DEF SetStorageSlot
<1>13. pl2[a] = q /\ pl2 \in [Address -> Account] /\ \A b \in Address : b # a => pl2[b] = pl[b]
  BY <1>7, <1>11, <1>12
<1>14. Info(pl2[a]) = info /\ pl2[a].nonce = pl[a].nonce
  BY <1>3, <1>6, <1>8, <1>11, <1>13 DEF Info
<1>15. PICK st, st2 : st = State /\ st2 = State'
  OBVIOUS
<1>16. /\ st2.accounts = Put(st.accounts, a, info)
       /\ st2.contracts = st.contracts
       /\ st2.storage_tries =
           Put(st.storage_tries, a,
               [IF a \in DOMAIN st.storage_tries THEN st.storage_tries[a] ELSE Zeros
                  EXCEPT ![j] = value])
       /\ st2.removed_storage_slots =
           st.removed_storage_slots \cup (IF value = 0 THEN {<<a, j>>} ELSE {})
       /\ st.accounts = accounts
  BY <1>3, <1>15 DEF State, SetStorageSlot
<1>17. StateOK(st) /\ Shows(st, pl)
  BY <1>2, <1>6, <1>15
<1>18. /\ \A b \in DOMAIN st2.storage_tries : st2.storage_tries[b] \in Storage
       /\ \A b \in Address : \A i \in Slots :
            SlotIn(st2, b, i) = IF b = a /\ i = j THEN value ELSE SlotIn(st, b, i)
  BY <1>16, <1>17, SlotWritten
<1>19. ASSUME NEW b \in Address, NEW i \in Slots
       PROVE  SlotIn(st2, b, i) = pl2[b].storage[i]
  <2>1. SlotIn(st, b, i) = pl[b].storage[i]
    BY <1>17 DEF Shows
  <2>2. CASE b = a
    BY <2>1, <2>2, <1>8, <1>9, <1>11, <1>13, <1>18
  <2>3. CASE b # a
    BY <2>1, <2>3, <1>13, <1>18
  <2> QED
    BY <2>2, <2>3
<1>20. PICK codes, codes2 : codes = code_cache /\ codes2 = code_cache'
  OBVIOUS
<1>21. PlainOK(pl2) /\ StateOK(st2) /\ Shows(st2, pl2) /\ Covered(st2, codes2)
  <2>1. /\ PlainOK(pl) /\ Covered(st, codes) /\ codes \subseteq codes2
        /\ a \notin DOMAIN st.accounts => (pl[a].code # NoCode => pl[a].code \in codes2)
    BY <1>2, <1>4, <1>5, <1>6, <1>15, <1>16, <1>20
  <2>2. st2.contracts = IF info.code = pl[a].code THEN st.contracts
                        ELSE remove_code(insert_code(st.contracts, info.code), pl[a].code)
    BY <1>3, <1>6, <1>16
  <2>3. st2.accounts = Put(st.accounts, a, info)
    BY <1>16
  <2> QED
    BY <2>1, <2>2, <2>3, <1>3, <1>13, <1>14, <1>17, <1>18, <1>19, PutKeeps
<1>22. Rebuilds(log', pl2)
  BY DEF SetStorageSlot, Rebuilds
<1>23. block_number' = block_number
  BY DEF SetStorageSlot
<1>24. CacheOK(account_cache', code_cache')
  BY <1>4
<1> QED
  BY <1>2, <1>6, <1>15, <1>20, <1>21, <1>22, <1>23, <1>24 DEF OverlayInv, Overlay

(* A read leaves the local state and fills the caches. *)
LEMMA ReadStep ==
  ASSUME Benign, OverlayInv, NEW a \in Address, NEW slots \in SUBSET Slots, Read(a, slots)
  PROVE  OverlayInv'
<1>1. RemoteSettled
  BY DEF Benign
<1>2. /\ block_number \in 0 .. MaxChanges /\ PlainOK(plain) /\ StateOK(State)
      /\ Shows(State, plain) /\ Covered(State, code_cache) /\ Rebuilds(log, plain)
      /\ CacheOK(account_cache, code_cache)
  BY DEF OverlayInv, Overlay
<1>3. /\ code_cache' = CodesAfter(a, slots) /\ account_cache' = AccountsAfter(a, slots)
      /\ code_cache \subseteq CodesAfter(a, slots)
      /\ CacheOK(AccountsAfter(a, slots), CodesAfter(a, slots))
  BY <1>1, <1>2, FetchedCode, LoadKeeps DEF Read, Load
<1>4. /\ State' = State /\ block_number' = block_number /\ log' = log /\ plain' = plain
  BY DEF Read, local, State
<1>5. Covered(State, code_cache')
  BY <1>2, <1>3 DEF Covered
<1>6. CacheOK(account_cache', code_cache')
  BY <1>3
<1> QED
  BY <1>2, <1>4, <1>5, <1>6 DEF OverlayInv, Overlay

(* The local state that is empty shows the state of the fork. *)
LEMMA EmptyShows ==
  ASSUME NEW pl, pl = [a \in Address |-> Started(a)]
  PROVE  PlainOK(pl) /\ Exact(EmptyState, pl)
<1>1. PlainOK(pl)
  BY StartedType DEF PlainOK
<1>2. /\ DOMAIN EmptyState.accounts = {} /\ DOMAIN EmptyState.storage_tries = {}
      /\ EmptyState.removed_storage_slots = {}
      /\ EmptyState.contracts = [code \in Codes |-> 0]
  BY DEF EmptyState
<1>3. StateOK(EmptyState)
  BY <1>2, FS_EmptySet DEF StateOK
<1>4. Shows(EmptyState, pl)
  BY <1>2 DEF Shows, InfoIn, SlotIn, ValueIn
<1>5. \A code \in Codes : Counted(EmptyState, code)
  <2>1. \A code \in Codes : Users(EmptyState, code) = {} /\ EmptyState.contracts[code] = 0
    BY <1>2 DEF Users
  <2> QED
    BY <2>1, FS_EmptySet DEF Counted
<1> QED
  BY <1>1, <1>3, <1>4, <1>5 DEF Exact

(* A set of natural numbers that is not empty has a least element. *)
LEMMA LeastNumber ==
  ASSUME NEW T \in SUBSET Nat, T # {}
  PROVE  \E x \in T : \A y \in T : x <= y
<1>1. PICK x \in T : \A y \in T : ~ (<<y, x>> \in OpToRel(<, Nat))
  BY NatLessThanWellFounded, WFMin
<1>2. \A y \in T : ~ (y < x)
  BY <1>1 DEF OpToRel
<1> QED
  BY <1>2

(* The function that builds the state again exists. *)
StateAt(l, f, n) == IF n = 0 THEN EmptyState ELSE commit(f[n - 1], l[n][1], l[n][2])

(* The diffs can be committed one after the other, however many there are. (No
   induction: of the lengths for which they cannot there would be a least one.)
   *)
LEMMA RunExists ==
  ASSUME NEW l, NEW m \in Nat
  PROVE  \E f : f = [n \in 0 .. m |-> StateAt(l, f, n)]
<1> DEFINE P(k) == \E f : f = [n \in 0 .. k |-> StateAt(l, f, n)]
<1>1. P(0)
  <2> DEFINE f == [n \in 0 .. 0 |-> EmptyState]
  <2>1. f = [n \in 0 .. 0 |-> StateAt(l, f, n)]
    <3>1. \A n \in 0 .. 0 : n = 0
      OBVIOUS
    <3>2. \A n \in 0 .. 0 : StateAt(l, f, n) = EmptyState
      BY <3>1 DEF StateAt
    <3> QED
      BY <3>2
  <2> QED
    BY <2>1
<1>2. ASSUME NEW k \in Nat, P(k)
      PROVE  P(k + 1)
  <2>1. PICK f : f = [n \in 0 .. k |-> StateAt(l, f, n)]
    BY <1>2
  <2> DEFINE g == [n \in 0 .. k + 1 |-> IF n \in 0 .. k THEN f[n] ELSE StateAt(l, f, n)]
  <2>2. ASSUME NEW n \in 0 .. k + 1
        PROVE  StateAt(l, f, n) = StateAt(l, g, n)
    <3>1. CASE n = 0
      BY <3>1 DEF StateAt
    <3>2. CASE n # 0
      <4>1. n - 1 \in 0 .. k /\ n - 1 \in 0 .. k + 1
        BY <3>2
      <4>2. g[n - 1] = f[n - 1]
        BY <4>1
      <4> QED
        BY <3>2, <4>2 DEF StateAt
    <3> QED
      BY <3>1, <3>2
  <2>3. \A n \in 0 .. k + 1 : g[n] = StateAt(l, g, n)
    <3> TAKE n \in 0 .. k + 1
    <3>1. g[n] = StateAt(l, f, n)
      BY <2>1
    <3> QED
      BY <2>2, <3>1
  <2>4. g = [n \in 0 .. k + 1 |-> g[n]]
    OBVIOUS
  <2> HIDE DEF g
  <2>5. g = [n \in 0 .. k + 1 |-> StateAt(l, g, n)]
    BY <2>3, <2>4
  <2> QED
    BY <2>5
<1> HIDE DEF P
<1>3. \A k \in Nat : P(k)
  <2> SUFFICES ASSUME ~ \A k \in Nat : P(k) PROVE FALSE
    OBVIOUS
  <2> DEFINE T == {k \in Nat : ~ P(k)}
  <2>1. PICK k \in T : \A y \in T : k <= y
    BY LeastNumber
  <2>2. k \in Nat /\ ~ P(k) /\ k # 0
    BY <2>1, <1>1
  <2>3. k - 1 \in Nat /\ (k - 1) + 1 = k
    BY <2>2
  <2>4. k - 1 \notin T
    BY <2>1, <2>2, <2>3
  <2>5. P(k - 1)
    BY <2>3, <2>4
  <2>6. P((k - 1) + 1)
    BY <1>2, <2>3, <2>5
  <2> QED
    BY <2>2, <2>3, <2>6
<1> QED
  BY <1>3 DEF P

(* The state is built again from the diffs of the blocks. *)
LEMMA RecomputeStep ==
  ASSUME Benign, OverlayInv, Recompute
  PROVE  OverlayInv'
<1> DEFINE f == CHOOSE g : g = [n \in 0 .. MaxChanges |-> StateAt(log, g, n)]
<1>1. PICK l : l = log /\ l # None /\ PlainOK(plain) /\ Rebuilds(l, plain)
  BY DEF Recompute, OverlayInv, Overlay
<1>2. l \in Seq(Address \X Changes) /\ Len(l) \in Nat /\ Len(l) <= MaxChanges /\ MaxChanges \in Nat
  BY <1>1, ForkStateAssumption DEF Rebuilds
<1>3. f = [n \in 0 .. MaxChanges |-> StateAt(log, f, n)]
  BY <1>2, RunExists
<1>4. /\ Adopt(f[Len(log)]) /\ block_number' = Len(log)
      /\ account_cache' = [a \in {} |-> None] /\ code_cache' = {}
      /\ log' = log /\ plain' = plain
  BY Zenon DEF Recompute, StateAt
<1> HIDE DEF f
<1>5. RunOf(f, l)
  <2>1. \A n \in 0 .. MaxChanges : f[n] = StateAt(l, f, n)
    BY <1>1, <1>3
  <2>2. f[0] = EmptyState
    BY <2>1, <1>2 DEF StateAt
  <2>3. ASSUME NEW n \in 1 .. Len(l)
        PROVE  f[n] = commit(f[n - 1], l[n][1], l[n][2])
    <3>1. n \in 0 .. MaxChanges /\ n # 0
      BY <1>2
    <3> QED
      BY <2>1, <3>1 DEF StateAt
  <2> QED
    BY <2>2, <2>3 DEF RunOf
<1>6. PICK st2 : st2 = f[Len(l)] /\ Exact(st2, plain)
  BY <1>1, <1>5 DEF Rebuilds
<1>7. st2 = [accounts |-> st2.accounts, storage_tries |-> st2.storage_tries,
             contracts |-> st2.contracts,
             removed_storage_slots |-> st2.removed_storage_slots]
  <2>1. CASE Len(l) = 0
    BY <2>1, <1>5, <1>6 DEF RunOf, EmptyState
  <2>2. CASE Len(l) # 0
    <3>1. Len(l) \in 1 .. Len(l)
      BY <2>2, <1>2
    <3>2. st2 = commit(f[Len(l) - 1], l[Len(l)][1], l[Len(l)][2])
      BY <3>1, <1>5, <1>6 DEF RunOf
    <3> QED
      BY <3>2 DEF commit
  <2> QED
    BY <2>1, <2>2
<1>8. State' = st2
  BY <1>1, <1>4, <1>6, <1>7 DEF Adopt, State
<1>9. PICK cached, codes : cached = account_cache' /\ codes = code_cache'
  OBVIOUS
<1>10. CacheOK(cached, codes) /\ Covered(st2, codes)
  BY <1>4, <1>6, <1>9 DEF CacheOK, Covered, Exact
<1>11. Overlay(st2, plain, cached, codes, l)
  BY <1>1, <1>6, <1>10 DEF Overlay, Exact
<1>12. block_number' \in 0 .. MaxChanges
  BY <1>1, <1>2, <1>4
<1> QED
  BY <1>1, <1>4, <1>8, <1>9, <1>11, <1>12 DEF OverlayInv

(* The invariant holds at the fork ... *)
LEMMA OverlayInitially ==
  ASSUME Init
  PROVE  OverlayInv
<1>1. plain = [a \in Address |-> Started(a)]
  BY DEF Init, Started
<1>2. State = EmptyState
  BY DEF Init, State, EmptyState
<1>3. PlainOK(plain) /\ Exact(EmptyState, plain)
  BY <1>1, EmptyShows
<1>4. Rebuilds(log, plain)
  <2>1. log = <<>> /\ Len(log) = 0 /\ log \in Seq(Address \X Changes)
    BY DEF Init
  <2>2. MaxChanges \in Nat
    BY ForkStateAssumption
  <2>3. \A f : RunOf(f, log) => Exact(f[Len(log)], plain)
    BY <2>1, <1>3 DEF RunOf
  <2> QED
    BY <2>1, <2>2, <2>3 DEF Rebuilds
<1>5. CacheOK(account_cache, code_cache)
  BY DEF Init, CacheOK
<1>6. block_number \in 0 .. MaxChanges
  BY ForkStateAssumption DEF Init
<1> QED
  BY <1>2, <1>3, <1>4, <1>5, <1>6 DEF OverlayInv, Overlay, Exact, Covered

(* ... and is kept by every step. *)
LEMMA OverlayNext ==
  ASSUME Benign, OverlayInv, [Next]_vars
  PROVE  OverlayInv'
<1>0. RemoteSettled
  BY DEF Benign
<1>1. CASE \E a \in Address : TouchAccount(a) \/ CreateAccount(a) \/ DestroyAccount(a)
  BY <1>1, TouchStep, CreateStep, DestroyStep
<1>2. CASE \E a \in Address, balance \in Balances :
             ModifyAccount(a, [View(a) EXCEPT !.balance = balance])
  <2>1. PICK a \in Address, balance \in Balances :
          ModifyAccount(a, [View(a) EXCEPT !.balance = balance])
    BY <1>2
  <2>2. PICK v : v = View(a) /\ v \in AccountInfo /\ v.nonce = plain[a].nonce
    BY <1>0, ViewType
  <2>3. PICK info : info = [v EXCEPT !.balance = balance]
    OBVIOUS
  <2>4. info \in AccountInfo /\ info.nonce = plain[a].nonce
    BY <2>2, <2>3 DEF AccountInfo
  <2>5. ModifyAccount(a, info)
    BY <2>1, <2>2, <2>3
  <2> QED
    BY <2>4, <2>5, ModifyStep
<1>3. CASE \E a \in Address, code \in Codes \cup {NoCode} :
             ModifyAccount(a, [View(a) EXCEPT !.code = code])
  <2>1. PICK a \in Address, code \in Codes \cup {NoCode} :
          ModifyAccount(a, [View(a) EXCEPT !.code = code])
    BY <1>3
  <2>2. PICK v : v = View(a) /\ v \in AccountInfo /\ v.nonce = plain[a].nonce
    BY <1>0, ViewType
  <2>3. PICK info : info = [v EXCEPT !.code = code]
    OBVIOUS
  <2>4. info \in AccountInfo /\ info.nonce = plain[a].nonce
    BY <2>2, <2>3 DEF AccountInfo
  <2>5. ModifyAccount(a, info)
    BY <2>1, <2>2, <2>3
  <2> QED
    BY <2>4, <2>5, ModifyStep
<1>4. CASE \E a \in Address, i \in Slots, value \in Values : SetStorageSlot(a, i, value)
  BY <1>4, SetStorageStep
<1>5. CASE \E a \in Address, slots \in SUBSET Slots : Read(a, slots)
  BY <1>5, ReadStep
<1>6. CASE Recompute
  BY <1>6, RecomputeStep
<1>7. CASE Confirm \/ UNCHANGED vars
  <2>1. /\ accounts' = accounts /\ storage_tries' = storage_tries /\ contracts' = contracts
        /\ removed_storage_slots' = removed_storage_slots /\ block_number' = block_number
        /\ account_cache' = account_cache /\ code_cache' = code_cache /\ log' = log
        /\ plain' = plain
    BY <1>7 DEF Confirm, vars, local, caches
  <2>2. State' = State
    BY <2>1 DEF State
  <2> QED
    BY <2>1, <2>2 DEF OverlayInv
<1> QED
  BY <1>1, <1>2, <1>3, <1>4, <1>5, <1>6, <1>7 DEF Next

(* It is an invariant of the specification. *)
LEMMA OverlayAlways == Benign /\ Spec => []OverlayInv
<1>1. Init => OverlayInv
  BY OverlayInitially
<1>2. Benign /\ OverlayInv /\ [Next]_vars => OverlayInv'
  BY OverlayNext
<1>3. Benign => []Benign
  OBVIOUS
<1> QED
  BY <1>1, <1>2, <1>3, PTL DEF Spec

-----------------------------------------------------------------------------
(* ForkedState and CachedRemoteState behave like a plain map of accounts that
   started as the state of the fork: every read shows the account and the slots
   that transactions and the set methods have left there, whatever is cached,
   was set to zero or was built again from the diffs of the blocks (provided
   that the remote node stays at the state of the fork, and none of the changes
   happens that ForkedState does not handle). *)
THEOREM OverlayIsExact == Benign /\ Spec => []OverlayExact
<1>1. Benign /\ OverlayInv => OverlayExact
  <2> SUFFICES ASSUME Benign, OverlayInv PROVE OverlayExact
    OBVIOUS
  <2>1. RemoteSettled
    BY DEF Benign
  <2> QED
    BY <2>1, ReadNow DEF OverlayExact
<1>2. Benign => []Benign
  OBVIOUS
<1> QED
  BY <1>1, <1>2, OverlayAlways, PTL

(* code_by_hash finds the code of every account that basic returns: the counts
   of the local state cover every account that names the code, and where
   modify_account counts a code of the remote node too low, the code has been
   fetched and is kept (under the conditions of OverlayIsExact). *)
THEOREM CodeIsAvailable == Benign /\ Spec => []CodeAvailable
<1>1. Benign /\ OverlayInv => CodeAvailable
  <2> SUFFICES ASSUME Benign, OverlayInv, NEW a \in Address, View(a).code # NoCode
               PROVE  contracts[View(a).code] > 0 \/ View(a).code \in CodesAfter(a, {})
    BY DEF CodeAvailable, CodeFound
  <2>1. RemoteSettled
    BY DEF Benign
  <2>2. /\ block_number \in 0 .. MaxChanges /\ StateOK(State) /\ Covered(State, code_cache)
        /\ CacheOK(account_cache, code_cache)
    BY DEF OverlayInv, Overlay
  <2>3. View(a) = InfoIn(State, a) /\ View(a) \in AccountInfo
    BY <2>1, ReadNow, ViewType
  <2>4. PICK code : code = View(a).code
    OBVIOUS
  <2>5. code \in Codes
    BY <2>3, <2>4 DEF AccountInfo
  <2>6. /\ code_cache \subseteq CodesAfter(a, {})
        /\ a \notin DOMAIN accounts =>
             (Started(a).code # NoCode => Started(a).code \in CodesAfter(a, {}))
    BY <2>1, <2>2, FetchedCode
  <2>7. CASE a \notin DOMAIN accounts
    <3>1. View(a) = Info(Started(a))
      BY <2>3, <2>7 DEF InfoIn, State
    <3>2. Info(Started(a)).code = Started(a).code
      BY StartedType, InfoType
    <3> QED
      BY <2>6, <2>7, <3>1, <3>2
  <2>8. CASE a \in DOMAIN accounts
    <3>1. CASE code \in code_cache
      BY <3>1, <2>4, <2>6
    <3>2. CASE Counted(State, code)
      <4>1. PICK U : U = Users(State, code)
        OBVIOUS
      <4>2. a \in U
        BY <4>1, <2>3, <2>4, <2>8 DEF Users, InfoIn, State
      <4>3. IsFiniteSet(U)
        BY <4>1, <2>2, FS_Subset DEF StateOK, Users
      <4>4. Cardinality(U) \in Nat /\ Cardinality(U) # 0
        BY <4>2, <4>3, FS_EmptySet, FS_CardinalityType
      <4>5. contracts[code] \in Nat /\ Cardinality(U) <= contracts[code]
        BY <4>1, <3>2, <2>2, <2>5 DEF Counted, State, StateOK
      <4>6. contracts[code] > 0
        BY <4>4, <4>5
      <4> QED
        BY <4>6, <2>4
    <3> QED
      BY <3>1, <3>2, <2>2, <2>5 DEF Covered
  <2> QED
    BY <2>7, <2>8
<1>2. Benign => []Benign
  OBVIOUS
<1> QED
  BY <1>1, <1>2, OverlayAlways, PTL

=============================================================================
