-------------------------- MODULE RpcClientProofs ---------------------------
(***************************************************************************)
(* What the disk cache of the RPC client stores never changes on the       *)
(* remote chain, as long as the safe depth covers a reorg and the blocks   *)
(* that arrive between an answer and the check of its block.  And it is    *)
(* served to nobody but the requests it answers: what goes into a key can  *)
(* be read back, so that different requests have different keys.           *)
(***************************************************************************)
EXTENDS RpcClient, SequenceTheorems, WellFoundedInduction, TLAPS

(* The blocks of a request are named by number or by tag. *)
ByNumberOrTag(spec) ==
  IF spec.by = "number" THEN spec.number \in Nat ELSE spec.by # "hash"

(* A request whose answer depends on nothing but blocks that it names by
   number or by tag: it asks for the number of the latest block or for the
   network, or it names at least one block. *)
NumberedRequest(r) ==
  \/ r.method \in {"BlockNumber", "NetVersion"}
  \/ /\ r.method \in {"GetBalance", "GetBlockByNumber", "GetCode", "GetLogs", "GetStorageAt",
                      "GetTransactionCount", "FeeHistory", "GetProof"}
     /\ \A spec \in BlockSpecs(r) : SpecIsCacheable(spec) => ByNumberOrTag(spec)
     /\ r.method = "FeeHistory" => r.block_count \in Nat
     /\ r.method = "GetBlockByNumber" =>
          r = [method |-> "GetBlockByNumber", block |-> r.block,
               include_tx_data |-> r.include_tx_data]

(* What the theorem rests on. *)
SafeDepth == MaxReorg + MaxDelay <= safe_block_depth
NumberedRequests == \A r \in Requests : NumberedRequest(r)

-----------------------------------------------------------------------------
(* An answer that is stored is that to net_version, or covers blocks up to
   the one that is checked. *)
Fixed(w) == w.method = "NetVersion"
Numbered(w) ==
  /\ w.method \notin {"NetVersion", "GetBlockByHash", "GetTransactionByHash", "GetTransactionReceipt"}
  /\ NeedsSafetyCheck(w) \in Nat
  /\ \A n \in Covered(w) : n \in Int /\ n <= NeedsSafetyCheck(w)

(* The definitions below are about a chain that is a parameter, so that they
   can be compared before and after a step. *)
BlockIn(ch, n) == IF n \in 1 .. Len(ch) THEN ch[n] ELSE None

(* The blocks of an answer, which are those of the chain up to a number. *)
Agrees(ch, w, answer, top) ==
  /\ answer = [n \in Covered(w) |-> answer[n]]
  /\ \A n \in Covered(w) : n <= top => answer[n] = BlockIn(ch, n)

(* Every block that an answer covers is out of the reach of a reorg. *)
Final(ch, w, answer) ==
  \/ Fixed(w) /\ answer = <<>>
  \/ /\ Numbered(w)
     /\ NeedsSafetyCheck(w) <= Len(ch) - MaxReorg
     /\ answer = [n \in Covered(w) |-> BlockIn(ch, n)]

(* An answer that waits for its check was given when the chain was at most
   MaxDelay blocks shorter. *)
Waiting(ch, s) ==
  \/ Fixed(s.write) /\ s.answer = <<>>
  \/ /\ Numbered(s.write)
     /\ Len(ch) <= s.head + MaxDelay
     /\ Agrees(ch, s.write, s.answer, s.head - MaxReorg)

(* The parts of the inductive invariant: the chain, ... *)
ChainInv == chain \in Seq(Nat) /\ ids \in Nat

(* ... a number that is remembered, which the chain has reached, ... *)
NumberInv ==
  \/ cached_block_number = None
  \/ /\ cached_block_number = [number |-> cached_block_number.number,
                               fresh |-> cached_block_number.fresh]
     /\ cached_block_number.number \in Nat
     /\ cached_block_number.number <= Len(chain)

(* ... the files, ... *)
DiskInv ==
  \A key \in DOMAIN disk : disk[key] # None => Final(chain, disk[key].request, disk[key].answer)

(* ... and the calls. *)
Shape(s) ==
  /\ s = [request |-> s.request, write |-> s.write, answer |-> s.answer, head |-> s.head,
          at |-> s.at]
  /\ s.request \in Requests /\ s.head \in Nat
  /\ s.at \in {"read", "remove", "send", "resend", "got", "check", "number", "remember", "write"}
  /\ s.at \in {"read", "remove", "send", "resend"} => s.write = None
  /\ s.request.method = "BlockNumber" => s.write = None
  /\ s.at \in {"check", "write"} => s.write # None
  /\ s.at \in {"check", "number", "remember"} /\ s.write # None => Numbered(s.write)

Busy(ch, s) ==
  /\ Shape(s)
  /\ s.head <= Len(ch)
  /\ s.at = "write" => Final(ch, s.write, s.answer)
  /\ s.at \in {"got", "check", "number"} /\ s.write # None => Waiting(ch, s)
  /\ s.at = "remember" /\ s.write # None =>
       Agrees(ch, s.write, s.answer, s.head - MaxDelay - MaxReorg)

CallInv(ch, s) == s = [at |-> "idle"] \/ Busy(ch, s)

CallsInv ==
  /\ call = [c \in Callers |-> call[c]]
  /\ \A c \in Callers : CallInv(chain, call[c])

IInv == ChainInv /\ NumberInv /\ DiskInv /\ CallsInv

-----------------------------------------------------------------------------
(* The requests that have a key, and what the node answers to them. *)
LEMMA KeyedRequest ==
  ASSUME NumberedRequests, NEW r \in Requests, HasKey(r)
  PROVE  /\ Fixed(r) \/ Numbered(r)
         /\ r.method # "BlockNumber"
<1>1. NumberedRequest(r)
  BY DEF NumberedRequests
<1>2. r.method # "BlockNumber" /\ \A spec \in BlockSpecs(r) : SpecIsCacheable(spec) /\ SpecIsResolved(spec)
  BY DEF HasKey, IsCacheable
<1>3. CASE r.method = "NetVersion"
  BY <1>2, <1>3 DEF Fixed
<1>4. CASE r.method = "GetLogs"
  <2>1. BlockSpecs(r) = {r.from_block, r.to_block}
    BY <1>4 DEF BlockSpecs
  <2>2. \A spec \in BlockSpecs(r) : spec.by = "number" /\ spec.number \in Nat
    BY <1>1, <1>2, <1>4 DEF NumberedRequest, ByNumberOrTag, SpecIsResolved
  <2>3. NeedsSafetyCheck(r) = r.to_block.number
    BY <1>4, <2>1, <2>2 DEF NeedsSafetyCheck
  <2>4. Covered(r) = r.from_block.number .. r.to_block.number
    BY <1>4 DEF Covered
  <2> QED
    BY <1>4, <2>1, <2>2, <2>3, <2>4 DEF Numbered
<1>5. CASE r.method \in {"GetBalance", "GetBlockByNumber", "GetCode", "GetStorageAt",
                         "GetTransactionCount", "FeeHistory", "GetProof"}
  <2>1. BlockSpecs(r) = {r.block}
    BY <1>5 DEF BlockSpecs
  <2>2. r.block.by = "number" /\ r.block.number \in Nat
    BY <1>1, <1>2, <1>5, <2>1 DEF NumberedRequest, ByNumberOrTag, SpecIsResolved
  <2>3. NeedsSafetyCheck(r) = r.block.number
    BY <1>5, <2>1, <2>2 DEF NeedsSafetyCheck
  <2>4. CASE r.method = "FeeHistory"
    <3>1. r.block_count \in Nat
      BY <1>1, <2>4 DEF NumberedRequest
    <3>2. Covered(r) = (r.block.number - r.block_count + 1) .. r.block.number
      BY <2>4 DEF Covered
    <3> QED
      BY <2>2, <2>3, <2>4, <3>1, <3>2 DEF Numbered
  <2>5. CASE r.method # "FeeHistory"
    <3>1. Covered(r) = {r.block.number}
      BY <1>5, <2>5 DEF Covered
    <3> QED
      BY <1>5, <2>2, <2>3, <3>1 DEF Numbered
  <2> QED
    BY <2>4, <2>5
<1> QED
  BY <1>1, <1>2, <1>3, <1>4, <1>5 DEF NumberedRequest

LEMMA AnswerOfNumbered ==
  ASSUME NEW w
  PROVE  /\ Numbered(w) => Answer(w) = [n \in Covered(w) |-> BlockIn(chain, n)]
         /\ Fixed(w) => Answer(w) = <<>>
<1>1. ASSUME Numbered(w)
      PROVE  Answer(w) = [n \in Covered(w) |-> BlockIn(chain, n)]
  <2>1. NeedsSafetyCheck(w) # None
    BY <1>1, RpcClientAssumption DEF Numbered
  <2>2. Answer(w) = [n \in Covered(w) |-> BlockAt(n)]
    BY <1>1, <2>1 DEF Numbered, Answer
  <2> QED
    BY <2>2 DEF BlockAt, BlockIn, Latest
<1>2. Fixed(w) => Answer(w) = <<>>
  BY DEF Fixed, Answer
<1> QED
  BY <1>1, <1>2

(* The request for a block by tag is stored as one by number. *)
LEMMA ResolvedTag ==
  ASSUME NumberedRequests, NEW r \in Requests, ~HasKey(r), NEW n \in Nat \cup {None},
         resolve_write_key(r, n) # None
  PROVE  /\ r.method = "GetBlockByNumber" /\ n \in Nat
         /\ Numbered(resolve_write_key(r, n))
         /\ Covered(resolve_write_key(r, n)) = {n}
<1> DEFINE w == resolve_write_key(r, n)
<1>1. /\ r.method = "GetBlockByNumber" /\ n \in Nat
      /\ w = [r EXCEPT !.block = Number(n)]
  BY DEF resolve_write_key
<1>2. r = [method |-> "GetBlockByNumber", block |-> r.block, include_tx_data |-> r.include_tx_data]
  BY <1>1 DEF NumberedRequests, NumberedRequest
<1>3. w.method = "GetBlockByNumber" /\ w.block = Number(n)
  BY <1>1, <1>2
<1>4. w.block.by = "number" /\ w.block.number = n
  BY <1>3 DEF Number
<1> HIDE DEF w
<1>5. BlockSpecs(w) = {w.block} /\ Covered(w) = {n}
  BY <1>3, <1>4 DEF BlockSpecs, Covered
<1>6. NeedsSafetyCheck(w) = n
  BY <1>3, <1>4, <1>5 DEF NeedsSafetyCheck
<1>7. Numbered(w)
  BY <1>1, <1>3, <1>5, <1>6 DEF Numbered
<1> QED
  BY <1>1, <1>5, <1>7 DEF w

-----------------------------------------------------------------------------
(* A step of the remote chain keeps what lies deeper than a reorg. *)
Grows(ch, ch2) ==
  /\ Len(ch) \in Nat /\ Len(ch2) \in Nat /\ Len(ch) <= Len(ch2)
  /\ \A n \in Int : n <= Len(ch) - MaxReorg => BlockIn(ch2, n) = BlockIn(ch, n)

LEMMA RemoteGrows ==
  ASSUME ChainInv, Extend \/ \E k \in 1 .. MaxReorg : Reorg(k)
  PROVE  ChainInv' /\ Grows(chain, chain')
<1> USE RpcClientAssumption
<1>1. CASE Extend
  <2>1. chain' = Append(chain, ids + 1) /\ ids' = ids + 1
    BY <1>1 DEF Extend
  <2>2. ChainInv'
    BY <2>1 DEF ChainInv
  <2>3. Len(chain) \in Nat /\ Len(chain') = Len(chain) + 1
        /\ \A n \in 1 .. Len(chain) : chain'[n] = chain[n]
    BY <2>1 DEF ChainInv
  <2> QED
    BY <2>2, <2>3 DEF Grows, BlockIn
<1>2. ASSUME NEW k \in 1 .. MaxReorg, Reorg(k)
      PROVE  ChainInv' /\ Grows(chain, chain')
  <2>1. /\ chain' = [n \in 1 .. Len(chain) |->
                       IF n <= Len(chain) - k THEN chain[n] ELSE ids + n - (Len(chain) - k)]
        /\ ids' = ids + k /\ k < Len(chain)
    BY <1>2 DEF Reorg, Latest
  <2>2. Len(chain) \in Nat /\ ids \in Nat /\ \A n \in 1 .. Len(chain) : chain[n] \in Nat
    BY DEF ChainInv
  <2>3. \A n \in 1 .. Len(chain) :
          (IF n <= Len(chain) - k THEN chain[n] ELSE ids + n - (Len(chain) - k)) \in Nat
    BY <2>2
  <2>4. chain' \in [1 .. Len(chain) -> Nat]
    BY <2>1, <2>3
  <2>5. chain' \in Seq(Nat) /\ Len(chain') = Len(chain)
    BY <2>2, <2>4
  <2>6. \A n \in 1 .. Len(chain) : n <= Len(chain) - MaxReorg => chain'[n] = chain[n]
    BY <2>1, <2>2
  <2> QED
    BY <2>1, <2>2, <2>5, <2>6 DEF ChainInv, Grows, BlockIn
<1> QED
  BY <1>1, <1>2

(* What is final stays so, and an answer that waits keeps its deep blocks. *)
LEMMA FinalStays ==
  ASSUME NEW ch, NEW ch2, Grows(ch, ch2), NEW w, NEW answer, Final(ch, w, answer)
  PROVE  Final(ch2, w, answer)
<1> USE RpcClientAssumption
<1>1. CASE Numbered(w) /\ NeedsSafetyCheck(w) <= Len(ch) - MaxReorg
           /\ answer = [n \in Covered(w) |-> BlockIn(ch, n)]
  <2>1. \A n \in Covered(w) : BlockIn(ch2, n) = BlockIn(ch, n)
    BY <1>1 DEF Grows, Numbered
  <2>2. NeedsSafetyCheck(w) <= Len(ch2) - MaxReorg
    BY <1>1 DEF Grows, Numbered
  <2> QED
    BY <1>1, <2>1, <2>2 DEF Final
<1> QED
  BY <1>1 DEF Final

LEMMA AgreesStays ==
  ASSUME NEW ch, NEW ch2, Grows(ch, ch2), NEW w, Numbered(w), NEW answer, NEW top \in Int,
         top <= Len(ch) - MaxReorg, Agrees(ch, w, answer, top)
  PROVE  Agrees(ch2, w, answer, top)
BY RpcClientAssumption DEF Grows, Numbered, Agrees

LEMMA CallStays ==
  ASSUME NEW ch, NEW ch2, Grows(ch, ch2), NEW s, CallInv(ch, s),
         s.at \in {"got", "check", "number"} /\ s.write # None /\ Numbered(s.write)
           => Len(ch2) <= s.head + MaxDelay
  PROVE  CallInv(ch2, s)
<1> USE RpcClientAssumption
<1> SUFFICES ASSUME Busy(ch, s)
             PROVE  Busy(ch2, s)
  BY DEF CallInv
<1>1. /\ Shape(s) /\ s.head \in Nat /\ s.head <= Len(ch)
      /\ Len(ch) \in Nat /\ Len(ch2) \in Nat /\ Len(ch) <= Len(ch2)
  BY DEF Busy, Shape, Grows
<1>2. s.at = "write" => Final(ch2, s.write, s.answer)
  BY FinalStays DEF Busy
<1>3. ASSUME s.at \in {"got", "check", "number"}, s.write # None
      PROVE  Waiting(ch2, s)
  <2>1. Waiting(ch, s) /\ (Numbered(s.write) => Len(ch2) <= s.head + MaxDelay)
    BY <1>3 DEF Busy
  <2>2. CASE Numbered(s.write) /\ Agrees(ch, s.write, s.answer, s.head - MaxReorg)
    <3>1. Agrees(ch2, s.write, s.answer, s.head - MaxReorg)
      BY <1>1, <2>2, AgreesStays
    <3> QED
      BY <2>1, <2>2, <3>1 DEF Waiting
  <2> QED
    BY <2>1, <2>2 DEF Waiting
<1>4. ASSUME s.at = "remember", s.write # None
      PROVE  Agrees(ch2, s.write, s.answer, s.head - MaxDelay - MaxReorg)
  <2>1. Numbered(s.write) /\ Agrees(ch, s.write, s.answer, s.head - MaxDelay - MaxReorg)
    BY <1>4 DEF Busy, Shape
  <2>2. s.head - MaxDelay - MaxReorg <= Len(ch) - MaxReorg /\ s.head - MaxDelay - MaxReorg \in Int
    BY <1>1
  <2> QED
    BY <2>1, <2>2, AgreesStays
<1> QED
  BY <1>1, <1>2, <1>3, <1>4 DEF Busy

-----------------------------------------------------------------------------
(* A step of one call leaves the others alone. *)
LEMMA OneCaller ==
  ASSUME CallsInv, UNCHANGED chain, NEW c \in Callers, NEW s, CallInv(chain, s),
         call' = [call EXCEPT ![c] = s]
  PROVE  CallsInv'
<1>1. call' = [d \in Callers |-> IF d = c THEN s ELSE call[d]]
  BY DEF CallsInv
<1>2. \A d \in Callers : CallInv(chain, call'[d])
  BY <1>1 DEF CallsInv
<1> QED
  BY <1>1, <1>2 DEF CallsInv

LEMMA Returned ==
  ASSUME CallsInv, UNCHANGED chain, NEW c \in Callers, Return(c)
  PROVE  CallsInv'
<1>1. CallInv(chain, [at |-> "idle"])
  BY DEF CallInv
<1> QED
  BY <1>1, OneCaller DEF Return

(* A call that goes on is as it was, but for where it is. *)
LEMMA WentTo ==
  ASSUME CallsInv, UNCHANGED chain, NEW c \in Callers, NEW at, Goto(c, at),
         call[c].at # "idle",
         LET s == [request |-> call[c].request, write |-> call[c].write,
                   answer |-> call[c].answer, head |-> call[c].head, at |-> at]
         IN  Busy(chain, s)
  PROVE  CallsInv'
<1> DEFINE s == [request |-> call[c].request, write |-> call[c].write,
                 answer |-> call[c].answer, head |-> call[c].head, at |-> at]
<1>1. call[c] = [request |-> call[c].request, write |-> call[c].write,
                 answer |-> call[c].answer, head |-> call[c].head, at |-> call[c].at]
  BY DEF CallsInv, CallInv, Busy, Shape
<1>2. [call[c] EXCEPT !.at = at] = s
  BY <1>1
<1>3. call' = [call EXCEPT ![c] = s]
  BY <1>2 DEF Goto
<1>4. CallInv(chain, s)
  BY DEF CallInv
<1> HIDE DEF s
<1> QED
  BY <1>3, <1>4, OneCaller

(* The steps of a call before the node answers: nothing is to be stored. *)
LEMMA Asking ==
  ASSUME CallsInv, UNCHANGED chain, NEW c \in Callers,
         call[c].at \in {"read", "remove", "send", "resend"},
         NEW at \in {"remove", "send", "resend"}, Goto(c, at)
  PROVE  CallsInv'
<1>1. Busy(chain, call[c])
  BY DEF CallsInv, CallInv
<1>2. Busy(chain, [request |-> call[c].request, write |-> call[c].write,
                   answer |-> call[c].answer, head |-> call[c].head, at |-> at])
  BY <1>1 DEF Busy, Shape
<1> QED
  BY <1>2, WentTo

LEMMA CallKeeps ==
  ASSUME ChainInv, CallsInv, NEW c \in Callers, NEW r \in Requests, Call(c, r)
  PROVE  CallsInv'
<1> DEFINE at == IF r.method = "BlockNumber" THEN "number"
                 ELSE IF HasKey(r) THEN "read" ELSE "send"
           s == [request |-> r, write |-> None, answer |-> None, head |-> 0, at |-> at]
<1>1. call' = [call EXCEPT ![c] = s] /\ UNCHANGED chain
  BY DEF Call, remote
<1>2. at \in {"number", "read", "send"}
  OBVIOUS
<1> HIDE DEF at
<1>3. Shape(s)
  BY <1>2 DEF Shape
<1>4. Busy(chain, s)
  BY <1>2, <1>3 DEF Busy, ChainInv
<1>5. CallInv(chain, s)
  BY <1>4 DEF CallInv
<1> HIDE DEF s
<1> QED
  BY <1>1, <1>5, OneCaller

(* The node's answer agrees with the whole chain of that moment. *)
LEMMA SendKeeps ==
  ASSUME NumberedRequests, ChainInv, CallsInv, NEW c \in Callers, Send(c)
  PROVE  CallsInv'
<1> USE RpcClientAssumption
<1> DEFINE r == call[c].request
           Got(number, answer) == [request |-> r, write |-> resolve_write_key(r, number),
                                   answer |-> answer, head |-> Latest, at |-> "got"]
<1>0. UNCHANGED chain /\ Latest \in Nat /\ Latest = Len(chain)
  BY DEF Send, remote, Latest, ChainInv
<1>1. /\ Shape(call[c]) /\ r \in Requests
      /\ call[c] = [request |-> call[c].request, write |-> call[c].write,
                    answer |-> call[c].answer, head |-> call[c].head, at |-> call[c].at]
  BY DEF Send, CallsInv, CallInv, Busy, Shape
<1>2. \A number, answer : Answered(c, number, answer) => call' = [call EXCEPT ![c] = Got(number, answer)]
  <2> TAKE number, answer
  <2> HAVE Answered(c, number, answer)
  <2>1. call' = [call EXCEPT ![c] = [call[c] EXCEPT !.at = "got", !.answer = answer, !.head = Latest,
                                                    !.write = resolve_write_key(r, number)]]
    BY DEF Answered
  <2> DEFINE w == resolve_write_key(r, number)
             s1 == [call[c] EXCEPT !.at = "got"]
             s2 == [s1 EXCEPT !.answer = answer]
             s3 == [s2 EXCEPT !.head = Latest]
             s4 == [s3 EXCEPT !.write = w]
  <2> HIDE DEF w
  <2>2. s1 = [request |-> r, write |-> call[c].write, answer |-> call[c].answer,
              head |-> call[c].head, at |-> "got"]
    BY <1>1
  <2> HIDE DEF s1
  <2>3. s2 = [request |-> r, write |-> call[c].write, answer |-> answer,
              head |-> call[c].head, at |-> "got"]
    BY <2>2
  <2> HIDE DEF s2
  <2>4. s3 = [request |-> r, write |-> call[c].write, answer |-> answer,
              head |-> Latest, at |-> "got"]
    BY <2>3
  <2> HIDE DEF s3
  <2>5. s4 = [request |-> r, write |-> w, answer |-> answer, head |-> Latest, at |-> "got"]
    BY <2>4
  <2> HIDE DEF s4
  <2>6. call' = [call EXCEPT ![c] = s4]
    BY <2>1 DEF s1, s2, s3, s4, w
  <2> QED
    BY <2>5, <2>6 DEF w
<1>3. ASSUME NEW number, NEW answer, Answered(c, number, answer),
             LET w == resolve_write_key(r, number)
             IN  w # None =>
                   /\ r.method # "BlockNumber"
                   /\ \/ Fixed(w) /\ answer = <<>>
                      \/ Numbered(w) /\ answer = [n \in Covered(w) |-> BlockIn(chain, n)]
      PROVE  CallsInv'
  <2> DEFINE s == Got(number, answer)
  <2>1. /\ s.request = r /\ s.at = "got" /\ s.head = Latest /\ s.answer = answer
        /\ s.write = resolve_write_key(r, number)
        /\ s = [request |-> s.request, write |-> s.write, answer |-> s.answer, head |-> s.head,
                at |-> s.at]
    OBVIOUS
  <2>2. call' = [call EXCEPT ![c] = s]
    BY <1>2, <1>3
  <2> HIDE DEF s
  <2>3. Shape(s)
    BY <1>0, <1>1, <1>3, <2>1 DEF Shape
  <2>4. s.write # None => Waiting(chain, s)
    BY <1>0, <1>3, <2>1 DEF Waiting, Agrees
  <2>5. CallInv(chain, s)
    BY <1>0, <2>1, <2>3, <2>4 DEF CallInv, Busy
  <2> QED
    BY <1>0, <2>2, <2>5, OneCaller
<1>4. CASE HasKey(r) /\ Answered(c, None, Answer(r))
  <2>1. resolve_write_key(r, None) = r
    BY <1>4 DEF resolve_write_key
  <2>2. (Fixed(r) \/ Numbered(r)) /\ r.method # "BlockNumber"
    BY <1>1, <1>4, KeyedRequest
  <2> QED
    BY <1>3, <1>4, <2>1, <2>2, AnswerOfNumbered
<1>5. ASSUME ~HasKey(r), NEW n \in Nat, Answered(c, n, [m \in {n} |-> BlockAt(m)])
      PROVE  CallsInv'
  <2>1. ASSUME resolve_write_key(r, n) # None
        PROVE  /\ r.method # "BlockNumber" /\ Numbered(resolve_write_key(r, n))
               /\ Covered(resolve_write_key(r, n)) = {n}
    BY <1>1, <1>5, <2>1, ResolvedTag
  <2>2. \A m : BlockAt(m) = BlockIn(chain, m)
    BY DEF BlockAt, BlockIn, Latest
  <2> QED
    BY <1>3, <1>5, <2>1, <2>2
<1>6. CASE ~HasKey(r) /\ Answered(c, None, <<>>)
  <2>1. resolve_write_key(r, None) = None
    BY <1>6 DEF resolve_write_key
  <2> QED
    BY <1>3, <1>6, <2>1
<1>7. \A n \in IF r.block.by = "earliest" THEN {1} ELSE 1 .. Latest : n \in Nat
  BY <1>0
<1> QED
  BY <1>4, <1>5, <1>6, <1>7 DEF Send

LEMMA ResolveWriteKeyKeeps ==
  ASSUME ChainInv, CallsInv, NEW c \in Callers, ResolveWriteKey(c)
  PROVE  CallsInv'
<1> USE RpcClientAssumption
<1> DEFINE w == call[c].write
           at == IF NeedsSafetyCheck(w) = None THEN "write" ELSE "check"
           s == [request |-> call[c].request, write |-> call[c].write,
                 answer |-> call[c].answer, head |-> call[c].head, at |-> at]
<1>0. UNCHANGED chain
  BY DEF ResolveWriteKey, remote
<1>1. Busy(chain, call[c]) /\ call[c].at = "got"
  BY DEF ResolveWriteKey, CallsInv, CallInv
<1>2. CASE w = None
  BY <1>0, <1>2, Returned DEF ResolveWriteKey
<1>3. CASE w # None
  <2>1. Goto(c, at)
    BY <1>3 DEF ResolveWriteKey
  <2>2. Waiting(chain, call[c])
    BY <1>1, <1>3 DEF Busy
  <2>3. Fixed(w) => NeedsSafetyCheck(w) = None
    BY DEF Fixed, NeedsSafetyCheck, BlockSpecs
  <2>4. at \in {"check", "write"} /\ (at = "check" => Numbered(w))
        /\ (at = "write" => Fixed(w) /\ call[c].answer = <<>>)
    BY <2>2, <2>3 DEF Waiting, Numbered
  <2> HIDE DEF at
  <2>5. Shape(s)
    BY <1>1, <1>3, <2>4 DEF Busy, Shape
  <2>6. Waiting(chain, s)
    BY <2>2 DEF Waiting
  <2>7. at = "write" => Final(chain, w, call[c].answer)
    BY <2>4 DEF Final
  <2>8. Busy(chain, s)
    BY <1>1, <2>4, <2>5, <2>6, <2>7 DEF Busy
  <2> QED
    BY <1>0, <1>1, <2>1, <2>8, WentTo
<1> QED
  BY <1>2, <1>3

(* A block that is deep enough below a number of the chain is final. *)
LEMMA ValidateKeeps ==
  ASSUME ChainInv, CallsInv, UNCHANGED chain, NEW c \in Callers, Busy(chain, call[c]),
         call[c].at # "idle", Numbered(call[c].write), call[c].write # None,
         NEW latest \in Nat, latest <= Len(chain), NEW top \in Int,
         latest - safe_block_depth <= top,
         safe_block_depth >= MaxReorg,
         Agrees(chain, call[c].write, call[c].answer, top),
         Validate(c, latest)
  PROVE  CallsInv'
<1> USE RpcClientAssumption
<1> DEFINE w == call[c].write
           s == [request |-> call[c].request, write |-> call[c].write,
                 answer |-> call[c].answer, head |-> call[c].head, at |-> "write"]
<1>1. CASE is_safe_block_number(NeedsSafetyCheck(w), latest)
  <2>1. Goto(c, "write")
    BY <1>1 DEF Validate
  <2>2. NeedsSafetyCheck(w) \in Nat /\ NeedsSafetyCheck(w) <= latest - safe_block_depth
    BY <1>1 DEF is_safe_block_number, Numbered
  <2>3. Len(chain) \in Nat
    BY DEF ChainInv
  <2>4. NeedsSafetyCheck(w) <= Len(chain) - MaxReorg
    BY <2>2, <2>3
  <2>5. \A n \in Covered(w) : call[c].answer[n] = BlockIn(chain, n)
    BY <2>2 DEF Agrees, Numbered
  <2>6. call[c].answer = [n \in Covered(w) |-> BlockIn(chain, n)]
    BY <2>5 DEF Agrees
  <2>7. Final(chain, w, call[c].answer)
    BY <2>4, <2>6 DEF Final
  <2>8. Shape(s)
    BY DEF Busy, Shape
  <2>9. Busy(chain, s)
    BY <2>7, <2>8 DEF Busy
  <2> QED
    BY <2>1, <2>9, WentTo
<1>2. CASE ~is_safe_block_number(NeedsSafetyCheck(w), latest)
  BY <1>2, Returned DEF Validate
<1> QED
  BY <1>1, <1>2

LEMMA CheckBlockNumberKeeps ==
  ASSUME SafeDepth, ChainInv, NumberInv, CallsInv, NEW c \in Callers, CheckBlockNumber(c)
  PROVE  CallsInv'
<1> USE RpcClientAssumption
<1> DEFINE s == [request |-> call[c].request, write |-> call[c].write,
                 answer |-> call[c].answer, head |-> call[c].head, at |-> "number"]
<1>0. UNCHANGED chain /\ Len(chain) \in Nat
  BY DEF CheckBlockNumber, remote, ChainInv
<1>1. Busy(chain, call[c]) /\ call[c].at = "check"
  BY DEF CheckBlockNumber, CallsInv, CallInv
<1>2. /\ call[c].head \in Nat /\ call[c].write # None /\ Numbered(call[c].write)
      /\ Waiting(chain, call[c])
  BY <1>1 DEF Busy, Shape
<1>3. CASE Goto(c, "number")
  <2>1. Shape(s)
    BY <1>1 DEF Busy, Shape
  <2>2. Waiting(chain, s)
    BY <1>2 DEF Waiting
  <2>3. Busy(chain, s)
    BY <1>1, <2>1, <2>2 DEF Busy
  <2> QED
    BY <1>0, <1>1, <1>3, <2>3, WentTo
<1>4. CASE cached_block_number # None /\ Validate(c, cached_block_number.number)
  <2>1. cached_block_number.number \in Nat /\ cached_block_number.number <= Len(chain)
    BY <1>4 DEF NumberInv
  <2>2. Len(chain) <= call[c].head + MaxDelay
        /\ Agrees(chain, call[c].write, call[c].answer, call[c].head - MaxReorg)
    BY <1>2 DEF Waiting, Fixed, Numbered
  <2>3. cached_block_number.number - safe_block_depth <= call[c].head - MaxReorg
        /\ call[c].head - MaxReorg \in Int /\ safe_block_depth >= MaxReorg
    BY <1>0, <1>2, <2>1, <2>2, SMTT(30) DEF SafeDepth
  <2> QED
    BY <1>0, <1>1, <1>2, <1>4, <2>1, <2>2, <2>3, ValidateKeeps
<1> QED
  BY <1>3, <1>4 DEF CheckBlockNumber

LEMMA AskBlockNumberKeeps ==
  ASSUME ChainInv, CallsInv, NEW c \in Callers, AskBlockNumber(c)
  PROVE  CallsInv'
<1> USE RpcClientAssumption
<1> DEFINE w == call[c].write
           s1 == [call[c] EXCEPT !.at = "remember"]
           s2 == [s1 EXCEPT !.head = Latest]
<1>0. UNCHANGED chain /\ Len(chain) \in Nat /\ Latest = Len(chain)
  BY DEF AskBlockNumber, remote, ChainInv, Latest
<1>1. Busy(chain, call[c]) /\ call[c].at = "number"
  BY DEF AskBlockNumber, CallsInv, CallInv
<1>2. s1 = [request |-> call[c].request, write |-> w, answer |-> call[c].answer,
            head |-> call[c].head, at |-> "remember"]
  BY <1>1 DEF Busy, Shape
<1> HIDE DEF s1
<1>3. s2 = [request |-> call[c].request, write |-> w, answer |-> call[c].answer,
            head |-> Latest, at |-> "remember"]
  BY <1>2
<1> HIDE DEF s2
<1>4. call' = [call EXCEPT ![c] = s2]
  BY DEF AskBlockNumber, s1, s2
<1>5. Shape(s2)
  BY <1>0, <1>1, <1>3 DEF Busy, Shape
<1>6. ASSUME w # None
      PROVE  Agrees(chain, w, call[c].answer, Latest - MaxDelay - MaxReorg)
  <2>1. Numbered(w) /\ call[c].head \in Nat
    BY <1>1, <1>6 DEF Busy, Shape
  <2>2. Len(chain) <= call[c].head + MaxDelay
        /\ Agrees(chain, w, call[c].answer, call[c].head - MaxReorg)
    BY <1>1, <1>6, <2>1 DEF Busy, Waiting, Fixed, Numbered
  <2>3. Latest - MaxDelay - MaxReorg <= call[c].head - MaxReorg
    BY <1>0, <2>1, <2>2
  <2>4. \A n \in Covered(w) : n <= Latest - MaxDelay - MaxReorg => n <= call[c].head - MaxReorg
    BY <1>0, <2>1, <2>3 DEF Numbered
  <2> QED
    BY <2>2, <2>4 DEF Agrees
<1>7. Busy(chain, s2)
  BY <1>0, <1>3, <1>5, <1>6 DEF Busy
<1> QED
  BY <1>0, <1>4, <1>7, OneCaller DEF CallInv

LEMMA RememberBlockNumberKeeps ==
  ASSUME SafeDepth, ChainInv, CallsInv, NEW c \in Callers, RememberBlockNumber(c)
  PROVE  CallsInv' /\ NumberInv'
<1> USE RpcClientAssumption
<1>0. UNCHANGED chain /\ Len(chain) \in Nat
  BY DEF RememberBlockNumber, remote, ChainInv
<1>1. Busy(chain, call[c]) /\ call[c].at = "remember"
  BY DEF RememberBlockNumber, CallsInv, CallInv
<1>2. call[c].head \in Nat /\ call[c].head <= Len(chain)
  BY <1>1 DEF Busy, Shape
<1>3. NumberInv'
  BY <1>0, <1>2 DEF NumberInv, RememberBlockNumber
<1>4. CASE call[c].write = None
  BY <1>0, <1>3, <1>4, Returned DEF RememberBlockNumber
<1>5. CASE call[c].write # None
  <2>1. /\ Numbered(call[c].write) /\ Validate(c, call[c].head)
        /\ Agrees(chain, call[c].write, call[c].answer, call[c].head - MaxDelay - MaxReorg)
    BY <1>1, <1>5 DEF Busy, Shape, RememberBlockNumber
  <2>2. /\ call[c].head - safe_block_depth <= call[c].head - MaxDelay - MaxReorg
        /\ call[c].head - MaxDelay - MaxReorg \in Int /\ safe_block_depth >= MaxReorg
    BY <1>2, SMTT(30) DEF SafeDepth
  <2> QED
    BY <1>0, <1>1, <1>2, <1>3, <1>5, <2>1, <2>2, ValidateKeeps
<1> QED
  BY <1>4, <1>5

LEMMA WriteToCacheKeeps ==
  ASSUME DiskInv, CallsInv, NEW c \in Callers, WriteToCache(c)
  PROVE  DiskInv' /\ CallsInv'
<1> DEFINE entry == [request |-> call[c].write, answer |-> call[c].answer]
<1>0. UNCHANGED chain /\ Return(c)
  BY DEF WriteToCache, remote
<1>1. Final(chain, call[c].write, call[c].answer)
  BY DEF WriteToCache, CallsInv, CallInv, Busy
<1>2. \A key \in DOMAIN disk' : disk'[key] = entry \/ (key \in DOMAIN disk /\ disk'[key] = disk[key])
  BY DEF WriteToCache, Put
<1>3. entry.request = call[c].write /\ entry.answer = call[c].answer
  OBVIOUS
<1> HIDE DEF entry
<1>4. DiskInv'
  BY <1>0, <1>1, <1>2, <1>3 DEF DiskInv
<1> QED
  BY <1>0, <1>4, Returned

-----------------------------------------------------------------------------
LEMMA InitHolds == Init => IInv
<1> SUFFICES ASSUME Init PROVE IInv
  OBVIOUS
<1>1. ChainInv
  BY DEF Init, ChainInv
<1>2. NumberInv /\ DiskInv
  BY DEF Init, NumberInv, DiskInv
<1>3. CallsInv
  BY DEF Init, CallsInv, CallInv
<1> QED
  BY <1>1, <1>2, <1>3 DEF IInv

(* The remote chain moves, and no call does. *)
LEMMA RemoteKeeps ==
  ASSUME IInv, Extend \/ \E k \in 1 .. MaxReorg : Reorg(k)
  PROVE  IInv'
<1> USE RpcClientAssumption
<1>1. UNCHANGED <<cached_block_number, disk, call>>
  BY DEF Extend, Reorg
<1>2. ChainInv' /\ Grows(chain, chain')
  BY RemoteGrows DEF IInv
<1>3. NumberInv'
  BY <1>1, <1>2 DEF IInv, NumberInv, Grows
<1>4. DiskInv'
  BY <1>1, <1>2, FinalStays DEF IInv, DiskInv
<1>5. ASSUME NEW c \in Callers, call[c].at \in {"got", "check", "number"},
             call[c].write # None, Numbered(call[c].write)
      PROVE  Len(chain') <= call[c].head + MaxDelay
  <2> USE DEF IInv, CallsInv
  <2>0. /\ call[c].head \in Nat /\ Len(chain) \in Nat
        /\ call[c].request.method # "BlockNumber" /\ Waiting(chain, call[c])
    BY <1>5 DEF ChainInv, CallInv, Busy, Shape
  <2>1. CASE Extend
    <3>1. Latest < call[c].head + MaxDelay
      BY <1>5, <2>0, <2>1 DEF Extend, Unchecked
    <3>2. Len(chain') = Len(chain) + 1
      BY <2>1 DEF Extend, IInv, ChainInv
    <3> QED
      BY <2>0, <3>1, <3>2 DEF Latest
  <2>2. ASSUME NEW k \in 1 .. MaxReorg, Reorg(k)
        PROVE  Len(chain') <= call[c].head + MaxDelay
    <3>1. DOMAIN chain' = 1 .. Len(chain)
      BY <2>2 DEF Reorg, Latest
    <3>2. Len(chain') = Len(chain)
      BY <1>2, <2>0, <3>1 DEF ChainInv
    <3> QED
      BY <1>5, <2>0, <3>2 DEF Waiting, Fixed, Numbered
  <2> QED
    BY <2>1, <2>2
<1>6. \A c \in Callers : CallInv(chain', call[c])
  BY <1>2, <1>5, CallStays DEF IInv, CallsInv
<1>7. CallsInv'
  BY <1>1, <1>6 DEF IInv, CallsInv
<1> QED
  BY <1>2, <1>3, <1>4, <1>7 DEF IInv

(* A step of a call, of the files, of the block time or of the process. *)
LEMMA StepKeeps ==
  ASSUME NumberedRequests, SafeDepth, IInv, NEW c \in Callers, Step(c)
  PROVE  IInv'
<1> USE DEF IInv
<1>1. ASSUME UNCHANGED <<remote, cached_block_number, disk>>, CallsInv'
      PROVE  IInv'
  BY <1>1 DEF remote, ChainInv, NumberInv, DiskInv
<1>2. CASE ReadCache(c)
  <2>1. UNCHANGED <<remote, cached_block_number, disk>> /\ UNCHANGED chain
        /\ call[c].at = "read" /\ (Goto(c, "send") \/ Goto(c, "remove") \/ Return(c))
    BY <1>2 DEF ReadCache, remote
  <2>2. CallsInv'
    BY <2>1, Asking, Returned
  <2> QED
    BY <1>1, <2>1, <2>2
<1>3. CASE RemoveFromCache(c)
  <2>1. UNCHANGED <<remote, cached_block_number>> /\ UNCHANGED chain
        /\ call[c].at = "remove" /\ Goto(c, "send")
    BY <1>3 DEF RemoveFromCache, remote
  <2>2. CallsInv'
    BY <2>1, Asking
  <2>3. \A key \in DOMAIN disk' : key \in DOMAIN disk /\ disk'[key] = disk[key]
    BY <1>3 DEF RemoveFromCache, Without
  <2>4. DiskInv'
    BY <2>1, <2>3 DEF DiskInv
  <2> QED
    BY <2>1, <2>2, <2>4 DEF remote, ChainInv, NumberInv
<1>4. CASE Send(c)
  BY <1>1, <1>4, SendKeeps DEF Send
<1>5. CASE MissingTrieNode(c)
  <2>1. UNCHANGED <<remote, cached_block_number, disk>> /\ UNCHANGED chain
        /\ call[c].at = "send" /\ Goto(c, "resend")
    BY <1>5 DEF MissingTrieNode, remote
  <2>2. CallsInv'
    BY <2>1, Asking
  <2> QED
    BY <1>1, <2>1, <2>2
<1>6. CASE ResolveWriteKey(c)
  BY <1>1, <1>6, ResolveWriteKeyKeeps DEF ResolveWriteKey
<1>7. CASE CheckBlockNumber(c)
  BY <1>1, <1>7, CheckBlockNumberKeeps DEF CheckBlockNumber
<1>8. CASE AskBlockNumber(c)
  BY <1>1, <1>8, AskBlockNumberKeeps DEF AskBlockNumber
<1>9. CASE RememberBlockNumber(c)
  <2>1. CallsInv' /\ NumberInv'
    BY <1>9, RememberBlockNumberKeeps
  <2>2. UNCHANGED <<chain, ids, disk>>
    BY <1>9 DEF RememberBlockNumber, remote
  <2> QED
    BY <2>1, <2>2 DEF ChainInv, DiskInv
<1>10. CASE WriteToCache(c)
  <2>1. CallsInv' /\ DiskInv'
    BY <1>10, WriteToCacheKeeps
  <2>2. UNCHANGED <<chain, ids, cached_block_number>>
    BY <1>10 DEF WriteToCache, remote
  <2> QED
    BY <2>1, <2>2 DEF ChainInv, NumberInv
<1>11. CASE Fail(c)
  <2>1. UNCHANGED <<remote, cached_block_number, disk>> /\ UNCHANGED chain /\ Return(c)
    BY <1>11 DEF Fail, remote
  <2>2. CallsInv'
    BY <2>1, Returned
  <2> QED
    BY <1>1, <2>1, <2>2
<1> QED
  BY <1>2, <1>3, <1>4, <1>5, <1>6, <1>7, <1>8, <1>9, <1>10, <1>11 DEF Step

LEMMA NextKeeps ==
  ASSUME NumberedRequests, SafeDepth, IInv, [Next]_vars
  PROVE  IInv'
<1>1. CASE Extend \/ \E k \in 1 .. MaxReorg : Reorg(k)
  BY <1>1, RemoteKeeps
<1>2. ASSUME NEW c \in Callers, NEW r \in Requests, Call(c, r)
      PROVE  IInv'
  <2>1. CallsInv'
    BY <1>2, CallKeeps DEF IInv
  <2>2. UNCHANGED <<chain, ids, cached_block_number, disk>>
    BY <1>2 DEF Call, remote
  <2> QED
    BY <2>1, <2>2 DEF IInv, ChainInv, NumberInv, DiskInv
<1>3. ASSUME NEW c \in Callers, Step(c)
      PROVE  IInv'
  BY <1>3, StepKeeps
<1>4. CASE Expire
  <2>1. UNCHANGED <<chain, ids, disk, call>>
    BY <1>4 DEF Expire, remote
  <2>2. NumberInv'
    BY <1>4, <2>1 DEF Expire, IInv, NumberInv
  <2> QED
    BY <2>1, <2>2 DEF IInv, ChainInv, DiskInv, CallsInv
<1>5. ASSUME NEW key \in DOMAIN disk, Damage(key)
      PROVE  IInv'
  <2>1. UNCHANGED <<chain, ids, cached_block_number, call>>
    BY <1>5 DEF Damage, remote
  <2>2. \A k \in DOMAIN disk' : k \in DOMAIN disk /\ (disk'[k] = None \/ disk'[k] = disk[k])
    BY <1>5 DEF Damage
  <2>3. DiskInv'
    BY <2>1, <2>2 DEF IInv, DiskInv
  <2> QED
    BY <2>1, <2>3 DEF IInv, ChainInv, NumberInv, CallsInv
<1>6. CASE Restart
  <2>1. UNCHANGED <<chain, ids, disk>> /\ cached_block_number' = None
    BY <1>6 DEF Restart, remote
  <2>2. CallsInv'
    BY <1>6 DEF Restart, CallsInv, CallInv
  <2> QED
    BY <2>1, <2>2 DEF IInv, ChainInv, NumberInv, DiskInv
<1>7. CASE UNCHANGED vars
  BY <1>7 DEF vars, remote, IInv, ChainInv, NumberInv, DiskInv, CallsInv
<1> QED
  BY <1>1, <1>2, <1>3, <1>4, <1>5, <1>6, <1>7 DEF Next

LEMMA FinalIsAnswer == IInv => CachedIsFinal
<1> SUFFICES ASSUME IInv, NEW key \in DOMAIN disk, disk[key] # None
             PROVE  disk[key].answer = Answer(disk[key].request)
  BY DEF CachedIsFinal
<1>1. Final(chain, disk[key].request, disk[key].answer)
  BY DEF IInv, DiskInv
<1> QED
  BY <1>1, AnswerOfNumbered DEF Final

(* What the cache serves is what the node would answer now, whatever the
   number of callers and however their steps interleave with the chain, if
   the blocks of the requests are named by number or by tag and the safe depth
   covers a reorg and the blocks that arrive before the check: the code checks
   the block against a number that it read after the answer, and that may be
   an earlier one (validate_block_number, cached_block_number). *)
THEOREM CacheServesFinal ==
  NumberedRequests /\ SafeDepth /\ Spec => []CachedIsFinal
<1> SUFFICES ASSUME NumberedRequests, SafeDepth
             PROVE  Spec => []CachedIsFinal
  OBVIOUS
<1>1. Init => IInv
  BY InitHolds
<1>2. IInv /\ [Next]_vars => IInv'
  BY NextKeeps
<1> QED
  BY <1>1, <1>2, FinalIsAnswer, PTL DEF Spec

-----------------------------------------------------------------------------
(* The keys: different requests have different ones.  What is hashed can be
   read back from left to right, one value after the other. *)

Word == Nat
Stream == Seq(Word)

(* Two streams that are equal, and begin with parts of the same length. *)
LEMMA SplitStream ==
  ASSUME NEW p \in Stream, NEW q \in Stream, NEW s \in Stream, NEW t \in Stream,
         Len(p) = Len(q), p \o s = q \o t
  PROVE  p = q /\ s = t
<1> USE DEF Stream
<1>1. Len(p) \in Nat /\ Len(q) \in Nat /\ Len(s) \in Nat /\ Len(t) \in Nat
  BY LenProperties
<1>2. /\ Len(p \o s) = Len(p) + Len(s)
      /\ \A i \in 1 .. Len(p) + Len(s) : (p \o s)[i] = IF i <= Len(p) THEN p[i] ELSE s[i - Len(p)]
  BY ConcatProperties
<1>3. /\ Len(q \o t) = Len(q) + Len(t)
      /\ \A i \in 1 .. Len(q) + Len(t) : (q \o t)[i] = IF i <= Len(q) THEN q[i] ELSE t[i - Len(q)]
  BY ConcatProperties
<1>4. PICK k, m : k = Len(p) /\ k = Len(q) /\ m = Len(s) /\ m = Len(t) /\ k \in Nat /\ m \in Nat
  <2>1. Len(p) + Len(s) = Len(q) + Len(t)
    BY <1>2, <1>3
  <2>2. Len(s) = Len(t)
    BY <1>1, <2>1
  <2> QED
    BY <1>1, <2>2
<1>5. PICK z : z = p \o s
  OBVIOUS
<1>6. /\ \A i \in 1 .. k + m : z[i] = IF i <= k THEN p[i] ELSE s[i - k]
      /\ \A i \in 1 .. k + m : z[i] = IF i <= k THEN q[i] ELSE t[i - k]
  BY <1>2, <1>3, <1>4, <1>5
<1>7. ASSUME NEW i \in 1 .. k
      PROVE  p[i] = q[i]
  <2>1. i \in 1 .. k + m /\ i <= k
    BY <1>4
  <2> QED
    BY <2>1, <1>6
<1>8. ASSUME NEW i \in 1 .. m
      PROVE  s[i] = t[i]
  <2>1. i + k \in 1 .. k + m /\ ~ (i + k <= k) /\ (i + k) - k = i
    BY <1>4
  <2>2. z[i + k] = s[(i + k) - k] /\ z[i + k] = t[(i + k) - k]
    BY <2>1, <1>6
  <2> QED
    BY <2>1, <2>2
<1>9. p = q
  BY <1>4, <1>7, SeqEqual
<1>10. s = t
  BY <1>4, <1>8, SeqEqual
<1> QED
  BY <1>9, <1>10

(* The provers handle concatenation better when they do not see what it is. *)
Join(p, q) == p \o q

(* Equal streams that begin with parts of the same length are equal part by
   part. *)
LEMMA SplitJoin ==
  ASSUME NEW p \in Stream, NEW q \in Stream, NEW s \in Stream, NEW t \in Stream,
         Len(p) = Len(q), Join(p, s) = Join(q, t)
  PROVE  p = q /\ s = t
BY SplitStream DEF Join

(* Streams can be joined. *)
LEMMA JoinType ==
  ASSUME NEW p \in Stream, NEW q \in Stream
  PROVE  Join(p, q) \in Stream
BY ConcatProperties DEF Stream, Join

(* Parts can be read from the left. *)
LEMMA Regroup ==
  ASSUME NEW p \in Stream, NEW q \in Stream, NEW s \in Stream
  PROVE  Join(Join(p, q), s) = Join(p, Join(q, s))
BY ConcatAssociative DEF Stream, Join

(* Nothing follows the last part. *)
LEMMA EndOfStream ==
  ASSUME NEW p \in Stream
  PROVE  Join(p, <<>>) = p /\ Join(<<>>, p) = p /\ <<>> \in Stream
BY ConcatEmptySeq, EmptySeq DEF Stream, Join

(* A value of a fixed width. *)
LEMMA BytesType ==
  ASSUME NEW w \in Nat \ {0}, NEW value \in Nat
  PROVE  Bytes(w, value) \in Stream /\ Len(Bytes(w, value)) = w /\ Bytes(w, value)[1] = value
<1>1. Bytes(w, value) = [i \in 1 .. w |-> IF i = 1 THEN value ELSE 0]
  BY DEF Bytes
<1>2. [i \in 1 .. w |-> IF i = 1 THEN value ELSE 0] \in [1 .. w -> Word]
  BY DEF Word
<1>3. Bytes(w, value) \in Stream
  BY <1>1, <1>2 DEF Stream
<1>4. Bytes(w, value)[1] = value
  BY <1>1
<1>5. Len(Bytes(w, value)) = w
  BY <1>1, <1>2, <1>3 DEF Stream
<1> QED
  BY <1>3, <1>4, <1>5

(* A value of a fixed width is read back, whatever follows. *)
LEMMA BytesDecode ==
  ASSUME NEW w \in Nat \ {0}, NEW v \in Nat, NEW v2 \in Nat, NEW s \in Stream, NEW t \in Stream,
         Join(Bytes(w, v), s) = Join(Bytes(w, v2), t)
  PROVE  v = v2 /\ s = t
<1>1. PICK p, q : /\ p = Bytes(w, v) /\ q = Bytes(w, v2) /\ p \in Stream /\ q \in Stream
                  /\ Len(p) = w /\ Len(q) = w /\ p[1] = v /\ q[1] = v2
  BY BytesType
<1>2. p \in Stream /\ q \in Stream /\ Join(p, s) = Join(q, t) /\ Len(p) = Len(q)
  BY <1>1
<1>3. p = q /\ s = t
  BY <1>2, SplitJoin
<1> QED
  BY <1>1, <1>3

-----------------------------------------------------------------------------
(* Lists. *)

(* What an element is hashed to is never the beginning of another one. *)
PrefixFree(C) ==
  /\ C \subseteq Stream
  /\ \A p, q \in C : \A s, t \in Stream : Join(p, s) = Join(q, t) => p = q /\ s = t

(* A set of numbers has a least one: the induction that this module needs. *)
LEMMA LeastNumber ==
  ASSUME NEW T \in SUBSET Nat, T # {}
  PROVE  \E x \in T : \A y \in T : x <= y
<1>1. PICK x \in T : \A y \in T : ~ (<<y, x>> \in OpToRel(<, Nat))
  BY NatLessThanWellFounded, WFMin
<1>2. \A y \in T : ~ (y < x)
  BY <1>1 DEF OpToRel
<1> QED
  BY <1>2

(* The function of FlattenSeq, which joins the elements one by one. *)
FlatAt(h, f, i) == IF i = 1 THEN h[i] ELSE Join(f[i - 1], h[i])

(* That function exists. *)
LEMMA FlatExists ==
  ASSUME NEW h, NEW m \in Nat
  PROVE  \E f : f = [i \in 1 .. m |-> FlatAt(h, f, i)]
<1> DEFINE P(k) == \E f : f = [i \in 1 .. k |-> FlatAt(h, f, i)]
<1>1. P(0)
  <2> DEFINE f == [i \in 1 .. 0 |-> 0]
  <2>1. f = [i \in 1 .. 0 |-> FlatAt(h, f, i)]
    OBVIOUS
  <2> QED
    BY <2>1
<1>2. ASSUME NEW k \in Nat, P(k)
      PROVE  P(k + 1)
  <2>1. PICK f : f = [i \in 1 .. k |-> FlatAt(h, f, i)]
    BY <1>2
  <2> DEFINE g == [i \in 1 .. k + 1 |-> IF i \in 1 .. k THEN f[i] ELSE FlatAt(h, f, i)]
  <2>2. ASSUME NEW i \in 1 .. k + 1
        PROVE  FlatAt(h, f, i) = FlatAt(h, g, i)
    <3>1. CASE i = 1
      BY <3>1 DEF FlatAt
    <3>2. CASE i # 1
      <4>1. i - 1 \in 1 .. k /\ i - 1 \in 1 .. k + 1
        BY <3>2
      <4>2. g[i - 1] = f[i - 1]
        BY <4>1
      <4> QED
        BY <3>2, <4>2 DEF FlatAt
    <3> QED
      BY <3>1, <3>2
  <2>3. \A i \in 1 .. k + 1 : g[i] = FlatAt(h, g, i)
    <3> TAKE i \in 1 .. k + 1
    <3>1. g[i] = FlatAt(h, f, i)
      BY <2>1
    <3> QED
      BY <2>2, <3>1
  <2>4. g = [i \in 1 .. k + 1 |-> g[i]]
    OBVIOUS
  <2> HIDE DEF g
  <2>5. g = [i \in 1 .. k + 1 |-> FlatAt(h, g, i)]
    BY <2>3, <2>4
  <2> QED
    BY <2>5
<1> HIDE DEF P
<1>3. \A k \in Nat : P(k)
  <2> SUFFICES ASSUME ~ \A k \in Nat : P(k) PROVE FALSE
    OBVIOUS
  <2> DEFINE T == {k \in Nat : ~ P(k)}
  <2>1. PICK k \in T : \A y \in T : k <= y
    BY LeastNumber
  <2>2. k \in Nat /\ ~ P(k) /\ k # 0
    BY <2>1, <1>1
  <2>3. k - 1 \in Nat /\ (k - 1) + 1 = k
    BY <2>2
  <2>4. k - 1 \notin T
    BY <2>1, <2>2, <2>3
  <2>5. P(k - 1)
    BY <2>3, <2>4
  <2>6. P((k - 1) + 1)
    BY <1>2, <2>3, <2>5
  <2> QED
    BY <2>2, <2>3, <2>6
<1> QED
  BY <1>3 DEF P

(* f[i] is the first i elements of h, joined. *)
Flat(h, f) == \A i \in 1 .. Len(h) : f[i] = FlatAt(h, f, i)

(* FlattenSeq is the last of the joined beginnings. *)
LEMMA FlattenIsFlat ==
  ASSUME NEW C, NEW h \in Seq(C)
  PROVE  \E f : Flat(h, f) /\ FlattenSeq(h) = IF Len(h) = 0 THEN <<>> ELSE f[Len(h)]
<1> DEFINE f == CHOOSE g : g = [i \in 1 .. Len(h) |-> FlatAt(h, g, i)]
<1>1. Len(h) \in Nat
  BY LenProperties
<1>2. f = [i \in 1 .. Len(h) |-> FlatAt(h, f, i)]
  BY <1>1, FlatExists
<1>3. Len(h) # 0 => FlattenSeq(h) = f[Len(h)]
  BY Zenon DEF FlattenSeq, FlatAt, Join
<1>4. Len(h) = 0 => FlattenSeq(h) = <<>>
  <2>1. Len(h) = 0 => FlattenSeq(h) = h
    BY DEF FlattenSeq
  <2>2. Len(h) = 0 => h = <<>>
    BY EmptySeq
  <2> QED
    BY <2>1, <2>2
<1> HIDE DEF f
<1>5. Flat(h, f)
  BY <1>2 DEF Flat
<1> QED
  BY <1>3, <1>4, <1>5

(* The first i elements of two lists can be read back. *)
Decodes(h, f, h2, f2, i) ==
  /\ f[i] \in Stream /\ f2[i] \in Stream
  /\ \A s, t \in Stream : Join(f[i], s) = Join(f2[i], t) =>
       /\ \A j \in 1 .. i : h[j] = h2[j]
       /\ s = t

(* One more element can be read back. *)
LEMMA DecodesNext ==
  ASSUME NEW C, PrefixFree(C), NEW h, NEW f, NEW h2, NEW f2, NEW i \in Nat \ {0},
         Decodes(h, f, h2, f2, i), h[i + 1] \in C, h2[i + 1] \in C,
         f[i + 1] = Join(f[i], h[i + 1]), f2[i + 1] = Join(f2[i], h2[i + 1])
  PROVE  Decodes(h, f, h2, f2, i + 1)
<1>1. PICK a, b, a2, b2, e, e2 :
        /\ a = f[i] /\ b = h[i + 1] /\ a2 = f2[i] /\ b2 = h2[i + 1]
        /\ e = f[i + 1] /\ e2 = f2[i + 1]
  OBVIOUS
<1>2. /\ a \in Stream /\ a2 \in Stream /\ b \in C /\ b2 \in C
      /\ b \in Stream /\ b2 \in Stream
      /\ e = Join(a, b) /\ e2 = Join(a2, b2)
  BY <1>1 DEF Decodes, PrefixFree
<1>3. e \in Stream /\ e2 \in Stream
  BY <1>2, JoinType
<1>4. ASSUME NEW s \in Stream, NEW t \in Stream, Join(e, s) = Join(e2, t)
      PROVE  (\A j \in 1 .. i : h[j] = h2[j]) /\ b = b2 /\ s = t
  <2>1. Join(e, s) = Join(a, Join(b, s)) /\ Join(e2, t) = Join(a2, Join(b2, t))
    BY <1>2, Regroup
  <2>2. PICK u, u2 : u = Join(b, s) /\ u2 = Join(b2, t) /\ u \in Stream /\ u2 \in Stream
    BY <1>2, JoinType
  <2>3. Join(a, u) = Join(a2, u2)
    BY <2>1, <2>2, <1>4
  <2>4. (\A j \in 1 .. i : h[j] = h2[j]) /\ u = u2
    BY <2>2, <2>3, <1>1 DEF Decodes
  <2>5. Join(b, s) = Join(b2, t)
    BY <2>2, <2>4
  <2>6. b = b2 /\ s = t
    BY <2>5, <1>2 DEF PrefixFree
  <2> QED
    BY <2>4, <2>6
<1>5. ASSUME NEW s \in Stream, NEW t \in Stream, Join(f[i + 1], s) = Join(f2[i + 1], t)
      PROVE  (\A j \in 1 .. i + 1 : h[j] = h2[j]) /\ s = t
  <2>1. (\A j \in 1 .. i : h[j] = h2[j]) /\ h[i + 1] = h2[i + 1] /\ s = t
    BY <1>1, <1>4, <1>5
  <2>2. \A j \in 1 .. i + 1 : j \in 1 .. i \/ j = i + 1
    OBVIOUS
  <2> QED
    BY <2>1, <2>2
<1> QED
  BY <1>1, <1>3, <1>5 DEF Decodes

(* All elements of two lists of the same length can be read back. *)
LEMMA FlatDecodes ==
  ASSUME NEW C, PrefixFree(C), NEW h \in Seq(C), NEW h2 \in Seq(C), Len(h) = Len(h2), Len(h) # 0,
         NEW f, Flat(h, f), NEW f2, Flat(h2, f2)
  PROVE  Decodes(h, f, h2, f2, Len(h))
<1>1. PICK m : m = Len(h) /\ m \in Nat \ {0}
  BY LenProperties
<1>2. /\ \A i \in 1 .. m : h[i] \in C /\ h2[i] \in C
      /\ \A i \in 1 .. m : f[i] = FlatAt(h, f, i) /\ f2[i] = FlatAt(h2, f2, i)
  BY <1>1, ElementOfSeq DEF Flat
<1> DEFINE P(k) == k + 1 <= m => Decodes(h, f, h2, f2, k + 1)
<1>3. P(0)
  <2>1. 1 \in 1 .. m
    BY <1>1
  <2>2. f[1] = h[1] /\ f2[1] = h2[1] /\ h[1] \in C /\ h2[1] \in C
    BY <2>1, <1>2 DEF FlatAt
  <2>3. ASSUME NEW s \in Stream, NEW t \in Stream, Join(f[1], s) = Join(f2[1], t)
        PROVE  h[1] = h2[1] /\ s = t
    BY <2>2, <2>3 DEF PrefixFree
  <2>4. \A j \in 1 .. 1 : j = 1
    OBVIOUS
  <2>5. Decodes(h, f, h2, f2, 1)
    BY <2>2, <2>3, <2>4 DEF Decodes, PrefixFree
  <2> QED
    BY <2>5
<1>4. ASSUME NEW k \in Nat, P(k)
      PROVE  P(k + 1)
  <2> SUFFICES ASSUME (k + 1) + 1 <= m
               PROVE  Decodes(h, f, h2, f2, (k + 1) + 1)
    OBVIOUS
  <2>1. PICK i : i = k + 1 /\ i \in Nat \ {0} /\ i + 1 <= m
    OBVIOUS
  <2>2. Decodes(h, f, h2, f2, i)
    BY <1>1, <1>4, <2>1
  <2>3. i + 1 \in 1 .. m /\ i + 1 # 1 /\ (i + 1) - 1 = i
    BY <1>1, <2>1
  <2>4. f[i + 1] = Join(f[i], h[i + 1]) /\ f2[i + 1] = Join(f2[i], h2[i + 1])
        /\ h[i + 1] \in C /\ h2[i + 1] \in C
    BY <1>2, <2>3 DEF FlatAt
  <2>5. Decodes(h, f, h2, f2, i + 1)
    BY <2>1, <2>2, <2>4, DecodesNext
  <2> QED
    BY <2>1, <2>5
<1> HIDE DEF P
<1>5. \A k \in Nat : P(k)
  <2> SUFFICES ASSUME ~ \A k \in Nat : P(k) PROVE FALSE
    OBVIOUS
  <2> DEFINE T == {k \in Nat : ~ P(k)}
  <2>1. PICK k \in T : \A y \in T : k <= y
    BY LeastNumber
  <2>2. k \in Nat /\ ~ P(k) /\ k # 0
    BY <2>1, <1>3
  <2>3. k - 1 \in Nat /\ (k - 1) + 1 = k
    BY <2>2
  <2>4. k - 1 \notin T
    BY <2>1, <2>2, <2>3
  <2>5. P(k - 1)
    BY <2>3, <2>4
  <2>6. P((k - 1) + 1)
    BY <1>4, <2>3, <2>5
  <2> QED
    BY <2>2, <2>3, <2>6
<1>6. PICK k \in Nat : k + 1 = m
  BY <1>1
<1>7. P(k)
  BY <1>5
<1> QED
  BY <1>1, <1>6, <1>7 DEF P

(* A list, after its number of elements. *)
LEMMA ListType ==
  ASSUME NEW C, PrefixFree(C), NEW h \in Seq(C)
  PROVE  FlattenSeq(h) \in Stream /\ hash_list(h) \in Stream /\ hash_u64(Len(h)) \in Stream
<1>1. PICK f : Flat(h, f) /\ FlattenSeq(h) = IF Len(h) = 0 THEN <<>> ELSE f[Len(h)]
  BY FlattenIsFlat
<1>2. FlattenSeq(h) \in Stream
  <2>1. CASE Len(h) = 0
    BY <1>1, <2>1, EmptySeq DEF Stream
  <2>2. CASE Len(h) # 0
    BY <1>1, <2>2, FlatDecodes DEF Decodes
  <2> QED
    BY <2>1, <2>2
<1>3. hash_u64(Len(h)) \in Stream
  <2>1. Len(h) \in Nat
    BY LenProperties
  <2> QED
    BY <2>1, BytesType DEF hash_u64
<1> QED
  BY <1>2, <1>3, JoinType DEF hash_list, Join

(* A list is read back: first its length, and then so many elements. *)
LEMMA ListDecodes ==
  ASSUME NEW C, PrefixFree(C), NEW h \in Seq(C), NEW h2 \in Seq(C), NEW s \in Stream, NEW t \in Stream,
         Join(hash_list(h), s) = Join(hash_list(h2), t)
  PROVE  h = h2 /\ s = t
<1>1. PICK a, a2, b, b2 :
        /\ a = hash_u64(Len(h)) /\ a2 = hash_u64(Len(h2)) /\ b = FlattenSeq(h) /\ b2 = FlattenSeq(h2)
        /\ a \in Stream /\ a2 \in Stream /\ b \in Stream /\ b2 \in Stream
  BY ListType
<1>2. Join(Join(a, b), s) = Join(Join(a2, b2), t)
  BY <1>1 DEF hash_list, Join
<1>3. PICK u, u2 : u = Join(b, s) /\ u2 = Join(b2, t) /\ u \in Stream /\ u2 \in Stream
  BY <1>1, JoinType
<1>4. Join(a, u) = Join(a2, u2)
  <2>1. Join(Join(a, b), s) = Join(a, Join(b, s)) /\ Join(Join(a2, b2), t) = Join(a2, Join(b2, t))
    BY <1>1, Regroup
  <2> QED
    BY <2>1, <1>2, <1>3
<1>5. PICK n, n2 : n = Len(h) /\ n2 = Len(h2) /\ n \in Nat /\ n2 \in Nat
  BY LenProperties
<1>6. n = n2 /\ u = u2
  <2>1. Join(Bytes(2, n), u) = Join(Bytes(2, n2), u2)
    BY <1>1, <1>4, <1>5 DEF hash_u64
  <2> QED
    BY <2>1, <1>3, <1>5, BytesDecode
<1>7. Join(b, s) = Join(b2, t)
  BY <1>3, <1>6
<1>8. PICK f : Flat(h, f) /\ FlattenSeq(h) = IF Len(h) = 0 THEN <<>> ELSE f[Len(h)]
  BY FlattenIsFlat
<1>9. PICK f2 : Flat(h2, f2) /\ FlattenSeq(h2) = IF Len(h2) = 0 THEN <<>> ELSE f2[Len(h2)]
  BY FlattenIsFlat
<1>10. CASE n = 0
  <2>1. h = <<>> /\ h2 = <<>>
    BY <1>5, <1>6, <1>10, EmptySeq
  <2>2. b = <<>> /\ b2 = <<>>
    BY <1>1, <1>5, <1>6, <1>8, <1>9, <1>10
  <2>3. Join(b, s) = s /\ Join(b2, t) = t
    BY <2>2, EndOfStream
  <2> QED
    BY <2>1, <2>3, <1>7
<1>11. CASE n # 0
  <2>1. Decodes(h, f, h2, f2, n)
    BY <1>5, <1>6, <1>8, <1>9, <1>11, FlatDecodes
  <2>2. b = f[n] /\ b2 = f2[n]
    BY <1>1, <1>5, <1>6, <1>8, <1>9, <1>11
  <2>3. (\A j \in 1 .. n : h[j] = h2[j]) /\ s = t
    BY <2>1, <2>2, <1>7 DEF Decodes
  <2>4. h = h2
    BY <2>3, <1>5, <1>6, SeqEqual
  <2> QED
    BY <2>3, <2>4
<1> QED
  BY <1>10, <1>11

-----------------------------------------------------------------------------
(* Values, lists of values and blocks. *)

Words(w) == {Bytes(w, v) : v \in Word}

(* Values of one width are never the beginning of each other. *)
LEMMA WordsPrefixFree ==
  ASSUME NEW w \in Nat \ {0}
  PROVE  PrefixFree(Words(w))
<1>1. Words(w) \subseteq Stream
  BY BytesType DEF Words, Word
<1>2. ASSUME NEW p \in Words(w), NEW q \in Words(w), NEW s \in Stream, NEW t \in Stream,
             Join(p, s) = Join(q, t)
      PROVE  p = q /\ s = t
  <2>1. PICK v \in Word, v2 \in Word : p = Bytes(w, v) /\ q = Bytes(w, v2)
    BY DEF Words
  <2>2. v = v2 /\ s = t
    BY <2>1, <1>2, BytesDecode DEF Word
  <2> QED
    BY <2>1, <2>2
<1> QED
  BY <1>1, <1>2 DEF PrefixFree

(* A list of values, each hashed to a word. *)
Hashed(w, values) == [i \in DOMAIN values |-> Bytes(w, values[i])]

(* The hashed values, one for each value. *)
LEMMA HashedType ==
  ASSUME NEW w \in Nat \ {0}, NEW values \in Seq(Word)
  PROVE  /\ Hashed(w, values) \in Seq(Words(w)) /\ Len(Hashed(w, values)) = Len(values)
         /\ \A i \in 1 .. Len(values) : Hashed(w, values)[i] = Bytes(w, values[i])
<1>1. PICK n : n = Len(values) /\ n \in Nat /\ DOMAIN values = 1 .. n
  BY LenProperties
<1>2. \A i \in 1 .. n : values[i] \in Word
  BY <1>1, ElementOfSeq
<1>3. Hashed(w, values) = [i \in 1 .. n |-> Bytes(w, values[i])]
  BY <1>1 DEF Hashed
<1>4. PICK g, D : g = Hashed(w, values) /\ D = Words(w)
  OBVIOUS
<1>5. g \in [1 .. n -> D] /\ \A i \in 1 .. n : g[i] = Bytes(w, values[i])
  <2>1. \A i \in 1 .. n : Bytes(w, values[i]) \in D
    BY <1>2, <1>4 DEF Words
  <2> QED
    BY <2>1, <1>3, <1>4
<1>6. g \in Seq(D) /\ Len(g) = n
  BY <1>1, <1>5
<1> QED
  BY <1>1, <1>4, <1>5, <1>6

(* A list of values is read back. *)
LEMMA WordListDecodes ==
  ASSUME NEW w \in Nat \ {0}, NEW x \in Seq(Word), NEW y \in Seq(Word),
         NEW s \in Stream, NEW t \in Stream,
         Join(hash_list(Hashed(w, x)), s) = Join(hash_list(Hashed(w, y)), t)
  PROVE  x = y /\ s = t
<1>1. PICK g, h, D : g = Hashed(w, x) /\ h = Hashed(w, y) /\ D = Words(w)
  OBVIOUS
<1>2. /\ g \in Seq(D) /\ Len(g) = Len(x) /\ \A i \in 1 .. Len(x) : g[i] = Bytes(w, x[i])
      /\ h \in Seq(D) /\ Len(h) = Len(y) /\ \A i \in 1 .. Len(y) : h[i] = Bytes(w, y[i])
  BY <1>1, HashedType
<1>3. g = h /\ s = t
  <2>1. PrefixFree(D)
    BY <1>1, WordsPrefixFree
  <2>2. Join(hash_list(g), s) = Join(hash_list(h), t) /\ g \in Seq(D) /\ h \in Seq(D)
    BY <1>1, <1>2
  <2> QED
    BY <2>1, <2>2, ListDecodes
<1>4. PICK n : n = Len(x) /\ n = Len(y)
  BY <1>2, <1>3
<1>5. ASSUME NEW i \in 1 .. n
      PROVE  x[i] = y[i]
  <2>1. x[i] \in Nat /\ y[i] \in Nat
    BY <1>4, ElementOfSeq DEF Word
  <2>2. Bytes(w, x[i]) = Bytes(w, y[i])
    BY <1>2, <1>3, <1>4
  <2>3. Bytes(w, x[i])[1] = x[i] /\ Bytes(w, y[i])[1] = y[i]
    BY <2>1, BytesType
  <2> QED
    BY <2>2, <2>3
<1> QED
  BY <1>3, <1>4, <1>5, SeqEqual

(* A hashed list of values is a stream. *)
LEMMA WordListType ==
  ASSUME NEW w \in Nat \ {0}, NEW x \in Seq(Word)
  PROVE  hash_list(Hashed(w, x)) \in Stream
<1>1. PICK g, D : g = Hashed(w, x) /\ D = Words(w) /\ g \in Seq(D) /\ PrefixFree(D)
  BY HashedType, WordsPrefixFree
<1>2. hash_list(g) \in Stream
  BY <1>1, ListType
<1> QED
  BY <1>1, <1>2

(* A marker and a value. *)
LEMMA Marker ==
  /\ hash_u8(0) = Bytes(1, 0) /\ hash_u8(1) = Bytes(1, 1)
  /\ hash_u8(0) \in Stream /\ hash_u8(1) \in Stream
<1>1. hash_u8(0) = Bytes(1, 0) /\ hash_u8(1) = Bytes(1, 1)
  BY DEF hash_u8
<1>2. Bytes(1, 0) \in Stream /\ Bytes(1, 1) \in Stream
  BY BytesType
<1> QED
  BY <1>1, <1>2

(* The two markers cannot be taken for each other. *)
LEMMA MarkersDiffer ==
  ASSUME NEW s \in Stream, NEW t \in Stream
  PROVE  /\ Join(hash_u8(0), s) # Join(hash_u8(1), t)
         /\ Join(hash_u8(0), s) = Join(hash_u8(0), t) => s = t
         /\ Join(hash_u8(1), s) = Join(hash_u8(1), t) => s = t
<1>1. Join(Bytes(1, 0), s) # Join(Bytes(1, 1), t)
  BY BytesDecode
<1>2. Join(Bytes(1, 0), s) = Join(Bytes(1, 0), t) => s = t
  BY BytesDecode
<1>3. Join(Bytes(1, 1), s) = Join(Bytes(1, 1), t) => s = t
  BY BytesDecode
<1> QED
  BY <1>1, <1>2, <1>3, Marker

(* A value after the marker 1 is read back if the value can be. *)
Marked(p) == Join(hash_u8(1), p)

(* Behind the same marker the rest can be read on. *)
LEMMA MarkedDecodes ==
  ASSUME NEW p \in Stream, NEW q \in Stream, NEW s \in Stream, NEW t \in Stream,
         Join(Marked(p), s) = Join(Marked(q), t)
  PROVE  Join(p, s) = Join(q, t)
<1>1. Join(hash_u8(1), Join(p, s)) = Join(hash_u8(1), Join(q, t))
  BY Marker, Regroup DEF Marked
<1>2. Join(p, s) \in Stream /\ Join(q, t) \in Stream
  BY JoinType
<1> QED
  BY <1>1, <1>2, MarkersDiffer

(* A value behind its marker is never taken for a missing one. *)
LEMMA MarkedIsNotZero ==
  ASSUME NEW p \in Stream, NEW s \in Stream, NEW t \in Stream
  PROVE  Marked(p) \in Stream /\ Join(Marked(p), s) # Join(hash_u8(0), t)
<1>1. Join(Marked(p), s) = Join(hash_u8(1), Join(p, s))
  BY Marker, Regroup DEF Marked
<1>2. Join(p, s) \in Stream /\ Marked(p) \in Stream
  BY Marker, JoinType DEF Marked
<1> QED
  BY <1>1, <1>2, MarkersDiffer

(* The topics that a position of a log filter allows. *)
Topics == {None} \cup Seq(Word)

(* A position that allows every topic is a marker; another is a marked list. *)
LEMMA TopicsAre ==
  ASSUME NEW x \in Topics
  PROVE  /\ x = None => hash_topics(x) = hash_u8(0)
         /\ x # None => /\ x \in Seq(Word)
                        /\ hash_topics(x) = Marked(hash_list(Hashed(4, x)))
                        /\ hash_list(Hashed(4, x)) \in Stream
         /\ hash_topics(x) \in Stream
<1>1. CASE x = None
  <2>1. hash_topics(x) = hash_u8(0)
    BY <1>1 DEF hash_topics, hash_option
  <2> QED
    BY <1>1, <2>1, Marker
<1>2. CASE x # None
  <2>1. x \in Seq(Word)
    BY <1>2 DEF Topics
  <2>2. hash_list(Hashed(4, x)) \in Stream
    BY <2>1, WordListType
  <2>3. hash_b256s(x) = hash_list(Hashed(4, x))
    BY DEF hash_b256s, hash_b256, Hashed
  <2>4. hash_topics(x) = Marked(hash_b256s(x))
    BY <1>2 DEF hash_topics, hash_option, Marked, Join
  <2>5. Marked(hash_list(Hashed(4, x))) \in Stream
    BY <2>2, Marker, JoinType DEF Marked
  <2> QED
    BY <1>2, <2>1, <2>2, <2>3, <2>4, <2>5
<1> QED
  BY <1>1, <1>2

TopicCodes == {hash_topics(x) : x \in Topics}

(* What a position allows is read back. *)
LEMMA TopicsDecode ==
  ASSUME NEW x \in Topics, NEW y \in Topics, NEW s \in Stream, NEW t \in Stream,
         Join(hash_topics(x), s) = Join(hash_topics(y), t)
  PROVE  x = y /\ s = t
<1>1. CASE x = None /\ y = None
  BY <1>1, TopicsAre, MarkersDiffer
<1>2. CASE x = None /\ y # None
  <2>1. PICK q : q = hash_list(Hashed(4, y)) /\ q \in Stream /\ hash_topics(y) = Marked(q)
    BY <1>2, TopicsAre
  <2>2. hash_topics(x) = hash_u8(0)
    BY <1>2, TopicsAre
  <2> QED
    BY <2>1, <2>2, MarkedIsNotZero
<1>3. CASE x # None /\ y = None
  <2>1. PICK p : p = hash_list(Hashed(4, x)) /\ p \in Stream /\ hash_topics(x) = Marked(p)
    BY <1>3, TopicsAre
  <2>2. hash_topics(y) = hash_u8(0)
    BY <1>3, TopicsAre
  <2> QED
    BY <2>1, <2>2, MarkedIsNotZero
<1>4. CASE x # None /\ y # None
  <2>1. PICK p, q : /\ p = hash_list(Hashed(4, x)) /\ p \in Stream /\ hash_topics(x) = Marked(p)
                    /\ q = hash_list(Hashed(4, y)) /\ q \in Stream /\ hash_topics(y) = Marked(q)
    BY <1>4, TopicsAre
  <2>2. Join(p, s) = Join(q, t)
    BY <2>1, MarkedDecodes
  <2>3. x \in Seq(Word) /\ y \in Seq(Word)
    BY <1>4, TopicsAre
  <2> QED
    BY <2>1, <2>2, <2>3, WordListDecodes
<1> QED
  BY <1>1, <1>2, <1>3, <1>4

(* So a hashed position is never the beginning of another. *)
LEMMA TopicCodesPrefixFree == PrefixFree(TopicCodes)
<1>1. TopicCodes \subseteq Stream
  BY TopicsAre DEF TopicCodes
<1>2. ASSUME NEW p \in TopicCodes, NEW q \in TopicCodes, NEW s \in Stream, NEW t \in Stream,
             Join(p, s) = Join(q, t)
      PROVE  p = q /\ s = t
  <2>1. PICK x \in Topics, y \in Topics : p = hash_topics(x) /\ q = hash_topics(y)
    BY DEF TopicCodes
  <2>2. x = y /\ s = t
    BY <2>1, <1>2, TopicsDecode
  <2> QED
    BY <2>1, <2>2
<1> QED
  BY <1>1, <1>2 DEF PrefixFree

(* The filter of the topics, position by position. *)
Positions(topics) == [i \in DOMAIN topics |-> hash_topics(topics[i])]

(* The hashed positions, one for each position. *)
LEMMA PositionsType ==
  ASSUME NEW topics \in Seq(Topics)
  PROVE  /\ Positions(topics) \in Seq(TopicCodes) /\ Len(Positions(topics)) = Len(topics)
         /\ \A i \in 1 .. Len(topics) : Positions(topics)[i] = hash_topics(topics[i])
         /\ hash_list(Positions(topics)) \in Stream
<1>1. PICK n : n = Len(topics) /\ n \in Nat /\ DOMAIN topics = 1 .. n
  BY LenProperties
<1>2. \A i \in 1 .. n : topics[i] \in Topics
  BY <1>1, ElementOfSeq
<1>3. Positions(topics) = [i \in 1 .. n |-> hash_topics(topics[i])]
  BY <1>1 DEF Positions
<1>4. PICK g, D : g = Positions(topics) /\ D = TopicCodes
  OBVIOUS
<1>5. g \in [1 .. n -> D] /\ \A i \in 1 .. n : g[i] = hash_topics(topics[i])
  <2>1. \A i \in 1 .. n : hash_topics(topics[i]) \in D
    BY <1>2, <1>4 DEF TopicCodes
  <2> QED
    BY <2>1, <1>3, <1>4
<1>6. g \in Seq(D) /\ Len(g) = n
  BY <1>1, <1>5
<1>7. hash_list(g) \in Stream
  BY <1>4, <1>6, TopicCodesPrefixFree, ListType
<1> QED
  BY <1>1, <1>4, <1>5, <1>6, <1>7

(* The positions of a filter are read back, the empty ones in their places. *)
LEMMA PositionsDecode ==
  ASSUME NEW x \in Seq(Topics), NEW y \in Seq(Topics), NEW s \in Stream, NEW t \in Stream,
         Join(hash_list(Positions(x)), s) = Join(hash_list(Positions(y)), t)
  PROVE  x = y /\ s = t
<1>1. PICK g, h, D : g = Positions(x) /\ h = Positions(y) /\ D = TopicCodes
  OBVIOUS
<1>2. /\ g \in Seq(D) /\ Len(g) = Len(x) /\ \A i \in 1 .. Len(x) : g[i] = hash_topics(x[i])
      /\ h \in Seq(D) /\ Len(h) = Len(y) /\ \A i \in 1 .. Len(y) : h[i] = hash_topics(y[i])
  BY <1>1, PositionsType
<1>3. g = h /\ s = t
  <2>1. PrefixFree(D)
    BY <1>1, TopicCodesPrefixFree
  <2>2. Join(hash_list(g), s) = Join(hash_list(h), t) /\ g \in Seq(D) /\ h \in Seq(D)
    BY <1>1, <1>2
  <2> QED
    BY <2>1, <2>2, ListDecodes
<1>4. PICK n : n = Len(x) /\ n = Len(y)
  BY <1>2, <1>3
<1>5. ASSUME NEW i \in 1 .. n
      PROVE  x[i] = y[i]
  <2>1. PICK v, v2 : v = x[i] /\ v2 = y[i] /\ v \in Topics /\ v2 \in Topics
    BY <1>4, ElementOfSeq
  <2>2. hash_topics(v) = hash_topics(v2)
    BY <1>2, <1>3, <1>4, <2>1
  <2>3. Join(hash_topics(v), <<>>) = Join(hash_topics(v2), <<>>) /\ <<>> \in Stream
    BY <2>1, <2>2, TopicsAre, EndOfStream
  <2>4. v = v2
    BY <2>1, <2>3, TopicsDecode
  <2> QED
    BY <2>1, <2>4
<1> QED
  BY <1>3, <1>4, <1>5, SeqEqual

(* Whether a hash has to be of the canonical chain, if that is said. *)
Canonical == BOOLEAN \cup {None}
HashedCanonical(c) == hash_option(c, hash_bool(c))

(* That option is read back. *)
LEMMA CanonicalDecodes ==
  ASSUME NEW c \in Canonical, NEW d \in Canonical, NEW s \in Stream, NEW t \in Stream
  PROVE  /\ HashedCanonical(c) \in Stream
         /\ Join(HashedCanonical(c), s) = Join(HashedCanonical(d), t) => c = d /\ s = t
<1> DEFINE B(x) == hash_u8(IF x THEN 1 ELSE 0)
<1>1. /\ c = None => HashedCanonical(c) = hash_u8(0)
      /\ c # None => HashedCanonical(c) = Marked(B(c)) /\ c \in BOOLEAN
      /\ d = None => HashedCanonical(d) = hash_u8(0)
      /\ d # None => HashedCanonical(d) = Marked(B(d)) /\ d \in BOOLEAN
  BY DEF HashedCanonical, hash_option, hash_bool, Marked, Join, Canonical
<1>2. B(c) \in Stream /\ B(d) \in Stream
  BY Marker
<1>3. Marked(B(c)) \in Stream
  BY <1>2, MarkedIsNotZero
<1>4. HashedCanonical(c) \in Stream
  BY <1>1, <1>3, Marker
<1>5. ASSUME Join(HashedCanonical(c), s) = Join(HashedCanonical(d), t)
      PROVE  c = d /\ s = t
  <2>1. CASE c = None /\ d = None
    BY <2>1, <1>1, <1>5, MarkersDiffer
  <2>2. CASE c = None /\ d # None
    BY <2>2, <1>1, <1>2, <1>5, MarkedIsNotZero
  <2>3. CASE c # None /\ d = None
    BY <2>3, <1>1, <1>2, <1>5, MarkedIsNotZero
  <2>4. CASE c # None /\ d # None
    <3>1. PICK p, q : p = B(c) /\ q = B(d) /\ p \in Stream /\ q \in Stream
      BY <1>2
    <3>2. Join(p, s) = Join(q, t)
      BY <2>4, <3>1, <1>1, <1>5, MarkedDecodes
    <3>3. c \in BOOLEAN /\ d \in BOOLEAN
      BY <2>4, <1>1
    <3>4. CASE c = TRUE /\ d = TRUE
      BY <3>1, <3>2, <3>4, MarkersDiffer
    <3>5. CASE c = FALSE /\ d = FALSE
      BY <3>1, <3>2, <3>5, MarkersDiffer
    <3>6. CASE c = TRUE /\ d = FALSE
      BY <3>1, <3>2, <3>6, MarkersDiffer
    <3>7. CASE c = FALSE /\ d = TRUE
      BY <3>1, <3>2, <3>7, MarkersDiffer
    <3> QED
      BY <3>3, <3>4, <3>5, <3>6, <3>7
  <2> QED
    BY <2>1, <2>2, <2>3, <2>4
<1> QED
  BY <1>4, <1>5

(* A block that is named by number or by hash. *)
NumberSpecs == [by : {"number"}, number : Word]
HashSpecs == [by : {"hash"}, hash : Word, require_canonical : Canonical]

(* What is hashed of a block by number and by hash. *)
LEMMA SpecIs ==
  /\ \A spec \in NumberSpecs :
       /\ spec.by = "number" /\ spec.number \in Word
       /\ hash_block_spec(spec) = Join(hash_u8(0), Bytes(2, spec.number))
       /\ Bytes(2, spec.number) \in Stream /\ hash_block_spec(spec) \in Stream
  /\ \A spec \in HashSpecs :
       LET tail == Join(Bytes(4, spec.hash), HashedCanonical(spec.require_canonical))
       IN  /\ spec.by = "hash" /\ spec.hash \in Word /\ spec.require_canonical \in Canonical
           /\ hash_block_spec(spec) = Marked(tail)
           /\ Bytes(4, spec.hash) \in Stream
           /\ HashedCanonical(spec.require_canonical) \in Stream
           /\ tail \in Stream /\ hash_block_spec(spec) \in Stream
<1>1. ASSUME NEW spec \in NumberSpecs
      PROVE  /\ spec.by = "number" /\ spec.number \in Word
             /\ hash_block_spec(spec) = Join(hash_u8(0), Bytes(2, spec.number))
             /\ Bytes(2, spec.number) \in Stream /\ hash_block_spec(spec) \in Stream
  <2>1. spec.by = "number" /\ spec.number \in Word
    BY DEF NumberSpecs
  <2>2. hash_block_spec(spec) = Join(hash_u8(0), Bytes(2, spec.number))
    BY <2>1 DEF hash_block_spec, hash_u64, Join
  <2>3. Bytes(2, spec.number) \in Stream
    BY <2>1, BytesType DEF Word
  <2>4. Join(hash_u8(0), Bytes(2, spec.number)) \in Stream
    BY <2>3, Marker, JoinType
  <2> QED
    BY <2>1, <2>2, <2>3, <2>4
<1>2. ASSUME NEW spec \in HashSpecs
      PROVE  LET tail == Join(Bytes(4, spec.hash), HashedCanonical(spec.require_canonical))
             IN  /\ spec.by = "hash" /\ spec.hash \in Word /\ spec.require_canonical \in Canonical
                 /\ hash_block_spec(spec) = Marked(tail)
                 /\ Bytes(4, spec.hash) \in Stream
                 /\ HashedCanonical(spec.require_canonical) \in Stream
                 /\ tail \in Stream /\ hash_block_spec(spec) \in Stream
  <2>1. spec.by = "hash" /\ spec.hash \in Word /\ spec.require_canonical \in Canonical
    BY DEF HashSpecs
  <2>2. PICK a, b : a = Bytes(4, spec.hash) /\ b = HashedCanonical(spec.require_canonical)
    OBVIOUS
  <2>3. a \in Stream /\ b \in Stream
    <3>1. a \in Stream
      BY <2>1, <2>2, BytesType DEF Word
    <3> QED
      BY <3>1, <2>1, <2>2, CanonicalDecodes
  <2>4. hash_block_spec(spec) = Join(Join(hash_u8(1), a), b)
    BY <2>1, <2>2 DEF hash_block_spec, hash_b256, Join, HashedCanonical
  <2>5. Join(Join(hash_u8(1), a), b) = Marked(Join(a, b))
    BY <2>3, Marker, Regroup DEF Marked
  <2>6. Join(a, b) \in Stream /\ Marked(Join(a, b)) \in Stream
    BY <2>3, Marker, JoinType DEF Marked
  <2> QED
    BY <2>1, <2>2, <2>3, <2>4, <2>5, <2>6
<1> QED
  BY <1>1, <1>2

KeyedSpecs == NumberSpecs \cup HashSpecs

(* The name of a block is read back. *)
LEMMA SpecDecodes ==
  ASSUME NEW x \in KeyedSpecs, NEW y \in KeyedSpecs, NEW s \in Stream, NEW t \in Stream
  PROVE  /\ hash_block_spec(x) \in Stream
         /\ Join(hash_block_spec(x), s) = Join(hash_block_spec(y), t) => x = y /\ s = t
<1>1. hash_block_spec(x) \in Stream
  BY SpecIs DEF KeyedSpecs
<1>2. ASSUME Join(hash_block_spec(x), s) = Join(hash_block_spec(y), t)
      PROVE  x = y /\ s = t
  <2>1. CASE x \in NumberSpecs /\ y \in NumberSpecs
    <3>1. PICK m, n : m = x.number /\ n = y.number /\ m \in Nat /\ n \in Nat
      BY <2>1, SpecIs DEF Word
    <3>2. PICK p, q : p = Bytes(2, m) /\ q = Bytes(2, n) /\ p \in Stream /\ q \in Stream
      BY <3>1, BytesType
    <3>3. Join(Join(hash_u8(0), p), s) = Join(Join(hash_u8(0), q), t)
      BY <1>2, <2>1, <3>1, <3>2, SpecIs
    <3>4. Join(hash_u8(0), Join(p, s)) = Join(hash_u8(0), Join(q, t))
      BY <3>2, <3>3, Marker, Regroup
    <3>5. Join(p, s) = Join(q, t)
      BY <3>2, <3>4, JoinType, MarkersDiffer
    <3>6. m = n /\ s = t
      BY <3>1, <3>2, <3>5, BytesDecode
    <3>7. x = [by |-> "number", number |-> m] /\ y = [by |-> "number", number |-> n]
      BY <2>1, <3>1 DEF NumberSpecs
    <3> QED
      BY <3>6, <3>7
  <2>2. CASE x \in NumberSpecs /\ y \in HashSpecs
    <3>1. PICK p, q : /\ p \in Stream /\ q \in Stream
                      /\ hash_block_spec(x) = Join(hash_u8(0), p) /\ hash_block_spec(y) = Marked(q)
      BY <2>2, SpecIs
    <3>2. Join(Join(hash_u8(0), p), s) = Join(hash_u8(0), Join(p, s)) /\ Join(p, s) \in Stream
      BY <3>1, Marker, Regroup, JoinType
    <3> QED
      BY <1>2, <3>1, <3>2, MarkedIsNotZero
  <2>3. CASE x \in HashSpecs /\ y \in NumberSpecs
    <3>1. PICK p, q : /\ p \in Stream /\ q \in Stream
                      /\ hash_block_spec(y) = Join(hash_u8(0), p) /\ hash_block_spec(x) = Marked(q)
      BY <2>3, SpecIs
    <3>2. Join(Join(hash_u8(0), p), t) = Join(hash_u8(0), Join(p, t)) /\ Join(p, t) \in Stream
      BY <3>1, Marker, Regroup, JoinType
    <3> QED
      BY <1>2, <3>1, <3>2, MarkedIsNotZero
  <2>4. CASE x \in HashSpecs /\ y \in HashSpecs
    <3>1. PICK m, n, c, d : /\ m = x.hash /\ n = y.hash /\ m \in Nat /\ n \in Nat
                            /\ c = x.require_canonical /\ d = y.require_canonical
                            /\ c \in Canonical /\ d \in Canonical
      BY <2>4, SpecIs DEF Word
    <3>2. PICK a, b, a2, b2 :
            /\ a = Bytes(4, m) /\ b = HashedCanonical(c) /\ a2 = Bytes(4, n) /\ b2 = HashedCanonical(d)
            /\ a \in Stream /\ b \in Stream /\ a2 \in Stream /\ b2 \in Stream
            /\ hash_block_spec(x) = Marked(Join(a, b)) /\ hash_block_spec(y) = Marked(Join(a2, b2))
      BY <2>4, <3>1, SpecIs
    <3>3. Join(a, b) \in Stream /\ Join(a2, b2) \in Stream /\ Join(b, s) \in Stream
          /\ Join(b2, t) \in Stream
      BY <3>2, JoinType
    <3>4. Join(Join(a, b), s) = Join(Join(a2, b2), t)
      BY <1>2, <3>2, <3>3, MarkedDecodes
    <3>5. Join(a, Join(b, s)) = Join(a2, Join(b2, t))
      BY <3>2, <3>4, Regroup
    <3>6. m = n /\ Join(b, s) = Join(b2, t)
      BY <3>1, <3>2, <3>3, <3>5, BytesDecode
    <3>7. c = d /\ s = t
      BY <3>1, <3>2, <3>6, CanonicalDecodes
    <3>8. x = [by |-> "hash", hash |-> m, require_canonical |-> c]
          /\ y = [by |-> "hash", hash |-> n, require_canonical |-> d]
      BY <2>4, <3>1 DEF HashSpecs
    <3> QED
      BY <3>6, <3>7, <3>8
  <2> QED
    BY <2>1, <2>2, <2>3, <2>4 DEF KeyedSpecs
<1> QED
  BY <1>1, <1>2

-----------------------------------------------------------------------------
(* Requests. *)

(* What p and q are the hashed forms of can be read back, whatever follows. *)
Reads(p, x, q, y) ==
  /\ p \in Stream /\ q \in Stream
  /\ \A s, t \in Stream : Join(p, s) = Join(q, t) => x = y /\ s = t

(* The first part is read, and the rest remains. *)
LEMMA ReadFirst ==
  ASSUME NEW p, NEW x, NEW q, NEW y, Reads(p, x, q, y), NEW s \in Stream, NEW t \in Stream,
         Join(p, s) = Join(q, t)
  PROVE  x = y /\ s = t
BY DEF Reads

(* The last part is read, with nothing behind it. *)
LEMMA ReadLast ==
  ASSUME NEW p, NEW x, NEW q, NEW y, Reads(p, x, q, y), p = q
  PROVE  x = y
BY EndOfStream DEF Reads

(* Values, ... *)
LEMMA WordReads ==
  ASSUME NEW w \in Nat \ {0}, NEW x \in Word, NEW y \in Word
  PROVE  Reads(Bytes(w, x), x, Bytes(w, y), y)
<1>1. Bytes(w, x) \in Stream /\ Bytes(w, y) \in Stream
  BY BytesType DEF Word
<1> QED
  BY <1>1, BytesDecode DEF Reads, Word

(* ... flags, ... *)
LEMMA BoolReads ==
  ASSUME NEW x \in BOOLEAN, NEW y \in BOOLEAN
  PROVE  Reads(hash_bool(x), x, hash_bool(y), y)
<1>1. /\ x = TRUE => hash_bool(x) = hash_u8(1)
      /\ x = FALSE => hash_bool(x) = hash_u8(0)
      /\ y = TRUE => hash_bool(y) = hash_u8(1)
      /\ y = FALSE => hash_bool(y) = hash_u8(0)
  BY DEF hash_bool
<1>2. CASE x = TRUE /\ y = TRUE
  BY <1>1, <1>2, Marker, MarkersDiffer DEF Reads
<1>3. CASE x = FALSE /\ y = FALSE
  BY <1>1, <1>3, Marker, MarkersDiffer DEF Reads
<1>4. CASE x = TRUE /\ y = FALSE
  BY <1>1, <1>4, Marker, MarkersDiffer DEF Reads
<1>5. CASE x = FALSE /\ y = TRUE
  BY <1>1, <1>5, Marker, MarkersDiffer DEF Reads
<1> QED
  BY <1>2, <1>3, <1>4, <1>5

(* ... blocks, ... *)
LEMMA SpecReads ==
  ASSUME NEW x \in KeyedSpecs, NEW y \in KeyedSpecs
  PROVE  Reads(hash_block_spec(x), x, hash_block_spec(y), y)
<1>1. <<>> \in Stream
  BY BytesType, EndOfStream
<1>2. hash_block_spec(x) \in Stream /\ hash_block_spec(y) \in Stream
  BY <1>1, SpecDecodes
<1> QED
  BY <1>2, SpecDecodes DEF Reads

(* ... lists of values ... *)
LEMMA WordListReads ==
  ASSUME NEW w \in Nat \ {0}, NEW x \in Seq(Word), NEW y \in Seq(Word)
  PROVE  Reads(hash_list(Hashed(w, x)), x, hash_list(Hashed(w, y)), y)
<1>1. hash_list(Hashed(w, x)) \in Stream /\ hash_list(Hashed(w, y)) \in Stream
  BY WordListType
<1> QED
  BY <1>1, WordListDecodes DEF Reads

(* ... and topics are read back. *)
LEMMA PositionsRead ==
  ASSUME NEW x \in Seq(Topics), NEW y \in Seq(Topics)
  PROVE  Reads(hash_list(Positions(x)), x, hash_list(Positions(y)), y)
<1>1. hash_list(Positions(x)) \in Stream /\ hash_list(Positions(y)) \in Stream
  BY PositionsType
<1> QED
  BY <1>1, PositionsDecode DEF Reads

(* The percentiles that callers ask for, and those among them that the code
   tells from the others when it multiplies, rounds and cuts them. *)
AskedPercentiles ==
  UNION {{r.reward_percentiles[i] : i \in DOMAIN r.reward_percentiles} :
           r \in {q \in Requests : q.method = "FeeHistory"}}
ToldApart ==
  {v \in AskedPercentiles :
     /\ InHundredths(v) \in Word
     /\ \A w \in AskedPercentiles : InHundredths(w) = InHundredths(v) => w = v}

Percentiles == Seq(ToldApart)
Hundredths(p) == [i \in DOMAIN p |-> InHundredths(p[i])]

(* What is hashed of a list of percentiles. *)
LEMMA HundredthsType ==
  ASSUME NEW p \in Percentiles
  PROVE  /\ Hundredths(p) \in Seq(Word) /\ Len(Hundredths(p)) = Len(p)
         /\ \A i \in 1 .. Len(p) : Hundredths(p)[i] = InHundredths(p[i]) /\ p[i] \in ToldApart
         /\ hash_list(Hashed(2, Hundredths(p))) =
              hash_list([i \in DOMAIN p |-> hash_reward_percentile(p[i])])
<1>1. PICK n : n = Len(p) /\ n \in Nat /\ DOMAIN p = 1 .. n /\ p \in Seq(ToldApart)
  BY LenProperties DEF Percentiles
<1>2. PICK h : h = Hundredths(p) /\ h = [i \in 1 .. n |-> InHundredths(p[i])]
  BY <1>1 DEF Hundredths
<1>3. \A i \in 1 .. n : p[i] \in ToldApart /\ InHundredths(p[i]) \in Word
  <2>1. \A i \in 1 .. n : p[i] \in ToldApart
    BY <1>1, ElementOfSeq
  <2> QED
    BY <2>1 DEF ToldApart
<1>4. h \in [1 .. n -> Word]
  BY <1>2, <1>3
<1>5. h \in Seq(Word) /\ Len(h) = n /\ DOMAIN h = 1 .. n
  BY <1>1, <1>4
<1>6. Hashed(2, h) = [i \in DOMAIN p |-> hash_reward_percentile(p[i])]
  <2>1. \A i \in 1 .. n : Bytes(2, h[i]) = hash_reward_percentile(p[i])
    BY <1>2 DEF hash_reward_percentile, hash_u64
  <2> QED
    BY <1>1, <1>5, <2>1 DEF Hashed
<1> QED
  BY <1>1, <1>2, <1>3, <1>5, <1>6

(* Percentiles are read back. *)
LEMMA PercentilesRead ==
  ASSUME NEW x \in Percentiles, NEW y \in Percentiles
  PROVE  Reads(hash_list(Hashed(2, Hundredths(x))), x, hash_list(Hashed(2, Hundredths(y))), y)
<1>0. PICK g, h : g = Hundredths(x) /\ h = Hundredths(y)
  OBVIOUS
<1>1. /\ g = Hundredths(x) /\ h = Hundredths(y) /\ g \in Seq(Word) /\ h \in Seq(Word)
      /\ Len(g) = Len(x) /\ Len(h) = Len(y)
      /\ \A i \in 1 .. Len(x) : g[i] = InHundredths(x[i]) /\ x[i] \in ToldApart
      /\ \A i \in 1 .. Len(y) : h[i] = InHundredths(y[i]) /\ y[i] \in ToldApart
  BY <1>0, HundredthsType
<1>2. Reads(hash_list(Hashed(2, g)), g, hash_list(Hashed(2, h)), h)
  BY <1>1, WordListReads
<1>3. ASSUME g = h
      PROVE  x = y
  <2>1. PICK n : n = Len(x) /\ n = Len(y) /\ x \in Seq(ToldApart) /\ y \in Seq(ToldApart)
    BY <1>1, <1>3 DEF Percentiles
  <2>2. \A i \in 1 .. n : x[i] = y[i]
    <3>1. \A v, w \in ToldApart : InHundredths(v) = InHundredths(w) => v = w
      BY DEF ToldApart
    <3> QED
      BY <2>1, <1>1, <1>3, <3>1
  <2> QED
    BY <2>1, <2>2, SeqEqual
<1> QED
  BY <1>1, <1>2, <1>3 DEF Reads

(* Whole percents are told apart: f64 has them and their hundredfold, so
   nothing is rounded (hash_reward_percentile).  Whole hundredths need not be:
   0.29 times 100 is below 29, and 0.28 and 0.29 share a key. *)
THEOREM WholePercentsToldApart ==
  ASSUME \A v \in AskedPercentiles :
           \E n \in Nat : v = n * One /\ v * RESOLUTION \in Floats
  PROVE  ToldApart = AskedPercentiles
<1>1. One \in Nat /\ One > 0
  BY CacheKeyAssumption
<1>2. \A n \in Nat : n * One * 100 = (n * 100) * One /\ n * 100 \in Nat
  BY <1>1
<1>3. \A k \in Nat : (k * One) \div One = k
  BY <1>1
<1>4. ASSUME NEW v \in AskedPercentiles, NEW n \in Nat, v = n * One, v * RESOLUTION \in Floats
      PROVE  InHundredths(v) = n * 100
  <2>1. InHundredths(v) = (v * 100) \div One
    BY <1>4 DEF InHundredths, Nearest, RESOLUTION
  <2> QED
    BY <1>2, <1>3, <1>4, <2>1
<1>5. ASSUME NEW v \in AskedPercentiles, NEW w \in AskedPercentiles,
             InHundredths(w) = InHundredths(v)
      PROVE  w = v
  <2>1. PICK n \in Nat : v = n * One /\ InHundredths(v) = n * 100
    BY <1>4
  <2>2. PICK m \in Nat : w = m * One /\ InHundredths(w) = m * 100
    BY <1>4
  <2>3. m = n
    BY <1>5, <2>1, <2>2
  <2> QED
    BY <2>1, <2>2, <2>3
<1>6. \A v \in AskedPercentiles : InHundredths(v) \in Word
  BY <1>2, <1>4 DEF Word
<1> QED
  BY <1>5, <1>6 DEF ToldApart
-----------------------------------------------------------------------------
(* The requests that have a key, with their arguments. *)
AccountRequests ==
  [method : {"GetBalance", "GetCode", "GetTransactionCount"}, address : Word, block : KeyedSpecs]
StorageRequests == [method : {"GetStorageAt"}, address : Word, position : Word, block : KeyedSpecs]
ProofRequests ==
  [method : {"GetProof"}, address : Word, storage_keys : Seq(Word), block : KeyedSpecs]
BlockRequests == [method : {"GetBlockByNumber"}, block : KeyedSpecs, include_tx_data : BOOLEAN]
BlockByHashRequests == [method : {"GetBlockByHash"}, hash : Word, include_tx_data : BOOLEAN]
TransactionRequests == [method : {"GetTransactionByHash", "GetTransactionReceipt"}, hash : Word]
FeeRequests ==
  [method : {"FeeHistory"}, block_count : Word, block : KeyedSpecs,
   reward_percentiles : Percentiles]
LogRequests ==
  [method : {"GetLogs"}, from_block : KeyedSpecs, to_block : KeyedSpecs, addresses : Seq(Word),
   topics : Seq(Topics)]
VersionRequests == [method : {"NetVersion"}]

KeyedRequests ==
  AccountRequests \cup StorageRequests \cup ProofRequests \cup BlockRequests
    \cup BlockByHashRequests \cup TransactionRequests \cup FeeRequests \cup LogRequests
    \cup VersionRequests

(* The arguments of a request, as they are hashed. *)
Arguments(r, a) ==
  /\ a \in Stream
  /\ key_hasher(r) = Join(hash_u8(cache_key_variant(r)), a)

(* An account at a block. *)
AccountArguments(r) == Join(Bytes(3, r.address), hash_block_spec(r.block))

(* The key is the variant and these arguments, ... *)
LEMMA AccountHashed ==
  ASSUME NEW r \in AccountRequests
  PROVE  Arguments(r, AccountArguments(r))
<1>1. r.method \in {"GetBalance", "GetCode", "GetTransactionCount"}
      /\ r.address \in Word /\ r.block \in KeyedSpecs
  BY DEF AccountRequests
<1>2. AccountArguments(r) \in Stream
  BY <1>1, WordReads, SpecReads, JoinType DEF Reads, AccountArguments
<1>3. key_hasher(r) = hash_u8(cache_key_variant(r)) \o (hash_address(r.address) \o hash_block_spec(r.block))
  BY <1>1 DEF key_hasher
<1> QED
  BY <1>2, <1>3 DEF Arguments, AccountArguments, hash_address, Join

(* ... which can be read back. *)
LEMMA AccountRead ==
  ASSUME NEW r \in AccountRequests, NEW q \in AccountRequests, r.method = q.method,
         AccountArguments(r) = AccountArguments(q)
  PROVE  r = q
<1>1. r.address \in Word /\ r.block \in KeyedSpecs /\ q.address \in Word /\ q.block \in KeyedSpecs
  BY DEF AccountRequests
<1>2. Reads(hash_block_spec(r.block), r.block, hash_block_spec(q.block), q.block)
  BY <1>1, SpecReads
<1>3. Reads(Bytes(3, r.address), r.address, Bytes(3, q.address), q.address)
  BY <1>1, WordReads
<1>4. r.address = q.address /\ hash_block_spec(r.block) = hash_block_spec(q.block)
  BY <1>2, <1>3 DEF AccountArguments, Reads
<1>5. r.block = q.block
  BY <1>2, <1>4, ReadLast
<1> QED
  BY <1>4, <1>5 DEF AccountRequests

(* A slot of an account at a block. *)
StorageArguments(r) ==
  Join(Bytes(3, r.address), Join(Bytes(4, r.position), hash_block_spec(r.block)))

(* The key is the variant and these arguments, ... *)
LEMMA StorageHashed ==
  ASSUME NEW r \in StorageRequests
  PROVE  Arguments(r, StorageArguments(r))
<1>1. r.method = "GetStorageAt" /\ r.address \in Word /\ r.position \in Word
      /\ r.block \in KeyedSpecs
  BY DEF StorageRequests
<1>2. PICK a, b, c : a = Bytes(3, r.address) /\ b = Bytes(4, r.position) /\ c = hash_block_spec(r.block)
  OBVIOUS
<1>3. a \in Stream /\ b \in Stream /\ c \in Stream
  BY <1>1, <1>2, WordReads, SpecReads DEF Reads
<1>4. key_hasher(r) = hash_u8(cache_key_variant(r)) \o
        (hash_address(r.address) \o hash_u256(r.position) \o hash_block_spec(r.block))
  BY <1>1 DEF key_hasher
<1>5. key_hasher(r) = Join(hash_u8(cache_key_variant(r)), Join(Join(a, b), c))
  BY <1>2, <1>4 DEF hash_address, hash_u256, Join
<1>6. Join(Join(a, b), c) = StorageArguments(r)
  BY <1>2, <1>3, Regroup DEF StorageArguments
<1>7. StorageArguments(r) \in Stream
  BY <1>2, <1>3, JoinType DEF StorageArguments
<1> QED
  BY <1>5, <1>6, <1>7 DEF Arguments

(* ... which can be read back. *)
LEMMA StorageRead ==
  ASSUME NEW r \in StorageRequests, NEW q \in StorageRequests,
         StorageArguments(r) = StorageArguments(q)
  PROVE  r = q
<1>1. /\ r.address \in Word /\ r.position \in Word /\ r.block \in KeyedSpecs
      /\ q.address \in Word /\ q.position \in Word /\ q.block \in KeyedSpecs
  BY DEF StorageRequests
<1>2. Reads(hash_block_spec(r.block), r.block, hash_block_spec(q.block), q.block)
  BY <1>1, SpecReads
<1>3. Reads(Bytes(3, r.address), r.address, Bytes(3, q.address), q.address)
  BY <1>1, WordReads
<1>4. Reads(Bytes(4, r.position), r.position, Bytes(4, q.position), q.position)
  BY <1>1, WordReads
<1>5. PICK u, v : /\ u = Join(Bytes(4, r.position), hash_block_spec(r.block)) /\ u \in Stream
                  /\ v = Join(Bytes(4, q.position), hash_block_spec(q.block)) /\ v \in Stream
  BY <1>2, <1>4, JoinType DEF Reads
<1>6. r.address = q.address /\ u = v
  BY <1>3, <1>5 DEF StorageArguments, Reads
<1>7. r.position = q.position /\ hash_block_spec(r.block) = hash_block_spec(q.block)
  BY <1>2, <1>4, <1>5, <1>6 DEF Reads
<1>8. r.block = q.block
  BY <1>2, <1>7, ReadLast
<1> QED
  BY <1>6, <1>7, <1>8 DEF StorageRequests

(* Some slots of an account at a block. *)
ProofArguments(r) ==
  Join(Bytes(3, r.address), Join(hash_list(Hashed(4, r.storage_keys)), hash_block_spec(r.block)))

(* The key is the variant and these arguments, ... *)
LEMMA ProofHashed ==
  ASSUME NEW r \in ProofRequests
  PROVE  Arguments(r, ProofArguments(r))
<1>1. r.method = "GetProof" /\ r.address \in Word /\ r.storage_keys \in Seq(Word)
      /\ r.block \in KeyedSpecs
  BY DEF ProofRequests
<1>2. PICK a, b, c : /\ a = Bytes(3, r.address) /\ b = hash_list(Hashed(4, r.storage_keys))
                     /\ c = hash_block_spec(r.block)
  OBVIOUS
<1>3. a \in Stream /\ b \in Stream /\ c \in Stream
  BY <1>1, <1>2, WordReads, WordListReads, SpecReads DEF Reads
<1>4. key_hasher(r) = hash_u8(cache_key_variant(r)) \o
        (hash_address(r.address) \o hash_b256s(r.storage_keys) \o hash_block_spec(r.block))
  BY <1>1 DEF key_hasher
<1>5. hash_b256s(r.storage_keys) = b
  BY <1>2 DEF hash_b256s, hash_b256, Hashed
<1>6. key_hasher(r) = Join(hash_u8(cache_key_variant(r)), Join(Join(a, b), c))
  BY <1>2, <1>4, <1>5 DEF hash_address, Join
<1>7. Join(Join(a, b), c) = ProofArguments(r)
  BY <1>2, <1>3, Regroup DEF ProofArguments
<1>8. ProofArguments(r) \in Stream
  BY <1>2, <1>3, JoinType DEF ProofArguments
<1> QED
  BY <1>6, <1>7, <1>8 DEF Arguments

(* ... which can be read back. *)
LEMMA ProofRead ==
  ASSUME NEW r \in ProofRequests, NEW q \in ProofRequests, ProofArguments(r) = ProofArguments(q)
  PROVE  r = q
<1>1. /\ r.address \in Word /\ r.storage_keys \in Seq(Word) /\ r.block \in KeyedSpecs
      /\ q.address \in Word /\ q.storage_keys \in Seq(Word) /\ q.block \in KeyedSpecs
  BY DEF ProofRequests
<1>2. Reads(hash_block_spec(r.block), r.block, hash_block_spec(q.block), q.block)
  BY <1>1, SpecReads
<1>3. Reads(Bytes(3, r.address), r.address, Bytes(3, q.address), q.address)
  BY <1>1, WordReads
<1>4. PICK k, m : k = hash_list(Hashed(4, r.storage_keys)) /\ m = hash_list(Hashed(4, q.storage_keys))
  OBVIOUS
<1>5. Reads(k, r.storage_keys, m, q.storage_keys)
  BY <1>1, <1>4, WordListReads
<1>6. PICK u, v : /\ u = Join(k, hash_block_spec(r.block)) /\ u \in Stream
                  /\ v = Join(m, hash_block_spec(q.block)) /\ v \in Stream
  BY <1>2, <1>5, JoinType DEF Reads
<1>7. r.address = q.address /\ u = v
  BY <1>3, <1>4, <1>6 DEF ProofArguments, Reads
<1>8. r.storage_keys = q.storage_keys /\ hash_block_spec(r.block) = hash_block_spec(q.block)
  BY <1>2, <1>5, <1>6, <1>7 DEF Reads
<1>9. r.block = q.block
  BY <1>2, <1>8, ReadLast
<1> QED
  BY <1>7, <1>8, <1>9 DEF ProofRequests

(* A block by number, and by hash. *)
BlockArguments(r) == Join(hash_block_spec(r.block), hash_bool(r.include_tx_data))
BlockByHashArguments(r) == Join(Bytes(4, r.hash), hash_bool(r.include_tx_data))

(* The key is the variant and these arguments, ... *)
LEMMA BlockHashed ==
  ASSUME NEW r \in BlockRequests
  PROVE  Arguments(r, BlockArguments(r))
<1>1. r.method = "GetBlockByNumber" /\ r.block \in KeyedSpecs /\ r.include_tx_data \in BOOLEAN
  BY DEF BlockRequests
<1>2. BlockArguments(r) \in Stream
  BY <1>1, SpecReads, BoolReads, JoinType DEF Reads, BlockArguments
<1>3. key_hasher(r) = hash_u8(cache_key_variant(r)) \o
        (hash_block_spec(r.block) \o hash_bool(r.include_tx_data))
  BY <1>1 DEF key_hasher
<1> QED
  BY <1>2, <1>3 DEF Arguments, BlockArguments, Join

(* ... which can be read back. *)
LEMMA BlockRead ==
  ASSUME NEW r \in BlockRequests, NEW q \in BlockRequests, BlockArguments(r) = BlockArguments(q)
  PROVE  r = q
<1>1. /\ r.block \in KeyedSpecs /\ r.include_tx_data \in BOOLEAN
      /\ q.block \in KeyedSpecs /\ q.include_tx_data \in BOOLEAN
  BY DEF BlockRequests
<1>2. Reads(hash_block_spec(r.block), r.block, hash_block_spec(q.block), q.block)
  BY <1>1, SpecReads
<1>3. Reads(hash_bool(r.include_tx_data), r.include_tx_data,
            hash_bool(q.include_tx_data), q.include_tx_data)
  BY <1>1, BoolReads
<1>4. r.block = q.block /\ hash_bool(r.include_tx_data) = hash_bool(q.include_tx_data)
  BY <1>2, <1>3 DEF BlockArguments, Reads
<1>5. r.include_tx_data = q.include_tx_data
  BY <1>3, <1>4, ReadLast
<1> QED
  BY <1>4, <1>5 DEF BlockRequests

(* The key is the variant and these arguments, ... *)
LEMMA BlockByHashHashed ==
  ASSUME NEW r \in BlockByHashRequests
  PROVE  Arguments(r, BlockByHashArguments(r))
<1>1. r.method = "GetBlockByHash" /\ r.hash \in Word /\ r.include_tx_data \in BOOLEAN
  BY DEF BlockByHashRequests
<1>2. BlockByHashArguments(r) \in Stream
  BY <1>1, WordReads, BoolReads, JoinType DEF Reads, BlockByHashArguments
<1>3. key_hasher(r) = hash_u8(cache_key_variant(r)) \o (hash_b256(r.hash) \o hash_bool(r.include_tx_data))
  BY <1>1 DEF key_hasher
<1> QED
  BY <1>2, <1>3 DEF Arguments, BlockByHashArguments, hash_b256, Join

(* ... which can be read back. *)
LEMMA BlockByHashRead ==
  ASSUME NEW r \in BlockByHashRequests, NEW q \in BlockByHashRequests,
         BlockByHashArguments(r) = BlockByHashArguments(q)
  PROVE  r = q
<1>1. /\ r.hash \in Word /\ r.include_tx_data \in BOOLEAN
      /\ q.hash \in Word /\ q.include_tx_data \in BOOLEAN
  BY DEF BlockByHashRequests
<1>2. Reads(Bytes(4, r.hash), r.hash, Bytes(4, q.hash), q.hash)
  BY <1>1, WordReads
<1>3. Reads(hash_bool(r.include_tx_data), r.include_tx_data,
            hash_bool(q.include_tx_data), q.include_tx_data)
  BY <1>1, BoolReads
<1>4. r.hash = q.hash /\ hash_bool(r.include_tx_data) = hash_bool(q.include_tx_data)
  BY <1>2, <1>3 DEF BlockByHashArguments, Reads
<1>5. r.include_tx_data = q.include_tx_data
  BY <1>3, <1>4, ReadLast
<1> QED
  BY <1>4, <1>5 DEF BlockByHashRequests

(* A transaction or its receipt. *)
TransactionArguments(r) == Bytes(4, r.hash)

(* The key is the variant and these arguments, ... *)
LEMMA TransactionHashed ==
  ASSUME NEW r \in TransactionRequests
  PROVE  Arguments(r, TransactionArguments(r))
<1>1. r.method \in {"GetTransactionByHash", "GetTransactionReceipt"} /\ r.hash \in Word
  BY DEF TransactionRequests
<1>2. TransactionArguments(r) \in Stream
  BY <1>1, WordReads DEF Reads, TransactionArguments
<1>3. key_hasher(r) = hash_u8(cache_key_variant(r)) \o hash_b256(r.hash)
  BY <1>1 DEF key_hasher
<1> QED
  BY <1>2, <1>3 DEF Arguments, TransactionArguments, hash_b256, Join

(* ... which can be read back. *)
LEMMA TransactionRead ==
  ASSUME NEW r \in TransactionRequests, NEW q \in TransactionRequests, r.method = q.method,
         TransactionArguments(r) = TransactionArguments(q)
  PROVE  r = q
<1>1. r.hash \in Word /\ q.hash \in Word
  BY DEF TransactionRequests
<1>2. Reads(Bytes(4, r.hash), r.hash, Bytes(4, q.hash), q.hash)
  BY <1>1, WordReads
<1>3. r.hash = q.hash
  BY <1>2, ReadLast DEF TransactionArguments
<1> QED
  BY <1>3 DEF TransactionRequests

(* The fees of some blocks. *)
FeeArguments(r) ==
  Join(Bytes(4, r.block_count),
       Join(hash_block_spec(r.block), hash_list(Hashed(2, Hundredths(r.reward_percentiles)))))

(* The key is the variant and these arguments, ... *)
LEMMA FeeHashed ==
  ASSUME NEW r \in FeeRequests
  PROVE  Arguments(r, FeeArguments(r))
<1>1. r.method = "FeeHistory" /\ r.block_count \in Word /\ r.block \in KeyedSpecs
      /\ r.reward_percentiles \in Percentiles
  BY DEF FeeRequests
<1>2. PICK a, b, c : /\ a = Bytes(4, r.block_count) /\ b = hash_block_spec(r.block)
                     /\ c = hash_list(Hashed(2, Hundredths(r.reward_percentiles)))
  OBVIOUS
<1>3. a \in Stream /\ b \in Stream /\ c \in Stream
  BY <1>1, <1>2, WordReads, SpecReads, PercentilesRead DEF Reads
<1>4. key_hasher(r) = hash_u8(cache_key_variant(r)) \o
        (hash_u256(r.block_count) \o hash_block_spec(r.block) \o
           hash_list([i \in DOMAIN r.reward_percentiles |->
                        hash_reward_percentile(r.reward_percentiles[i])]))
  BY <1>1 DEF key_hasher
<1>5. hash_list([i \in DOMAIN r.reward_percentiles |->
                   hash_reward_percentile(r.reward_percentiles[i])]) = c
  BY <1>1, <1>2, HundredthsType
<1>6. key_hasher(r) = Join(hash_u8(cache_key_variant(r)), Join(Join(a, b), c))
  BY <1>2, <1>4, <1>5 DEF hash_u256, Join
<1>7. Join(Join(a, b), c) = FeeArguments(r)
  BY <1>2, <1>3, Regroup DEF FeeArguments
<1>8. FeeArguments(r) \in Stream
  BY <1>2, <1>3, JoinType DEF FeeArguments
<1> QED
  BY <1>6, <1>7, <1>8 DEF Arguments

(* ... which can be read back. *)
LEMMA FeeRead ==
  ASSUME NEW r \in FeeRequests, NEW q \in FeeRequests, FeeArguments(r) = FeeArguments(q)
  PROVE  r = q
<1>1. /\ r.block_count \in Word /\ r.block \in KeyedSpecs /\ r.reward_percentiles \in Percentiles
      /\ q.block_count \in Word /\ q.block \in KeyedSpecs /\ q.reward_percentiles \in Percentiles
  BY DEF FeeRequests
<1>2. Reads(hash_block_spec(r.block), r.block, hash_block_spec(q.block), q.block)
  BY <1>1, SpecReads
<1>3. Reads(Bytes(4, r.block_count), r.block_count, Bytes(4, q.block_count), q.block_count)
  BY <1>1, WordReads
<1>4. PICK k, m : /\ k = hash_list(Hashed(2, Hundredths(r.reward_percentiles)))
                  /\ m = hash_list(Hashed(2, Hundredths(q.reward_percentiles)))
  OBVIOUS
<1>5. Reads(k, r.reward_percentiles, m, q.reward_percentiles)
  BY <1>1, <1>4, PercentilesRead
<1>6. PICK u, v : /\ u = Join(hash_block_spec(r.block), k) /\ u \in Stream
                  /\ v = Join(hash_block_spec(q.block), m) /\ v \in Stream
  BY <1>2, <1>5, JoinType DEF Reads
<1>7. r.block_count = q.block_count /\ u = v
  BY <1>3, <1>4, <1>6 DEF FeeArguments, Reads
<1>8. r.block = q.block /\ k = m
  BY <1>2, <1>5, <1>6, <1>7 DEF Reads
<1>9. r.reward_percentiles = q.reward_percentiles
  BY <1>5, <1>8, ReadLast
<1> QED
  BY <1>7, <1>8, <1>9 DEF FeeRequests

(* The logs of a range of blocks, after the variant of the range. *)
LogArguments(r) ==
  Join(hash_u8(1),
       Join(hash_block_spec(r.from_block),
            Join(hash_block_spec(r.to_block),
                 Join(hash_list(Hashed(3, r.addresses)), hash_list(Positions(r.topics))))))

(* Five parts, read from the left. *)
LEMMA RegroupFive ==
  ASSUME NEW a \in Stream, NEW b \in Stream, NEW c \in Stream, NEW d \in Stream, NEW e \in Stream
  PROVE  /\ Join(Join(Join(Join(a, b), c), d), e) = Join(a, Join(b, Join(c, Join(d, e))))
         /\ Join(a, Join(b, Join(c, Join(d, e)))) \in Stream
<1>1. Join(a, b) \in Stream /\ Join(Join(a, b), c) \in Stream /\ Join(d, e) \in Stream
      /\ Join(c, Join(d, e)) \in Stream /\ Join(b, Join(c, Join(d, e))) \in Stream
      /\ Join(a, Join(b, Join(c, Join(d, e)))) \in Stream
  BY JoinType
<1>2. Join(Join(Join(Join(a, b), c), d), e) = Join(Join(Join(a, b), c), Join(d, e))
  BY <1>1, Regroup
<1>3. Join(Join(Join(a, b), c), Join(d, e)) = Join(Join(a, b), Join(c, Join(d, e)))
  BY <1>1, Regroup
<1>4. Join(Join(a, b), Join(c, Join(d, e))) = Join(a, Join(b, Join(c, Join(d, e))))
  BY <1>1, Regroup
<1> QED
  BY <1>1, <1>2, <1>3, <1>4

(* The key is the variant and these arguments, ... *)
LEMMA LogHashed ==
  ASSUME NEW r \in LogRequests
  PROVE  Arguments(r, LogArguments(r))
<1>1. r.method = "GetLogs" /\ r.from_block \in KeyedSpecs /\ r.to_block \in KeyedSpecs
      /\ r.addresses \in Seq(Word) /\ r.topics \in Seq(Topics)
  BY DEF LogRequests
<1>2. PICK b, c, d, e : /\ b = hash_block_spec(r.from_block) /\ c = hash_block_spec(r.to_block)
                        /\ d = hash_list(Hashed(3, r.addresses)) /\ e = hash_list(Positions(r.topics))
  OBVIOUS
<1>3. b \in Stream /\ c \in Stream /\ d \in Stream /\ e \in Stream /\ hash_u8(1) \in Stream
  BY <1>1, <1>2, WordListReads, SpecReads, PositionsRead, Marker DEF Reads
<1>4. key_hasher(r) = hash_u8(cache_key_variant(r)) \o hash_log_filter_options(r)
  BY <1>1 DEF key_hasher
<1>5. hash_log_filter_options(r) = Join(Join(Join(Join(hash_u8(1), b), c), d), e)
  BY <1>2 DEF hash_log_filter_options, Hashed, Positions, hash_address, Join
<1>6. hash_log_filter_options(r) = LogArguments(r) /\ LogArguments(r) \in Stream
  BY <1>2, <1>3, <1>5, RegroupFive DEF LogArguments
<1> QED
  BY <1>4, <1>6 DEF Arguments, Join

(* ... which can be read back. *)
LEMMA LogRead ==
  ASSUME NEW r \in LogRequests, NEW q \in LogRequests, LogArguments(r) = LogArguments(q)
  PROVE  r = q
<1>1. /\ r.from_block \in KeyedSpecs /\ r.to_block \in KeyedSpecs
      /\ r.addresses \in Seq(Word) /\ r.topics \in Seq(Topics)
      /\ q.from_block \in KeyedSpecs /\ q.to_block \in KeyedSpecs
      /\ q.addresses \in Seq(Word) /\ q.topics \in Seq(Topics)
  BY DEF LogRequests
<1>2. PICK b, c, d, e : /\ b = hash_block_spec(r.from_block) /\ c = hash_block_spec(r.to_block)
                        /\ d = hash_list(Hashed(3, r.addresses)) /\ e = hash_list(Positions(r.topics))
  OBVIOUS
<1>3. PICK b2, c2, d2, e2 :
        /\ b2 = hash_block_spec(q.from_block) /\ c2 = hash_block_spec(q.to_block)
        /\ d2 = hash_list(Hashed(3, q.addresses)) /\ e2 = hash_list(Positions(q.topics))
  OBVIOUS
<1>4. Reads(b, r.from_block, b2, q.from_block) /\ Reads(c, r.to_block, c2, q.to_block)
  BY <1>1, <1>2, <1>3, SpecReads
<1>5. Reads(d, r.addresses, d2, q.addresses)
  BY <1>1, <1>2, <1>3, WordListReads
<1>6. Reads(e, r.topics, e2, q.topics)
  BY <1>1, <1>2, <1>3, PositionsRead
<1>7. PICK u, u2 : u = Join(d, e) /\ u2 = Join(d2, e2) /\ u \in Stream /\ u2 \in Stream
  BY <1>5, <1>6, JoinType DEF Reads
<1>8. PICK v, v2 : v = Join(c, u) /\ v2 = Join(c2, u2) /\ v \in Stream /\ v2 \in Stream
  BY <1>4, <1>7, JoinType DEF Reads
<1>9. PICK w, w2 : w = Join(b, v) /\ w2 = Join(b2, v2) /\ w \in Stream /\ w2 \in Stream
  BY <1>4, <1>8, JoinType DEF Reads
<1>10. Join(hash_u8(1), w) = Join(hash_u8(1), w2)
  BY <1>2, <1>3, <1>7, <1>8, <1>9 DEF LogArguments
<1>11. w = w2
  BY <1>9, <1>10, MarkersDiffer
<1>12. r.from_block = q.from_block /\ v = v2
  BY <1>4, <1>8, <1>9, <1>11 DEF Reads
<1>13. r.to_block = q.to_block /\ u = u2
  BY <1>4, <1>7, <1>8, <1>12 DEF Reads
<1>14. r.addresses = q.addresses /\ e = e2
  BY <1>5, <1>6, <1>7, <1>13 DEF Reads
<1>15. r.topics = q.topics
  BY <1>6, <1>14, ReadLast
<1> QED
  BY <1>12, <1>13, <1>14, <1>15 DEF LogRequests

(* The network. *)
LEMMA VersionHashed ==
  ASSUME NEW r \in VersionRequests
  PROVE  Arguments(r, <<>>) /\ r = [method |-> "NetVersion"]
<1>1. r.method = "NetVersion" /\ r = [method |-> "NetVersion"]
  BY DEF VersionRequests
<1>2. key_hasher(r) = hash_u8(cache_key_variant(r)) \o <<>>
  BY <1>1 DEF key_hasher
<1> QED
  BY <1>1, <1>2, EndOfStream, EmptySeq DEF Arguments, Join, Stream

-----------------------------------------------------------------------------
(* The first byte says what the method is. *)
Methods ==
  {"GetBalance", "GetBlockByNumber", "GetBlockByHash", "GetCode", "GetLogs", "GetStorageAt",
   "GetTransactionByHash", "GetTransactionCount", "GetTransactionReceipt", "NetVersion",
   "FeeHistory", "GetProof"}

(* The variant of every method. *)
LEMMA VariantIs ==
  ASSUME NEW r, r.method \in Methods
  PROVE  /\ cache_key_variant(r) \in Word
         /\ r.method = "GetBalance" <=> cache_key_variant(r) = 1
         /\ r.method = "GetBlockByNumber" <=> cache_key_variant(r) = 2
         /\ r.method = "GetBlockByHash" <=> cache_key_variant(r) = 3
         /\ r.method = "GetCode" <=> cache_key_variant(r) = 6
         /\ r.method = "GetLogs" <=> cache_key_variant(r) = 7
         /\ r.method = "GetStorageAt" <=> cache_key_variant(r) = 8
         /\ r.method = "GetTransactionByHash" <=> cache_key_variant(r) = 11
         /\ r.method = "GetTransactionCount" <=> cache_key_variant(r) = 12
         /\ r.method = "GetTransactionReceipt" <=> cache_key_variant(r) = 13
         /\ r.method = "NetVersion" <=> cache_key_variant(r) = 14
         /\ r.method = "FeeHistory" <=> cache_key_variant(r) = 15
         /\ r.method = "GetProof" <=> cache_key_variant(r) = 16
BY SMTT(30) DEF Methods, cache_key_variant, Word

(* Methods have different variants. *)
LEMMA VariantGives ==
  ASSUME NEW r, NEW q, r.method \in Methods, q.method \in Methods,
         cache_key_variant(r) = cache_key_variant(q)
  PROVE  r.method = q.method
<1>1. PICK n : n = cache_key_variant(r) /\ n = cache_key_variant(q)
  OBVIOUS
<1>2. n \in {1, 2, 3, 6, 7, 8, 11, 12, 13, 14, 15, 16}
  BY <1>1, VariantIs DEF Methods
<1>3. n \in {1, 2, 3, 6} => r.method = q.method
  BY <1>1, VariantIs
<1>4. n \in {7, 8, 11, 12} => r.method = q.method
  BY <1>1, VariantIs
<1>5. n \in {13, 14, 15, 16} => r.method = q.method
  BY <1>1, VariantIs
<1> QED
  BY <1>2, <1>3, <1>4, <1>5

(* So requests with the same key have the same method and the same arguments.
   *)
LEMMA SameMethod ==
  ASSUME NEW r, NEW q, r.method \in Methods, q.method \in Methods, NEW a, NEW b,
         Arguments(r, a), Arguments(q, b), key_hasher(r) = key_hasher(q)
  PROVE  r.method = q.method /\ a = b
<1>1. PICK m, n : m = cache_key_variant(r) /\ n = cache_key_variant(q) /\ m \in Word /\ n \in Word
  BY VariantIs
<1>2. Join(Bytes(1, m), a) = Join(Bytes(1, n), b) /\ a \in Stream /\ b \in Stream
  BY <1>1 DEF Arguments, hash_u8
<1>3. m = n /\ a = b
  BY <1>1, <1>2, BytesDecode DEF Word
<1>4. r.method = q.method
  BY <1>1, <1>3, VariantGives
<1> QED
  BY <1>3, <1>4

(* The arguments that a method has. *)
LEMMA FamilyOf ==
  ASSUME NEW r \in KeyedRequests
  PROVE  /\ r.method \in Methods
         /\ r.method \in {"GetBalance", "GetCode", "GetTransactionCount"} => r \in AccountRequests
         /\ r.method = "GetStorageAt" => r \in StorageRequests
         /\ r.method = "GetProof" => r \in ProofRequests
         /\ r.method = "GetBlockByNumber" => r \in BlockRequests
         /\ r.method = "GetBlockByHash" => r \in BlockByHashRequests
         /\ r.method \in {"GetTransactionByHash", "GetTransactionReceipt"} => r \in TransactionRequests
         /\ r.method = "FeeHistory" => r \in FeeRequests
         /\ r.method = "GetLogs" => r \in LogRequests
         /\ r.method = "NetVersion" => r \in VersionRequests
<1>1. /\ r \in AccountRequests => r.method \in {"GetBalance", "GetCode", "GetTransactionCount"}
      /\ r \in StorageRequests => r.method = "GetStorageAt"
      /\ r \in ProofRequests => r.method = "GetProof"
      /\ r \in BlockRequests => r.method = "GetBlockByNumber"
      /\ r \in BlockByHashRequests => r.method = "GetBlockByHash"
      /\ r \in TransactionRequests => r.method \in {"GetTransactionByHash", "GetTransactionReceipt"}
      /\ r \in FeeRequests => r.method = "FeeHistory"
      /\ r \in LogRequests => r.method = "GetLogs"
      /\ r \in VersionRequests => r.method = "NetVersion"
  BY DEF AccountRequests, StorageRequests, ProofRequests, BlockRequests, BlockByHashRequests,
         TransactionRequests, FeeRequests, LogRequests, VersionRequests
<1>2. \/ r \in AccountRequests \/ r \in StorageRequests \/ r \in ProofRequests
      \/ r \in BlockRequests \/ r \in BlockByHashRequests \/ r \in TransactionRequests
      \/ r \in FeeRequests \/ r \in LogRequests \/ r \in VersionRequests
  BY DEF KeyedRequests
<1>3. r.method \in Methods
  BY <1>1, <1>2 DEF Methods
<1> QED
  BY <1>1, <1>2, <1>3, SMTT(30)

(* Requests with the same key are the same. *)
LEMMA KeysDiffer ==
  ASSUME NEW r \in KeyedRequests, NEW q \in KeyedRequests, key_hasher(r) = key_hasher(q)
  PROVE  r = q
<1>1. r.method \in Methods /\ q.method \in Methods
  BY FamilyOf
<1>2. ASSUME NEW a, NEW b, Arguments(r, a), Arguments(q, b)
      PROVE  r.method = q.method /\ a = b
  BY <1>1, <1>2, SameMethod
<1>3. r.method = q.method
  <2>1. \E a : Arguments(r, a)
    BY <1>1, FamilyOf, AccountHashed, StorageHashed, ProofHashed, BlockHashed, BlockByHashHashed,
       TransactionHashed, FeeHashed, LogHashed, VersionHashed DEF Methods
  <2>2. \E b : Arguments(q, b)
    BY <1>1, FamilyOf, AccountHashed, StorageHashed, ProofHashed, BlockHashed, BlockByHashHashed,
       TransactionHashed, FeeHashed, LogHashed, VersionHashed DEF Methods
  <2> QED
    BY <1>2, <2>1, <2>2
<1>4. CASE r.method \in {"GetBalance", "GetCode", "GetTransactionCount"}
  BY <1>2, <1>3, <1>4, FamilyOf, AccountHashed, AccountRead
<1>5. CASE r.method = "GetStorageAt"
  BY <1>2, <1>3, <1>5, FamilyOf, StorageHashed, StorageRead
<1>6. CASE r.method = "GetProof"
  BY <1>2, <1>3, <1>6, FamilyOf, ProofHashed, ProofRead
<1>7. CASE r.method = "GetBlockByNumber"
  BY <1>2, <1>3, <1>7, FamilyOf, BlockHashed, BlockRead
<1>8. CASE r.method = "GetBlockByHash"
  BY <1>2, <1>3, <1>8, FamilyOf, BlockByHashHashed, BlockByHashRead
<1>9. CASE r.method \in {"GetTransactionByHash", "GetTransactionReceipt"}
  BY <1>2, <1>3, <1>9, FamilyOf, TransactionHashed, TransactionRead
<1>10. CASE r.method = "FeeHistory"
  BY <1>2, <1>3, <1>10, FamilyOf, FeeHashed, FeeRead
<1>11. CASE r.method = "GetLogs"
  BY <1>2, <1>3, <1>11, FamilyOf, LogHashed, LogRead
<1>12. CASE r.method = "NetVersion"
  BY <1>3, <1>12, FamilyOf, VersionHashed
<1> QED
  BY <1>1, <1>4, <1>5, <1>6, <1>7, <1>8, <1>9, <1>10, <1>11, <1>12 DEF Methods

-----------------------------------------------------------------------------
(* The requests that callers make: as above, with blocks that may also be
   named by a tag, or not at all. *)
Tags == {"earliest", "finalized", "safe", "latest", "pending"}
TagSpecs == [by : Tags]
Specs == KeyedSpecs \cup TagSpecs \cup {None}

FormedRequest(r) ==
  \/ r \in [method : {"BlockNumber"}]
  \/ r \in [method : {"GetBalance", "GetCode", "GetTransactionCount"}, address : Word, block : Specs]
  \/ r \in [method : {"GetStorageAt"}, address : Word, position : Word, block : Specs]
  \/ r \in [method : {"GetProof"}, address : Word, storage_keys : Seq(Word), block : Specs]
  \/ r \in [method : {"GetBlockByNumber"}, block : Specs, include_tx_data : BOOLEAN]
  \/ r \in BlockByHashRequests \cup TransactionRequests \cup VersionRequests
  \/ r \in [method : {"FeeHistory"}, block_count : Word, block : Specs,
            reward_percentiles : Percentiles]
  \/ r \in [method : {"GetLogs"}, from_block : Specs, to_block : Specs, addresses : Seq(Word),
            topics : Seq(Topics)]

FormedRequests == \A r \in Requests : FormedRequest(r)

(* A block that can be hashed is named by number or by hash. *)
LEMMA ResolvedSpec ==
  ASSUME NEW spec \in Specs, SpecIsCacheable(spec), SpecIsResolved(spec)
  PROVE  spec \in KeyedSpecs
BY DEF Specs, SpecIsCacheable, SpecIsResolved, TagSpecs, Tags

(* A request that has a key is one of the requests above. *)
LEMMA FormedKeyed ==
  ASSUME NEW r, FormedRequest(r), HasKey(r)
  PROVE  r \in KeyedRequests
<1>1. r.method # "BlockNumber" /\ \A spec \in BlockSpecs(r) : SpecIsCacheable(spec) /\ SpecIsResolved(spec)
  BY DEF HasKey, IsCacheable
<1>2. CASE r \in [method : {"BlockNumber"}]
  BY <1>1, <1>2
<1>3. CASE r \in [method : {"GetBalance", "GetCode", "GetTransactionCount"}, address : Word, block : Specs]
  <2>1. r.block \in Specs /\ r.block \in BlockSpecs(r)
    BY <1>3 DEF BlockSpecs
  <2>2. r.block \in KeyedSpecs
    BY <1>1, <2>1, ResolvedSpec
  <2>3. r \in AccountRequests
    BY <1>3, <2>2 DEF AccountRequests
  <2> QED
    BY <2>3 DEF KeyedRequests
<1>4. CASE r \in [method : {"GetStorageAt"}, address : Word, position : Word, block : Specs]
  <2>1. r.block \in Specs /\ r.block \in BlockSpecs(r)
    BY <1>4 DEF BlockSpecs
  <2>2. r.block \in KeyedSpecs
    BY <1>1, <2>1, ResolvedSpec
  <2>3. r \in StorageRequests
    BY <1>4, <2>2 DEF StorageRequests
  <2> QED
    BY <2>3 DEF KeyedRequests
<1>5. CASE r \in [method : {"GetProof"}, address : Word, storage_keys : Seq(Word), block : Specs]
  <2>1. r.block \in Specs /\ r.block \in BlockSpecs(r)
    BY <1>5 DEF BlockSpecs
  <2>2. r.block \in KeyedSpecs
    BY <1>1, <2>1, ResolvedSpec
  <2>3. r \in ProofRequests
    BY <1>5, <2>2 DEF ProofRequests
  <2> QED
    BY <2>3 DEF KeyedRequests
<1>6. CASE r \in [method : {"GetBlockByNumber"}, block : Specs, include_tx_data : BOOLEAN]
  <2>1. r.block \in Specs /\ r.block \in BlockSpecs(r)
    BY <1>6 DEF BlockSpecs
  <2>2. r.block \in KeyedSpecs
    BY <1>1, <2>1, ResolvedSpec
  <2>3. r \in BlockRequests
    BY <1>6, <2>2 DEF BlockRequests
  <2> QED
    BY <2>3 DEF KeyedRequests
<1>7. CASE r \in BlockByHashRequests \cup TransactionRequests \cup VersionRequests
  BY <1>7 DEF KeyedRequests
<1>8. CASE r \in [method : {"FeeHistory"}, block_count : Word, block : Specs,
                  reward_percentiles : Percentiles]
  <2>1. r.block \in Specs /\ r.block \in BlockSpecs(r)
    BY <1>8 DEF BlockSpecs
  <2>2. r.block \in KeyedSpecs
    BY <1>1, <2>1, ResolvedSpec
  <2>3. r \in FeeRequests
    BY <1>8, <2>2 DEF FeeRequests
  <2> QED
    BY <2>3 DEF KeyedRequests
<1>9. CASE r \in [method : {"GetLogs"}, from_block : Specs, to_block : Specs, addresses : Seq(Word),
                  topics : Seq(Topics)]
  <2>1. r.from_block \in Specs /\ r.to_block \in Specs /\ BlockSpecs(r) = {r.from_block, r.to_block}
    BY <1>9 DEF BlockSpecs
  <2>2. r.from_block \in KeyedSpecs /\ r.to_block \in KeyedSpecs
    BY <1>1, <2>1, ResolvedSpec
  <2>3. r \in LogRequests
    BY <1>9, <2>2 DEF LogRequests
  <2> QED
    BY <2>3 DEF KeyedRequests
<1> QED
  BY <1>2, <1>3, <1>4, <1>5, <1>6, <1>7, <1>8, <1>9 DEF FormedRequest

(* What is stored has a key, also when the node found the block for a tag. *)
LEMMA WriteHasKey ==
  ASSUME NEW r, FormedRequest(r), NEW n \in Nat \cup {None}
  PROVE  resolve_write_key(r, n) \in KeyedRequests \cup {None}
<1>1. CASE HasKey(r)
  BY <1>1, FormedKeyed DEF resolve_write_key
<1>2. CASE ~HasKey(r) /\ r.method = "GetBlockByNumber" /\ n # None /\ IsCacheable(r)
  <2>1. resolve_write_key(r, n) = [r EXCEPT !.block = Number(n)]
    BY <1>2 DEF resolve_write_key
  <2>2. r \in [method : {"GetBlockByNumber"}, block : Specs, include_tx_data : BOOLEAN]
    BY <1>2 DEF FormedRequest, BlockByHashRequests, TransactionRequests, VersionRequests
  <2>3. Number(n) \in KeyedSpecs
    BY <1>2 DEF Number, KeyedSpecs, NumberSpecs, Word
  <2>4. [r EXCEPT !.block = Number(n)] \in BlockRequests
    BY <2>2, <2>3 DEF BlockRequests
  <2> QED
    BY <2>1, <2>4 DEF KeyedRequests
<1>3. CASE ~HasKey(r) /\ ~(r.method = "GetBlockByNumber" /\ n # None /\ IsCacheable(r))
  BY <1>3 DEF resolve_write_key
<1> QED
  BY <1>1, <1>2, <1>3

-----------------------------------------------------------------------------
(* The invariant: a file holds the answer to the request of its name, ... *)
Filed(key, entry) ==
  entry # None => entry.request \in KeyedRequests /\ key = key_hasher(entry.request)
FilesInv == \A key \in DOMAIN disk : Filed(key, disk[key])

(* ... and what a call is to store is the answer to a request with a key. *)
Open(s) ==
  /\ s = [request |-> s.request, write |-> s.write, answer |-> s.answer, head |-> s.head,
          at |-> s.at]
  /\ s.request \in Requests
  /\ s.write \in KeyedRequests \cup {None}
  /\ s.at \in {"check", "write"} => s.write # None
OpenCall(s) == s = [at |-> "idle"] \/ Open(s)

OpenCallsInv ==
  /\ call = [c \in Callers |-> call[c]]
  /\ \A c \in Callers : OpenCall(call[c])

KeysInv == ChainInv /\ FilesInv /\ OpenCallsInv

(* A step of one call leaves the others alone. *)
LEMMA OneOpenCall ==
  ASSUME OpenCallsInv, NEW c \in Callers, NEW s, OpenCall(s), call' = [call EXCEPT ![c] = s]
  PROVE  OpenCallsInv'
<1>1. call' = [d \in Callers |-> IF d = c THEN s ELSE call[d]]
  BY DEF OpenCallsInv
<1>2. \A d \in Callers : OpenCall(call'[d])
  BY <1>1 DEF OpenCallsInv
<1> QED
  BY <1>1, <1>2 DEF OpenCallsInv

(* A call that has returned has nothing to store. *)
LEMMA OpenReturned ==
  ASSUME OpenCallsInv, NEW c \in Callers, Return(c)
  PROVE  OpenCallsInv'
<1>1. OpenCall([at |-> "idle"])
  BY DEF OpenCall
<1> QED
  BY <1>1, OneOpenCall DEF Return

(* A call that goes on is as it was, but for where it is. *)
LEMMA OpenWentTo ==
  ASSUME OpenCallsInv, NEW c \in Callers, NEW at, Goto(c, at), call[c].at # "idle",
         at \in {"check", "write"} => call[c].write # None
  PROVE  OpenCallsInv'
<1> DEFINE s == [request |-> call[c].request, write |-> call[c].write,
                 answer |-> call[c].answer, head |-> call[c].head, at |-> at]
<1>1. Open(call[c])
  BY DEF OpenCallsInv, OpenCall
<1>2. [call[c] EXCEPT !.at = at] = s
  BY <1>1 DEF Open
<1>3. call' = [call EXCEPT ![c] = s]
  BY <1>2 DEF Goto
<1>4. OpenCall(s)
  BY <1>1 DEF OpenCall, Open
<1> HIDE DEF s
<1> QED
  BY <1>3, <1>4, OneOpenCall

(* What the node answers is to be stored under a request with a key, or not at
   all. *)
LEMMA OpenAnswered ==
  ASSUME FormedRequests, OpenCallsInv, NEW c \in Callers, call[c].at # "idle",
         NEW number \in Nat \cup {None}, NEW answer, Answered(c, number, answer)
  PROVE  OpenCallsInv'
<1> DEFINE w == resolve_write_key(call[c].request, number)
           s1 == [call[c] EXCEPT !.at = "got"]
           s2 == [s1 EXCEPT !.answer = answer]
           s3 == [s2 EXCEPT !.head = Latest]
           s4 == [s3 EXCEPT !.write = w]
<1>1. Open(call[c])
  BY DEF OpenCallsInv, OpenCall
<1>2. w \in KeyedRequests \cup {None}
  BY <1>1, WriteHasKey DEF Open, FormedRequests
<1>3. call' = [call EXCEPT ![c] = s4]
  BY DEF Answered
<1> HIDE DEF w
<1>4. s1 = [request |-> call[c].request, write |-> call[c].write, answer |-> call[c].answer,
            head |-> call[c].head, at |-> "got"]
  BY <1>1 DEF Open
<1> HIDE DEF s1
<1>5. s2 = [request |-> call[c].request, write |-> call[c].write, answer |-> answer,
            head |-> call[c].head, at |-> "got"]
  BY <1>4
<1> HIDE DEF s2
<1>6. s3 = [request |-> call[c].request, write |-> call[c].write, answer |-> answer,
            head |-> Latest, at |-> "got"]
  BY <1>5
<1> HIDE DEF s3
<1>7. s4 = [request |-> call[c].request, write |-> w, answer |-> answer,
            head |-> Latest, at |-> "got"]
  BY <1>6
<1> HIDE DEF s4
<1>8. OpenCall(s4)
  BY <1>1, <1>2, <1>7 DEF OpenCall, Open
<1> QED
  BY <1>3, <1>8, OneOpenCall

(* A new call has nothing to store yet. *)
LEMMA CallOpens ==
  ASSUME OpenCallsInv, NEW c \in Callers, NEW r \in Requests, Call(c, r)
  PROVE  OpenCallsInv'
<1> DEFINE at == IF r.method = "BlockNumber" THEN "number"
                 ELSE IF HasKey(r) THEN "read" ELSE "send"
           s == [request |-> r, write |-> None, answer |-> None, head |-> 0, at |-> at]
<1>1. call' = [call EXCEPT ![c] = s]
  BY DEF Call
<1>2. at \in {"number", "read", "send"}
  OBVIOUS
<1> HIDE DEF at
<1>3. OpenCall(s)
  BY <1>2 DEF OpenCall, Open
<1> HIDE DEF s
<1> QED
  BY <1>1, <1>3, OneOpenCall

(* The steps of a call; only the last two of these touch the files. *)
LEMMA StepOpens ==
  ASSUME FormedRequests, KeysInv, NEW c \in Callers, Step(c)
  PROVE  KeysInv'
<1> USE DEF KeysInv
<1>1. UNCHANGED chain /\ UNCHANGED ids
  BY DEF Step, ReadCache, RemoveFromCache, Send, MissingTrieNode, ResolveWriteKey, CheckBlockNumber,
         AskBlockNumber, RememberBlockNumber, WriteToCache, Fail, remote
<1>2. ChainInv'
  BY <1>1 DEF ChainInv
<1>3. ASSUME UNCHANGED disk, OpenCallsInv'
      PROVE  KeysInv'
  BY <1>2, <1>3 DEF FilesInv
<1>4. CASE ReadCache(c)
  <2>1. UNCHANGED disk /\ call[c].at = "read" /\ (Goto(c, "send") \/ Goto(c, "remove") \/ Return(c))
    BY <1>4 DEF ReadCache
  <2>2. OpenCallsInv'
    BY <2>1, OpenWentTo, OpenReturned
  <2> QED
    BY <1>3, <2>1, <2>2
<1>5. CASE RemoveFromCache(c)
  <2>1. call[c].at = "remove" /\ Goto(c, "send")
    BY <1>5 DEF RemoveFromCache
  <2>2. OpenCallsInv'
    BY <2>1, OpenWentTo
  <2>3. \A key \in DOMAIN disk' : key \in DOMAIN disk /\ disk'[key] = disk[key]
    BY <1>5 DEF RemoveFromCache, Without
  <2>4. FilesInv'
    BY <2>3 DEF FilesInv
  <2> QED
    BY <1>2, <2>2, <2>4
<1>6. CASE Send(c)
  <2>1. UNCHANGED disk /\ call[c].at # "idle" /\ Latest \in Nat
    BY <1>6 DEF Send, Latest, ChainInv
  <2>2. \A n \in IF call[c].request.block.by = "earliest" THEN {1} ELSE 1 .. Latest : n \in Nat
    BY <2>1
  <2>3. \E number \in Nat \cup {None} : \E answer : Answered(c, number, answer)
    BY <1>6, <2>2 DEF Send
  <2>4. OpenCallsInv'
    BY <2>1, <2>3, OpenAnswered
  <2> QED
    BY <1>3, <2>1, <2>4
<1>7. CASE MissingTrieNode(c)
  <2>1. UNCHANGED disk /\ call[c].at = "send" /\ Goto(c, "resend")
    BY <1>7 DEF MissingTrieNode
  <2>2. OpenCallsInv'
    BY <2>1, OpenWentTo
  <2> QED
    BY <1>3, <2>1, <2>2
<1>8. CASE ResolveWriteKey(c)
  <2>1. /\ UNCHANGED disk /\ call[c].at = "got"
        /\ \/ Return(c)
           \/ call[c].write # None /\ (Goto(c, "write") \/ Goto(c, "check"))
    BY <1>8 DEF ResolveWriteKey
  <2>2. OpenCallsInv'
    BY <2>1, OpenWentTo, OpenReturned
  <2> QED
    BY <1>3, <2>1, <2>2
<1>9. CASE CheckBlockNumber(c)
  <2>1. call[c].write # None
    BY <1>9 DEF CheckBlockNumber, OpenCallsInv, OpenCall, Open
  <2>2. UNCHANGED disk /\ call[c].at = "check" /\ (Goto(c, "number") \/ Goto(c, "write") \/ Return(c))
    BY <1>9 DEF CheckBlockNumber, Validate
  <2>3. OpenCallsInv'
    BY <2>1, <2>2, OpenWentTo, OpenReturned
  <2> QED
    BY <1>3, <2>2, <2>3
<1>10. CASE AskBlockNumber(c)
  <2> DEFINE s1 == [call[c] EXCEPT !.at = "remember"]
             s2 == [s1 EXCEPT !.head = Latest]
  <2>1. UNCHANGED disk /\ call[c].at = "number" /\ call' = [call EXCEPT ![c] = s2]
    BY <1>10 DEF AskBlockNumber
  <2>2. Open(call[c])
    BY <2>1 DEF OpenCallsInv, OpenCall
  <2>3. s1 = [request |-> call[c].request, write |-> call[c].write, answer |-> call[c].answer,
              head |-> call[c].head, at |-> "remember"]
    BY <2>2 DEF Open
  <2> HIDE DEF s1
  <2>4. s2 = [request |-> call[c].request, write |-> call[c].write, answer |-> call[c].answer,
              head |-> Latest, at |-> "remember"]
    BY <2>3
  <2> HIDE DEF s2
  <2>5. OpenCall(s2)
    BY <2>2, <2>4 DEF OpenCall, Open
  <2>6. OpenCallsInv'
    BY <2>1, <2>5, OneOpenCall
  <2> QED
    BY <1>3, <2>1, <2>6
<1>11. CASE RememberBlockNumber(c)
  <2>1. /\ UNCHANGED disk /\ call[c].at = "remember"
        /\ Return(c) \/ (call[c].write # None /\ Goto(c, "write"))
    BY <1>11 DEF RememberBlockNumber, Validate
  <2>2. OpenCallsInv'
    BY <2>1, OpenWentTo, OpenReturned
  <2> QED
    BY <1>3, <2>1, <2>2
<1>12. CASE WriteToCache(c)
  <2> DEFINE entry == [request |-> call[c].write, answer |-> call[c].answer]
  <2>1. /\ call[c].at = "write" /\ Return(c)
        /\ disk' = Put(disk, key_hasher(call[c].write), entry)
    BY <1>12 DEF WriteToCache
  <2>2. call[c].write \in KeyedRequests
    BY <2>1 DEF OpenCallsInv, OpenCall, Open
  <2>3. entry.request = call[c].write
    OBVIOUS
  <2> HIDE DEF entry
  <2>4. \A key \in DOMAIN disk' :
          IF key = key_hasher(call[c].write) THEN disk'[key] = entry
          ELSE key \in DOMAIN disk /\ disk'[key] = disk[key]
    BY <2>1 DEF Put
  <2>5. FilesInv'
    BY <2>2, <2>3, <2>4 DEF FilesInv, Filed
  <2>6. OpenCallsInv'
    BY <2>1, OpenReturned
  <2> QED
    BY <1>2, <2>5, <2>6
<1>13. CASE Fail(c)
  <2>1. UNCHANGED disk /\ Return(c)
    BY <1>13 DEF Fail
  <2>2. OpenCallsInv'
    BY <2>1, OpenReturned
  <2> QED
    BY <1>3, <2>1, <2>2
<1> QED
  BY <1>4, <1>5, <1>6, <1>7, <1>8, <1>9, <1>10, <1>11, <1>12, <1>13 DEF Step

(* At first there is no file and no call. *)
LEMMA KeysInitially == Init => KeysInv
<1> SUFFICES ASSUME Init PROVE KeysInv
  OBVIOUS
<1>1. ChainInv
  BY DEF Init, ChainInv
<1>2. FilesInv
  BY DEF Init, FilesInv
<1>3. OpenCallsInv
  BY DEF Init, OpenCallsInv, OpenCall
<1> QED
  BY <1>1, <1>2, <1>3 DEF KeysInv

(* Every step keeps the invariant: a file is written under the key of what it
   holds. *)
LEMMA KeysNext ==
  ASSUME FormedRequests, KeysInv, [Next]_vars
  PROVE  KeysInv'
<1> USE DEF KeysInv
<1>1. CASE Extend \/ \E k \in 1 .. MaxReorg : Reorg(k)
  <2>1. ChainInv'
    BY <1>1, RemoteGrows
  <2>2. UNCHANGED <<disk, call>>
    BY <1>1 DEF Extend, Reorg
  <2> QED
    BY <2>1, <2>2 DEF FilesInv, OpenCallsInv
<1>2. ASSUME NEW c \in Callers, NEW r \in Requests, Call(c, r)
      PROVE  KeysInv'
  <2>1. OpenCallsInv'
    BY <1>2, CallOpens
  <2>2. UNCHANGED <<chain, ids, disk>>
    BY <1>2 DEF Call, remote
  <2> QED
    BY <2>1, <2>2 DEF ChainInv, FilesInv
<1>3. ASSUME NEW c \in Callers, Step(c)
      PROVE  KeysInv'
  BY <1>3, StepOpens
<1>4. CASE Expire
  <2>1. UNCHANGED <<chain, ids, disk, call>>
    BY <1>4 DEF Expire, remote
  <2> QED
    BY <2>1 DEF ChainInv, FilesInv, OpenCallsInv
<1>5. ASSUME NEW key \in DOMAIN disk, Damage(key)
      PROVE  KeysInv'
  <2>1. UNCHANGED <<chain, ids, call>>
    BY <1>5 DEF Damage, remote
  <2>2. \A k \in DOMAIN disk' : k \in DOMAIN disk /\ (disk'[k] = None \/ disk'[k] = disk[k])
    BY <1>5 DEF Damage
  <2>3. FilesInv'
    BY <2>2 DEF FilesInv, Filed
  <2> QED
    BY <2>1, <2>3 DEF ChainInv, OpenCallsInv
<1>6. CASE Restart
  <2>1. UNCHANGED <<chain, ids, disk>>
    BY <1>6 DEF Restart, remote
  <2>2. OpenCallsInv'
    BY <1>6 DEF Restart, OpenCallsInv, OpenCall
  <2> QED
    BY <2>1, <2>2 DEF ChainInv, FilesInv
<1>7. CASE UNCHANGED vars
  BY <1>7 DEF vars, remote, ChainInv, FilesInv, OpenCallsInv
<1> QED
  BY <1>1, <1>2, <1>3, <1>4, <1>5, <1>6, <1>7 DEF Next

(* The file that a request finds is its own, because keys differ. *)
LEMMA FiledIsOwn ==
  ASSUME FormedRequests, KeysInv
  PROVE  ReadsOwnAnswer
<1> SUFFICES ASSUME NEW r \in Requests, HasKey(r), key_hasher(r) \in DOMAIN disk,
                    disk[key_hasher(r)] # None
             PROVE  disk[key_hasher(r)].request = r
  BY DEF ReadsOwnAnswer
<1>1. r \in KeyedRequests
  BY FormedKeyed DEF FormedRequests
<1>2. PICK key, q : /\ key = key_hasher(r) /\ q = disk[key].request
                    /\ q \in KeyedRequests /\ key = key_hasher(q)
  BY DEF KeysInv, FilesInv, Filed
<1>3. q = r
  BY <1>1, <1>2, KeysDiffer
<1> QED
  BY <1>2, <1>3

(* A caller that finds a file reads the answer to its own request, whatever
   the requests are: no two requests have the same key, although most keys
   are made of parts of variable length (KeyHasher, hash_log_filter_options),
   and an answer for a tag is stored under the number of its block
   (resolve_write_key).  Of the percentiles that are asked for no two may be
   the same after hash_reward_percentile has multiplied, rounded and cut them
   (FormedRequests, through Percentiles). *)
THEOREM KeysNeverMixed ==
  FormedRequests /\ Spec => []ReadsOwnAnswer
<1> SUFFICES ASSUME FormedRequests
             PROVE  Spec => []ReadsOwnAnswer
  OBVIOUS
<1>1. Init => KeysInv
  BY KeysInitially
<1>2. KeysInv /\ [Next]_vars => KeysInv'
  BY KeysNext
<1>3. KeysInv => ReadsOwnAnswer
  BY FiledIsOwn
<1> QED
  BY <1>1, <1>2, <1>3, PTL DEF Spec
=============================================================================
