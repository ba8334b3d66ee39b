-------------------------- MODULE CheatcodesProofs --------------------------
(***************************************************************************)
(* Pranks and expected reverts keep their promises to every frame, at any  *)
(* depth of calls, where none of the situations happens that break them.   *)
(***************************************************************************)
EXTENDS Cheatcodes, FiniteSetTheorems, WellFoundedInduction, SequenceTheorems, TLAPS

(* What the invariant says is about a stack, pranks and an expected revert
   that are parameters, so that it can be compared before and after a step. *)
FrameType ==
  [kind : {"call", "create", "delegate"}, this : Addresses, msg_sender : Addresses,
   from : Addresses, origin : Addresses, opened : BOOLEAN, prank : {None} \cup AskedPrank,
   due : {None} \cup Nat]

(* What the inspector keeps of the prank of a frame. *)
Kept(f, d, used) ==
  [prank_caller |-> f.this, prank_origin |-> f.origin, new_caller |-> f.prank.caller,
   new_origin |-> f.prank.origin, depth |-> d, single_call |-> f.prank.single_call,
   delegate_call |-> FALSE, used |-> used]

(* There is a prank for a depth exactly while the frame there has asked for
   one, and it has been used by every frame but the one that runs. *)
PranksMatch(st, ps) ==
  /\ ps = [d \in DOMAIN ps |-> ps[d]]
  /\ DOMAIN ps = {d \in 1 .. Len(st) : st[d].prank # None}
  /\ \A d \in DOMAIN ps :
       /\ ps[d].used \in BOOLEAN
       /\ ps[d] = Kept(st[d], d, ps[d].used)
       /\ d < Len(st) => ps[d].used = TRUE

(* The origin of a frame is that of the closest prank above it that has one. *)
OriginUnder(f) ==
  IF f.prank = None THEN f.origin ELSE IF f.prank.origin = None THEN f.origin ELSE f.prank.origin

NearestPrank(st, d, e) ==
  /\ d < e /\ st[d].prank # None
  /\ \A m \in d + 1 .. e - 1 : st[m].prank = None

OriginsMatch(st) ==
  /\ \A e \in 2 .. Len(st) : st[e].origin = OriginUnder(st[e - 1])
  /\ \A d, e \in 1 .. Len(st) :
       NearestPrank(st, d, e) /\ st[d].prank.origin # None => st[e].origin = st[d].prank.origin

SendersMatch(st) == \A d \in 1 .. Len(st) : st[d].msg_sender = st[d].from

(* The expected revert is that of the one frame that still waits for some: a
   frame was seen to open below it by the time one of its calls is under way
   or has been counted, and only then. *)
Waits(st, er) ==
  /\ er \in ExpectedRevert /\ er.depth \in 1 .. Len(st)
  /\ \A d \in 1 .. Len(st) : d # er.depth => st[d].due = None
  /\ st[er.depth].due = er.count - er.actual_count
  /\ er.actual_count < er.count \/ (er.count = 0 /\ er.actual_count = 0)
  /\ er.depth <= er.max_depth
  /\ Len(st) > er.depth \/ er.actual_count >= 1 => er.max_depth > er.depth
  /\ Len(st) = er.depth /\ er.max_depth > er.depth => er.actual_count >= 1

RevertMatches(st, er) ==
  \/ er = None /\ \A d \in 1 .. Len(st) : st[d].due = None
  \/ Waits(st, er)

PrankInv ==
  /\ tx_caller = Top.origin
  /\ PranksMatch(stack, pranks) /\ OriginsMatch(stack) /\ SendersMatch(stack)

IInv ==
  /\ stack \in Seq(FrameType)
  /\ stack # <<>> => PrankInv /\ RevertMatches(stack, expected_revert)
  /\ seen = promised

-----------------------------------------------------------------------------
(* The greatest of some numbers up to a bound is one of them. *)
LEMMA LeastNatural ==
  ASSUME NEW T \in SUBSET Nat, T # {}
  PROVE  \E x \in T : \A y \in T : x <= y
<1>1. PICK x \in T : \A y \in T : ~ (<<y, x>> \in OpToRel(<, Nat))
  BY NatLessThanWellFounded, WFMin
<1>2. \A y \in T : ~ (y < x)
  BY <1>1 DEF OpToRel
<1> QED
  BY <1>2

LEMMA MaxOfBounded ==
  ASSUME NEW n \in Nat, NEW S \in SUBSET (0 .. n), S # {}
  PROVE  Max(S) \in S /\ \A y \in S : y <= Max(S)
<1> DEFINE T == {n - s : s \in S}
<1>1. T \in SUBSET Nat
  OBVIOUS
<1>2. T # {}
  OBVIOUS
<1>3. \E x \in T : \A y \in T : x <= y
  BY <1>1, <1>2, LeastNatural
<1>4. PICK s \in S : \A t \in S : n - s <= n - t
  BY <1>3
<1>5. \A t \in S : s >= t
  BY <1>4
<1>6. Max(S) \in S /\ \A y \in S : Max(S) >= y
  BY <1>5 DEF Max
<1> QED
  BY <1>6

LEMMA MaxOfTwo ==
  ASSUME NEW a \in Nat, NEW b \in Nat
  PROVE  Max({a, b}) = IF a >= b THEN a ELSE b
<1> DEFINE m == IF a >= b THEN a ELSE b
<1>1. m \in {a, b} /\ \A y \in {a, b} : m >= y
  OBVIOUS
<1>2. Max({a, b}) \in {a, b} /\ \A y \in {a, b} : Max({a, b}) >= y
  BY <1>1 DEF Max
<1> QED
  BY <1>2

-----------------------------------------------------------------------------
(* The prank of a depth is that of the closest frame above with one. *)
LEMMA KeptIsKept ==
  ASSUME NEW f \in FrameType, f.prank # None, NEW d \in Nat, NEW used \in BOOLEAN
  PROVE  Kept(f, d, used) \in KeptPrank
<1>1. f.prank \in AskedPrank /\ f.this \in Addresses /\ f.origin \in Addresses
  BY DEF FrameType
<1>2. f.prank.caller \in NewCallers /\ f.prank.origin \in NewOrigins \cup {None}
      /\ f.prank.single_call \in BOOLEAN
  BY <1>1 DEF AskedPrank
<1> QED
  BY <1>1, <1>2 DEF Kept, KeptPrank

LEMMA GetPrank ==
  ASSUME stack \in Seq(FrameType), PranksMatch(stack, pranks), NEW n \in 0 .. Len(stack)
  PROVE  \/ /\ get_prank(n) = None
            /\ \A d \in 1 .. n : stack[d].prank = None
         \/ \E d \in 1 .. n :
              /\ d \in DOMAIN pranks /\ get_prank(n) = pranks[d] /\ pranks[d] # None
              /\ pranks[d] \in KeptPrank
              /\ \A m \in d + 1 .. n : stack[m].prank = None
<1> USE CheatcodesAssumption
<1> DEFINE depths == {d \in DOMAIN pranks : d <= n}
<1>0. Len(stack) \in Nat /\ n \in Nat /\ \A d \in 1 .. Len(stack) : stack[d] \in FrameType
  OBVIOUS
<1>1. DOMAIN pranks = {d \in 1 .. Len(stack) : stack[d].prank # None}
  BY DEF PranksMatch
<1>2. CASE depths = {}
  <2>1. get_prank(n) = None
    BY <1>2 DEF get_prank
  <2>2. \A d \in 1 .. n : stack[d].prank = None
    BY <1>0, <1>1, <1>2
  <2> QED
    BY <2>1, <2>2
<1>3. CASE depths # {}
  <2> DEFINE d == Max(depths)
  <2>1. depths \in SUBSET (0 .. n)
    BY <1>0, <1>1
  <2>2. d \in depths /\ \A y \in depths : y <= d
    BY <1>0, <1>3, <2>1, MaxOfBounded
  <2>3. get_prank(n) = pranks[d]
    BY <1>3 DEF get_prank
  <2> HIDE DEF d
  <2>4. d \in 1 .. n /\ d \in DOMAIN pranks /\ d \in 1 .. Len(stack) /\ stack[d].prank # None
    BY <1>0, <1>1, <2>2
  <2>5. pranks[d] \in KeptPrank
    BY <1>0, <2>4, KeptIsKept DEF PranksMatch
  <2>6. \A m \in d + 1 .. n : stack[m].prank = None
    BY <1>0, <1>1, <2>2, <2>4
  <2> QED
    BY <2>3, <2>4, <2>5, <2>6
<1> QED
  BY <1>2, <1>3

-----------------------------------------------------------------------------
(* The frame that runs changes what it asked for; the frames below do not. *)
TopOnly(st, st2) ==
  /\ st2 \in Seq(FrameType) /\ Len(st2) = Len(st)
  /\ \A d \in 1 .. Len(st) - 1 : st2[d] = st[d]
  /\ \A d \in 1 .. Len(st) :
       /\ st2[d].kind = st[d].kind /\ st2[d].this = st[d].this
       /\ st2[d].msg_sender = st[d].msg_sender /\ st2[d].from = st[d].from
       /\ st2[d].origin = st[d].origin

LEMMA TopReplaced ==
  ASSUME NEW st \in Seq(FrameType), st # <<>>, NEW st2, NEW f \in FrameType,
         f.kind = st[Len(st)].kind, f.this = st[Len(st)].this,
         f.msg_sender = st[Len(st)].msg_sender, f.from = st[Len(st)].from,
         f.origin = st[Len(st)].origin,
         st2 = [st EXCEPT ![Len(st)] = f]
  PROVE  TopOnly(st, st2) /\ st2[Len(st)] = f
<1>1. Len(st) \in Nat \ {0}
  OBVIOUS
<1>2. /\ st2 \in Seq(FrameType) /\ Len(st2) = Len(st) /\ st2[Len(st)] = f
      /\ \A d \in 1 .. Len(st) - 1 : st2[d] = st[d]
  BY <1>1
<1>3. \A d \in 1 .. Len(st) : st2[d] = st[d] \/ (d = Len(st) /\ st2[d] = f)
  <2>1. \A d \in 1 .. Len(st) : d \in 1 .. Len(st) - 1 \/ d = Len(st)
    BY <1>1
  <2> QED
    BY <1>2, <2>1, Zenon
<1>4. \A d \in 1 .. Len(st) :
        /\ st2[d].kind = st[d].kind /\ st2[d].this = st[d].this
        /\ st2[d].msg_sender = st[d].msg_sender /\ st2[d].from = st[d].from
        /\ st2[d].origin = st[d].origin
  BY <1>3
<1> QED
  BY <1>2, <1>4 DEF TopOnly

LEMMA TopOnlyKeeps ==
  ASSUME NEW st \in Seq(FrameType), st # <<>>, NEW st2, TopOnly(st, st2)
  PROVE  /\ st2 # <<>>
         /\ OriginsMatch(st) => OriginsMatch(st2)
         /\ SendersMatch(st) => SendersMatch(st2)
         /\ \A er : RevertMatches(st, er) /\ (\A d \in 1 .. Len(st) : st2[d].due = st[d].due)
              => RevertMatches(st2, er)
<1>1. Len(st) \in Nat \ {0}
  OBVIOUS
<1>2. st2 # <<>> /\ (SendersMatch(st) => SendersMatch(st2))
  BY <1>1 DEF TopOnly, SendersMatch
<1>3. ASSUME OriginsMatch(st) PROVE OriginsMatch(st2)
  <2>1. \A e \in 2 .. Len(st) : st2[e].origin = OriginUnder(st2[e - 1])
    BY <1>1, <1>3 DEF OriginsMatch, TopOnly
  <2>2. \A d, e \in 1 .. Len(st) : d < e =>
          st2[d] = st[d] /\ (\A m \in d + 1 .. e - 1 : st2[m] = st[m]) /\ st2[e].origin = st[e].origin
    BY <1>1 DEF TopOnly
  <2>3. \A d, e \in 1 .. Len(st) : NearestPrank(st2, d, e) => NearestPrank(st, d, e)
    BY <2>2 DEF NearestPrank
  <2>4. \A d, e \in 1 .. Len(st) : NearestPrank(st2, d, e) => d < e
    BY DEF NearestPrank
  <2>5. \A d, e \in 1 .. Len(st) :
          NearestPrank(st2, d, e) /\ st2[d].prank.origin # None => st2[e].origin = st2[d].prank.origin
    BY <1>3, <2>2, <2>3, <2>4 DEF OriginsMatch
  <2> QED
    BY <2>1, <2>5 DEF OriginsMatch, TopOnly
<1>4. ASSUME NEW er, RevertMatches(st, er), \A d \in 1 .. Len(st) : st2[d].due = st[d].due
      PROVE  RevertMatches(st2, er)
  BY <1>4 DEF RevertMatches, Waits, TopOnly
<1> QED
  BY <1>2, <1>3, <1>4

-----------------------------------------------------------------------------
(* prank, startPrank, stopPrank and expectRevert. *)
LEMMA TopPrank ==
  ASSUME stack \in Seq(FrameType), stack # <<>>, NEW a \in {None} \cup AskedPrank,
         stack' = [stack EXCEPT ![Len(stack)].prank = a]
  PROVE  /\ TopOnly(stack, stack') /\ stack'[Len(stack)].prank = a
         /\ \A d \in 1 .. Len(stack) : stack'[d].due = stack[d].due
<1> DEFINE n == Len(stack)
           f == [stack[n] EXCEPT !.prank = a]
<1>1. n \in Nat \ {0} /\ stack[n] \in FrameType
  OBVIOUS
<1>2. /\ f \in FrameType /\ f.prank = a /\ f.due = stack[n].due
      /\ f.kind = stack[n].kind /\ f.this = stack[n].this
      /\ f.msg_sender = stack[n].msg_sender /\ f.from = stack[n].from
      /\ f.origin = stack[n].origin
  BY <1>1 DEF FrameType
<1>3. stack' = [stack EXCEPT ![n] = f]
  OBVIOUS
<1> HIDE DEF f
<1>4. TopOnly(stack, stack') /\ stack'[n] = f
  BY <1>2, <1>3, TopReplaced, ZenonT(30)
<1> QED
  BY <1>1, <1>2, <1>4 DEF TopOnly

LEMMA TopAsks ==
  ASSUME stack \in Seq(FrameType), stack # <<>>, TopOnly(stack, stack'), PrankInv,
         RevertMatches(stack, expected_revert), UNCHANGED expected_revert,
         \A d \in 1 .. Len(stack) : stack'[d].due = stack[d].due
  PROVE  /\ stack' \in Seq(FrameType) /\ stack' # <<>> /\ Len(stack') = Len(stack)
         /\ OriginsMatch(stack') /\ SendersMatch(stack')
         /\ RevertMatches(stack', expected_revert')
<1>1. /\ stack' # <<>> /\ OriginsMatch(stack') /\ SendersMatch(stack')
      /\ RevertMatches(stack', expected_revert)
  BY TopOnlyKeeps DEF PrankInv
<1> QED
  BY <1>1 DEF TopOnly

LEMMA PrankKeeps ==
  ASSUME IInv, Allowed = {}, NEW c \in NewCallers, NEW o \in NewOrigins \cup {None},
         NEW single \in BOOLEAN, NEW delegate \in BOOLEAN, Prank(c, o, single, delegate)
  PROVE  IInv'
<1> USE CheatcodesAssumption
<1> DEFINE a == [caller |-> c, origin |-> o, single_call |-> single]
           n == Len(stack)
           kept == [prank_caller |-> Top.this, prank_origin |-> tx_caller, new_caller |-> c,
                    new_origin |-> o, depth |-> n, single_call |-> single,
                    delegate_call |-> delegate, used |-> FALSE]
<1>0. /\ stack \in Seq(FrameType) /\ stack # <<>> /\ n \in Nat \ {0}
      /\ PrankInv /\ RevertMatches(stack, expected_revert) /\ seen = promised
  BY DEF IInv, Prank, Running
<1>1. /\ pranks' = [y \in DOMAIN pranks \cup {n} |-> IF y = n THEN kept ELSE pranks[y]]
      /\ stack' = [stack EXCEPT ![n].prank = a]
      /\ UNCHANGED <<tx_caller, expected_revert, seen, promised>> /\ delegate = FALSE
  BY DEF Prank, Put, Depth
<1>2. a \in AskedPrank /\ a # None
  BY DEF AskedPrank
<1>3. a.caller = c /\ a.origin = o /\ a.single_call = single
  OBVIOUS
<1> HIDE DEF a
<1>4. /\ TopOnly(stack, stack') /\ stack'[n].prank = a
      /\ \A d \in 1 .. n : stack'[d].due = stack[d].due
  BY <1>0, <1>1, <1>2, TopPrank
<1>5. /\ stack' \in Seq(FrameType) /\ stack' # <<>> /\ Len(stack') = n
      /\ OriginsMatch(stack') /\ SendersMatch(stack')
      /\ RevertMatches(stack', expected_revert')
  BY <1>0, <1>1, <1>4, TopAsks
<1>6. stack'[n].origin = stack[n].origin /\ stack'[n].this = stack[n].this
  BY <1>0, <1>4 DEF TopOnly
<1>7. tx_caller = stack[n].origin /\ Top = stack[n]
  BY <1>0 DEF PrankInv, Top, Depth
<1>8. kept = Kept(stack'[n], n, FALSE) /\ kept.used = FALSE
  BY <1>1, <1>3, <1>4, <1>6, <1>7 DEF Kept
<1> HIDE DEF kept
<1>9. DOMAIN pranks' = DOMAIN pranks \cup {n} /\ pranks'[n] = kept
      /\ \A d \in DOMAIN pranks : d # n => pranks'[d] = pranks[d]
  BY <1>1
<1>10. \A d \in 1 .. n - 1 : stack'[d] = stack[d]
  BY <1>4 DEF TopOnly
<1>11. DOMAIN pranks' = {d \in 1 .. n : stack'[d].prank # None}
  BY <1>0, <1>2, <1>4, <1>9, <1>10 DEF PrankInv, PranksMatch
<1>12. PranksMatch(stack', pranks')
  <2>1. pranks' = [d \in DOMAIN pranks' |-> pranks'[d]]
    BY <1>1
  <2>2. ASSUME NEW d \in DOMAIN pranks'
        PROVE  /\ pranks'[d].used \in BOOLEAN
               /\ pranks'[d] = Kept(stack'[d], d, pranks'[d].used)
               /\ d < n => pranks'[d].used = TRUE
    <3>1. CASE d = n
      <4>1. pranks'[d] = kept /\ ~ (d < n)
        BY <1>0, <1>9, <3>1
      <4>2. pranks'[d].used = FALSE
        BY <1>8, <4>1
      <4> QED
        BY <1>8, <3>1, <4>1, <4>2
    <3>2. CASE d # n
      <4>1. d \in DOMAIN pranks /\ pranks'[d] = pranks[d] /\ d \in 1 .. n - 1
        BY <1>0, <1>9, <1>11, <3>2
      <4>2. stack'[d] = stack[d]
        BY <1>10, <4>1
      <4> QED
        BY <1>0, <4>1, <4>2 DEF PrankInv, PranksMatch
    <3> QED
      BY <3>1, <3>2
  <2> QED
    BY <1>5, <1>11, <2>1, <2>2 DEF PranksMatch
<1>13. tx_caller' = stack'[Len(stack')].origin
  BY <1>1, <1>5, <1>6, <1>7
<1> QED
  BY <1>0, <1>1, <1>5, <1>12, <1>13 DEF IInv, PrankInv, Top, Depth

LEMMA StopPrankKeeps ==
  ASSUME IInv, StopPrank
  PROVE  IInv'
<1> USE CheatcodesAssumption
<1> DEFINE n == Len(stack)
<1>0. /\ stack \in Seq(FrameType) /\ stack # <<>> /\ n \in Nat \ {0}
      /\ PrankInv /\ RevertMatches(stack, expected_revert) /\ seen = promised
  BY DEF IInv, StopPrank, Running
<1>1. /\ pranks' = [y \in DOMAIN pranks \ {n} |-> pranks[y]]
      /\ stack' = [stack EXCEPT ![n].prank = None]
      /\ UNCHANGED <<tx_caller, expected_revert, seen, promised>>
  BY DEF StopPrank, Without, Depth
<1>4. /\ TopOnly(stack, stack') /\ stack'[n].prank = None
      /\ \A d \in 1 .. n : stack'[d].due = stack[d].due
  BY <1>0, <1>1, TopPrank
<1>5. /\ stack' \in Seq(FrameType) /\ stack' # <<>> /\ Len(stack') = n
      /\ OriginsMatch(stack') /\ SendersMatch(stack')
      /\ RevertMatches(stack', expected_revert')
  BY <1>0, <1>1, <1>4, TopAsks
<1>6. stack'[n].origin = stack[n].origin
  BY <1>0, <1>4 DEF TopOnly
<1>10. \A d \in 1 .. n - 1 : stack'[d] = stack[d]
  BY <1>4 DEF TopOnly
<1>11. DOMAIN pranks' = {d \in 1 .. n : stack'[d].prank # None}
  BY <1>0, <1>1, <1>4, <1>10 DEF PrankInv, PranksMatch
<1>12. PranksMatch(stack', pranks')
  <2>1. pranks' = [d \in DOMAIN pranks' |-> pranks'[d]]
    BY <1>1
  <2>2. ASSUME NEW d \in DOMAIN pranks'
        PROVE  /\ pranks'[d].used \in BOOLEAN
               /\ pranks'[d] = Kept(stack'[d], d, pranks'[d].used)
               /\ d < n => pranks'[d].used = TRUE
    <3>1. d \in DOMAIN pranks /\ pranks'[d] = pranks[d] /\ d \in 1 .. n - 1
      BY <1>0, <1>1, <1>11
    <3>2. stack'[d] = stack[d]
      BY <1>10, <3>1
    <3> QED
      BY <1>0, <3>1, <3>2 DEF PrankInv, PranksMatch
  <2> QED
    BY <1>5, <1>11, <2>1, <2>2 DEF PranksMatch
<1>13. tx_caller' = stack'[Len(stack')].origin
  BY <1>0, <1>1, <1>5, <1>6 DEF PrankInv, Top, Depth
<1> QED
  BY <1>0, <1>1, <1>5, <1>12, <1>13 DEF IInv, PrankInv, Top, Depth

LEMMA ExpectRevertKeeps ==
  ASSUME IInv, NEW count \in Counts, ExpectRevert(count)
  PROVE  IInv'
<1> USE CheatcodesAssumption
<1> DEFINE n == Len(stack)
           er == [depth |-> n, max_depth |-> n, count |-> count, actual_count |-> 0]
<1>0. /\ stack \in Seq(FrameType) /\ stack # <<>> /\ n \in Nat \ {0}
      /\ PrankInv /\ RevertMatches(stack, expected_revert) /\ seen = promised
      /\ expected_revert = None /\ count \in Nat
  BY DEF IInv, ExpectRevert, Running
<1>1. /\ stack' = [stack EXCEPT ![n].due = count] /\ expected_revert' = er
      /\ UNCHANGED <<tx_caller, pranks, seen, promised>>
  BY DEF ExpectRevert, Depth
<1>4. /\ TopOnly(stack, stack') /\ stack'[n].due = count
      /\ \A d \in 1 .. n : stack'[d].prank = stack[d].prank
  <2> DEFINE f == [stack[n] EXCEPT !.due = count]
  <2>1. stack[n] \in FrameType
    BY <1>0
  <2>2. /\ f \in FrameType /\ f.prank = stack[n].prank /\ f.due = count
        /\ f.kind = stack[n].kind /\ f.this = stack[n].this
        /\ f.msg_sender = stack[n].msg_sender /\ f.from = stack[n].from
        /\ f.origin = stack[n].origin
    BY <1>0, <2>1 DEF FrameType
  <2>3. stack' = [stack EXCEPT ![n] = f]
    BY <1>1
  <2> HIDE DEF f
  <2>4. TopOnly(stack, stack') /\ stack'[n] = f
    BY <1>0, <2>2, <2>3, TopReplaced
  <2> QED
    BY <1>0, <2>2, <2>4 DEF TopOnly
<1>5. /\ stack' \in Seq(FrameType) /\ stack' # <<>> /\ Len(stack') = n
      /\ OriginsMatch(stack') /\ SendersMatch(stack')
  <2>1. stack' # <<>> /\ OriginsMatch(stack') /\ SendersMatch(stack')
    BY <1>0, <1>4, TopOnlyKeeps DEF PrankInv
  <2> QED
    BY <1>4, <2>1 DEF TopOnly
<1>6. \A d \in 1 .. n : stack'[d].origin = stack[d].origin /\ stack'[d].this = stack[d].this
  BY <1>4 DEF TopOnly
<1>7. \A d \in 1 .. n - 1 : stack'[d].due = None
  BY <1>0, <1>4 DEF TopOnly, RevertMatches, Waits, ExpectedRevert
<1>8. /\ er \in ExpectedRevert /\ er.depth = n /\ er.max_depth = n /\ er.count = count
      /\ er.actual_count = 0
  BY <1>0 DEF ExpectedRevert
<1> HIDE DEF er
<1>9. RevertMatches(stack', expected_revert')
  BY <1>0, <1>1, <1>4, <1>5, <1>7, <1>8 DEF RevertMatches, Waits
<1>10. \A d \in 1 .. n : \A used : Kept(stack'[d], d, used) = Kept(stack[d], d, used)
  BY <1>4, <1>6 DEF Kept
<1>11. PranksMatch(stack', pranks')
  <2>1. PranksMatch(stack, pranks)
    BY <1>0 DEF PrankInv
  <2>2. DOMAIN pranks = {d \in 1 .. n : stack'[d].prank # None}
    BY <1>4, <2>1 DEF PranksMatch
  <2>3. ASSUME NEW d \in DOMAIN pranks
        PROVE  /\ pranks[d].used \in BOOLEAN
               /\ pranks[d] = Kept(stack'[d], d, pranks[d].used)
               /\ d < n => pranks[d].used = TRUE
    <3>1. d \in 1 .. n
      BY <2>2
    <3> QED
      BY <1>10, <2>1, <3>1 DEF PranksMatch
  <2> QED
    BY <1>1, <1>5, <2>1, <2>2, <2>3 DEF PranksMatch
<1>12. tx_caller' = stack'[Len(stack')].origin
  BY <1>0, <1>1, <1>5, <1>6 DEF PrankInv, Top, Depth
<1> QED
  BY <1>0, <1>1, <1>5, <1>9, <1>11, <1>12 DEF IInv, PrankInv, Top, Depth

-----------------------------------------------------------------------------
(* A call or a creation begins: all pranks are used from then on. *)
AllUsed(st, ps, ps2) ==
  /\ DOMAIN ps2 = DOMAIN ps /\ ps2 = [d \in DOMAIN ps |-> ps2[d]]
  /\ \A d \in DOMAIN ps : ps2[d] = Kept(st[d], d, TRUE)

SenderUnder(f, caller) == IF f.prank = None THEN caller ELSE f.prank.caller

LEMMA KeptUsed ==
  ASSUME NEW k \in KeptPrank, NEW u \in KeptPrank, u.used = TRUE,
         u.prank_caller = k.prank_caller, u.prank_origin = k.prank_origin,
         u.new_caller = k.new_caller, u.new_origin = k.new_origin, u.depth = k.depth,
         u.single_call = k.single_call, u.delegate_call = k.delegate_call
  PROVE  [k EXCEPT !.used = TRUE] = u
BY DEF KeptPrank

LEMMA WithPrankIs ==
  ASSUME IInv, stack # <<>>, Allowed = {}, NEW kind, NEW caller \in Addresses, NEW target, NEW p,
         Top.prank # None => kind # "delegate" /\ caller = Top.this,
         p = WithPrank(kind, caller, target)
  PROVE  /\ p.caller = SenderUnder(Top, caller) /\ p.target = target
         /\ p.tx_caller = OriginUnder(Top)
         /\ AllUsed(stack, pranks, p.pranks)
<1> USE CheatcodesAssumption
<1> DEFINE n == Len(stack)
           prank == get_prank(n)
<1>0. /\ stack \in Seq(FrameType) /\ n \in Nat \ {0} /\ Top = stack[n] /\ Depth = n
      /\ tx_caller = Top.origin /\ PranksMatch(stack, pranks) /\ OriginsMatch(stack)
      /\ Top \in FrameType
  BY DEF IInv, PrankInv, Top, Depth
<1>1. \A d \in DOMAIN pranks :
        /\ d \in 1 .. n /\ stack[d].prank # None /\ pranks[d].depth = d
        /\ pranks[d].prank_caller = stack[d].this /\ pranks[d].delegate_call = FALSE
        /\ pranks[d].new_caller = stack[d].prank.caller
        /\ pranks[d].new_origin = stack[d].prank.origin
  <2> TAKE d \in DOMAIN pranks
  <2>1. d \in 1 .. n /\ stack[d].prank # None
    BY <1>0 DEF PranksMatch
  <2>2. pranks[d] = Kept(stack[d], d, pranks[d].used)
    BY <1>0 DEF PranksMatch
  <2>3. /\ pranks[d].depth = d /\ pranks[d].prank_caller = stack[d].this
        /\ pranks[d].delegate_call = FALSE
        /\ pranks[d].new_caller = stack[d].prank.caller
        /\ pranks[d].new_origin = stack[d].prank.origin
    BY <2>2 DEF Kept
  <2> QED
    BY <2>1, <2>3
<1>2. pranks = [d \in DOMAIN pranks |-> pranks[d]]
  BY <1>0 DEF PranksMatch
<1>3. ASSUME NEW d \in DOMAIN pranks, d < n \/ pranks[d].used = TRUE
      PROVE  pranks[d] = Kept(stack[d], d, TRUE)
  <2>1. pranks[d] = Kept(stack[d], d, pranks[d].used) /\ pranks[d].used = TRUE
    BY <1>0, <1>3 DEF PranksMatch
  <2> QED
    BY <2>1, Zenon
<1>4. CASE prank = None
  <2>1. Top.prank = None
    BY <1>0, <1>4, GetPrank
  <2>2. DOMAIN pranks = {}
    <3>1. \A d \in 1 .. n : stack[d].prank = None
      BY <1>0, <1>4, GetPrank
    <3> QED
      BY <1>1, <3>1
  <2> HIDE DEF prank
  <2>3. p.caller = caller /\ p.target = target /\ p.tx_caller = tx_caller /\ p.pranks = pranks
    BY <1>0, <1>4 DEF WithPrank, prank
  <2>4. AllUsed(stack, pranks, p.pranks)
    BY <1>2, <2>2, <2>3 DEF AllUsed
  <2> QED
    BY <1>0, <2>1, <2>3, <2>4 DEF OriginUnder, SenderUnder
<1>5. ASSUME NEW d \in 1 .. n, d \in DOMAIN pranks, prank = pranks[d], prank # None,
             \A m \in d + 1 .. n : stack[m].prank = None
      PROVE  /\ p.caller = SenderUnder(Top, caller) /\ p.target = target
             /\ p.tx_caller = OriginUnder(Top)
             /\ AllUsed(stack, pranks, p.pranks)
  <2> DEFINE applies == n >= d /\ caller = prank.prank_caller
             applied == applies /\ (n = d \/ prank.new_origin # None)
  <2>0. /\ prank.depth = d /\ prank.prank_caller = stack[d].this /\ prank.delegate_call = FALSE
        /\ prank.new_caller = stack[d].prank.caller /\ prank.new_origin = stack[d].prank.origin
        /\ stack[d].prank # None
    BY <1>1, <1>5
  <2>1. /\ p.caller = IF applies /\ n = d THEN prank.new_caller ELSE caller
        /\ p.target = target
        /\ p.tx_caller = IF applies /\ prank.new_origin # None THEN prank.new_origin ELSE tx_caller
        /\ p.pranks = IF applied /\ ~prank.used THEN Put(pranks, n, [prank EXCEPT !.used = TRUE])
                      ELSE pranks
    BY <1>0, <1>5, <2>0 DEF WithPrank
  <2>2. CASE d = n
    <3>1. Top.prank # None /\ applies /\ applied
      BY <1>0, <2>0, <2>2
    <3>2. p.caller = SenderUnder(Top, caller) /\ p.tx_caller = OriginUnder(Top)
      BY <1>0, <2>0, <2>1, <2>2, <3>1 DEF OriginUnder, SenderUnder
    <3>3. pranks[n] = Kept(stack[n], n, pranks[n].used) /\ pranks[n].used \in BOOLEAN
      BY <1>0, <1>5, <2>2 DEF PranksMatch
    <3>5. CASE pranks[n].used = FALSE
      <4> DEFINE k == Kept(stack[n], n, TRUE)
      <4>1. [prank EXCEPT !.used = TRUE] = k
        <5>1. k = Kept(stack[n], n, TRUE) /\ prank = Kept(stack[n], n, prank.used)
          BY <1>5, <2>2, <3>3, Zenon
        <5>2. k \in KeptPrank /\ prank \in KeptPrank
          BY <1>0, <1>5, <2>0, <2>2, <3>3, KeptIsKept, GetPrank, ZenonT(30)
        <5> HIDE DEF k, prank
        <5>3. /\ k.depth = n /\ k.prank_caller = stack[n].this /\ k.prank_origin = stack[n].origin
              /\ k.new_caller = stack[n].prank.caller /\ k.new_origin = stack[n].prank.origin
              /\ k.single_call = stack[n].prank.single_call /\ k.delegate_call = FALSE
              /\ k.used = TRUE
          BY <5>1 DEF Kept
        <5>4. /\ prank.depth = n /\ prank.prank_caller = stack[n].this
              /\ prank.prank_origin = stack[n].origin
              /\ prank.new_caller = stack[n].prank.caller
              /\ prank.new_origin = stack[n].prank.origin
              /\ prank.single_call = stack[n].prank.single_call /\ prank.delegate_call = FALSE
          BY <5>1 DEF Kept
        <5> QED
          BY <5>2, <5>3, <5>4, KeptUsed, ZenonT(30)
      <4>2. ~ prank.used
        BY <1>5, <2>2, <3>5, Zenon
      <4>3. p.pranks = Put(pranks, n, k)
        BY <2>1, <3>1, <4>1, <4>2, Zenon
      <4> HIDE DEF k
      <4>4. p.pranks = [e \in DOMAIN pranks |-> IF e = n THEN k ELSE pranks[e]]
        BY <1>5, <2>2, <4>3 DEF Put
      <4>5. \A e \in DOMAIN pranks : e # n => e < n
        BY <1>0, <1>1
      <4>6. \A e \in DOMAIN pranks : p.pranks[e] = Kept(stack[e], e, TRUE)
        BY <1>3, <4>4, <4>5, Zenon DEF k
      <4>7. AllUsed(stack, pranks, p.pranks)
        BY <4>4, <4>6 DEF AllUsed
      <4> QED
        BY <2>1, <3>2, <4>7
    <3>6. CASE pranks[n].used = TRUE
      <4>1. p.pranks = pranks
        BY <1>5, <2>1, <2>2, <3>6, Zenon
      <4>2. \A e \in DOMAIN pranks : e # n => e < n
        BY <1>0, <1>1
      <4>3. \A e \in DOMAIN pranks : pranks[e] = Kept(stack[e], e, TRUE)
        BY <1>3, <3>6, <4>2, Zenon
      <4>4. AllUsed(stack, pranks, p.pranks)
        BY <1>2, <4>1, <4>3 DEF AllUsed
      <4> QED
        BY <2>1, <3>2, <4>4
    <3> QED
      BY <3>3, <3>5, <3>6, Zenon
  <2>3. CASE d # n
    <3>1. d < n /\ n \in d + 1 .. n
      BY <1>0, <2>3
    <3>2. Top.prank = None
      BY <1>0, <1>5, <3>1
    <3>3. pranks[d].used = TRUE
      BY <1>0, <1>5, <3>1 DEF PranksMatch
    <3>4. p.caller = caller
      BY <2>1, <2>3
    <3>5. p.pranks = pranks
      BY <1>5, <2>1, <3>3, Zenon
    <3>6. NearestPrank(stack, d, n)
      BY <1>0, <1>5, <2>0, <3>1 DEF NearestPrank
    <3>7. prank.new_origin # None => Top.origin = prank.new_origin
      BY <1>0, <2>0, <3>6 DEF OriginsMatch
    <3>8. p.tx_caller = OriginUnder(Top)
      BY <1>0, <2>1, <3>2, <3>7 DEF OriginUnder
    <3>9. \A e \in DOMAIN pranks : e < n
      BY <1>0, <1>1, <3>2
    <3>10. AllUsed(stack, pranks, p.pranks)
      BY <1>2, <1>3, <3>5, <3>9 DEF AllUsed
    <3> QED
      BY <2>1, <3>2, <3>4, <3>8, <3>10 DEF SenderUnder
  <2> QED
    BY <2>2, <2>3
<1>6. prank = None \/
      \E d \in 1 .. n : /\ d \in DOMAIN pranks /\ prank = pranks[d] /\ prank # None
                        /\ \A m \in d + 1 .. n : stack[m].prank = None
  BY <1>0, GetPrank
<1> QED
  BY <1>4, <1>5, <1>6

LEMMA Pushed ==
  ASSUME NEW st \in Seq(FrameType), st # <<>>, NEW f \in FrameType,
         NEW st2 \in Seq(FrameType), Len(st2) = Len(st) + 1,
         st2[Len(st) + 1] = f, \A d \in 1 .. Len(st) : st2[d] = st[d],
         f.prank = None, f.origin = OriginUnder(st[Len(st)]), f.msg_sender = f.from,
         OriginsMatch(st), SendersMatch(st)
  PROVE  OriginsMatch(st2) /\ SendersMatch(st2)
<1> DEFINE n == Len(st)
<1>1. n \in Nat \ {0}
  OBVIOUS
<1>2. /\ st2 \in Seq(FrameType) /\ Len(st2) = n + 1 /\ st2 # <<>> /\ st2[n + 1] = f
      /\ \A d \in 1 .. n : st2[d] = st[d]
  BY <1>1
<1> HIDE DEF n
<1>3. SendersMatch(st2)
  BY <1>1, <1>2 DEF SendersMatch, n
<1>4. \A e \in 2 .. n + 1 : st2[e].origin = OriginUnder(st2[e - 1])
  <2>1. \A e \in 2 .. n : st2[e].origin = OriginUnder(st2[e - 1])
    BY <1>1, <1>2 DEF OriginsMatch, n
  <2>2. st2[n + 1].origin = OriginUnder(st2[n])
    BY <1>1, <1>2 DEF n
  <2>3. \A e \in 2 .. n + 1 : e \in 2 .. n \/ (e = n + 1 /\ e - 1 = n)
    BY <1>1
  <2> QED
    BY <2>1, <2>2, <2>3
<1>5. ASSUME NEW d \in 1 .. n + 1, NEW e \in 1 .. n + 1, NearestPrank(st2, d, e),
             st2[d].prank.origin # None
      PROVE  st2[e].origin = st2[d].prank.origin
  <2>1. d < e /\ d \in 1 .. n /\ st2[d] = st[d] /\ st[d].prank # None
    BY <1>1, <1>2, <1>5 DEF NearestPrank
  <2>2. CASE e \in 1 .. n
    <3>1. NearestPrank(st, d, e)
      BY <1>1, <1>2, <1>5, <2>1, <2>2 DEF NearestPrank
    <3> QED
      BY <1>2, <1>5, <2>1, <2>2, <3>1 DEF OriginsMatch, n
  <2>3. CASE e = n + 1 /\ d = n
    BY <1>1, <1>2, <1>5, <2>1, <2>3 DEF OriginUnder, n
  <2>4. CASE e = n + 1 /\ d < n
    <3>1. n \in d + 1 .. e - 1 /\ n \in 1 .. n
      BY <1>1, <2>1, <2>4
    <3>2. st[n].prank = None
      BY <1>2, <1>5, <3>1 DEF NearestPrank
    <3>3. \A m \in d + 1 .. n - 1 : m \in d + 1 .. e - 1 /\ m \in 1 .. n
      BY <1>1, <2>1, <2>4
    <3>4. NearestPrank(st, d, n)
      BY <1>2, <1>5, <2>1, <2>4, <3>3 DEF NearestPrank
    <3>5. st[n].origin = st[d].prank.origin
      BY <1>5, <2>1, <3>1, <3>4 DEF OriginsMatch, n
    <3> QED
      BY <1>2, <2>1, <2>4, <3>2, <3>5 DEF OriginUnder, n
  <2>5. e \in 1 .. n \/ (e = n + 1 /\ d = n) \/ (e = n + 1 /\ d < n)
    BY <1>1, <2>1
  <2> QED
    BY <2>2, <2>3, <2>4, <2>5
<1>6. OriginsMatch(st2)
  BY <1>2, <1>4, <1>5 DEF OriginsMatch
<1> QED
  BY <1>3, <1>6

(* A call begins when a frame was seen to open below the expecting one. *)
LEMMA PushedRevert ==
  ASSUME NEW st \in Seq(FrameType), st # <<>>, NEW f \in FrameType, f.due = None,
         NEW st2 \in Seq(FrameType), Len(st2) = Len(st) + 1,
         st2[Len(st) + 1] = f, \A d \in 1 .. Len(st) : st2[d] = st[d],
         NEW er, RevertMatches(st, er), NEW er2, er = None => er2 = None,
         er # None => /\ er2 \in ExpectedRevert /\ er2.depth = er.depth /\ er2.count = er.count
                      /\ er2.actual_count = er.actual_count /\ er2.max_depth > er.depth
  PROVE  RevertMatches(st2, er2)
<1> USE CheatcodesAssumption
<1> DEFINE n == Len(st)
<1>1. n \in Nat \ {0}
  OBVIOUS
<1>2. \A d \in 1 .. n + 1 : d \in 1 .. n \/ (d = n + 1 /\ st2[d].due = None)
  BY <1>1
<1>3. CASE er = None
  <2>1. \A d \in 1 .. n : st[d].due = None
    BY <1>3 DEF RevertMatches, Waits
  <2>2. \A d \in 1 .. n + 1 : st2[d].due = None
    BY <1>2, <2>1
  <2> QED
    BY <1>3, <2>2 DEF RevertMatches
<1>4. CASE er # None
  <2>1. /\ er \in ExpectedRevert /\ er.depth \in 1 .. n
        /\ \A d \in 1 .. n : d # er.depth => st[d].due = None
        /\ st[er.depth].due = er.count - er.actual_count
        /\ er.actual_count < er.count \/ (er.count = 0 /\ er.actual_count = 0)
    BY <1>4 DEF RevertMatches, Waits
  <2>2. \A d \in 1 .. n + 1 : d # er.depth => st2[d].due = None
    BY <1>2, <2>1
  <2>3. st2[er.depth].due = er2.count - er2.actual_count
    BY <1>4, <2>1
  <2>4. er.depth < n + 1 /\ er.depth \in 1 .. n + 1
    BY <1>1, <2>1
  <2>5. er2.max_depth \in Nat
    BY <1>4 DEF ExpectedRevert
  <2>6. er.depth < er2.max_depth
    BY <1>4, <2>1, <2>5
  <2>7. /\ er2.depth = er.depth /\ er2.count = er.count /\ er2.actual_count = er.actual_count
        /\ er2 \in ExpectedRevert
    BY <1>4
  <2>8. Waits(st2, er2)
    <3>1. er2.depth \in 1 .. Len(st2) /\ Len(st2) # er2.depth
      BY <1>1, <2>4, <2>7
    <3>2. \A d \in 1 .. Len(st2) : d # er2.depth => st2[d].due = None
      BY <2>2, <2>7
    <3>3. st2[er2.depth].due = er2.count - er2.actual_count
      BY <2>3, <2>7
    <3>4. er2.actual_count < er2.count \/ (er2.count = 0 /\ er2.actual_count = 0)
      BY <2>1, <2>7
    <3>5. er2.depth <= er2.max_depth /\ er2.max_depth > er2.depth
      BY <2>1, <2>5, <2>6, <2>7
    <3> QED
      BY <2>7, <3>1, <3>2, <3>3, <3>4, <3>5, Zenon DEF Waits
  <2> QED
    BY <2>8 DEF RevertMatches
<1> QED
  BY <1>3, <1>4

LEMMA BeginKeeps ==
  ASSUME IInv, stack # <<>>, Allowed = {}, NEW kind \in {"call", "create", "delegate"},
         NEW caller \in Addresses, NEW target \in Addresses,
         Top.prank # None => kind # "delegate" /\ caller = Top.this,
         NEW opened \in BOOLEAN, Begin(kind, caller, target, opened)
  PROVE  IInv'
<1> USE CheatcodesAssumption
<1> DEFINE n == Len(stack)
           p == WithPrank(kind, caller, target)
           s == SenderUnder(Top, caller)
           o == OriginUnder(Top)
           f == Frame(kind, target, s, s, o, opened)
<1>0. /\ stack \in Seq(FrameType) /\ n \in Nat \ {0} /\ Top = stack[n] /\ Depth = n
      /\ Top \in FrameType /\ PrankInv /\ RevertMatches(stack, expected_revert)
      /\ PranksMatch(stack, pranks) /\ OriginsMatch(stack) /\ SendersMatch(stack)
      /\ seen = promised
  BY DEF IInv, PrankInv, Top, Depth
<1>1. p.caller = s /\ p.target = target /\ p.tx_caller = o /\ AllUsed(stack, pranks, p.pranks)
  BY WithPrankIs
<1>2. s = (IF Top.prank = None \/ kind = "delegate" THEN caller ELSE Top.prank.caller)
  BY DEF SenderUnder
<1>3. s \in Addresses /\ o \in Addresses
  <2>1. Top.origin \in Addresses /\ Top.prank \in {None} \cup AskedPrank
    BY <1>0 DEF FrameType
  <2> QED
    BY <2>1 DEF SenderUnder, OriginUnder, AskedPrank, Addresses
<1> HIDE DEF p
<1>4. /\ stack' = Append(stack, f) /\ tx_caller' = o /\ pranks' = p.pranks
      /\ expected_revert' = (IF expected_revert = None \/ ~opened THEN expected_revert
           ELSE [expected_revert EXCEPT !.max_depth = Max({@, n + 1})])
      /\ UNCHANGED <<seen, promised>>
      /\ ~opened /\ Top.due # None => expected_revert.actual_count > 0
  BY <1>0, <1>1, <1>2 DEF Begin, p, OriginUnder
<1> HIDE DEF s, o
<1>5. /\ f \in FrameType /\ f.prank = None /\ f.due = None /\ f.origin = o
      /\ f.msg_sender = f.from
  BY <1>3 DEF Frame, FrameType
<1> HIDE DEF f
<1>6. /\ stack' \in Seq(FrameType) /\ Len(stack') = n + 1 /\ stack' # <<>>
      /\ stack'[n + 1] = f /\ \A d \in 1 .. n : stack'[d] = stack[d]
      /\ OriginsMatch(stack') /\ SendersMatch(stack')
  <2>1. f.origin = OriginUnder(stack[n])
    BY <1>0, <1>5 DEF o
  <2>2. /\ stack \in Seq(FrameType) /\ stack # <<>> /\ f \in FrameType /\ f.prank = None
        /\ f.msg_sender = f.from /\ OriginsMatch(stack) /\ SendersMatch(stack)
        /\ stack' = Append(stack, f)
    BY <1>0, <1>4, <1>5
  <2>3. /\ stack' \in Seq(FrameType) /\ Len(stack') = n + 1 /\ stack' # <<>>
        /\ stack'[n + 1] = f /\ \A d \in 1 .. n : stack'[d] = stack[d]
    BY <2>2
  <2>4. OriginsMatch(stack') /\ SendersMatch(stack')
    BY <2>1, <2>2, <2>3, Pushed
  <2> QED
    BY <2>3, <2>4
<1>7. RevertMatches(stack', expected_revert')
  <2> DEFINE er == expected_revert
             md == Max({er.max_depth, n + 1})
  <2>1. ASSUME er # None
        PROVE  /\ er' \in ExpectedRevert /\ er'.depth = er.depth /\ er'.count = er.count
               /\ er'.actual_count = er.actual_count /\ er'.max_depth > er.depth
    <3>1. Waits(stack, er)
      BY <1>0, <2>1 DEF RevertMatches
    <3>2. /\ er \in ExpectedRevert /\ er.max_depth \in Nat /\ n + 1 \in Nat
          /\ er.depth \in 1 .. n /\ er.depth \in Nat /\ er.depth < n + 1
      BY <1>0, <3>1 DEF Waits, ExpectedRevert
    <3>3. CASE opened
      <4>1. md = IF er.max_depth >= n + 1 THEN er.max_depth ELSE n + 1
        BY <3>2, MaxOfTwo, Zenon
      <4>2. er' = [er EXCEPT !.max_depth = md]
        BY <1>4, <2>1, <3>3
      <4> HIDE DEF md
      <4>3. md \in Nat /\ md > er.depth
        BY <3>2, <4>1
      <4> QED
        BY <3>2, <4>2, <4>3 DEF ExpectedRevert
    <3>4. CASE ~opened
      <4>1. er' = er
        BY <1>4, <3>4
      <4>2. CASE er.depth < n
        BY <3>1, <3>2, <4>1, <4>2 DEF Waits
      <4>3. CASE er.depth = n
        <5>1. Top.due = er.count - er.actual_count
          BY <1>0, <3>1, <4>3 DEF Waits
        <5>2. er.count - er.actual_count \in Nat /\ er.actual_count \in Nat
          BY <3>1, <3>2 DEF Waits, ExpectedRevert
        <5>3. Top.due # None
          BY <5>1, <5>2
        <5>4. er.actual_count >= 1
          BY <1>4, <3>4, <5>2, <5>3
        <5> QED
          BY <3>1, <3>2, <4>1, <5>4 DEF Waits
      <4> QED
        BY <1>0, <3>2, <4>2, <4>3
    <3> QED
      BY <3>3, <3>4
  <2>2. er = None => er' = None
    BY <1>4
  <2> HIDE DEF n
  <2> QED
    BY <1>0, <1>5, <1>6, <2>1, <2>2, PushedRevert DEF n
<1>8. PranksMatch(stack', pranks')
  <2>1. DOMAIN pranks' = DOMAIN pranks /\ pranks' = [d \in DOMAIN pranks |-> pranks'[d]]
    BY <1>1, <1>4 DEF AllUsed
  <2>2. DOMAIN pranks = {d \in 1 .. n : stack[d].prank # None}
    BY <1>0 DEF PranksMatch
  <2>3. DOMAIN pranks = {d \in 1 .. n + 1 : stack'[d].prank # None}
    BY <1>0, <1>5, <1>6, <2>2
  <2>4. ASSUME NEW d \in DOMAIN pranks
        PROVE  /\ pranks'[d].used = TRUE /\ pranks'[d].used \in BOOLEAN
               /\ pranks'[d] = Kept(stack'[d], d, pranks'[d].used)
    <3>1. pranks'[d] = Kept(stack[d], d, TRUE)
      BY <1>1, <1>4 DEF AllUsed
    <3>2. stack'[d] = stack[d]
      BY <1>6, <2>2
    <3>3. pranks'[d].used = TRUE
      BY <3>1 DEF Kept
    <3> QED
      BY <3>1, <3>2, <3>3, Zenon
  <2> QED
    BY <1>6, <2>1, <2>3, <2>4 DEF PranksMatch
<1>9. tx_caller' = stack'[Len(stack')].origin
  BY <1>4, <1>5, <1>6
<1> QED
  BY <1>0, <1>4, <1>6, <1>7, <1>8, <1>9 DEF IInv, PrankInv, Top, Depth

-----------------------------------------------------------------------------
(* A call or a creation ends: what is left of the pranks. *)
LEMMA OnlyOne ==
  ASSUME NEW n \in Nat, NEW D \in SUBSET (1 .. n), NEW e \in D, Cardinality(D) < 2
  PROVE  D = {e}
<1>0. SUFFICES \A d \in D : d = e
  OBVIOUS
<1> TAKE d \in D
<1>1. SUFFICES ASSUME d # e PROVE FALSE
  OBVIOUS
<1>2. IsFiniteSet(1 .. n)
  BY FS_Interval
<1>3. IsFiniteSet(D)
  BY <1>2, FS_Subset
<1>4. IsFiniteSet({e}) /\ Cardinality({e}) = 1
  BY FS_Singleton
<1>5. IsFiniteSet({e} \cup {d}) /\ Cardinality({e} \cup {d}) = 2
  BY <1>1, <1>4, FS_AddElement
<1>6. {e} \cup {d} \in SUBSET D
  OBVIOUS
<1>7. Cardinality({e} \cup {d}) <= Cardinality(D)
  BY <1>3, <1>6, FS_Subset
<1>8. Cardinality(D) \in Nat
  BY <1>3, FS_CardinalityType
<1> QED
  BY <1>5, <1>7, <1>8

LEMMA EndPrankIs ==
  ASSUME IInv, stack # <<>>, Len(stack) > 1, Top.prank = None, NEW kind,
         kind = "create" /\ EndsSinglePrank(stack[Len(stack) - 1]) => Cardinality(DOMAIN pranks) < 2,
         EndPrank(kind, Len(stack) - 1)
  PROVE  /\ tx_caller' = stack[Len(stack) - 1].origin
         /\ pranks' = IF stack[Len(stack) - 1].prank # None
                         /\ stack[Len(stack) - 1].prank.single_call = TRUE
                      THEN Without(pranks, Len(stack) - 1) ELSE pranks
<1> USE CheatcodesAssumption
<1> DEFINE n == Len(stack)
           m == n - 1
           prank == get_prank(m)
           ends == IF prank = None THEN FALSE ELSE prank.depth = m
<1>0. /\ stack \in Seq(FrameType) /\ n \in Nat \ {0, 1} /\ Top = stack[n] /\ m \in 1 .. n
      /\ m \in Nat /\ m \in 0 .. n
      /\ tx_caller = Top.origin /\ PranksMatch(stack, pranks) /\ OriginsMatch(stack)
  BY DEF IInv, PrankInv, Top, Depth
<1>1. /\ tx_caller' = (IF ends THEN prank.prank_origin ELSE tx_caller)
      /\ pranks' = IF ~ends \/ ~prank.single_call THEN pranks
                   ELSE IF kind = "create" THEN [d \in {} |-> None]
                   ELSE Without(pranks, m)
  BY DEF EndPrank
<1>2. stack[m] \in FrameType /\ stack[n].origin = OriginUnder(stack[m])
  BY <1>0 DEF OriginsMatch
<1>3. \/ prank = None /\ stack[m].prank = None
      \/ \E d \in 1 .. m : /\ d \in DOMAIN pranks /\ prank = pranks[d] /\ pranks[d] # None
                           /\ \A i \in d + 1 .. m : stack[i].prank = None
  BY <1>0, GetPrank
<1> HIDE DEF prank, m
<1>4. ASSUME stack[m].prank = None, ~ends
      PROVE  /\ tx_caller' = stack[m].origin /\ pranks' = pranks
  BY <1>0, <1>1, <1>2, <1>4 DEF OriginUnder
<1>5. CASE prank = None
  <2>1. stack[m].prank = None /\ ~ends
    BY <1>3, <1>5
  <2> QED
    BY <1>4, <2>1 DEF m
<1>6. ASSUME NEW d \in 1 .. m, d \in DOMAIN pranks, prank = pranks[d], prank # None,
             \A i \in d + 1 .. m : stack[i].prank = None
      PROVE  /\ tx_caller' = stack[m].origin
             /\ pranks' = IF stack[m].prank # None /\ stack[m].prank.single_call = TRUE
                          THEN Without(pranks, m) ELSE pranks
  <2>1. prank = Kept(stack[d], d, prank.used) /\ stack[d].prank # None
    BY <1>0, <1>6 DEF PranksMatch
  <2>2. /\ prank.depth = d /\ prank.prank_origin = stack[d].origin
        /\ prank.single_call = stack[d].prank.single_call
    BY <2>1 DEF Kept
  <2>3. CASE d = m
    <3>1. ends /\ tx_caller' = stack[m].origin
      BY <1>1, <1>6, <2>2, <2>3
    <3>2. stack[m].prank.single_call \in BOOLEAN
      BY <1>2, <2>1, <2>3 DEF FrameType, AskedPrank
    <3>3. CASE stack[m].prank.single_call = FALSE
      <4>1. ~prank.single_call
        BY <2>2, <2>3, <3>3, Zenon
      <4>2. pranks' = pranks
        BY <1>1, <4>1, Zenon
      <4> QED
        BY <3>1, <3>3, <4>2, Zenon
    <3>4. CASE stack[m].prank.single_call = TRUE
      <4>1. prank.single_call
        BY <2>2, <2>3, <3>4, Zenon
      <4>2. pranks' = IF kind = "create" THEN [i \in {} |-> None] ELSE Without(pranks, m)
        BY <1>1, <3>1, <4>1, Zenon
      <4>3. kind = "create" => [i \in {} |-> None] = Without(pranks, m)
        <5>1. SUFFICES ASSUME kind = "create" PROVE [i \in {} |-> None] = Without(pranks, m)
          OBVIOUS
        <5>2. DOMAIN pranks \in SUBSET (1 .. n)
          BY <1>0 DEF PranksMatch
        <5>3. EndsSinglePrank(stack[m])
          BY <2>1, <2>3, <3>4, Zenon DEF EndsSinglePrank
        <5>4. Cardinality(DOMAIN pranks) < 2
          BY <5>1, <5>3, Zenon DEF m
        <5>5. DOMAIN pranks = {m}
          BY <1>0, <1>6, <2>3, <5>2, <5>4, OnlyOne
        <5> QED
          BY <5>5 DEF Without
      <4>4. pranks' = Without(pranks, m)
        BY <4>2, <4>3, Zenon
      <4> QED
        BY <2>1, <2>3, <3>1, <3>4, <4>4, Zenon
    <3> QED
      BY <3>2, <3>3, <3>4, Zenon
  <2>4. CASE d # m
    <3>1. stack[m].prank = None
      BY <1>0, <1>6, <2>4
    <3>2. ~ends
      BY <1>6, <2>2, <2>4
    <3> QED
      BY <1>4, <3>1, <3>2
  <2> QED
    BY <2>3, <2>4
<1> QED
  BY <1>3, <1>5, <1>6 DEF m

(* The frame that made the call goes on. *)
Resumed(f, parent, result) ==
  /\ f \in FrameType /\ f.due = StillDue(parent, result)
  /\ f.prank = IF parent.prank # None /\ parent.prank.single_call = TRUE
               THEN None ELSE parent.prank
  /\ f.kind = parent.kind /\ f.this = parent.this /\ f.from = parent.from
  /\ f.msg_sender = parent.msg_sender /\ f.origin = parent.origin

LEMMA AfterIs ==
  ASSUME NEW parent \in FrameType, NEW result
  PROVE  Resumed(After(parent, result), parent, result)
<1> USE CheatcodesAssumption
<1> DEFINE due == StillDue(parent, result)
           q == IF parent.prank = None THEN None
                ELSE IF parent.prank.single_call THEN None ELSE parent.prank
           g == [parent EXCEPT !.due = due]
           f == After(parent, result)
<1>1. parent.due \in {None} \cup Nat /\ parent.prank \in {None} \cup AskedPrank
  BY DEF FrameType
<1>2. due \in {None} \cup Nat
  <2>1. parent.due \in Nat /\ parent.due \notin {0, 1} => parent.due - 1 \in Nat
    OBVIOUS
  <2> QED
    BY <1>1, <2>1 DEF StillDue
<1>3. q \in {None} \cup AskedPrank
  BY <1>1
<1>4. q = IF parent.prank # None /\ parent.prank.single_call = TRUE THEN None ELSE parent.prank
  <2>1. parent.prank # None => parent.prank.single_call \in BOOLEAN
    BY <1>1 DEF AskedPrank
  <2> QED
    BY <2>1, Zenon
<1>5. f = [parent EXCEPT !.due = due, !.prank = q]
  BY DEF After
<1> HIDE DEF due, q
<1>6. /\ g \in FrameType /\ g.due = due /\ g.kind = parent.kind /\ g.this = parent.this
      /\ g.from = parent.from /\ g.msg_sender = parent.msg_sender /\ g.origin = parent.origin
  BY <1>2 DEF FrameType
<1>7. f = [g EXCEPT !.prank = q]
  BY <1>5
<1> HIDE DEF f, g
<1>8. /\ f \in FrameType /\ f.due = due /\ f.prank = q /\ f.kind = g.kind /\ f.this = g.this
      /\ f.from = g.from /\ f.msg_sender = g.msg_sender /\ f.origin = g.origin
  BY <1>3, <1>6, <1>7 DEF FrameType
<1> QED
  BY <1>4, <1>6, <1>8 DEF due, f, Resumed

LEMMA Popped ==
  ASSUME NEW st \in Seq(FrameType), Len(st) > 1, NEW st1 \in Seq(FrameType),
         Len(st1) = Len(st) - 1, \A d \in 1 .. Len(st) - 1 : st1[d] = st[d],
         OriginsMatch(st), SendersMatch(st)
  PROVE  OriginsMatch(st1) /\ SendersMatch(st1) /\ st1 # <<>>
<1>1. Len(st) \in Nat /\ st1 # <<>>
  OBVIOUS
<1>2. SendersMatch(st1)
  BY <1>1 DEF SendersMatch
<1>3. \A e \in 2 .. Len(st1) : st1[e].origin = OriginUnder(st1[e - 1])
  <2> TAKE e \in 2 .. Len(st1)
  <2>1. e \in 2 .. Len(st) /\ st1[e] = st[e] /\ st1[e - 1] = st[e - 1]
    BY <1>1
  <2> QED
    BY <2>1 DEF OriginsMatch
<1>4. ASSUME NEW d \in 1 .. Len(st1), NEW e \in 1 .. Len(st1), NearestPrank(st1, d, e),
             st1[d].prank.origin # None
      PROVE  st1[e].origin = st1[d].prank.origin
  <2>1. st1[d] = st[d] /\ st1[e] = st[e] /\ d \in 1 .. Len(st) /\ e \in 1 .. Len(st)
    BY <1>1
  <2>2. \A i \in d + 1 .. e - 1 : st1[i] = st[i]
    BY <1>1
  <2>3. NearestPrank(st, d, e)
    BY <1>4, <2>1, <2>2 DEF NearestPrank
  <2> QED
    BY <1>4, <2>1, <2>3 DEF OriginsMatch
<1>5. \A d, e \in 1 .. Len(st1) :
        NearestPrank(st1, d, e) /\ st1[d].prank.origin # None => st1[e].origin = st1[d].prank.origin
  BY <1>4
<1>6. OriginsMatch(st1)
  BY <1>3, <1>5, Zenon DEF OriginsMatch
<1> QED
  BY <1>1, <1>2, <1>6

-----------------------------------------------------------------------------
(* A call or a creation ends: what is left of the expected revert.  A frame
   that ends while it waits has failed. *)
LEMMA EndsWaiting ==
  ASSUME NEW st \in Seq(FrameType), NEW er, Waits(st, er), er.depth = Len(st),
         NEW result \in {"ok", "revert"}, result = "revert" => er.actual_count = 0
  PROVE  ~handle_expect_revert(er, result)
<1>1. SUFFICES ASSUME handle_expect_revert(er, result) PROVE FALSE
  OBVIOUS
<1>2. er.actual_count \in Nat /\ er.count \in Nat /\ er.actual_count >= 1
  BY <1>1 DEF handle_expect_revert, Waits, ExpectedRevert
<1>3. er.count # 0
  BY <1>2 DEF Waits
<1>4. result = "revert"
  BY <1>1, <1>3 DEF handle_expect_revert
<1> QED
  BY <1>2, <1>4

LEMMA EndRevertLast ==
  ASSUME stack \in Seq(FrameType), Len(stack) = 1, RevertMatches(stack, expected_revert),
         NEW result \in {"ok", "revert"}, NEW parent, parent.due = None,
         result = "revert" /\ stack[1].due # None => expected_revert.actual_count = 0,
         EndRevert(0, result)
  PROVE  seen' = Promised(stack[1], parent, result)
<1> USE CheatcodesAssumption
<1>1. CASE expected_revert = None
  <2>1. stack[1].due = None
    BY <1>1 DEF RevertMatches, Waits
  <2> QED
    BY <1>1, <2>1 DEF EndRevert, Promised
<1>2. CASE expected_revert # None
  <2>1. Waits(stack, expected_revert)
    BY <1>2 DEF RevertMatches
  <2>2. /\ expected_revert.depth = 1 /\ expected_revert.actual_count \in Nat
        /\ expected_revert.count \in Nat
    BY <2>1 DEF Waits, ExpectedRevert
  <2>3. stack[1].due # None
    <3>1. stack[1].due = expected_revert.count - expected_revert.actual_count
      BY <2>1, <2>2 DEF Waits
    <3>2. expected_revert.count - expected_revert.actual_count \in Nat
      BY <2>1, <2>2 DEF Waits
    <3> QED
      BY <3>1, <3>2
  <2>4. ~handle_expect_revert(expected_revert, result)
    BY <2>1, <2>2, <2>3, EndsWaiting
  <2>5. seen' = "revert"
    BY <1>2, <2>2, <2>4 DEF EndRevert
  <2> QED
    BY <2>3, <2>5 DEF Promised
<1> QED
  BY <1>1, <1>2

LEMMA EndRevertIs ==
  ASSUME stack \in Seq(FrameType), Len(stack) > 1, RevertMatches(stack, expected_revert),
         NEW result \in {"ok", "revert"}, NEW st2 \in Seq(FrameType),
         Len(st2) = Len(stack) - 1, \A d \in 1 .. Len(stack) - 2 : st2[d].due = stack[d].due,
         st2[Len(stack) - 1].due = StillDue(stack[Len(stack) - 1], result),
         result = "revert" /\ stack[Len(stack)].due # None => expected_revert.actual_count = 0,
         EndRevert(Len(stack) - 1, result)
  PROVE  /\ seen' = Promised(stack[Len(stack)], stack[Len(stack) - 1], result)
         /\ RevertMatches(st2, expected_revert')
<1> USE CheatcodesAssumption
<1> DEFINE n == Len(stack)
           m == n - 1
           top == stack[n]
           parent == stack[m]
           er == expected_revert
<1>0. /\ n \in Nat /\ n > 1 /\ m \in Nat /\ n \in 1 .. n /\ m \in 1 .. n /\ m < n
      /\ top \in FrameType /\ parent \in FrameType /\ Len(st2) = m
      /\ \A d \in 1 .. m : d \in 1 .. n - 2 \/ d = m
      /\ \A d \in 1 .. n - 2 : d \in 1 .. n /\ d < m /\ d < n
  OBVIOUS
<1>1. ASSUME \A d \in 1 .. n - 2 : stack[d].due = None, StillDue(parent, result) = None
      PROVE  RevertMatches(st2, None)
  <2>1. \A d \in 1 .. m : st2[d].due = None
    BY <1>0, <1>1
  <2> QED
    BY <1>0, <2>1 DEF RevertMatches
<1>2. parent.due = None => StillDue(parent, result) = None
  BY DEF StillDue
<1>3. CASE er = None
  <2>1. \A d \in 1 .. n : stack[d].due = None
    BY <1>3 DEF RevertMatches, Waits
  <2>2. seen' = result /\ er' = None
    BY <1>3 DEF EndRevert
  <2>3. top.due = None /\ parent.due = None /\ \A d \in 1 .. n - 2 : stack[d].due = None
    BY <1>0, <2>1
  <2> QED
    BY <1>1, <1>2, <2>2, <2>3 DEF Promised
<1>4. CASE er # None
  <2>1. Waits(stack, er)
    BY <1>4 DEF RevertMatches
  <2>2. /\ er \in ExpectedRevert /\ er.depth \in 1 .. n /\ er.count \in Nat
        /\ er.actual_count \in Nat /\ er.max_depth \in Nat
        /\ \A d \in 1 .. n : d # er.depth => stack[d].due = None
        /\ stack[er.depth].due = er.count - er.actual_count
        /\ er.actual_count < er.count \/ (er.count = 0 /\ er.actual_count = 0)
        /\ n > er.depth => er.max_depth > er.depth
    BY <2>1 DEF Waits, ExpectedRevert
  <2>3. stack[er.depth].due \in Nat /\ stack[er.depth].due # None
    <3>1. er.count - er.actual_count \in Nat
      BY <2>2
    <3> QED
      BY <2>2, <3>1
  <2>4. CASE er.depth = n
    <3>1. ~handle_expect_revert(er, result)
      BY <2>1, <2>3, <2>4, EndsWaiting
    <3>2. seen' = "revert" /\ er' = None
      BY <1>0, <1>4, <2>4, <3>1 DEF EndRevert
    <3>3. parent.due = None /\ \A d \in 1 .. n - 2 : stack[d].due = None
      BY <1>0, <2>2, <2>4, SMTT(30)
    <3> QED
      BY <1>1, <1>2, <2>3, <2>4, <3>2, <3>3 DEF Promised
  <2>5. CASE er.depth = m
    <3> DEFINE match == result = (IF er.count = 0 THEN "ok" ELSE "revert")
    <3>1. top.due = None /\ \A d \in 1 .. n - 2 : stack[d].due = None
      BY <1>0, <2>2, <2>5
    <3>2. er.max_depth > er.depth
      BY <1>0, <2>2, <2>5
    <3>3. handle_expect_revert(er, result) <=> match
      BY <3>2 DEF handle_expect_revert
    <3>4. /\ parent.due = er.count - er.actual_count /\ parent.due \in Nat /\ parent.due # None
          /\ parent.due = 0 <=> er.count = 0
      <4>1. parent.due = er.count - er.actual_count /\ parent.due \in Nat /\ parent.due # None
        BY <2>2, <2>3, <2>5
      <4>2. er.count - er.actual_count = 0 <=> er.count = 0
        BY <2>2
      <4> QED
        BY <4>1, <4>2, Zenon
    <3>5. Promised(top, parent, result) = IF match THEN "ok" ELSE "revert"
      BY <3>1, <3>4 DEF Promised
    <3>6. CASE ~match
      <4>1. seen' = "revert" /\ er' = None
        BY <1>0, <1>4, <2>5, <3>3, <3>6 DEF EndRevert
      <4>2. StillDue(parent, result) = None
        BY <3>4, <3>6 DEF StillDue
      <4> QED
        BY <1>1, <3>1, <3>5, <3>6, <4>1, <4>2
    <3>7. CASE match
      <4>1. seen' = "ok" /\ er' = StillExpected(er)
        BY <1>0, <1>4, <2>5, <3>3, <3>7 DEF EndRevert
      <4>2. CASE er.actual_count + 1 < er.count
        <5> DEFINE a == er.actual_count + 1
                   c == [er EXCEPT !.actual_count = a]
        <5>0. a \in Nat
          BY <2>2
        <5> HIDE DEF a
        <5>1. /\ c \in ExpectedRevert /\ c.depth = er.depth /\ c.max_depth = er.max_depth
              /\ c.count = er.count /\ c.actual_count = a
          BY <2>2, <5>0 DEF ExpectedRevert
        <5> USE DEF a
        <5>2. Counted(er) = c
          BY DEF Counted
        <5> HIDE DEF c
        <5>3. er' = c
          BY <4>1, <4>2, <5>1, <5>2 DEF StillExpected
        <5>4. StillDue(parent, result) = parent.due - 1
          BY <2>2, <3>4, <3>7, <4>2 DEF StillDue
        <5>5. /\ c.depth \in 1 .. Len(st2) /\ c.depth = Len(st2)
              /\ \A d \in 1 .. Len(st2) : d # c.depth => st2[d].due = None
          <6>1. c.depth = m /\ Len(st2) = m /\ m \in 1 .. m
            BY <1>0, <2>5, <5>1
          <6>2. \A d \in 1 .. m : d # m => st2[d].due = None
            BY <1>0, <3>1
          <6> QED
            BY <6>1, <6>2, Zenon
        <5>6. st2[c.depth].due = c.count - c.actual_count
          <6>1. st2[m].due = er.count - er.actual_count - 1
            BY <3>4, <5>4
          <6>2. er.count - er.actual_count - 1 = er.count - (er.actual_count + 1)
            BY <2>2
          <6> QED
            BY <2>5, <5>1, <6>1, <6>2, Zenon
        <5>7. c.actual_count < c.count /\ c.actual_count >= 1 /\ c.depth <= c.max_depth
          BY <1>0, <2>2, <2>5, <3>2, <4>2, <5>1
        <5>8. ~ (Len(st2) > c.depth)
          BY <1>0, <2>5, <5>1
        <5>9. Waits(st2, c)
          BY <3>2, <5>1, <5>5, <5>6, <5>7, <5>8, Zenon DEF Waits
        <5> QED
          BY <3>5, <3>7, <4>1, <5>3, <5>9 DEF RevertMatches
      <4>3. CASE ~ (er.actual_count + 1 < er.count)
        <5>1. Counted(er).actual_count = er.actual_count + 1
          BY <2>2 DEF Counted, ExpectedRevert
        <5>2. er' = None
          BY <4>1, <4>3, <5>1 DEF StillExpected
        <5>3. parent.due \in {0, 1}
          BY <2>2, <3>4, <4>3
        <5>4. StillDue(parent, result) = None
          BY <5>3 DEF StillDue
        <5> QED
          BY <1>1, <3>1, <3>5, <3>7, <4>1, <5>2, <5>4
      <4> QED
        BY <4>2, <4>3
    <3> QED
      BY <3>6, <3>7
  <2>6. CASE er.depth < m
    <3>1. seen' = result /\ er' = er
      BY <1>0, <1>4, <2>2, <2>6 DEF EndRevert
    <3>2. top.due = None /\ parent.due = None
      BY <1>0, <2>2, <2>6
    <3>3. /\ er.depth \in 1 .. n - 2 /\ er.depth \in 1 .. Len(st2) /\ Len(st2) # er.depth
          /\ er.depth <= er.max_depth /\ er.max_depth > er.depth
      BY <1>0, <2>2, <2>6
    <3>4. \A d \in 1 .. n - 2 : d # er.depth => stack[d].due = None
      BY <1>0, <2>2
    <3>5. \A d \in 1 .. Len(st2) : d # er.depth => st2[d].due = None
      BY <1>0, <1>2, <3>2, <3>4
    <3>6. st2[er.depth].due = er.count - er.actual_count
      BY <2>2, <3>3
    <3>7. Waits(st2, er)
      BY <2>2, <3>3, <3>5, <3>6, Zenon DEF Waits
    <3> QED
      BY <3>1, <3>2, <3>7 DEF Promised, RevertMatches
  <2> QED
    BY <1>0, <2>2, <2>4, <2>5, <2>6, SMTT(30)
<1> QED
  BY <1>3, <1>4

LEMMA EndKeeps ==
  ASSUME IInv, Allowed = {}, NEW result \in {"ok", "revert"}, End(result)
  PROVE  IInv'
<1> USE CheatcodesAssumption
<1> DEFINE n == Len(stack)
           m == n - 1
<1>0. /\ stack \in Seq(FrameType) /\ stack # <<>> /\ n \in Nat \ {0} /\ m \in Nat
      /\ Top = stack[n] /\ Depth = n /\ PrankInv /\ RevertMatches(stack, expected_revert)
      /\ PranksMatch(stack, pranks) /\ OriginsMatch(stack) /\ SendersMatch(stack)
  BY DEF IInv, PrankInv, End, Top, Depth
<1>1. /\ n > 1 => stack[n].prank = None
      /\ n > 1 => (stack[n].kind = "create" /\ EndsSinglePrank(stack[m]) =>
                      Cardinality(DOMAIN pranks) < 2)
      /\ result = "revert" /\ stack[n].due # None => expected_revert.actual_count = 0
      /\ EndPrank(stack[n].kind, m) /\ EndRevert(m, result)
  BY <1>0 DEF End
<1>2. CASE n = 1
  <2> DEFINE parent == [due |-> None, prank |-> None]
  <2>1. stack' = <<>> /\ promised' = Promised(stack[1], parent, result)
    BY <1>0, <1>2 DEF End
  <2>2. parent.due = None
    OBVIOUS
  <2> HIDE DEF parent
  <2>3. EndRevert(0, result)
    BY <1>1, <1>2
  <2>4. seen' = promised'
    BY <1>0, <1>1, <1>2, <2>1, <2>2, <2>3, EndRevertLast
  <2> QED
    BY <2>1, <2>4 DEF IInv
<1>3. CASE n > 1
  <2> DEFINE parent == stack[m]
             f == After(parent, result)
             st1 == SubSeq(stack, 1, m)
  <2>1. /\ stack' = Append(SubSeq(stack, 1, n - 2), f)
        /\ promised' = Promised(stack[n], parent, result)
    BY <1>0, <1>3 DEF End
  <2>2. m \in 1 .. n /\ parent \in FrameType /\ n - 2 \in Nat
    BY <1>0, <1>3
  <2>3. /\ f \in FrameType /\ f.due = StillDue(parent, result)
        /\ f.prank = IF parent.prank # None /\ parent.prank.single_call = TRUE
                     THEN None ELSE parent.prank
        /\ f.kind = parent.kind /\ f.this = parent.this /\ f.from = parent.from
        /\ f.msg_sender = parent.msg_sender /\ f.origin = parent.origin
    <3>1. Resumed(f, parent, result)
      BY <2>2, AfterIs, Zenon
    <3> HIDE DEF f, parent
    <3> QED
      BY <3>1 DEF Resumed
  <2> HIDE DEF f
  <2>4. /\ stack' \in Seq(FrameType) /\ Len(stack') = m /\ stack' # <<>> /\ stack'[m] = f
        /\ \A d \in 1 .. n - 2 : stack'[d] = stack[d]
    BY <1>0, <1>3, <2>1, <2>2, <2>3, SMTT(30)
  <2>5. /\ st1 \in Seq(FrameType) /\ Len(st1) = m /\ \A d \in 1 .. m : st1[d] = stack[d]
    BY <1>0, <1>3, <2>2
  <2> HIDE DEF st1
  <2>6. OriginsMatch(st1) /\ SendersMatch(st1) /\ st1 # <<>>
    BY <1>0, <1>3, <2>5, Popped
  <2>7. \A d \in 1 .. m : d \in 1 .. m - 1 \/ d = m
    BY <1>0
  <2>8. TopOnly(st1, stack')
    <3>1. \A d \in 1 .. m - 1 : d \in 1 .. n - 2 /\ d \in 1 .. m
      BY <1>0
    <3>2. \A d \in 1 .. m - 1 : stack'[d] = st1[d]
      BY <2>4, <2>5, <3>1
    <3>3. st1[m] = parent
      BY <2>2, <2>5, <1>0, <1>3
    <3>4. \A d \in 1 .. m :
            /\ stack'[d].kind = st1[d].kind /\ stack'[d].this = st1[d].this
            /\ stack'[d].msg_sender = st1[d].msg_sender /\ stack'[d].from = st1[d].from
            /\ stack'[d].origin = st1[d].origin
      BY <2>3, <2>4, <2>7, <3>2, <3>3
    <3> QED
      BY <2>4, <2>5, <3>2, <3>4 DEF TopOnly
  <2>9. OriginsMatch(stack') /\ SendersMatch(stack')
    BY <2>5, <2>6, <2>8, TopOnlyKeeps
  <2>10. seen' = promised' /\ RevertMatches(stack', expected_revert')
    <3>1. \A d \in 1 .. n - 2 : stack'[d].due = stack[d].due
      BY <2>4
    <3>2. stack'[m].due = StillDue(stack[m], result)
      BY <2>3, <2>4
    <3> QED
      BY <1>0, <1>1, <1>3, <2>1, <2>4, <3>1, <3>2, EndRevertIs
  <2>11. /\ tx_caller' = parent.origin
         /\ pranks' = IF parent.prank # None /\ parent.prank.single_call = TRUE
                      THEN Without(pranks, m) ELSE pranks
    BY <1>0, <1>1, <1>3, EndPrankIs
  <2>12. pranks' = [d \in {e \in 1 .. m : stack'[e].prank # None} |-> pranks[d]]
    <3>0. m - 1 = n - 2
      BY <1>0
    <3>1. DOMAIN pranks = {d \in 1 .. m : stack[d].prank # None}
          /\ pranks = [d \in DOMAIN pranks |-> pranks[d]]
      <4>1. DOMAIN pranks = {d \in 1 .. n : stack[d].prank # None}
            /\ pranks = [d \in DOMAIN pranks |-> pranks[d]]
        BY <1>0 DEF PranksMatch
      <4>2. \A d \in 1 .. n : stack[d].prank # None => d \in 1 .. m
        <5>1. \A d \in 1 .. n : d \in 1 .. m \/ d = n
          BY <1>0
        <5> QED
          BY <1>1, <1>3, <5>1
      <4>3. \A d \in 1 .. m : d \in 1 .. n
        BY <1>0
      <4> HIDE DEF n, m
      <4> QED
        BY <4>1, <4>2, <4>3
    <3>2. CASE parent.prank # None /\ parent.prank.single_call = TRUE
      <4>1. f.prank = None /\ pranks' = Without(pranks, m)
        BY <2>3, <2>11, <3>2
      <4>2. DOMAIN pranks \ {m} = {e \in 1 .. m : stack'[e].prank # None}
        <5>1. \A e \in 1 .. m : e # m => stack'[e] = stack[e]
          BY <2>4, <2>7, <3>0
        <5> QED
          BY <2>4, <3>0, <3>1, <4>1, <5>1
      <4> QED
        BY <4>1, <4>2 DEF Without
    <3>3. CASE ~ (parent.prank # None /\ parent.prank.single_call = TRUE)
      <4>1. f.prank = parent.prank /\ pranks' = pranks
        BY <2>3, <2>11, <3>3
      <4>2. DOMAIN pranks = {e \in 1 .. m : stack'[e].prank # None}
        <5>1. \A e \in 1 .. m : stack'[e].prank = stack[e].prank
          BY <2>4, <2>7, <3>0, <4>1
        <5> QED
          BY <3>0, <3>1, <5>1
      <4> QED
        BY <3>1, <4>1, <4>2
    <3> QED
      BY <3>2, <3>3
  <2>13. ASSUME NEW d \in 1 .. m, stack'[d].prank # None
         PROVE  /\ pranks[d].used = TRUE /\ pranks[d].used \in BOOLEAN
                /\ pranks[d] = Kept(stack'[d], d, pranks[d].used)
    <3>1. d \in 1 .. n /\ d < n
      BY <1>0
    <3>2. /\ stack'[d].prank = stack[d].prank /\ stack'[d].this = stack[d].this
          /\ stack'[d].origin = stack[d].origin
      BY <2>3, <2>4, <2>7, <2>13
    <3>3. d \in DOMAIN pranks
      BY <1>0, <2>13, <3>1, <3>2 DEF PranksMatch
    <3>4. pranks[d] = Kept(stack[d], d, pranks[d].used) /\ pranks[d].used = TRUE
      BY <1>0, <3>1, <3>3 DEF PranksMatch
    <3>5. Kept(stack'[d], d, pranks[d].used) = Kept(stack[d], d, pranks[d].used)
      BY <3>2, Zenon DEF Kept
    <3> QED
      BY <3>4, <3>5, Zenon
  <2>14. PranksMatch(stack', pranks')
    <3>1. DOMAIN pranks' = {e \in 1 .. m : stack'[e].prank # None}
          /\ \A d \in DOMAIN pranks' : pranks'[d] = pranks[d]
      BY <2>12
    <3>2. pranks' = [d \in DOMAIN pranks' |-> pranks'[d]]
      BY <2>12
    <3>3. ASSUME NEW d \in DOMAIN pranks'
          PROVE  /\ pranks'[d].used \in BOOLEAN
                 /\ pranks'[d] = Kept(stack'[d], d, pranks'[d].used)
                 /\ pranks'[d].used = TRUE
      <4>1. d \in 1 .. m /\ stack'[d].prank # None /\ pranks'[d] = pranks[d]
        BY <3>1
      <4> QED
        BY <2>13, <4>1, Zenon
    <3> QED
      BY <2>4, <3>1, <3>2, <3>3 DEF PranksMatch
  <2>15. tx_caller' = stack'[Len(stack')].origin
    BY <2>3, <2>4, <2>11
  <2> QED
    BY <2>4, <2>9, <2>10, <2>14, <2>15 DEF IInv, PrankInv, Top, Depth
<1> QED
  BY <1>0, <1>2, <1>3

-----------------------------------------------------------------------------
LEMMA InitIsGood ==
  ASSUME Init
  PROVE  IInv
<1> USE CheatcodesAssumption
<1> DEFINE f == Frame("call", test, sender, sender, sender, TRUE)
<1>1. /\ f \in FrameType /\ f.prank = None /\ f.due = None /\ f.origin = sender
      /\ f.msg_sender = f.from
  BY DEF Frame, FrameType, Addresses
<1>2. stack = <<f>>
  BY DEF Init
<1> HIDE DEF f
<1>3. stack \in Seq(FrameType) /\ Len(stack) = 1 /\ stack[1] = f
  BY <1>1, <1>2
<1>4. PranksMatch(stack, pranks)
  <2>1. DOMAIN pranks = {} /\ pranks = [d \in DOMAIN pranks |-> pranks[d]]
    BY DEF Init
  <2>2. \A d \in 1 .. Len(stack) : stack[d].prank = None
    BY <1>1, <1>3
  <2> QED
    BY <2>1, <2>2 DEF PranksMatch
<1>5. OriginsMatch(stack) /\ SendersMatch(stack)
  BY <1>1, <1>3 DEF OriginsMatch, SendersMatch, NearestPrank
<1>6. RevertMatches(stack, expected_revert)
  <2>1. expected_revert = None
    BY DEF Init
  <2> QED
    BY <1>1, <1>3, <2>1 DEF RevertMatches
<1>7. tx_caller = Top.origin /\ seen = promised
  BY <1>1, <1>3 DEF Init, Top, Depth
<1> QED
  BY <1>3, <1>4, <1>5, <1>6, <1>7 DEF IInv, PrankInv

LEMMA NextIsGood ==
  ASSUME IInv, Allowed = {}, [Next]_vars
  PROVE  IInv'
<1> USE CheatcodesAssumption
<1>0. ASSUME Running
      PROVE  /\ stack # <<>> /\ Top \in FrameType /\ Top.this \in Addresses
             /\ Top.msg_sender \in Addresses
  <2>1. stack \in Seq(FrameType) /\ stack # <<>>
    BY <1>0 DEF IInv, Running
  <2>2. Top \in FrameType
    BY <2>1 DEF Top, Depth
  <2> QED
    BY <2>1, <2>2 DEF FrameType
<1>1. ASSUME NEW c \in NewCallers, NEW o \in NewOrigins \cup {None}, NEW single \in BOOLEAN,
             NEW delegate \in BOOLEAN, Prank(c, o, single, delegate)
      PROVE  IInv'
  BY <1>1, PrankKeeps
<1>2. CASE StopPrank
  BY <1>2, StopPrankKeeps
<1>3. ASSUME NEW target \in Contracts, NEW opened \in BOOLEAN,
             Call(target, opened) \/ Create(target, opened)
      PROVE  IInv'
  <2>1. target \in Addresses
    BY DEF Addresses
  <2>2. CASE Call(target, opened)
    <3>1. Running /\ Begin("call", Top.this, target, opened)
      BY <2>2 DEF Call, Begin
    <3> QED
      BY <1>0, <2>1, <3>1, BeginKeeps
  <2>3. CASE Create(target, opened)
    <3>1. Running /\ Begin("create", Top.this, target, opened)
      BY <2>3 DEF Create, Begin
    <3> QED
      BY <1>0, <2>1, <3>1, BeginKeeps
  <2> QED
    BY <1>3, <2>2, <2>3
<1>4. ASSUME NEW opened \in BOOLEAN, DelegateCall(opened)
      PROVE  IInv'
  <2>1. Running /\ Begin("delegate", Top.msg_sender, Top.this, opened) /\ Top.prank = None
    BY <1>4 DEF DelegateCall
  <2> QED
    BY <1>0, <2>1, BeginKeeps
<1>5. ASSUME NEW count \in Counts, ExpectRevert(count)
      PROVE  IInv'
  BY <1>5, ExpectRevertKeeps
<1>6. ASSUME NEW result \in {"ok", "revert"}, End(result)
      PROVE  IInv'
  BY <1>6, EndKeeps
<1>7. CASE UNCHANGED vars
  BY <1>7 DEF vars, IInv, PrankInv, Top, Depth
<1> QED
  BY <1>1, <1>2, <1>3, <1>4, <1>5, <1>6, <1>7 DEF Next

LEMMA AlwaysGood == Allowed = {} /\ Spec => []IInv
<1> SUFFICES ASSUME Allowed = {} PROVE Spec => []IInv
  OBVIOUS
<1>1. Init => IInv
  BY InitIsGood
<1>2. IInv /\ [Next]_vars => IInv'
  BY NextIsGood
<1> QED
  BY <1>1, <1>2, PTL DEF Spec

(* Where none of the situations happens that are known to break them, pranks
   reach the calls of the frames that asked for them and no others, however
   many frames call, create and prank one another: the inspector, which only
   keeps pranks by depth, gives every frame the sender it was promised. *)
THEOREM PranksReachTheirCalls == Allowed = {} /\ Spec => []SenderAsPranked
<1>1. IInv => SenderAsPranked
  BY DEF IInv, PrankInv, SendersMatch, SenderAsPranked, Depth
<1> QED
  BY <1>1, AlwaysGood, PTL

(* Under the same condition every frame runs under the origin of the closest
   prank it was called under, and gets it back when a pranked call ends. *)
THEOREM OriginsFollowPranks == Allowed = {} /\ Spec => []OriginAsPranked
<1>1. IInv => OriginAsPranked
  BY DEF IInv, PrankInv, OriginAsPranked
<1> QED
  BY <1>1, AlwaysGood, PTL

(* Under the same condition the outcome a frame sees of a call is the one its
   own expected reverts promise, for any counts and any depth of calls. *)
THEOREM RevertsAsExpected == Allowed = {} /\ Spec => []OutcomeAsExpected
<1>1. IInv => OutcomeAsExpected
  BY DEF IInv, OutcomeAsExpected
<1> QED
  BY <1>1, AlwaysGood, PTL
=============================================================================
