----------------------------- MODULE Cheatcodes -----------------------------
(***************************************************************************)
(* The inspector behind the cheatcodes of a Solidity test                  *)
(* (crates/foundry/cheatcodes): it is told of every call and creation that *)
(* begins or ends, and changes who seems to make it (prank, startPrank,    *)
(* stopPrank) and what seems to come of it (expectRevert).                 *)
(*                                                                         *)
(* The contracts of the test are free in what they call, create, return    *)
(* and revert, and any of them may use a cheatcode.  The inspector keeps   *)
(* its pranks by the depth of the call, and one expected revert.  What     *)
(* they promise is stated frame by frame: a prank is about the calls of    *)
(* the frame that asked for it, and so is an expected revert.              *)
(***************************************************************************)
EXTENDS Integers, Sequences, FiniteSets, FiniteSetsExt

CONSTANTS
  None,
  Contracts,     \* what may be called
  test,          \* the contract that runs
  sender,        \* who sends the transaction
  NewCallers, NewOrigins, Counts,  \* the arguments of cheatcodes
  Allowed,       \* the situations that are let happen, see below
  MaxDepth       \* bound on the depth of calls

(* A frame ends with its prank on; a frame with a prank makes a delegate call
   or asks for one; a creation ends a prank inside a call that is pranked
   itself; a frame reverts when some of its expected reverts have come; the
   first call of a frame that expects reverts opens no frame. *)
Situations == {"leftover", "delegate", "nested create", "partial", "no frame"}

(* What a frame asked for, and what the inspector keeps of it. *)
Addresses == Contracts \cup NewCallers \cup NewOrigins \cup {sender}
AskedPrank == [caller : NewCallers, origin : NewOrigins \cup {None}, single_call : BOOLEAN]
KeptPrank ==
  [prank_caller : Addresses, prank_origin : Addresses, new_caller : NewCallers,
   new_origin : NewOrigins \cup {None}, depth : Nat, single_call : BOOLEAN,
   delegate_call : BOOLEAN, used : BOOLEAN]
ExpectedRevert == [depth : Nat, max_depth : Nat, count : Nat, actual_count : Nat]

ASSUME CheatcodesAssumption ==
  /\ test \in Contracts /\ sender \notin Contracts
  /\ None \notin Contracts \cup NewOrigins \cup Nat
  /\ None \notin AskedPrank /\ None \notin KeptPrank /\ None \notin ExpectedRevert
  /\ Counts \subseteq Nat /\ Allowed \subseteq Situations /\ MaxDepth \in Nat

VARIABLES
  stack,            \* the frames, the one that runs last
  tx_caller,        \* tx.origin
  pranks,           \* depth -> prank
  expected_revert,
  seen,             \* what the last call that ended came to for its caller
  promised          \* what it should have come to: not kept by the program

vars == <<stack, tx_caller, pranks, expected_revert, seen, promised>>

Put(f, x, v) == [y \in DOMAIN f \cup {x} |-> IF y = x THEN v ELSE f[y]]
Without(f, x) == [y \in DOMAIN f \ {x} |-> f[y]]

Depth == Len(stack)
Top == stack[Depth]

(* A frame.  msg_sender is what the inspector made of it; from, origin, prank
   and due are what was promised: its sender and origin, the prank it asked
   for, and how many of its calls are to revert.  A call of an account without
   code or of a precompile, and a call or a creation that the EVM refuses, for
   lack of funds say, has an end but runs nothing: opened is FALSE. *)
Frame(kind, this, msg_sender, from, origin, opened) ==
  [kind |-> kind, this |-> this, msg_sender |-> msg_sender,
   from |-> from, origin |-> origin, opened |-> opened, prank |-> None, due |-> None]

(* A frame runs code. *)
Running == IF stack = <<>> THEN FALSE ELSE Top.opened

Init ==
  /\ stack = <<Frame("call", test, sender, sender, sender, TRUE)>>
  /\ tx_caller = sender
  /\ pranks = [d \in {} |-> None]
  /\ expected_revert = None
  /\ seen = "ok" /\ promised = "ok"

-----------------------------------------------------------------------------
(* The prank of a depth, or else of the closest depth above it. *)
get_prank(depth) ==
  LET depths == {d \in DOMAIN pranks : d <= depth}
  IN  IF depths = {} THEN None ELSE pranks[Max(depths)]

(* prank and startPrank; an error leaves everything as it is. *)
Prank(new_caller, new_origin, single_call, delegate_call) ==
  LET current == get_prank(Depth)
  IN  /\ Running
      /\ current # None => current.used /\ current.single_call = single_call
      /\ delegate_call => "delegate" \in Allowed
      /\ pranks' = Put(pranks, Depth,
           [prank_caller |-> Top.this, prank_origin |-> tx_caller, new_caller |-> new_caller,
            new_origin |-> new_origin, depth |-> Depth, single_call |-> single_call,
            delegate_call |-> delegate_call, used |-> FALSE])
      /\ stack' = [stack EXCEPT ![Depth].prank =
           [caller |-> new_caller, origin |-> new_origin, single_call |-> single_call]]
      /\ UNCHANGED <<tx_caller, expected_revert, seen, promised>>

StopPrank ==
  /\ Running
  /\ pranks' = Without(pranks, Depth)
  /\ stack' = [stack EXCEPT ![Depth].prank = None]
  /\ UNCHANGED <<tx_caller, expected_revert, seen, promised>>

(* Who makes a call, in which contract it runs, and tx.origin: call_with_executor
   and create, once the call is not one of the inspector's own. *)
WithPrank(kind, caller, target) ==
  LET prank == get_prank(Depth)
      delegated == prank # None /\ prank.delegate_call /\ prank.depth = Depth /\ kind = "delegate"
      by == IF delegated THEN prank.new_caller ELSE caller
      applies == prank # None /\ Depth >= prank.depth /\ by = prank.prank_caller
      sets_origin == (delegated \/ applies) /\ prank.new_origin # None
      applied == applies /\ (Depth = prank.depth \/ prank.new_origin # None)
  IN  [caller |-> IF applies /\ Depth = prank.depth THEN prank.new_caller ELSE by,
       target |-> IF delegated THEN prank.new_caller ELSE target,
       tx_caller |-> IF sets_origin THEN prank.new_origin ELSE tx_caller,
       pranks |-> IF applied /\ ~prank.used THEN Put(pranks, Depth, [prank EXCEPT !.used = TRUE])
                  ELSE pranks]

(* A call or a creation begins, and initialize_interp follows if it opens a
   frame.  For a delegate call the caller and the contract are those of the
   frame that makes it. *)
Begin(kind, caller, target, opened) ==
  LET p == WithPrank(kind, caller, target)
      from == IF Top.prank = None \/ kind = "delegate" THEN caller ELSE Top.prank.caller
      origin == IF Top.prank = None THEN Top.origin
                ELSE IF Top.prank.origin = None THEN Top.origin ELSE Top.prank.origin
  IN  /\ Running /\ Depth < MaxDepth
      /\ "no frame" \notin Allowed /\ ~opened /\ Top.due # None =>
           expected_revert.actual_count > 0
      /\ stack' = Append(stack, Frame(kind, p.target, p.caller, from, origin, opened))
      /\ tx_caller' = p.tx_caller /\ pranks' = p.pranks
      /\ expected_revert' =
           IF expected_revert = None \/ ~opened THEN expected_revert
           ELSE [expected_revert EXCEPT !.max_depth = Max({@, Depth + 1})]
      /\ UNCHANGED <<seen, promised>>

Call(target, opened) == Begin("call", Top.this, target, opened)
Create(target, opened) == Begin("create", Top.this, target, opened)
DelegateCall(opened) ==
  /\ Running
  /\ Top.prank # None => "delegate" \in Allowed
  /\ Begin("delegate", Top.msg_sender, Top.this, opened)

-----------------------------------------------------------------------------
(* expectRevert, with the number of reverts expected of any contract and for
   any reason. *)
ExpectRevert(count) ==
  /\ Running /\ expected_revert = None
  /\ expected_revert' = [depth |-> Depth, max_depth |-> Depth, count |-> count, actual_count |-> 0]
  /\ stack' = [stack EXCEPT ![Depth].due = count]
  /\ UNCHANGED <<tx_caller, pranks, seen, promised>>

(* Whether a call that ends as it does is what was expected. *)
handle_expect_revert(expected, result) ==
  /\ expected.max_depth > expected.depth
  /\ result = IF expected.count = 0 THEN "ok" ELSE "revert"

Counted(expected) == [expected EXCEPT !.actual_count = @ + 1]
StillExpected(expected) ==
  IF Counted(expected).actual_count < expected.count THEN Counted(expected) ELSE None

(* Mutant: a prank is not over after its call. *)
Bug_KeepsSinglePrank(kind, depth) ==
  LET prank == get_prank(depth)
      ends == IF prank = None THEN FALSE ELSE prank.depth = depth
  IN  /\ tx_caller' = IF ends THEN prank.prank_origin ELSE tx_caller
      /\ UNCHANGED pranks

(* Mutant: tx.origin is not given back. *)
Bug_KeepsOrigin(kind, depth) ==
  LET prank == get_prank(depth)
      ends == IF prank = None THEN FALSE ELSE prank.depth = depth
  IN  /\ UNCHANGED tx_caller
      /\ pranks' = IF ~ends \/ ~prank.single_call THEN pranks ELSE Without(pranks, depth)

(* call_end and create_end: the prank of the frame that made the call ends or
   at least gives back tx.origin. *)
EndPrank(kind, depth) ==
  LET prank == get_prank(depth)
      ends == IF prank = None THEN FALSE ELSE prank.depth = depth
  IN  /\ tx_caller' = IF ends THEN prank.prank_origin ELSE tx_caller
      /\ pranks' = IF ~ends \/ ~prank.single_call THEN pranks
                   ELSE IF kind = "create" THEN [d \in {} |-> None]
                   ELSE Without(pranks, depth)

(* Mutant: only a call at the very depth is held against an expected revert. *)
Bug_OnlySameDepth(depth, result) ==
  IF expected_revert = None THEN seen' = result /\ UNCHANGED expected_revert
  ELSE IF depth # expected_revert.depth THEN seen' = result /\ UNCHANGED expected_revert
  ELSE IF handle_expect_revert(expected_revert, result)
  THEN seen' = "ok" /\ expected_revert' = StillExpected(expected_revert)
  ELSE seen' = "revert" /\ expected_revert' = None

(* call_end and create_end: a call at or above the depth of an expected revert
   is held against it. *)
EndRevert(depth, result) ==
  IF expected_revert = None \/ depth > expected_revert.depth
  THEN seen' = result /\ UNCHANGED expected_revert
  ELSE IF handle_expect_revert(expected_revert, result)
  THEN seen' = "ok" /\ expected_revert' = StillExpected(expected_revert)
  ELSE seen' = "revert" /\ expected_revert' = None

(* What was promised of the call: a frame that still waits for a revert has
   failed, and a call that is to revert has failed if it does not. *)
Promised(frame, parent, result) ==
  IF frame.due # None THEN "revert"
  ELSE IF parent.due = None THEN result
  ELSE IF result = (IF parent.due = 0 THEN "ok" ELSE "revert") THEN "ok" ELSE "revert"

StillDue(parent, result) ==
  IF parent.due \in {None, 0, 1} \/ result = "ok" THEN None ELSE parent.due - 1

After(parent, result) ==
  [parent EXCEPT !.due = StillDue(parent, result),
                 !.prank = IF @ = None THEN None ELSE IF @.single_call THEN None ELSE @]

(* The frame asked for a prank of one call. *)
EndsSinglePrank(parent) == IF parent.prank = None THEN FALSE ELSE parent.prank.single_call

(* The frame that runs returns or reverts, or the call that opened none has its
   result, which for a creation is an error; with the first frame the test is
   over. *)
End(result) ==
  LET parent == IF Depth = 1 THEN [due |-> None, prank |-> None] ELSE stack[Depth - 1]
  IN  /\ stack # <<>>
      /\ Top.kind = "create" /\ ~Top.opened => result = "revert"
      /\ "leftover" \notin Allowed /\ Depth > 1 => Top.prank = None
      /\ "nested create" \notin Allowed /\ Top.kind = "create" /\ EndsSinglePrank(parent) =>
           Cardinality(DOMAIN pranks) < 2
      /\ "partial" \notin Allowed /\ result = "revert" /\ Top.due # None =>
           expected_revert.actual_count = 0
      /\ EndPrank(Top.kind, Depth - 1)
      /\ EndRevert(Depth - 1, result)
      /\ promised' = Promised(Top, parent, result)
      /\ stack' = IF Depth = 1 THEN <<>>
                  ELSE Append(SubSeq(stack, 1, Depth - 2), After(parent, result))

Next ==
  \/ \E c \in NewCallers, o \in NewOrigins \cup {None}, single, delegate \in BOOLEAN :
       Prank(c, o, single, delegate)
  \/ StopPrank
  \/ \E target \in Contracts, opened \in BOOLEAN : Call(target, opened) \/ Create(target, opened)
  \/ \E opened \in BOOLEAN : DelegateCall(opened)
  \/ \E count \in Counts : ExpectRevert(count)
  \/ \E result \in {"ok", "revert"} : End(result)

Spec == Init /\ [][Next]_vars

-----------------------------------------------------------------------------
(* A frame is called by who was promised to call it: a prank reaches the calls
   of the frame that asked for it, all of them or the next one, and no other,
   however deep they go on to call and prank. *)
SenderAsPranked == \A d \in 1 .. Depth : stack[d].msg_sender = stack[d].from

(* Every frame runs under the origin of the pranks it was called under, also
   after a call of its own that was pranked came back. *)
OriginAsPranked == stack # <<>> => tx_caller = Top.origin

(* What a frame sees of a call follows from how the call ended and from the
   reverts that this frame, and no other, still expects: also when the call
   opened no frame, unless it is the first after expectRevert, which the
   inspector then takes for one that never got deeper (the situation "no
   frame"). *)
OutcomeAsExpected == seen = promised

(* In the test itself, outside all pranked calls, the origin is the sender of
   the transaction. *)
OriginRestored == Depth = 1 => tx_caller = sender
=============================================================================
