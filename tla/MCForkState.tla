---------------------------- MODULE MCForkState -----------------------------
(* A small instance of ForkState. *)
EXTENDS ForkState

CONSTANTS contract, other, c, d

(* A contract with a slot in use, and an account that does not exist.  The
   remote chain does not change them after the fork; or it does; or the second
   one has a balance. *)
Forked == [a \in {contract, other} |->
             IF a = contract
             THEN [balance |-> 0, nonce |-> 1, code |-> c, storage |-> [i \in Slots |-> 1]]
             ELSE None]
MCRemote == [n \in 0 .. MaxChanges |-> Forked]
MCRemoteMoves == [n \in 0 .. MaxChanges |->
                    IF n = 0 THEN Forked ELSE [Forked EXCEPT ![contract].balance = 1]]
MCRemotePaid == [n \in 0 .. MaxChanges |->
                   [Forked EXCEPT ![other] = [Nothing EXCEPT !.balance = 1]]]
=============================================================================
