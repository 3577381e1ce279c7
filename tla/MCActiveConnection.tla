------------------------- MODULE MCActiveConnection -------------------------
(* A small instance of ActiveConnection: of the accounts on two hosts, one *)
(* can write.                                                              *)
EXTENDS ActiveConnection, TLC

CONSTANTS h1, h2, l1, l2

CannotWrite == Details \ {[host |-> h2, login |-> l2]}

Symmetric == Permutations(Workers) \cup Permutations(Requests)

=============================================================================
