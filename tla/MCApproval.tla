----------------------------- MODULE MCApproval -----------------------------
(* Instances of Approval for TLC: the owner at the server and, as c3, from  *)
(* another machine; two visitors.                                           *)
EXTENDS Approval, TLC

CONSTANTS owner, c1, c2, c3

FourConns == {owner, c1, c2, c3}
OwnerMachine == {owner}
OwnerConns == {owner, c3}

=============================================================================
