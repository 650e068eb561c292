-------------------------- MODULE MCConversations --------------------------
(***************************************************************************)
(* An instance of Conversations for TLC: two channels and a peer, so that  *)
(* a cache of two models has to delete one.                                *)
(***************************************************************************)
EXTENDS Conversations

CONSTANTS lobby, den, bob, mine, private

TwoRooms == {lobby, den}
OnePeer == {bob}
MCMessages == {mine, private}
MCMine == {mine}
MCHome == [m \in Messages |-> CASE m = private -> bob [] OTHER -> lobby]
MCMatching == {mine}
=============================================================================
