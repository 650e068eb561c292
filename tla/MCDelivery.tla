----------------------------- MODULE MCDelivery -----------------------------
(* Instances of Delivery for TLC: two users, the first of them the         *)
(* administrator, who sends a private message and a channel message with   *)
(* IDs of their own, and others from the console.                          *)
EXTENDS Delivery, TLC

CONSTANTS a, b, room, m1, m2

TwoUsers == {a, b}
ConsoleUser == {a}
ToUser == {b}
ToChannel == {room}
TwoIDs == {m1, m2}
Author == m1 :> a @@ m2 :> a
Addressee == m1 :> b @@ m2 :> room
OneID == {m1}
OneAuthor == m1 :> a
OneAddressee == m1 :> b

=============================================================================
