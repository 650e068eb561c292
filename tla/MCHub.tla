------------------------------- MODULE MCHub -------------------------------
(***************************************************************************)
(* Instances of Hub for TLC.  Connection names start with the letter of    *)
(* the user they belong to: o (the owner, administrator), a, b.            *)
(***************************************************************************)
EXTENDS Hub, TLC

CONSTANTS o1, a1, a2, b1, o, a, b, lobby, den

\* The owner on the server's own machine and one user connecting twice.
SessionConns == {o1, a1, a2}
SessionCodes == {o, a}
\* Two users, neither of them an administrator, one connection each.
RoomConns == {a1, b1}
GuestCodes == {a, b}
\* The owner and a user.
KickConns == {o1, a1}

MCCodeOf == [c \in Conns |->
    CASE c = o1 -> o [] c \in {a1, a2} -> a [] c = b1 -> b]

LobbyOnly == {lobby}
TwoRooms == {lobby, den}

\* The two connections of one user are interchangeable.
SameUser == Permutations({a1, a2})

=============================================================================
