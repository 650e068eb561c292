----------------------------- MODULE MCMLSGroup -----------------------------
(* Instances of MLSGroup for TLC.                                           *)
EXTENDS MLSGroup, TLC

CONSTANTS x, y, lobby, den, p, q, d1, d2

TwoCodes == {x, y}
OneRoom == {lobby}
TwoIDs == {p, q}
TwoPayloads == {d1, d2}

\* Codes, proposal IDs and payloads are compared for equality only.
Names == Permutations(TwoCodes) \cup Permutations(TwoIDs)
           \cup Permutations(TwoPayloads)

=============================================================================
