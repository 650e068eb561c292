SPECIFICATION Spec
CONSTANTS
    x = x
    y = y
    lobby = lobby
    den = den
    p = p
    q = q
    d1 = d1
    d2 = d2
    None = None
    MaxEpoch = 1
    Codes <- TwoCodes
    Rooms <- OneRoom
    ProposalIDs <- TwoIDs
    Payloads <- TwoPayloads
INVARIANTS
    EpochIsLatestCommit
    PendingIsCurrent
    MembersWereWelcomed
PROPERTY NoRevival
SYMMETRY Names
