SPECIFICATION Spec
CONSTANTS
    o1 = o1
    a1 = a1
    a2 = a2
    b1 = b1
    o = o
    a = a
    b = b
    lobby = lobby
    den = den
    None = None
    Lobby = lobby
    AdminCode = o
    CodeOf <- MCCodeOf
    SendCap = 1
    MaxPending = 1
    Store = TRUE
    Conns <- SessionConns
    Codes <- SessionCodes
    RoomNames <- LobbyOnly
INVARIANTS
    SessionPerCode
    OnlyOpenSessions
    NobodyAbandoned
PROPERTY OldSessionEnds
SYMMETRY SameUser
