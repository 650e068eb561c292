SPECIFICATION FairSpec
CONSTANTS
    o1 = o1
    a1 = a1
    a2 = a2
    b1 = b1
    o = o
    a = a
    b = b
    lobby = lobby
    den = den
    None = None
    Lobby = lobby
    AdminCode = o
    CodeOf <- MCCodeOf
    SendCap = 2
    MaxPending = 1
    Store = TRUE
    Conns <- KickConns
    Codes <- SessionCodes
    RoomNames <- LobbyOnly
PROPERTY GoroutinesEnd
