SPECIFICATION Spec
CONSTANTS
    o1 = o1
    a1 = a1
    a2 = a2
    b1 = b1
    o = o
    a = a
    b = b
    lobby = lobby
    den = den
    None = None
    Lobby = lobby
    AdminCode = o
    CodeOf <- MCCodeOf
    SendCap = 3
    MaxPending = 0
    Store = FALSE
    Conns <- RoomConns
    Codes <- GuestCodes
    RoomNames <- TwoRooms
INVARIANTS
    NamesAreFreed
    OneRoom
    PrivateRooms
