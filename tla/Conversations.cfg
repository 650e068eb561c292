SPECIFICATION Spec
CONSTANTS
    lobby = lobby
    den = den
    bob = bob
    mine = mine
    private = private
    None = None
    Lobby = lobby
    Rooms <- TwoRooms
    Peers <- OnePeer
    Messages <- MCMessages
    Mine <- MCMine
    Home <- MCHome
    Matching <- MCMatching
    MaxModels = 2
    MaxRows = 2
    MaxCommands = 3
    MaxNews = 1
    MaxBreaks = 1
    MaxUnderWay = 2
INVARIANTS
    ActiveIsCached
    UniqueRows
    FreshSnapshot
    ActiveIsRead
    
CHECK_DEADLOCK FALSE
