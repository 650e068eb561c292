SPECIFICATION Spec
CONSTANTS
    a = a
    b = b
    room = room
    m1 = m1
    m2 = m2
    None = None
    Users <- TwoUsers
    Console <- ConsoleUser
    ConsoleTo <- ToUser
    Admin = a
    Room = room
    Supplied <- TwoIDs
    From <- Author
    To <- Addressee
    MaxGen = 1
    MaxRestarts = 1
    OfflineCap = 1
    HistoryCap = 1
 
INVARIANT ReceiptIsTrue
INVARIANT WaitingIsUndelivered
INVARIANT RecallReachesQueue
