SPECIFICATION FairSpec
CONSTANTS
    owner = owner
    c1 = c1
    c2 = c2
    c3 = c3
    None = None
    Loopback <- OwnerMachine
    Admins <- OwnerConns
    Conns <- FourConns
    MaxClients = 3
    CancelCap = 4
INVARIANTS
    OnlyApprovedEnter
    DecisionNeverDropped
 
