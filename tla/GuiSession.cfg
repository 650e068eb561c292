SPECIFICATION FairSpec
CONSTANTS
    lobby = lobby
    den = den
    Lobby = lobby
    Rooms <- TwoRooms
    Attempts = 2
    MaxExponent = 1
    MaxCommands = 2
    MaxFaults = 2
INVARIANTS
    NeverTerminates
    ExplicitMeansQuiet
    OneTimer
PROPERTY Recovers
CHECK_DEADLOCK FALSE
