SPECIFICATION ConsoleFairSpec
CONSTANT Delays = 6
INVARIANTS
    WritesAfterLogin
PROPERTIES
    StopIsFinal
    QuitEnds
