SPECIFICATION FairSpec
CONSTANTS
    Targets = 1
    ChunkCount = 3
    WindowSize = 2
    MaxBreaks = 1
    MaxDownloads = 0
PROPERTY ResumedUploadEnds
CHECK_DEADLOCK FALSE
