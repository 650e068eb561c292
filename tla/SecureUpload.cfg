SPECIFICATION FairSpec
CONSTANTS
    Targets = 2
    ChunkCount = 3
    WindowSize = 2
    MaxBreaks = 1
    MaxDownloads = 1
INVARIANTS
    CommitsWholeFiles
    ManifestReadable
PROPERTIES
    ImplementsFileExchange
    UploadEnds
CHECK_DEADLOCK FALSE
