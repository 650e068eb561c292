SPECIFICATION FairSpec
CONSTANTS
    u1 = u1
    u2 = u2
    den = den
    good = good
    bad = bad
    None = None
    Uploads <- TwoUploads
    Rooms <- OneRoom
    Blobs <- TwoBlobs
    Exact <- OneBlob
    MaxSize = 2
    MaxRoom = 3
INVARIANTS
    QuotaBalances
    QuotaWithinLimit
    CommittedIsWhole
PROPERTIES
    
    UploadsEnd
