\* Three pairs, so that two rotations follow each other; one crash, one stop.
CONSTANTS
    LastKid = 3
    CacheTtl = 3
    AccessTtl = 3
    RefreshTtl = 4
    Slack = 1
    Day = 4
    r1 = r1
    Scanners = {r1}
    MaxTokens = 1
    MaxCrashes = 1
    MaxStops = 1
SPECIFICATION FairSpec
INVARIANTS
    TypeOK
    SignerPublished
PROPERTIES
    PairSurvives
    PublishedAhead
    RingSpec
    SignerRecovers
