CONSTANTS
    w1 = w1
    w2 = w2
    w3 = w3
    Workers = {w1, w2}
    MaxRetries = 1
    LastPair = 3
SPECIFICATION FairSpec
INVARIANTS
    TypeOK
    StoredIsUnspent
    NoTokenSpentTwice
    FailFast
PROPERTIES
    RetriedWithAnother
    EveryCallEnds
