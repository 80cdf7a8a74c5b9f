CONSTANTS
    Reqs = {r1, r2, r3}
    Orders = {o1, o2}
    LastStatus = 2
SPECIFICATION FairSpec
INVARIANTS
    TypeOK
PROPERTIES
    RefreshSynchronises
    StoredNeverGoesBack
    SyncCatchesResting
    EveryRequestAnswered
CHECK_DEADLOCK TRUE
