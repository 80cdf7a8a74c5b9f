\* One rotation, and refresh tokens that live as long as a pair is in use.
CONSTANTS
    LastKid = 2
    CacheTtl = 2
    AccessTtl = 2
    RefreshTtl = 8
    Slack = 1
    Day = 8
    r1 = r1
    Scanners = {r1}
    MaxTokens = 1
    MaxCrashes = 0
    MaxStops = 0
SPECIFICATION Spec
INVARIANTS
    RefreshTokensLast
