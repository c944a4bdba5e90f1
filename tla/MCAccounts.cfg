SPECIFICATION FairSpec
CONSTANTS
    MaxTokens = 2
    MaxRequests = 3
INVARIANTS
    OldSessionsOut
    BanKeepsOut
PROPERTIES
    RevokedForGood
    BanDisconnects
CHECK_DEADLOCK FALSE
