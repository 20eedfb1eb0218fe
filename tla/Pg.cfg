SPECIFICATION PFairSpec
CONSTANTS
    Timeout = 9
    Backoff = 2
    AnswerTime = 2
    MayHang = TRUE
    MaxCalls = 4
INVARIANTS
    ReturnsInTime
    ReadyServerReached
    PgTypeOK
    TaskOwned
    
    EffectsInOrder
PROPERTIES
    CallEnds
    ContractSpec
