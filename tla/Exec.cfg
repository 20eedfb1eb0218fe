SPECIFICATION FairSpec
CONSTANTS
    MaxRuns = 3
INVARIANTS
    TeardownOkEnds
    NoLostChild
PROPERTIES
    ContractSpec
    EventuallyReaped
