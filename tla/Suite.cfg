SPECIFICATION Spec
CONSTANTS
    I64Max = 99
    Files <- MCFiles
    Disks <- MCDisks
    Saved <- MCSaved
    Selections <- MCSelections
    RawArgs <- MCRawArgs
    Literals <- MCLiterals
    MaxEdits = 1
INVARIANTS GateHolds ExitTruthful ArgsKept AssertsExclude
