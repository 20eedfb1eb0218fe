SPECIFICATION FairSpec
CONSTANTS
    MaxLines = 5
    MaxOdd = 1
    Indents = {0, 2, 4, 258}
    MAX_INDENT_LEVELS = 4
INVARIANTS Balanced NothingLost NothingRefused
PROPERTIES FrontEndEnds
