SPECIFICATION Spec
CONSTANTS
    Names <- MCNames
    Decls <- ShadowDecls
    Alphabet <- ShadowAlphabet
    MaxItems = 3
INVARIANTS
    BranchesAgree
