SPECIFICATION Spec
CONSTANTS
    Names <- MCNames
    Decls <- MCDecls
    Alphabet <- MCAlphabet
    MaxItems = 3
INVARIANTS
    ActorsAreLive
