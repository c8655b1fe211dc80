SPECIFICATION Spec
CONSTANTS
    Proc = {P1, P2}
    Root = P1
    VSize = 4
    D16 = D16
    D32 = D32
    PerArena <- MCPerArena
    LargePages = {2}
    MaxHeld = 3
    FreesInherited = FALSE
    None = None
SYMMETRY Sizes
INVARIANTS
    ListsWellFormed
    FreeIsExact

    
CHECK_DEADLOCK FALSE
