SPECIFICATION Spec
CONSTANTS
    Name = {"a", "b"}
    None = None
    Inodes = 3
    Blocks = 5
    PerBlock = 3
    MaxDepth = 2
    Path <- MCPath
    Loads <- MCRmdir
INVARIANTS
    NamesHaveInodes
CHECK_DEADLOCK FALSE
