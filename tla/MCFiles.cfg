SPECIFICATION Spec
CONSTANTS
    main = main
    p = p
    q = q
    a = a
    b = b
    c = c
    Main = main
    Proc = {p, q}
    None = None
    Name = {a, b, c}
    Inode = {1, 2, 3, 4}
    Bits = 4
    GlobalMax = 6
    LocalMax = 7
    Old <- MCOld
    Loads <- MCLoads
INVARIANTS
    
    CountsExact
    DiskAgrees
    ListIsSound
    
CHECK_DEADLOCK FALSE
