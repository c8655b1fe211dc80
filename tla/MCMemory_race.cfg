SPECIFICATION Spec
CONSTANTS
    idle = idle
    main = main
    init = init
    Proc = {init, child}
    Root = init
    None = None
    Size <- MCSmallSize
    VSize = 4
    TableSpan = 2
    Loads <- MCRace
    MaxHeld = 1
    Thread <- MCThread
    Idle = idle
    Main = main
    Ready <- MCReady
    Priority <- MCPriority
INVARIANTS
    KernelPagesOnce
