SPECIFICATION FairSpec
CONSTANTS
    idle = idle
    main = main
    User = {a}
    Lock = {l}
    None = None
    MaxDepth = 2
    Thread <- MCThread
    Idle = idle
    Main = main
    Ready <- MCReady
    Priority <- MCPriority
INVARIANTS
    MutualExclusion
    NoAssertFails
    HolderCounts
    WaitersExact
    
PROPERTIES
    ImplementsMutex
    QueuedThreadIsWoken
