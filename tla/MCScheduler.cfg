SPECIFICATION FairSchedSpec
CONSTANTS
    idle = idle
    main = main
    init = init
    Forked = {shell}
    Thread <- MCThread
    Idle = idle
    Main = main
    Ready <- MCReady
    Priority <- MCPriority
INVARIANTS
    NoSchedAssertFails
    ListsAgree
    BlockedExactlyWhileWaiting
PROPERTIES
    IdleOnlyWhenNobodyReady
    ReadyThreadRuns
