SPECIFICATION TermSpec
CONSTANTS
    idle = idle
    main = main
    Reader = {shell, job}
    Shell = shell
    Char <- Chars
    Size = 3
    None = None
    Thread <- MCThread
    Idle = idle
    Main = main
    Ready <- MCReady
    Priority <- MCPriority
    LineMax = 2
    Loads <- MCLoads
    Pairs = FALSE
INVARIANTS
    ConsumerIsBlocked
    FlagsFollowKeys
PROPERTIES
    ImplementsKeyQueue
    ImplementsLineEditor
