SPECIFICATION FairChannelSpec
CONSTANTS
    idle = idle
    main = main
    init = {init}
    User = {a}
    Client <- MCClient
    sda = sda
    sdb = sdb
    v0 = v0
    v1 = v1
    Disk = {sda, sdb}
    Sector = {0, 1, 2}
    Value = {v0, v1}
    Unread = Unread
    Request <- MCRequest
    Chunk = 2
    TimeLimit = 2
    MaxBusy = 1
    Thread <- MCThread
    Idle = idle
    Main = main
    Ready <- MCReady
    Priority <- MCPriority
INVARIANTS
    ChannelQuiet
PROPERTIES
    CommandsIdleController
    ImplementsAtomicDisk
    RequestsEnd
