SPECIFICATION Spec
CONSTANTS
    writer = writer
    other = other
    new = new
    old = old
    Proc = {writer, other}
    File = {new, old}
    None = None
    Sectors = 8
    BlockSize = 3
    Direct = 2
    BitsPerSector = 16
    InodeNo <- Apart
    PerSector = 2
    Numbers = 8
    OldSize <- MCOldSize
    OldBlocks <- MCOldBlocks
    OldTable <- MCOldTable
    MayRead <- OtherNew
    MayWrite <- WriterNew
    MayUnlink <- OtherOld
    WriteCounts = {4}
    ReadCounts = {5}
    Places = {4}
    MaxRestarts = 1
    Careful = TRUE
INVARIANTS
    
    BlocksApart
    DiskIsSound
PROPERTIES
    ImplementsStore
