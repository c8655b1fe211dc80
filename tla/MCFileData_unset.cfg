SPECIFICATION Spec
CONSTANTS
    writer = writer
    other = other
    new = new
    old = old
    Proc = {writer, other}
    File = {new, old}
    None = None
    Sectors = 12
    BlockSize = 3
    Direct = 2
    BitsPerSector = 16
    InodeNo <- Apart
    PerSector = 2
    Numbers = 8
    OldSize <- MCOldSize
    OldBlocks <- MCOldBlocks
    OldTable <- MCOldTable
    MayRead <- Nobody
    MayWrite <- WriterNew
    MayUnlink <- Nobody
    WriteCounts = {1, 7}
    ReadCounts = {5}
    Places = {4}
    MaxRestarts = 0
    Careful = FALSE
INVARIANTS
    AddressesCollected
