SPECIFICATION Spec
CONSTANTS
    PageSize = 4
    FlashEnd = 8
    ConfigStart = 6
    MaxImageSize = 16
    ChunkSizes = {2}
    MaxDownloads = 2
    FF = FF
    Stale = Stale
    new = new
    old = old
    MCLengths = {4, 6}
    Files <- MCFiles
    OldContents <- MCOldContents
CHECK_DEADLOCK FALSE
INVARIANTS
    AcceptedDataIsKept
