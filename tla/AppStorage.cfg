SPECIFICATION FairSpec
CONSTANTS
    PageSize = 4
    FlashEnd = 8
    ConfigStart = 6
    MaxImageSize = 16
    ChunkSizes = {2, 4}
    MaxDownloads = 1
    FF = FF
    Stale = Stale
    new = new
    old = old
    MCLengths = {3, 6, 8, 10}
    Files <- MCFiles
    OldContents <- MCOldContents
CHECK_DEADLOCK FALSE
INVARIANTS
    AcceptedDataIsKeptIfRegular
    ConfigSurvivesIfPageIsFree
    FlashAssertionsHold
PROPERTIES
    DownloadEnds
