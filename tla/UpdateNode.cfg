SPECIFICATION FairSpec
CONSTANTS
    long = long
    short = short
    empty = empty
    NoFile = NoFile
    NoApp = NoApp
    Free = Free
    Files <- MCFiles
    Images <- MCImages
    Chunks <- MCChunks
    TidMod = 2
    MaxLate = 0
    BootDelayTicks = 1
    Wrap = 2
INVARIANTS
    TypeOK
    BootedAppIsValid
    StayIsHonored
    DownloadIsTheFile
PROPERTIES
    DownloadEnds
    ValidAppBoots
    RebootHappens
