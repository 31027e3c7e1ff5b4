SPECIFICATION Spec
CONSTANTS
    long = long
    short = short
    empty = empty
    NoFile = NoFile
    NoApp = NoApp
    Free = Free
    Files <- MCFewFiles
    Images <- MCFewImages
    Chunks <- MCFewChunks
    TidMod = 2
    MaxLate = 1
    BootDelayTicks = 0
    Wrap = 1
INVARIANTS
    BootedAppIsValid
    DownloadIsTheFile
