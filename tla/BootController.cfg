\* Two threads, two images, an empty storage and a torn one; the clock wraps
\* soon after the boot delay ends (5 of 8 ticks, as 50000 of 65536).
SPECIFICATION FairSpec
CONSTANTS
    Threads = {main, uavcan}
    appA = appA
    appB = appB
    blank = blank
    torn = torn
    NoApp = NoApp
    Free = Free
    Contents <- MCContents
    Apps <- MCApps
    Located <- MCLocated
    BootDelayTicks = 5
    Wrap = 8
INVARIANTS
    BootableAppIsVerified
    ValidAppIsFound
    UpgradeIsExclusive
    Inv
PROPERTIES
    StorageFrozenWhileBootable
    
    ImplementsAppSlot
    UpgradeEnds
