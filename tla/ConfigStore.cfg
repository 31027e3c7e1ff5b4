SPECIFICATION Spec
CONSTANTS
    wide = wide
    narrow = narrow
    other = other
    layoutA = layoutA
    layoutB = layoutB
    FF = FF
    Torn = Torn
    NoSnapshot = NoSnapshot
    NumParams = 2
    Values <- MCValues
    Firmwares <- MCFirmwares
    Layouts <- MCLayouts
    LayoutOf <- MCLayoutOf
    DefaultOf <- MCDefaultOf
    ValidOf <- MCValidOf
    Long <- MCLong
INVARIANTS
    PoolIsValid
    Inv
PROPERTIES
    SavedIsRestored
    ImplementsConfigSlot
