SPECIFICATION Spec
CONSTANTS
    a = a
    b = b
    Node = {a, b}
    UidLength = 16
    Byte = {1, 2}
    MaxLenOfUniqueIDInRequest = 6
    UidChoices <- TwoNodes
    Ids = {1, 2, 3, 4}
    RequestDelays = {3, 5}
    FollowupDelays = {0, 2}
    WatchdogTicks = 25
    MaxFaults = 2
INVARIANTS
    TypeOK
    NodeIdIsItsOwn
    WatchdogIsReset
PROPERTIES
    ExchangeIsNotDisturbed
    EveryNodeGetsAnId
