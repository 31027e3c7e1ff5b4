SPECIFICATION Spec
CONSTANTS
    Thread = {"boot", "uavcan", "app"}
    Timeout = 10
    DetectTicks = 3
    DriverTicks = 2
    AllocTicks = 2
    ResponseTicks = 6
    StopTicks = 6
    CheckTicks = {0, 3, 12}
    QuickTicks = 3
    MaxFaults = 2
INVARIANTS
    HungIsNoticed
    NoFalseAlarm
    AlarmIsExplained
PROPERTIES
    RequestIsServed
