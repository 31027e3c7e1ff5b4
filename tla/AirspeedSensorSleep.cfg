\* As in AirspeedSensor.cfg.
SPECIFICATION Spec
CONSTANTS
    Wrap = 20
    Periods = {2, 4}
    ReadAfter = 1
    FreshPressure = 6
    FreshTemp = 4
    StartTimeout = 2
    ReadTimeout = 1
    StallTicks = 3
    MaxFaults = 1
PROPERTIES
    SleepEnds
CHECK_DEADLOCK FALSE
