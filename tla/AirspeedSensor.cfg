\* A tick is 5 ms.  The clock wraps after 100 ms instead of 6.55 s, and samples
\* stay fresh for 30 and 20 ms instead of 100 and 50 ms.
SPECIFICATION Spec
CONSTANTS
    Wrap = 20
    Periods = {2, 4}
    ReadAfter = 1
    FreshPressure = 6
    FreshTemp = 4
    StartTimeout = 2
    ReadTimeout = 1
    StallTicks = 3
    MaxFaults = 1

    
PROPERTIES
    StaleIsNotPublished
    SensorRecovers
CHECK_DEADLOCK FALSE
