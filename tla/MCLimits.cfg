\* Two managers, three devices, a window of one unit.
SPECIFICATION LimitsSpec
CONSTANTS
    m1 = m1
    m2 = m2
    d1 = d1
    d2 = d2
    d3 = d3
    f1 = f1
    f2 = f2
    Managers = {m1, m2}
    Devices <- Polled
    FieldNames <- Names1
    First <- First1
    Watched = {d1, d2}
    Values = {0, 1}
    Window = 1
    MaxTime = 4
INVARIANTS
    LimitsTypeOK
    OnePerDevice
    LimitsFollowReadings
    BoardExact
\* The horizon (MaxTime) ends every behaviour, as SIGINT ends the program.
CHECK_DEADLOCK FALSE
