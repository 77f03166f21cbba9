\* A clock that advances between any two critical sections.
SPECIFICATION Spec
CONSTANTS
    c1 = c1
    c2 = c2
    Clients = {c1, c2}
    ClockSteps <- Steps
    Unprintable <- Broken
    InactivityTimeout = 3
    Capacity = 2
    MaxBatch = 2
    MaxTime = 8
    MaxStored = 4
    MaxSession = 2
INVARIANTS
    TypeOK
    StampsSorted
    DropsOnlyOverflow
    ReadPosition
PROPERTIES
    ActiveNeverRefused
    ImplementsLog
\* The horizon (MaxTime) ends every behaviour, as SIGINT ends the program.
CHECK_DEADLOCK FALSE
