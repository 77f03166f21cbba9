\* The cookie of an expired session names another client's session.
SPECIFICATION Spec
CONSTANTS
    c1 = c1
    c2 = c2
    Clients = {c1, c2}
    ClockSteps <- Steps
    Unprintable <- Broken
    InactivityTimeout = 3
    Capacity = 2
    MaxBatch = 2
    MaxTime = 8
    MaxStored = 4
    MaxSession = 2
SYMMETRY Symmetry
INVARIANTS
    OwnSession
\* The horizon (MaxTime) ends every behaviour, as SIGINT ends the program.
CHECK_DEADLOCK FALSE
