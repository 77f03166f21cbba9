\* The threads of the HTTP output around its mutex.
SPECIFICATION ThreadSpec
CONSTANTS
    c1 = c1
    c2 = c2
    h1 = h1
    h2 = h2
    m1 = m1
    Nobody = Nobody
    Clients = {c1, c2}
    Handlers = {h1, h2}
    Managers = {m1}
    ClockSteps <- Steps
    Unprintable <- Broken
    InactivityTimeout = 3
    Capacity = 2
    MaxBatch = 1
    MaxTurns = 2
    MaxTime = 20
    MaxStored = 2
    MaxSession = 4
INVARIANTS
    Exclusion
PROPERTIES
    Answered
    ImplementsOutput
