\* An answer may come after its time-out.
SPECIFICATION LineSpec
CONSTANTS
    s1 = s1
    s2 = s2
    g1 = g1
    g2 = g2
    g3 = g3
    Slaves = {s1, s2}
    Tasks <- TwoTasks
    Plan <- Requests
    PollTime <- Times
    LateAnswers = TRUE
    MaxComing = 4
INVARIANTS
    Attributed
