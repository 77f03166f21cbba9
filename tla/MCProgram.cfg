\* Up to two files of every kind, a server that listens in time, lines that end.
SPECIFICATION ProgSpec
CONSTANTS
    MaxFiles = 2
    Nobody = Nobody
    Directories <- SmallDirectories
    PromptServer = TRUE
    LinesEnd = TRUE
INVARIANTS
    ProgTypeOK
    RunsExactlySound
    LimitsHaveBoard
    ExitCode
    OutputOutlivesManagers
PROPERTIES
    InterruptExits
    FailureExits
