\* Two managers that print their readings.
SPECIFICATION ProgSpec
CONSTANTS
    MaxFiles = 2
    Nobody = Nobody
    Directories <- OneDirectory
    PromptServer = TRUE
    LinesEnd = TRUE
INVARIANTS
    OwnTimes
