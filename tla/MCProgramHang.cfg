\* A device may keep getData from returning.
SPECIFICATION ProgSpec
CONSTANTS
    MaxFiles = 2
    Nobody = Nobody
    Directories <- OneDirectory
    PromptServer = TRUE
    LinesEnd = FALSE
PROPERTIES
    InterruptExits
\* A thread that goes round in getData for ever takes no step here.
CHECK_DEADLOCK FALSE
