\* The server may be stopped before it listens.
SPECIFICATION ProgSpec
CONSTANTS
    MaxFiles = 2
    Nobody = Nobody
    Directories <- OneDirectory
    PromptServer = FALSE
    LinesEnd = TRUE
PROPERTIES
    FailureExits
\* The program stops for good while main waits for the server's thread: that
\* is what this run shows, as a violation of FailureExits.
CHECK_DEADLOCK FALSE
