\* Registers of one and of two words at addresses 0 to 3; talkers of two and
\* of three sentences; modules of one to four instances at offsets 1 to 5 and
\* more.
SPECIFICATION ProtocolsSpec
CONSTANTS
    MaxAddress = 3
    Orders <- Pairs
    Slaves <- SmallSlaves
    Talks <- ThreeTalks
    Configured <- Known
    MaxDamage = 2
    MaxOffset = 5
    MaxTime = 3
    Rigs <- AllRigs
    Lines <- AllLines
INVARIANTS
    SpacingExact
    PlanExact
    FieldsExact
    NmeaTypeOK
    Unmixed
    OnceInOrder
    Heard
    OffsetsExact
    OwnPoints
    MappingExact
    LineAsAsked
PROPERTIES
    HeardAtLast
