\* An order that is not its own inverse.
SPECIFICATION CodecSpec
CONSTANTS
    MaxAddress = 2
    Orders <- Rotation
    Slaves <- SmallSlaves
INVARIANTS
    OrderAsDocumented
\* A slave that has been refused or read is done with.
CHECK_DEADLOCK FALSE
