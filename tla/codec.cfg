SPECIFICATION FairSpec
CONSTANTS
    WordBits = 16
    TagBits = 8
    Nil = Nil
    Types <- MessageTypes
    Fields <- Schema
    Zero <- Reset
    Inputs <- MCInputs
    Samples <- MCSamples
    Alphabet = {0, 1, 2, 10, 16, 59, 60, 255}
    MaxLength = 4
    Enumerated = {"ScheduledCall", "Params"}
INVARIANTS
    TypeOK
    InBounds
    AgreesWithFormat
    RoundTrip
    Filled
    Canonical
PROPERTIES
    MovesOn
    Terminates
CHECK_DEADLOCK FALSE
