SPECIFICATION Spec
CONSTANTS
    TagNames <- MCTagNames
    Registrations <- MCRegistrations
    BaseOrder <- MCBaseOrder
    InputBases <- MCInputBases
    Types <- MCTypes
    Values = {0, 2}
    SendsPartly = TRUE
    MaxSeq = 3
    MaxTrouble = 2
INVARIANTS
    FramesSentWhole
