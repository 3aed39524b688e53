SPECIFICATION Spec
CONSTANTS
    Top = 4
    Lengths = {1, 2}
    MaxRead = 2
    MaxFails = 1
INVARIANTS
    BlockCoversTags
