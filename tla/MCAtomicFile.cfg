SPECIFICATION Spec
CONSTANTS
    w1 = w1
    w2 = w2
    Writers <- MCWriters
    Payload <- MCPayload
    OptionSets <- MCOptionSets
    Platforms = {"native", "windows", "unsupported"}
    MaxBlocks = 1
    Foreign = Foreign
    Absent = Absent
    MaxPowerLosses = 1
    MaxForeign = 1
INVARIANTS
    DestinationIntact
    CallsHonest
PROPERTIES
    NoClobber
    ImplementsRegister
CHECK_DEADLOCK FALSE
