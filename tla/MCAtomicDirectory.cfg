SPECIFICATION Spec
CONSTANTS
    c1 = c1
    c2 = c2
    Committers <- MCCommitters
    Old = Old
    Blocker = Blocker
    EmptyTrees = {c2}
    Absent = Absent
    EmptyHolder = EmptyHolder
    MaxPowerLosses = 1
    MaxForeign = 1
INVARIANTS
    NoTreeLost
    OutcomesHonest
PROPERTIES
    NoClobber
CHECK_DEADLOCK FALSE
