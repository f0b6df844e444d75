SPECIFICATION Spec
CONSTANTS
    c1 = c1
    c2 = c2
    Calls <- MCCalls
    Checked <- MCChecked
    Candidates <- MCCandidates
    Free = Free
INVARIANTS
    VerifiedContent
    ResultsTruthful
PROPERTIES
    Serialized
    CallsFinish
CHECK_DEADLOCK FALSE
