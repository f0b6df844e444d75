SPECIFICATION GatewaySpec
CONSTANTS
    e1 = e1
    p1 = p1
    program1 = program1
    program2 = program2
    dir1 = dir1
    dir2 = dir2
    log1 = log1
    log2 = log2
    Executions = {e1}
    Preparations = {p1}
    Programs <- MCPrograms
    Cwds <- MCCwds
    Logs <- MCLogs
    Nothing = Nothing
    MaxChanges = 2
    Commands <- MCCommands
    PathFaults <- MCPathFaults
SYMMETRY MCSymmetry
INVARIANTS
    NoUnauditedRun
    RecordsTruthful
    StaleBindingRefused
    EnforcementHolds
CHECK_DEADLOCK FALSE
