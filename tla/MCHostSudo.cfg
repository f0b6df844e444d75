SPECIFICATION Spec
CONSTANTS
    Requests <- MCRequests
    Hosts <- MCHosts
    Variables = {"PATH", "A", "B"}
    Managers = {"apt-get", "brew"}
    Unprivileged = {"brew"}
    StandardDirs <- MCStandardDirs
    TrustedPath <- MCTrustedPath
    Here = "."
    NoDirectory = "no directory"
    Limits <- MCLimits
    NoLimit = NoLimit
    MaxWrites = 2
PROPERTY
    ElevatedTargetGetsOverlay
CHECK_DEADLOCK FALSE
