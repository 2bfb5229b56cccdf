SPECIFICATION Spec
CONSTANTS
    Release = {ffuf}
    SourceBuilt = {trivy}
    Resourced = {nmap}
    Pip = {bandit}
    Npm = {retire}
    MaxInstalls = 2
    MaxCrashes = 1
INVARIANTS
    TrustedIsWhole
    LaunchedIsPinned
    InstallIsReachable
    CompletedIsTrusted
PROPERTY
    InstallEnds
CHECK_DEADLOCK FALSE
