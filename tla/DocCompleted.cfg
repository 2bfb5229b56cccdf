SPECIFICATION Spec
CONSTANTS
    Release = {ffuf}
    SourceBuilt = {trivy}
    Resourced = {nmap}
    Pip = {bandit}
    Npm = {retire}
    MaxInstalls = 2
    MaxCrashes = 1
INVARIANT
    CompletionIsVerified
CHECK_DEADLOCK FALSE
