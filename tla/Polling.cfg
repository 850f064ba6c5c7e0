SPECIFICATION Spec
CONSTANTS
    pkgA = pkgA
    pkgB = pkgB
    Names = {pkgA}
    MaxPkgIds = 1
    MaxBuilds = 2
    MaxRef = 1
    Handlers = {h1}
    Requests <- PollRequests
    Faults = {"aur"}
    WakeCap = 1
    MaxRestarts = 1
    Cleaners = {}
    InitPackages <- OnePolled
INVARIANTS OnePollBuild
CHECK_DEADLOCK FALSE
