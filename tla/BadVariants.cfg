SPECIFICATION FairSpec
CONSTANTS
    pkgA = pkgA
    pkgB = pkgB
    Names = {pkgA}
    MaxPkgIds = 1
    MaxBuilds = 2
    MaxRef = 1
    Handlers = {h1}
    Requests <- Rebuilds
    Faults = {}
    WakeCap = 1
    MaxRestarts = 0
    Cleaners = {}
    InitPackages <- OnePackage
PROPERTIES EveryBuildRuns
CHECK_DEADLOCK FALSE
