SPECIFICATION Spec
CONSTANTS
    pkgA = pkgA
    pkgB = pkgB
    Names = {pkgA}
    MaxPkgIds = 1
    MaxBuilds = 1
    MaxRef = 2
    Handlers = {h1}
    Requests <- Rebuilds
    Faults = {}
    WakeCap = 1
    MaxRestarts = 0
    Cleaners = {}
    InitPackages <- PlainPackage
PROPERTIES RecordedRefWasBuilt
CHECK_DEADLOCK FALSE
