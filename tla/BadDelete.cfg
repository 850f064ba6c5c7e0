SPECIFICATION Spec
CONSTANTS
    pkgA = pkgA
    pkgB = pkgB
    Names = {pkgA}
    MaxPkgIds = 1
    MaxBuilds = 1
    MaxRef = 1
    Handlers = {h1}
    Requests <- DeleteRebuild
    Faults = {}
    WakeCap = 1
    MaxRestarts = 0
    Cleaners = {}
    InitPackages <- PlainPackage
INVARIANTS DeletedIsUnlisted
CHECK_DEADLOCK FALSE
