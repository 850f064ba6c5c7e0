SPECIFICATION Spec
CONSTANTS
    pkgA = pkgA
    pkgB = pkgB
    Names = {pkgA, pkgB}
    MaxPkgIds = 2
    MaxBuilds = 2
    MaxRef = 1
    Handlers = {h1, h2}
    Requests <- Registry
    Faults = {}
    WakeCap = 1
    MaxRestarts = 0
    Cleaners = {}
    InitPackages <- PlainPackage
SYMMETRY HandlerSymmetry
INVARIANTS TypeOK RunningIsHeld
CHECK_DEADLOCK FALSE
