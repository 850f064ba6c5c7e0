SPECIFICATION HangSpec
CONSTANTS
    pkgA = pkgA
    pkgB = pkgB
    Names = {pkgA}
    MaxPkgIds = 1
    MaxBuilds = 1
    MaxRef = 1
    Handlers = {h1}
    Requests <- RebuildCancel
    Faults = {}
    WakeCap = 1
    MaxRestarts = 0
    Cleaners = {}
    InitPackages <- PlainPackage
PROPERTIES CancelledIsReleased
CHECK_DEADLOCK FALSE
