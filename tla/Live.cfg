SPECIFICATION HangSpec
CONSTANTS
    pkgA = pkgA
    pkgB = pkgB
    Names = {pkgA}
    MaxPkgIds = 1
    MaxBuilds = 2
    MaxRef = 1
    Handlers = {h1}
    Requests <- RebuildCancel
    Faults = {}
    WakeCap = 1
    MaxRestarts = 1
    Cleaners = {c}
    InitPackages <- OnePackage
PROPERTIES CancelKills WokenWhenExit
CHECK_DEADLOCK FALSE
