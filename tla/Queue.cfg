SPECIFICATION Spec
CONSTANTS
    pkgA = pkgA
    pkgB = pkgB
    Names = {pkgA}
    MaxPkgIds = 1
    MaxBuilds = 3
    MaxRef = 1
    Handlers = {h1, h2}
    Requests <- RebuildCancel
    Faults = {"publish"}
    WakeCap = 1
    MaxRestarts = 1
    Cleaners = {}
    InitPackages <- OnePackage
SYMMETRY HandlerSymmetry
INVARIANTS NoWakeLost PublishedSucceeded NothingLeftBehind
CHECK_DEADLOCK FALSE
