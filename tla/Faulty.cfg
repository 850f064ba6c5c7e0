SPECIFICATION Spec
CONSTANTS
    pkgA = pkgA
    pkgB = pkgB
    Names = {pkgA}
    MaxPkgIds = 1
    MaxBuilds = 2
    MaxRef = 2
    Handlers = {h1}
    Requests <- FaultRequests
    Faults = {"db", "container", "publish", "disconnect"}
    WakeCap = 1
    MaxRestarts = 1
    Cleaners = {}
    InitPackages <- PlainPackage
INVARIANTS IInv
PROPERTIES ImplementsLifecycle
CHECK_DEADLOCK FALSE
