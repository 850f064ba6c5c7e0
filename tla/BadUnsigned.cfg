SPECIFICATION Spec
CONSTANTS
    Procs = {"other"}
    Files = {"app", "lib", "keyring"}
    MaxOps = 2
    RetryDelays = 4
    PutFaults = {}
    Jobs <- TwoCallers
    Stock = {"lib"}
    HasS3 = FALSE
    Faults = {}
INVARIANTS RestsSigned
CHECK_DEADLOCK FALSE
