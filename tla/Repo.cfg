SPECIFICATION Spec
CONSTANTS
    Procs = {"one", "other"}
    Files = {"app", "lib", "keyring"}
    MaxOps = 3
    RetryDelays = 1
    PutFaults = {"transient", "permanent", "network"}
    Jobs <- TwoCallers
    Stock = {"app", "lib"}
    HasS3 = TRUE
    Faults = {"container", "sign", "die"}
INVARIANTS TypeOK PublishedInstallable SignedDatabase MirrorServes
PROPERTY ImplementsRepository
CHECK_DEADLOCK FALSE
