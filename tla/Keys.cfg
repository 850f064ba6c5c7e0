SPECIFICATION Spec
CONSTANTS
    Clis = {p1, p2}
    Emails = {"paur", "admin"}
    Commands <- AllCommands
    MaxKeys = 2
    MaxRuns = 4
SYMMETRY CliSymmetry
INVARIANTS TypeOK ServedKeysAgree
CHECK_DEADLOCK FALSE
