SPECIFICATION Spec
CONSTANTS
    Clis = {p1}
    Emails = {"paur", "admin"}
    Commands <- AllCommands
    MaxKeys = 2
    MaxRuns = 4
SYMMETRY CliSymmetry
INVARIANTS HealedMatches
CHECK_DEADLOCK FALSE
