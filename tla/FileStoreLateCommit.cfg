SPECIFICATION FilesSpec
CONSTANTS
    Files = {f1}
    Workers = {w1}
    None = None
    Faults = {"lateCommit"}
INVARIANTS LiveFileHasObject
CHECK_DEADLOCK FALSE
