SPECIFICATION Spec
CONSTANTS
    Events = {1}
    Corrupt = {}
    Workers = {w1}
    Operators = {}
    NoWorker = NoWorker
    Gone = Gone
    MaxDeliver = 2
    AttemptCap = 4
    MaxCopies = 1
    PurgeBatch = 1
INVARIANTS AttemptsBounded
CHECK_DEADLOCK FALSE
