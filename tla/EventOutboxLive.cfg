SPECIFICATION FairSpec
CONSTANTS
    Events = {1, 2}
    Corrupt = {2}
    Workers = {w1, w2}
    Operators = {}
    NoWorker = NoWorker
    Gone = Gone
    MaxDeliver = 2
    AttemptCap = 2
    MaxCopies = 1
    PurgeBatch = 0
PROPERTIES RowsSettle
CHECK_DEADLOCK FALSE
