SPECIFICATION FilesFairSpec
CONSTANTS
    Files = {f1}
    Workers = {w1}
    None = None
    Faults = {"lockLoss", "lateCommit"}
INVARIANTS FilesMatchObjects IntentDecidesUpload
PROPERTIES RepairsFinish
CHECK_DEADLOCK FALSE
