SPECIFICATION Spec
CONSTANTS
    Events = {1, 2}
    Corrupt = {2}
    Workers = {w1, w2}
    Operators = {o1, o2}
    NoWorker = NoWorker
    Gone = Gone
    MaxDeliver = 2
    AttemptCap = 2
    MaxCopies = 2
    PurgeBatch = 1
SYMMETRY Symmetry
INVARIANTS TypeOK ClaimFencing DeadNeverAccepted OneContentPerEvent ListedVersionIsCurrent
PROPERTIES PublishedIsFinal ImplementsContract
CHECK_DEADLOCK FALSE
