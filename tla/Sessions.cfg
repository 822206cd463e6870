SPECIFICATION Spec
CONSTANTS
    Session = {s1, s2}
    Attempt = {a1, a2}
    MaxFailedAttempts = 3
    LeftToRight = TRUE
    MaxTokens = 3
    MaxPasswords = 2
INVARIANTS TypeOK OnlyCurrentPassword ReplayRevokes
PROPERTIES RevokedIsFinal LockHolds
SYMMETRY Symmetry
CHECK_DEADLOCK FALSE
