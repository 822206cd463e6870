SPECIFICATION Spec
CONSTANTS
    Session = {s1}
    Attempt = {a1}
    MaxFailedAttempts = 1
    LeftToRight = TRUE
    MaxTokens = 2
    MaxPasswords = 1
INVARIANTS InactiveHasNoSession
CHECK_DEADLOCK FALSE
