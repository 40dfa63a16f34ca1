CONSTANTS
    Attempts = {a1, a2}
    Browsers = {b1}
    Threshold = 2
    LockFor = 2
    Lifetime = 3
    IdleTimeout = 1
    MaxGuesses = 4
    MaxTicks = 5
    MaxFaults = 1
SPECIFICATION Spec
CHECK_DEADLOCK FALSE
PROPERTIES
    ThresholdLocks
    LockSticks
    SessionsEnd
