CONSTANTS
    None = None
    Sources = {1, 2}
    Copied = {}
    Faults <- NoFaults
    PageLimit = 2
    RetryBound = 2
    MaxSequence = 3
    MaxHoles = 0
    MaxCaptures = 1
    MaxUploads = 0
    MaxRepairs = 1
    MaxFaults = 0
    MaxRuns = 4
SPECIFICATION Spec
INVARIANT NoSilentLoss
CHECK_DEADLOCK FALSE
