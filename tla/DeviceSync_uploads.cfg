CONSTANTS
    None = None
    Sources = {1, 2}
    Copied = {2}
    Faults <- InterruptedWrites
    PageLimit = 2
    RetryBound = 2
    MaxSequence = 4
    MaxHoles = 1
    MaxCaptures = 1
    MaxUploads = 2
    MaxRepairs = 2
    MaxFaults = 1
    MaxRuns = 4
SPECIFICATION Spec
PROPERTY NoVaultRegression
CHECK_DEADLOCK FALSE
