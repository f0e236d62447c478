CONSTANTS
    None = None
    Sources = {1, 2}
    Copied = {}
    Faults <- LostPulls
    PageLimit = 2
    RetryBound = 2
    MaxSequence = 3
    MaxHoles = 0
    MaxCaptures = 0
    MaxUploads = 0
    MaxRepairs = 0
    MaxFaults = 1
    MaxRuns = 4
SPECIFICATION FairSpec
PROPERTY Converges
CHECK_DEADLOCK FALSE
