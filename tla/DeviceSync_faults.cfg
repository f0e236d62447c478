CONSTANTS
    None = None
    Sources = {1, 2}
    Copied = {2}
    Faults <- AllFaults
    PageLimit = 2
    RetryBound = 2
    MaxSequence = 3
    MaxHoles = 1
    MaxCaptures = 0
    MaxUploads = 1
    MaxRepairs = 1
    MaxFaults = 2
    MaxRuns = 4
SPECIFICATION Spec
INVARIANT TypeOK
INVARIANT NoSilentLoss
INVARIANT DebtIsPayable
INVARIANT CursorsAgree
PROPERTY CursorSpec
CHECK_DEADLOCK FALSE
