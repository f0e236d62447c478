SPECIFICATION OperationsSpec
CONSTANT
    Sources = {1, 2}
    Dispatchers = {d1, d2}
    MaxRevision = 2
    MaxWrites = 1
    MaxAttempts = 2
    MaxClaims = 2
    MaxFaults = 1
    PageSize = 1
SYMMETRY DispatcherSymmetry
 
INVARIANT OperationsSafe
PROPERTY OperationsSteps
