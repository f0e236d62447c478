SPECIFICATION AdministrationSpec
CONSTANT
    Grants = {1, 2}
    MaxLive = 1
    MaxGeneration = 2
    Rotations = {1, 2}
    Slots = {1, 2}
    MaxFaults = 1
 
 
INVARIANT PublishingSafe
INVARIANT KeysSafe
PROPERTY AdministrationSteps
