SPECIFICATION UploadsFairSpec
CONSTANT
    Slots = {1, 2}
    Tokens = {1, 2, 3, 4, 5}
    MaxRevision = 2
    MaxVersion = 2
    MaxFaults = 1
INVARIANT SmallSafe
PROPERTY CreateSettles
INVARIANT MultiSafe
PROPERTY CleanupSettles
 
 
