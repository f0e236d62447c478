SPECIFICATION BackgroundFairSpec
CONSTANT
    Events = {1}
    Dispatchers = {1, 2}
    BatchLimit = 2
    MaxFaults = 2
PROPERTY PreviewSettles
INVARIANT OutboxSafe
PROPERTY IntentSettles
INVARIANT RecoverySafe
PROPERTY BackupEnds
PROPERTY BackgroundSteps
