SPECIFICATION FairSpec
CONSTANTS
    a1 = a1  a2 = a2
    JobId = {1, 2, 3, 4}
    Activity <- MCActivity
    BatchSize = 2
    RetriesMax = 1
    MaxAborts = 1
INVARIANTS TypeOK NoActivityLost OriginRespected
PROPERTIES DeliversAtLeastOnce QueueDrains
