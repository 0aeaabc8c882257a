SPECIFICATION FairSpec
CONSTANTS
    r1 = r1
    r2 = r2
    Runtimes = {r1}
    QueueCap = 1
    MaxChanges = 1
    MaxRevision = 2
    MaxFaults = 1
INVARIANT TypeOK
INVARIANT SettledRedis
INVARIANT RevisionIsStored
INVARIANT MemoryIsStored
PROPERTY RevisionConverges
CHECK_DEADLOCK FALSE
