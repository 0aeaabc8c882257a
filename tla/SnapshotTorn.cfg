SPECIFICATION Spec
CONSTANTS
    r1 = r1
    r2 = r2
    Runtimes = {r1}
    QueueCap = 1
    MaxChanges = 2
    MaxRevision = 3
    MaxFaults = 0
INVARIANT WholeSnapshot
CHECK_DEADLOCK FALSE
