\* A cap of one: a clear or a flash call that goes wrong, or six attacks by two tasks.
CONSTANTS
    worker = worker
    intel = intel
    Finishers <- FinishersOne
    Intel <- intel
    MaxSessions = 1
    Cap = 1
    QueueLen = 1
    AppendCompactN = 1
    UpdateCompactN = 1
    MaxAtt = 6
    MaxRev = 2
    MaxId = 7
    MaxBoots = 0
    MaxClears = 1
    MaxFaults = 1
SPECIFICATION Spec
ACTION_CONSTRAINT ManyOrDisturbed
INVARIANT FileBounded
PROPERTY GrowsWithinCap
