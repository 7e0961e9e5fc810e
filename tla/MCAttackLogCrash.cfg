\* Restarts and failing flash calls, with updates and evictions, under fairness.
CONSTANTS
    worker = worker
    intel = intel
    Finishers <- FinishersOne
    Intel <- intel
    MaxSessions = 2
    Cap = 1
    QueueLen = 1
    AppendCompactN = 1
    UpdateCompactN = 2
    MaxAtt = 2
    MaxRev = 2
    MaxId = 3
    MaxBoots = 1
    MaxClears = 0
    MaxFaults = 1
SPECIFICATION FairSpec
INVARIANTS UniqueIds CoveredUnlessRacedAndDropped
PROPERTIES FlushedIdsConsumed FlashCatchesUp
