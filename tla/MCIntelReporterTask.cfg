\* Each service with its gates and tables; up to three attacks, a fault, a wrap.
CONSTANTS
    Ips = {"a", "b"}
    Setups <- FewSetups
    Hosts = {"geoip", "abuse", "otx", "dshield", "hub"}
    Names = {"n", "m"}
    Slots = 1
    PositiveTtl = 2
    NegativeTtl = 1
    Wrap = 4
    QueueLen = 1
    CdMax = 1
    GeoMax = 1
    PendingMax = 2
    LogCap = 2
    AbuseCd = 2
    OtxCd = 2
    DshieldCd = 1
    DshieldGap = 2
    Backoff = 1
    Casts <- FewCasts
    Budgets = {3, 8}
    MaxEvents = 3
    MaxEventBytes = 3
    LineMax = 3
    HubHad <- OldRows
    MaxNow = 5
SPECIFICATION FairSpec
INVARIANTS BooksKept DshieldTold OnePulse HubHeals UploadFaithful
PROPERTIES IntervalsKept QueueEmpties
CHECK_DEADLOCK FALSE
