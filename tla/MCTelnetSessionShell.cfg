\* One session, the lines it types, and silence, under fairness.
CONSTANTS
    s1 = s1
    s2 = s2
    Sess <- SessOne
    NoSess = NoSess
    TnMax = 1
    QueueLen = 2
    ZombieMax = 1
    AcceptAfter = 1
    MaxDiscs = 1
    MaxLines = 3
SPECIFICATION FairSpec
INVARIANT CommandsComplete
PROPERTY QuietIsFinalized
