\* Two sessions, two slots, a queue of one: every owner, race and fallback.
CONSTANTS
    s1 = s1
    s2 = s2
    Sess <- SessTwo
    NoSess = NoSess
    TnMax = 2
    QueueLen = 1
    ZombieMax = 1
    AcceptAfter = 1
    MaxDiscs = 1
    MaxLines = 0
SPECIFICATION Spec
INVARIANTS SlotsAccounted LoggedOnce NoDangling
SYMMETRY SymmetryTwo
