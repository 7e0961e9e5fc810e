\* Two clients with four messages, a power cut, and settings that change, under fairness.
CONSTANTS
    Thresholds <- ThresholdsTwo
    Idle = 2
    MaxKeys = 1
    QueueLen = 1
    MaxSessions = 2
    MaxMsgs = 4
    MaxBoots = 1
SPECIFICATION FairSpec
INVARIANTS EveryClientLogged HandOver ShellEarned
PROPERTY ListenerServes
