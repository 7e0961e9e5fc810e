\* Every mode, timer, drop, probe and operator command, under fairness.
CONSTANTS
    AttemptWait = 2
    BackoffMs <- BackoffTwo
    Transient = 2
    Permanent = 1
    OutageReboot = 11
    ProbeInterval = 1
    ProbeFailLimit = 2
    ApRetry = 1
    ProbeEnabled = TRUE
    ProbeKick = TRUE
    MaxOps = 1
SPECIFICATION FairSpec
PROPERTIES DropsOnlyLostLinks NeverStranded SettlesOnline
