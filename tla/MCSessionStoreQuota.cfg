\* Two sessions and their sidecars, two files or three bytes kept, under fairness.
CONSTANTS
    s1 = s1
    s2 = s2
    Sess <- SessTwo
    MaxKeep = 2
    MaxBytes = 3
    MaxRecs = 2
    MaxEvents = 1
SPECIFICATION FairSpec
INVARIANT FilesFit
PROPERTIES QuotaFair QuotaRecovers
