\* Four segments on one line or three on two, over two paths, with scripts in scripts.
CONSTANTS
    Parts = {"tmp", "root", "a"}
    Args <- FewArgs
    Redirects <- FewRedirects
    Scripts = {"a"}
    Urls = {"u"}
    MaxCommands = 2
    MaxFiles = 2
    MaxProcs = 1
    HistMax = 1
    SummaryMax = 2
    MaxDepth = 1
    MaxSegments = 4
SPECIFICATION Spec
INVARIANTS FilesHold  PayloadTold
PROPERTY DiskIsAMap
CHECK_DEADLOCK FALSE
