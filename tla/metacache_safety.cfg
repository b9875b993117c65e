SPECIFICATION CacheSpec
CONSTANTS
    d1 = d1
    d2 = d2
    Downloads <- DownloadsMC
    MaxVersion = 2
    MaxTime = 2
    Lifetimes = {1, 3}
    QuietDownloads = TRUE
SYMMETRY DownloadSymmetry
CHECK_DEADLOCK FALSE
INVARIANTS IndexFollows ServedGenuine
