CONSTANTS
    Faults <- AllFaults
    MaxBody = 2
    MaxRedirects = 2
    MaxStarts = 3
    MaxAborts = 2
SPECIFICATION FairSpec
CHECK_DEADLOCK FALSE
INVARIANTS ReportedOnce BodySound
PROPERTIES DiskIntact Reports
