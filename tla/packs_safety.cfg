CONSTANTS
    config = config
    options = options
    Mods <- ModsMC
    Overrides <- OverridesMC
    DownloadsFail = TRUE
    DiskFails = TRUE
SPECIFICATION Spec
CHECK_DEADLOCK FALSE
INVARIANTS PackSound Complete
