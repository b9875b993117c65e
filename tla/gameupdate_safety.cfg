CONSTANTS
    forge = forge
    mc = mc
    lwjgl = lwjgl
    MetaIndex = MetaIndex
    UidOrder <- OrderMC
    Versions <- Two
    Info <- InfoMC
    Minecraft = mc
    HardCoded <- HardCodedMC
    Served <- ServedMC
    OnDisk <- DiskMC
    FirstLists <- FirstMC
    Undeletable <- StuckMC
    DiskFails = TRUE
    MaxEdits = 1
    MaxUpdates = 1
SPECIFICATION FairSpec
CHECK_DEADLOCK FALSE
INVARIANTS ListKept 
PROPERTIES TaskKeepsChoice  
