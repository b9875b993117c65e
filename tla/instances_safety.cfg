CONSTANTS
    pack = pack
    pack_1 = pack_1
    pack1 = pack1
    t1 = t1
    t2 = t2
    t3 = t3
    Group = Group
    Absent = Absent
    Ids <- IdsMC
    Things <- ThingsMC
    Fresh <- FreshMC
    Restored <- RestoredMC
    Before <- BeforeMC
    FirstRun = TRUE
    TrashFails = TRUE
    MaxOps = 2
    MaxForeign = 1
SPECIFICATION FairSpec
CHECK_DEADLOCK FALSE
INVARIANTS ListSound
PROPERTIES CreationLands StagingEnds
