CONSTANTS
    jei = jei
    Mods <- ModsMC
    Slugs <- SlugsMC
    MaxOps = 1
    MaxForeign = 1
SPECIFICATION FairFolderSpec
CHECK_DEADLOCK FALSE
INVARIANTS FolderShown
PROPERTIES Settles
