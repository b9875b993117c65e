CONSTANTS
    p1 = p1
    p2 = p2
    n1 = n1
    n2 = n2
    i1 = i1
    NoFile = NoFile
    Paths <- TwoPaths
    Names <- TwoNames
    Flats <- ApartOrMerged
    Mirrors <- UpToTwo
    Instances <- OneInstance
SPECIFICATION Spec
CHECK_DEADLOCK FALSE
INVARIANTS InstallSound
PROPERTIES ChecksEnd
