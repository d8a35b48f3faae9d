SPECIFICATION CSpec
CONSTANTS
    name1 = name1
    name2 = name2
    name3 = name3
    name4 = name4
    p1 = p1
    p2 = p2
    Names = {name1, name2, name3, name4}
    NoName = noname
    ItabSize = 9
    FirstBlock = 1
    NumBlocks = 8
    BlockSize = 2
    InodeNumBlks = 4
    InodeCacheSize = 2
    DirPageEntries = 2
    DirCacheSize = 2
    Offsets = {0}
    Counts = {2, 4}
    Junk = {0}
    MaxPath = 2
    MaxTime = 2
    Workers = {p1, p2}
    Requests <- FewRequests
    MaxRequests = 3
    Setup <- FullRoot
SYMMETRY WorkerSymmetry
INVARIANTS
    JobsOK
    SharingNeedsRace
    StrayTransferNeedsRace
    BrokenTreeNeedsRace
    
    LyingPageNeedsRace
    
CHECK_DEADLOCK FALSE
