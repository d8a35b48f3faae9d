SPECIFICATION Spec
CONSTANTS
    name1 = name1
    name2 = name2
    Names = {name1, name2}
    NoName = noname
    ItabSize = 5
    FirstBlock = 1
    NumBlocks = 5
    BlockSize = 2
    InodeNumBlks = 2
    InodeCacheSize = 2
    DirPageEntries = 2
    DirCacheSize = 2
    Offsets = {0}
    Counts = {2}
    Junk = {0, 3}
    Setup <- NoSetup
    MaxPath = 1
    MaxTime = 1
INVARIANTS
    WriteIsVisible
CHECK_DEADLOCK FALSE
