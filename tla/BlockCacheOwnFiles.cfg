SPECIFICATION Spec
CONSTANTS
    w1 = w1
    w2 = w2
    b1 = b1
    b2 = b2
    b3 = b3
    b4 = b4
    p1 = p1
    p2 = p2
    Workers = {w1, w2}
    Blocks = {b1, b2, b3, b4}
    NullBlock = nullblock
    Parts = {p1}
    Values = {0, 1}
    Zero = 0
    NoData = nodata
    CacheSize = 2
    MayAccess <- OwnFiles
    MaxTime = 2
SYMMETRY FileSymmetry
INVARIANTS
    TypeOK
    OneCopy
    CleanIsOnDisk
    
    FillIsCurrent
PROPERTIES
    ImplementsStore
