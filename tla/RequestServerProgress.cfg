SPECIFICATION FairSpec
CONSTANTS
    c1 = c1
    c2 = c2
    k1 = k1
    k2 = k2
    k3 = k3
    s1 = s1
    s2 = s2
    s3 = s3
    Consumers = {c1, c2}
    Producer = producer
    NoThread = nothread
    RingSize = 1
    Callers = {k1, k2}
    Socks = {s1, s2}
    SockOf <- SockPerCaller2
    Mortal = {}
    NoRequest = norequest
    Empty = empty
    SnCount = 2
    Spurious = FALSE
    MaxCalls = 2
    MaxEmpty = 1
PROPERTIES
    FullRingDrains
    
CHECK_DEADLOCK FALSE
