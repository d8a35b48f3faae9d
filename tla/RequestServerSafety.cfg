SPECIFICATION Spec
CONSTANTS
    c1 = c1
    c2 = c2
    k1 = k1
    k2 = k2
    k3 = k3
    s1 = s1
    s2 = s2
    s3 = s3
    Consumers = {c1, c2}
    Producer = producer
    NoThread = nothread
    RingSize = 2
    Callers = {k1, k2, k3}
    Socks = {s1, s2, s3}
    SockOf <- SockPerCaller
    Mortal = {s3}
    NoRequest = norequest
    Empty = empty
    SnCount = 2
    Spurious = TRUE
    MaxCalls = 1
    MaxEmpty = 1
SYMMETRY ConsumerSymmetry
INVARIANTS
    TypeOK
    NoLostWakeup
    RequestConserved
    
    
PROPERTIES
    ImplementsQueue
CHECK_DEADLOCK FALSE
