SPECIFICATION FairMutexSpec
CONSTANTS
    c1 = c1
    c2 = c2
    k1 = k1
    k2 = k2
    k3 = k3
    s1 = s1
    s2 = s2
    s3 = s3
    Consumers = {c1, c2}
    Producer = producer
    NoThread = nothread
    RingSize = 2
    Callers = {k1}
    Socks = {s1}
    SockOf <- SockOfOne
    Mortal = {}
    NoRequest = norequest
    Empty = empty
    SnCount = 2
    Spurious = FALSE
    MaxCalls = 1
    MaxEmpty = 0
PROPERTIES
    CallReturns
CHECK_DEADLOCK FALSE
