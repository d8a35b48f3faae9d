SPECIFICATION Spec
CONSTANTS
    main = main
    t1 = t1
    t2 = t2
    t3 = t3
    Threads = {main, t1, t2, t3}
    Main = main
    NoThread = nothread
    Monitors = {m1, m2}
    SleepTicks = {1, 2}
SYMMETRY ThreadSymmetry

    
PROPERTIES
    
    ImplementsMonitor
CHECK_DEADLOCK FALSE
