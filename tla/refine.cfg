SPECIFICATION ForwardSpec
CONSTANTS
    Threads = {t1, t2}
    Collectors = {c1, c2}
    Objects = {o1, o2}
    NoCollector = NoCollector
    NUM_EPOCHS = 4
    CADENCE = 1
    MaxReaders = 2
    Retirers = {t1}
    Suspenders = {t1}
    Tuners = {t2}
    Panicky = {o1, o2}
SYMMETRY CollectorSymmetry
INVARIANTS
    ScanExclusive
    GarbageConserved
    GarbageReachable
    ThreadsRegistered
    IInv
    GuardProtects
PROPERTY RefinesDealloc
CHECK_DEADLOCK FALSE
