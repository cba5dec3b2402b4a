SPECIFICATION FairSpec
CONSTANTS
    Threads = {t1, t2}
    Collectors = {c1, c2}
    Objects = {o1}
    NoCollector = NoCollector
    NUM_EPOCHS = 4
    CADENCE = 2
    MaxReaders = 1
    Retirers = {t1, t2}
    Suspenders = {}
    Tuners = {t1, t2}
    Panicky = {}
INVARIANT TypeOK
PROPERTY EventuallyReclaimed
