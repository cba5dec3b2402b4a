SPECIFICATION Spec
CONSTANTS
    Threads = {t1, t2, t3}
    Collectors = {c1, c2, c3}
    Objects = {o1}
    NoCollector = NoCollector
    NUM_EPOCHS = 8
    CADENCE = 1
    MaxReaders = 1
    Retirers = {t1}
    Suspenders = {}
    Tuners = {t2}
    Panicky = {}
CONSTRAINT BeforeWrap
SYMMETRY CollectorSymmetry
INVARIANT GuardProtects
