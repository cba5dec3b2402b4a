SPECIFICATION GenerationSpec
CONSTANTS
    Threads = {t1, t2, t3}
    Collectors = {c1, c2, c3}
    Objects = {o1}
    NoCollector = NoCollector
    NUM_EPOCHS = 5
    CADENCE = 1
    MaxReaders = 1
    Retirers = {t1, t2}
    Suspenders = {}
    Tuners = {}
    Panicky = {}
SYMMETRY CollectorSymmetry
INVARIANTS
    SameGenerationIfHeld
    GuardHoldsEpoch
    GenerationInv
