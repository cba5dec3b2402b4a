SPECIFICATION AdoptionSpec
CONSTANTS
    Threads = {t1, t2}
    Collectors = {c1, c2, c3, c4}
    Objects = {o1, o2}
    Nested = {o2}
    Retirers = {t2}
    Workers = {t2}
    Suspenders = {t1, t2}
    Tuners = {t2}
    MaxMade = 2
    Null = Null
INVARIANTS ChainSound GarbageKept IInv
PROPERTIES ClearsUnderNoGuard ReclaimedAfterExit
CHECK_DEADLOCK FALSE
