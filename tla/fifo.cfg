SPECIFICATION FairSpec
CONSTANTS
    Threads = {t1, t2}
    Entries = {e1, e2, e3}
    Null = Null
PROPERTIES
    RefinesFifo
    PushAndPopReturn
