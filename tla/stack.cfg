SPECIFICATION FairSpec
CONSTANTS
    Threads = {t1, t2}
    Entries = {e1, e2, e3}
    Stacks = {s1, s2}
    Main = s1
    Null = Null
    Depth = 1
    Pushers = {t1}
    Poppers = {t2}
    Readers = {t2}
    Owners = {t2}
    Editors = {t1}
    Inserts = {e3}
INVARIANTS
    VisitsAll
    IInv
PROPERTIES
    RefinesLifo
    TakesNewest
    OperationsReturn
