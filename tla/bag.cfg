SPECIFICATION Spec
CONSTANTS
    Threads = {t1, t2, t3}
    Values = {v1, v2, v3, v4}
    Storages = {s1, s2, s3}
    Drainers = {t1, t2, t3}
    Primary = Primary
    ARRAY_LEN = 2
SYMMETRY BagSymmetry
INVARIANTS
    IInv
    NothingLost
    SlotsHaveOneOwner
