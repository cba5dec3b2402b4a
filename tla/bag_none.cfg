SPECIFICATION Spec
CONSTANTS
    Threads = {t1, t2}
    Values = {v1, v2, v3}
    Storages = {s1, s2}
    Drainers = {}
    Primary = Primary
    ARRAY_LEN = 1
SYMMETRY BagSymmetry
PROPERTY PopFindsAny
