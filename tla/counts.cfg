SPECIFICATION Spec
CONSTANTS
    Threads = {t1, t2}
    Objects = {o1, o2, o3}
    Handles = {h1, h2}
    SharedCells = {c1}
    OwnedCells = {d1}
    Links = {4}
    Null = Null
SYMMETRY RefCountSymmetry
INVARIANTS NoDangling CountsOwners RetiredOnce MutExclusive IInv
PROPERTY NeverRevived
