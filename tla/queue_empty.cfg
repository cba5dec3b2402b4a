SPECIFICATION Spec
CONSTANTS
    Threads = {t1, t2}
    Entries = {e1, e2}
    Null = Null
INVARIANT IsEmptyIsTrue
