SPECIFICATION DeletingSpec
CONSTANTS
    Threads = {t1}
    Entries = {e1, e2}
    Null = Null
PROPERTY PushAndPopReturn
