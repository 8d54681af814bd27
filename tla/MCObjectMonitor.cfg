SPECIFICATION Spec
CONSTANTS
    None = None
    Free = Free
    Listed = Listed
    a = a
    b = b
    Thread = {t1, t2, t3}
    Object = {a, b}
    Monitor = {m1, m2, m3}
    Programs <- MCPrograms
    MaxTokens = 1
CHECK_DEADLOCK FALSE
SYMMETRY Symmetry
INVARIANTS MonitorsAreAccountedFor HoldersOwn NoSleepOnFreeLock
PROPERTIES ImplementsLock
