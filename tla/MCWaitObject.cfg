SPECIFICATION FairSpec
CONSTANTS
    None = None
    t1 = t1
    t2 = t2
    t3 = t3
    m = m
    s = s
    a = a
    e = e
    Thread = {t1, t2, t3}
    Mutex = {m}
    Semaphore = {s}
    AutoEvent = {a}
    ManualEvent = {e}
    MaxCount = 2
    MaxDepth = 2
    Programs <- MCPrograms
CHECK_DEADLOCK FALSE
INVARIANTS FreeMeansNoOwner NoLostWakeup
PROPERTIES AvailableIsTaken CallsAreHandled
