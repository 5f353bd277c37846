\* wait_for_stop() before init().
SPECIFICATION Spec
CONSTANTS
    t1 = t1
    t2 = t2
    t3 = t3
    t4 = t4
    Threads = {t1}
    NULL = NULL
    MayCall <- Main
    Interruptible = {}
    WaitersHold = FALSE
    MaxBudget = 2
PROPERTY InitReturns
CHECK_DEADLOCK FALSE
