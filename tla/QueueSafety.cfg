\* Four threads that may make every call, in any order.
SPECIFICATION Spec
CONSTANTS
    t1 = t1
    t2 = t2
    t3 = t3
    t4 = t4
    Threads = {t1, t2, t3, t4}
    Elements = {e1, e2}
    NULL = NULL
    MayCall <- AnyCall
    MaxBudget = 2
SYMMETRY Symmetry
INVARIANTS TypeOK Ownership StopNotLost PushNotLost DrainNotLost
PROPERTY ImplementsFifo
CHECK_DEADLOCK FALSE
