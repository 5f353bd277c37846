\* An instance that threads share, use and drop; the signal finds an idle
\* thread.
SPECIFICATION Spec
CONSTANTS
    t1 = t1
    t2 = t2
    t3 = t3
    t4 = t4
    Threads = {t1, t2, t3, t4}
    NULL = NULL
    MayCall <- Roles
    Interruptible = {t4}
    WaitersHold = TRUE
    MaxBudget = 2
INVARIANTS OneInstance NobodyInDeadInstance LocksReleased
PROPERTY StopReleases
CHECK_DEADLOCK FALSE
