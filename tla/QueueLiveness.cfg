\* Four threads with the roles of the tests, no restart(); the producer pops
\* while it has the queue to itself, but for callers of wait().
SPECIFICATION PopSpec
CONSTANTS
    t1 = t1
    t2 = t2
    t3 = t3
    t4 = t4
    Threads = {t1, t2, t3, t4}
    Elements = {e1, e2}
    NULL = NULL
    MayCall <- Roles
    MaxBudget = 2
    Poppers = {t1}
    PopAlone = TRUE
INVARIANTS PopDefined PopDrainNotLost
PROPERTIES StopReleases NoneStranded DrainReleases
CHECK_DEADLOCK FALSE
