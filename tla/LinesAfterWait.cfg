\* Two workers, one client that logs and waits.
SPECIFICATION LoggerSpec
CONSTANTS
    w1 = w1
    w2 = w2
    c1 = c1
    c2 = c2
    Workers = {w1, w2}
    Clients = {c1, c2}
    Threads = {w1, w2, c1, c2}
    Owner = c1
    Elements = {e1}
    NULL = NULL
    Calls <- AddersAndStopper
    process_on_stop_ = FALSE
    MaxBudget = 1
INVARIANT LinesAfterWait
