\* A processor with process_on_stop, stopped while tasks are added.
SPECIFICATION Spec
CONSTANTS
    w1 = w1
    w2 = w2
    c1 = c1
    c2 = c2
    Workers = {w1, w2}
    Clients = {c1, c2}
    Threads = {w1, w2, c1, c2}
    Owner = c1
    Elements = {e1, e2}
    NULL = NULL
    Calls <- AddAndStop
    process_on_stop_ = TRUE
    MaxBudget = 1
INVARIANTS WaitDrains EarlyDrained
PROPERTIES DestructorEnds WaitReturns
