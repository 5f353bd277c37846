\* Two threads that look up, edit and clear keys with a common prefix.
SPECIFICATION Spec
CONSTANTS
    Threads = {t1, t2}
    Root = root
    Nodes = {root, n1, n2, n3}
    NULL = NULL
    Symbols = {"a", "b"}
    Keys <- SharedPrefix
    MaxCalls = 2
SYMMETRY Symmetry
INVARIANTS OneNodePerPath ReadersFind
PROPERTY ImplementsMap
CHECK_DEADLOCK FALSE
