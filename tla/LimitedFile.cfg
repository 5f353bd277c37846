\* Two threads; a file has room for one short line, or two when the first time
\* was a short one; two long lines have none even alone.
SPECIFICATION Spec
CONSTANTS
    Threads = {t1, t2}
    NULL = NULL
    Absent = Absent
    Limit = 12
    Texts = {1, 8}
    ShortTime = 1
    LongTime = 3
    MaxMessages = 3
    MaxCopies = 2
    MaxRecopies = 1
    MaxFaults = 2
SYMMETRY Symmetry
INVARIANTS NewestKept WithinLimit SwallowedLess
PROPERTY DroppedForNewer
CHECK_DEADLOCK FALSE
