\* A timer that is begun at most once and ended by two callers, by its
\* method and by its destructor.
SPECIFICATION Spec
CONSTANTS
    c1 = c1
    c2 = c2
    Callers = {c1, c2}
    Owner = c1
    Runners = {r1}
    NULL = NULL
    EndsInside = TRUE
    MaxUses = 2
INVARIANTS EndNotMissed OneLateCall
PROPERTY DestructorEnds
