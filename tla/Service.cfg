\* Two threads that give five commands in all: the service is stopped, deleted,
\* installed and started again while other commands are on their way, and
\* Windows may shut down at any time.
SPECIFICATION Spec
CONSTANTS
    Commands = {c1, c2}
    NULL = NULL
    MaxRuns = 5
INVARIANT StatusHonest
PROPERTIES CommandsReturn DeletedGoes
CHECK_DEADLOCK FALSE
