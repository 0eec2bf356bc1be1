\* Two callers and two workers around a ring of two slots.
CONSTANTS
    Callers = {c1, c2}
    Workers = {w1, w2}
    MaxLines = 3
    max_size = 2
SPECIFICATION FairSpec
INVARIANTS
    EachLineOnce
PROPERTIES
    ImplementsBuffer
    StopDrains
\* The workers leave after stop().
CHECK_DEADLOCK FALSE
