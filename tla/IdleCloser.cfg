\* Three connections, a clock and signals.
CONSTANTS
    Fds = {3, 4, 5}
    listenfd = 1
    pipefd = 2
    NULL = NULL
    Idle = 1
    MaxData = 1
SPECIFICATION FairSpec
INVARIANTS
    TimerPerConnection
    StaleOnlyAfterTick
PROPERTIES
    AlarmKept
    IdleIsClosed
\* The server stops for good after SIGTERM.
CHECK_DEADLOCK FALSE
