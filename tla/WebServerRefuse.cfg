\* Three descriptors but only MAX_FD = 2 connections.
CONSTANTS
    Fds = {3, 4, 5}
    listen_fd = 1
    sig_pipe = 2
    Workers = {w1}
    Main = Main
    Timers = {t1, t2, t3}
    NULL = NULL
    Chunks = {"half", "bad"}
    MAX_FD = 2
    QueueRoom = 1
    ResponseParts = 2
    MaxInbox = 1
    MaxDrift = 0
    MaxOvertaken = 0
SPECIFICATION Spec
PROPERTIES
    RefusesOnlyWhenFull
SYMMETRY Symmetry
