\* One worker under fair scheduling.
CONSTANTS
    Fds = {3, 4}
    listen_fd = 1
    sig_pipe = 2
    Workers = {w1}
    Main = Main
    Timers = {t1, t2}
    NULL = NULL
    Chunks = {"half"}
    MAX_FD = 2
    QueueRoom = 1
    ResponseParts = 1
    MaxInbox = 1
    MaxDrift = 0
    MaxOvertaken = 0
SPECIFICATION FairSpec
PROPERTIES
    
    EverythingIsRead
    EveryRequestIsAnswered
