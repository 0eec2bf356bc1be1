\* Two workers that compete with the event loop; bad and huge requests.
CONSTANTS
    Fds = {3, 4}
    listen_fd = 1
    sig_pipe = 2
    Workers = {w1, w2}
    Main = Main
    Timers = {t1, t2}
    NULL = NULL
    Chunks = {"half", "bad", "huge"}
    MAX_FD = 2
    QueueRoom = 1
    ResponseParts = 2
    MaxInbox = 1
    MaxDrift = 0
    MaxOvertaken = 0
SPECIFICATION Spec
INVARIANTS
    TypeOK
    OneOwner
    NeverForgotten
    TimerPerConnection
    NoUseAfterFree
    UserCountExact
SYMMETRY Symmetry
PROPERTIES
    AnsweredBeforeReset
