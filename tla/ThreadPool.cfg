\* append, run and the destructor under every interleaving of the threads.
CONSTANTS
    Callers = {c1, c2}
    Workers = {w1, w2}
    Requests = {r1, r2}
    m_max_requests = 1
    MaxSurplus = 1
    Nobody = Nobody
    NoRequest = NoRequest
SPECIFICATION FairSpec
INVARIANTS
    TypeOK
    QueueBound
    NoLostWakeup
PROPERTIES
    ImplementsWorkQueue
    EveryRequestIsRun
\* The pool stops for good when it is destroyed.
CHECK_DEADLOCK FALSE
