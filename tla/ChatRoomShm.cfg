\* Room for two of three clients, which are interchangeable.
CONSTANTS
    Pids = {p1, p2, p3}
    USER_LIMIT = 2
    listenfd = 1
    sigfd = 2
    NULL = NULL
    MaxSays = 2
SPECIFICATION Spec
INVARIANTS
    UserCountExact
    TableRight
PROPERTIES
    NoEcho
SYMMETRY Symmetry
\* The server stops for good at SIGTERM or when nobody is left.
CHECK_DEADLOCK FALSE
