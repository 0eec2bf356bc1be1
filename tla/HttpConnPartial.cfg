\* As HttpConn.cfg, for what a client receives.
CONSTANTS
    Scripts <- MCScripts
    Target <- MCTarget
    Length <- MCLength
    KeepAlive = "keep-alive"
    READ_BUFFER_SIZE = 15
    HeaderLen = 2
    FileLen = 2
    MaxClients = 2
SPECIFICATION Spec
INVARIANTS
    ReceivesInOrder
\* All clients are served in the end.
CHECK_DEADLOCK FALSE
