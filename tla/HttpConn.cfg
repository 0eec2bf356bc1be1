\* Every way to cut the requests of two clients into pieces, in both modes.
CONSTANTS
    Scripts <- MCScripts
    Target <- MCTarget
    Length <- MCLength
    KeepAlive = "keep-alive"
    READ_BUFFER_SIZE = 15
    HeaderLen = 2
    FileLen = 2
    MaxClients = 2
SPECIFICATION Spec
INVARIANTS
    TypeOK
    AnswersInTurn
    WaitsOnlyForBytes
    MappedWhileSending
    NoMappingLost
PROPERTIES
    KeepAliveKept
\* All clients are served in the end.
CHECK_DEADLOCK FALSE
