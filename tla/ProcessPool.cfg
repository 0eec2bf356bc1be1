\* Two children, two clients, signals and deaths at any moment.
CONSTANTS
    m_process_number = 2
    Clients = {c1, c2}
    MaxCgi = 1
SPECIFICATION FairSpec
INVARIANTS
    KnowsTheDead
    IntsHaveClients
PROPERTIES
    ParentFollows
    TermEndsChildren
\* All processes end for good.
CHECK_DEADLOCK FALSE
