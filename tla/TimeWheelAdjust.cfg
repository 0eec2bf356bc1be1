\* The wheel of the server: 60 slots of one second, every delay 3 seconds.
CONSTANTS
    N = 60
    SI = 1
    Timers = {t1}
    Timeouts = {3}
    MaxRotation = 0
    NULL = NULL
SPECIFICATION Spec
PROPERTIES
    AdjustRenews
CHECK_DEADLOCK FALSE
