\* Three timers on a wheel of three slots; delays of 1, 3 and 5 ticks.
CONSTANTS
    N = 3
    SI = 1
    Timers = {t1, t2, t3}
    Timeouts = {0, 3, 5}
    MaxRotation = 1
    NULL = NULL
SPECIFICATION FairSpec
INVARIANTS
    TypeOK
    WellLinked
    NoTimerLost
PROPERTIES
    ImplementsTimerSet
    QuietTimerEnds
\* The wheel stops for good when it is destroyed.
CHECK_DEADLOCK FALSE
