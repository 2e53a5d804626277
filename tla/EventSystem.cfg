\* Two callers of all three operations, on one registered and one unregistered
\* event, with a queue that overflows.  The process may crash, hence no deadlock check.
CONSTANTS
    Threads = {t1, t2}
    Main = Main
    NoThread = NoThread
    Codes = {STOP, OTHER}
    STOP = STOP
    QueueCapacity = 2
    MaxCalls = 2
CHECK_DEADLOCK FALSE
SPECIFICATION FairSpec
INVARIANTS TypeOK SleepCovered
PROPERTY StopEndsHandler
