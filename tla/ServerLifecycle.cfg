\* A signal at any time once the event system is up.  The system stops when main
\* returns, hence no deadlock check.
CONSTANTS
    Threads = {signalh}
    SignalThread = signalh
    Main = Main
    NoThread = NoThread
    Codes = {STOP}
    STOP = STOP
    QueueCapacity = 2
    MaxCalls = 1
    Signals = {SIGINT, SIGTERM}
    SignalFrom = {"network_init", "handle_test", "handle_lock", "handle_check", "handle_wait", "process", "handle_unlock"}
CHECK_DEADLOCK FALSE
SPECIFICATION LifeFairSpec
INVARIANT StopsOnlyForSignal
PROPERTIES MutexUsedWhileLive SignalStopsServer
