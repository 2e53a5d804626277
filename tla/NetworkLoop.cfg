\* Three connections, two of them at a time, for three slots; batches of two, so that
\* the ready list can be longer.  The thread ends, hence no deadlock check.
CONSTANTS
    Sockets = {s1, s2, s3}
    Invalid = Invalid
    Garbage = Garbage
    Server = Server
    EventFd = EventFd
    Capacity = 3
    BatchSize = 2
    MaxLive = 2
CHECK_DEADLOCK FALSE
SPECIFICATION FairSpec
INVARIANTS EventsReachTheirConnection NothingLeaks
PROPERTIES PeersAreAccepted HangupsAreNoticed StopEndsThread
