\* Replies that fill the socket while the peer hangs up.
CONSTANTS
    Payload = 1
    RecvCapacity = 2
    Reply = 2
    SockCapacity = 2
    MaxRequests = 3
CHECK_DEADLOCK FALSE
SPECIFICATION Spec
INVARIANT ClosedOnce
