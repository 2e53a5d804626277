\* Packets of three units, a receive buffer that holds no more than their payload,
\* replies larger than what the socket has room for.  The thread stops for a closed
\* connection and for an abort, hence no deadlock check.
CONSTANTS
    Payload = 2
    RecvCapacity = 2
    Reply = 2
    SockCapacity = 3
    MaxRequests = 3
CHECK_DEADLOCK FALSE
SPECIFICATION FairSpec
INVARIANTS TypeOK NeverDeaf NothingStranded BytesConserved
PROPERTIES RequestsHandled RepliesArrive HangupCloses
