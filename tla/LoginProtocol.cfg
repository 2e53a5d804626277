\* A client and up to two packets out of the protocol, anywhere.  The thread stops for a
\* closed connection and waits for ever for a silent client, hence no deadlock check.
CONSTANTS
    MaxStrays = 2
    StrayPackets <- MCStrayPackets
CHECK_DEADLOCK FALSE
SPECIFICATION FairSpec
INVARIANTS FormatsAgree PointersLive ScratchReturned
PROPERTY ClientServed
