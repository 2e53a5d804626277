\* The login of a client that keeps to the protocol.
CONSTANTS
    MaxStrays = 0
    StrayPackets = {}
CHECK_DEADLOCK FALSE
SPECIFICATION Spec
INVARIANT HandlerKeepsItsMemory
