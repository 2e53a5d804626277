\* Four slots and writes of up to three bytes: regions, reads, prefixes, packets and the
\* cipher around the end of the storage and up to the last byte.  A buffer without room
\* for a write aborts the process, hence no deadlock check.
CONSTANTS
    Bytes = {a, b}
    Garbage = Garbage
    Capacity = 4
    MaxChunk = 3
    Users = {"recv", "scratch", "send"}
CHECK_DEADLOCK FALSE
SPECIFICATION Spec
PROPERTY FifoButAtTheEnd
