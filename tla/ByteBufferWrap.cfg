\* The send buffer alone.  A buffer without room for a write aborts the process, hence
\* no deadlock check.
CONSTANTS
    Bytes = {a, b}
    Garbage = Garbage
    Capacity = 4
    MaxChunk = 3
    Users = {"send"}
CHECK_DEADLOCK FALSE
SPECIFICATION Spec
PROPERTY ImplementsFifo
