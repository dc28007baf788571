SPECIFICATION Spec
CONSTANTS
    Writes = {w1, w2, w3}
    Reads = {q1}
    write = write
    read = read
    Request <- MCRequest
    Event <- MCEvent
    EventOf <- MCEventOf
    ReadRequest = {q1}
    NativeRead = {q1}
    Store = "redis"
    KafkaEnabled = TRUE
    TTL = 2
    Faults = {"store", "dlq", "crash", "timeout"}
SYMMETRY Symmetry
INVARIANTS
    TypeOK
    OneEffect
    DispatchedOnce
    DuplicateWasSeen
CHECK_DEADLOCK FALSE
