SPECIFICATION Spec
CONSTANTS
    Writes = {w1, w2}
    Reads = {q1}
    write = write
    read = read
    Request <- MCRequest
    Event <- MCEvent
    EventOf <- MCEventOf
    ReadRequest = {q1}
    NativeRead = {q1}
    Store = "redis"
    KafkaEnabled = TRUE
    TTL = 2
    Faults = {"kafka"}
INVARIANTS
    OneEffect
CHECK_DEADLOCK FALSE
