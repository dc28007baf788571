SPECIFICATION FairSpec
CONSTANTS
    Writes = {w1, w2}
    Reads = {q1}
    write = write
    read = read
    Request <- MCRequest
    Event <- MCEvent
    EventOf <- MCEventOf
    ReadRequest = {q1}
    NativeRead = {q1}
    Store = "serializable"
    KafkaEnabled = TRUE
    TTL = 2
    Faults = {"dlq", "metrics", "kafka", "crash", "timeout"}
INVARIANTS
    HeldKeyIsAccounted
    DispatchedOnce
PROPERTIES
    TakenIsSettledOrFreed
CHECK_DEADLOCK FALSE
