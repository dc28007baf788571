SPECIFICATION FairSpec
CONSTANTS
    Request = {r1, r2}
    e1 = e1
    Event = {e1}
    EventOf <- MCEventOf
    Resent = {r1}
    p1 = p1
    p2 = p2
    Partition = {p1, p2}
    PartitionOf <- MCPartitionOf
    TTL = 2
    MaxDeaths = 2
    Faults = {"enqueue", "decode", "dlq"}
INVARIANTS
    TypeOK
    RepeatsNeedDeaths
    OneMessagePerEvent
PROPERTIES
    ProcessedIsSettled
CHECK_DEADLOCK FALSE
