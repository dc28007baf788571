SPECIFICATION Spec
CONSTANTS
    Item = {i1, i2}
    Attempt = {a1, a2}
    Leases = {2, 3}
    Lease = 2
    MaxLease = 3
    MaxStall = 1
    MaxFailures = 2
    KafkaEnabled = FALSE
    Timely = TRUE
    Faults = {"store", "crash"}
SYMMETRY Symmetry
INVARIANTS
    TypeOK
    LeaseExclusive
PROPERTIES
    ResolvedIsFinal
    ImplementsLedger
