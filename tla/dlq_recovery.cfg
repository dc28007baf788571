SPECIFICATION FairSpec
CONSTANTS
    Item = {i1}
    Attempt = {a1, a2}
    Leases = {1, 2}
    Lease = 1
    MaxLease = 2
    MaxStall = 1
    MaxFailures = 2
    KafkaEnabled = TRUE
    Timely = FALSE
    Faults = {"metrics", "store", "kafka", "crash", "redeliver"}
PROPERTIES
    RetryingEnds
    SkipBindsLaterClaims
