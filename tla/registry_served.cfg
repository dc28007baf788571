SPECIFICATION FairSpec
CONSTANTS
    Handler = {h1}
    System = {s1, s2}
    Allowlist = {s1}
    MaxChanges = 3
    MaxFailures = 1
    Quiet = TRUE
    Faults = {"load"}
INVARIANTS
    TypeOK
    CurrentVersionMeansCurrentRows
PROPERTIES
    ChangesArePickedUp
