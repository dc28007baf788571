SPECIFICATION FairSpec
CONSTANTS
    Handler = {h1}
    System = {s1}
    Allowlist = {}
    MaxChanges = 2
    MaxFailures = 0
    Quiet = FALSE
    Faults = {}
PROPERTIES
    ChangesArePickedUp
