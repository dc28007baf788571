SPECIFICATION Spec
CONSTANTS
    StoredPolicies <- MCStoredPolicies
    LeaseSetting = 300
    Steps = 3
    MaxEdits = 1
INVARIANTS
    TypeOK
PROPERTIES
    BackoffGrows
CHECK_DEADLOCK FALSE
