CONSTANTS
    u1 = u1  u2 = u2  g = g  c1 = c1  c2 = c2
    Call = {c1, c2}
    User = {u1, u2}
    Group = g
    Connectors <- MCConnectors
    Inputs <- MCInputs
    Stores <- MCStores
    PoolConfigs <- MCPoolConfigs
    MaxTries <- MCMaxTries
SPECIFICATION FairSpec
INVARIANTS
    TypeOK
    AnsweredIsVisible
    DeclaredSupport
    PoolsClosed
PROPERTIES
    OnlyOwnFields
    CallsEnd
CHECK_DEADLOCK FALSE
