CONSTANTS
    t1 = t1  t2 = t2
    Tab = {t1, t2}
    Editor = {t1, t2}
    Modes <- MCModes
    MaxSessions = 3
    StoredConfigs <- MCStoredConfigs
    Text <- MCText
    Numbers <- MCNumbers
    StringOf <- MCStringOf
    ParsedAs <- MCParsedAs
    NewValues <- MCNewValues
    MaxSaves = 3
    MaxIds = 2
SPECIFICATION FairSpec
CONSTRAINT OneConcern
INVARIANTS
    TypeOK
    NoMaskStored
PROPERTIES
    
    LogoutIsFinal
    RefusedTabRecovers
CHECK_DEADLOCK FALSE
