CONSTANTS
    k1 = k1  k2 = k2  s1 = s1  s2 = s2  cmd = cmd
    plain = plain  absent = absent  entry = entry  item = item  system = system
    Key = {k1, k2}
    Plain = plain
    Absent = absent
    Row = {entry, item, system}
    TableOf <- MCTableOf
    Server = {s1, s2}
    Cli = cmd
    LagChecks = {TRUE, FALSE}
    SqlStore = TRUE
    MaxCrashes = 1
SPECIFICATION FairSpec
CONSTRAINT OneConcern
INVARIANTS
    TypeOK
    CompletedMeansRotated
    KeyringOpensEverything
    EditsSurvive
    OneHolder
PROPERTY RerunCompletes
CHECK_DEADLOCK FALSE
