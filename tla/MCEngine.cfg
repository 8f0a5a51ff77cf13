\* Both modes and a registry that is full after one table; no symmetry under
\* liveness.
CONSTANTS
    Threads = {t1, t2}
    Tables = {dictionary, users}
    Dictionary = dictionary
    DictNames = {dictionary}
    Catalog = Catalog
    MaxTables = 1
    SingleModes = {FALSE, TRUE}
    MaxStatements = 2
SPECIFICATION FairSpec
INVARIANTS
    Isolation
    ReadersGuarded
PROPERTY
    StatementEnds
