\* The claim of thread safety, for the index that SELECT builds.
CONSTANTS
    Threads = {t1, t2}
    Tables = {dictionary, users}
    Dictionary = dictionary
    DictNames = {dictionary}
    Catalog = Catalog
    MaxTables = 2
    SingleModes = {FALSE}
    MaxStatements = 2
SPECIFICATION Spec
INVARIANT
    IndexSafe
