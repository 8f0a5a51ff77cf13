\* Three keys for two entries, writes through both endpoints.
CONSTANTS
    Threads = {t1, t2, t3}
    Words = {apple, bear}
    RowIds = {id1}
    NoKey = NoKey
    Capacity = 2
    QueryWrites = TRUE
    MaxRequests = 4
SYMMETRY DictSymmetry
SPECIFICATION Spec
INVARIANTS
    KeysUnique
    CopySafe
    FreshUnlessRaced
