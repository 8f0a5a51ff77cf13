\* The claim on answers after an insert, with no other way to write.
CONSTANTS
    Threads = {t1, t2}
    Words = {apple}
    RowIds = {id1}
    NoKey = NoKey
    Capacity = 2
    QueryWrites = FALSE
    MaxRequests = 3
SPECIFICATION Spec
INVARIANT
    NoStaleAfterInsert
