\* Two tables that share the caches, one or both with an id column; ids that
\* INSERT chooses, ids that are no number.  One entry in the meta cache and in
\* the list of built tables, as the sixteen of the code are fewer than its
\* trees.
CONSTANTS
    Tables = {words, notes}
    IdTableSets = {{words, notes}, {words}, {notes}}
    UserIds <- AnyUserIds
    MetaMax = 1
    TreeMax = 2
    FpMax = 1
    Rewrites = {"done", "lost", "crash"}
    MaxRows = 2
    MaxTotal = 2
    MaxId = 2
SYMMETRY TableSymmetry
SPECIFICATION Spec
INVARIANTS
    LookupExact
    RowNumbersExact
    AutoIdsFresh
