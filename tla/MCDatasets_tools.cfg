SPECIFICATION Spec
CONSTANTS
    Runs = {r1, r2}
    Workers = 1
    MaxToolCalls = 3
    RowCounts = {0, 1, 4}
    MaxRows = 3
    HeadRows = 1
    HeadRowsParses = TRUE
    SampleMax = 2
    MinPairs = 3
    MinHistory = 2
    Windows = {0, 3}
    SampleSizes = {0, 3}
    Ops = {"mean"}
INVARIANTS
    TypeOK
    NoBulkRows
    RepliesAreGrounded
PROPERTIES
    HandlesAreStable
    ImplementsStore
SYMMETRY Symmetry
