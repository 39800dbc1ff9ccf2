SPECIFICATION Spec
CONSTANTS
    big = big
    small = small
    q1 = q1
    p1 = p1
    p2 = p2
    Table = {big, small}
    RowsOf <- MCRowsOf
    Counted = {{big}}
    InitialCatalog <- MCCatalog
    Request = {q1}
    Cockroach = TRUE
    MaxChanges = 1
    Pipe = {p1, p2}
    Statements <- MCStatements
    SqlText <- MCSqlText
    Memories <- MCMemories
    RunOwner = "me"
    RawScores = {10}
    MaxStarts = 2
SYMMETRY MCSymmetry
CONSTRAINT Undecided
INVARIANTS TypeOK SnapshotWasCatalogue PredictionOfOneSnapshot NoOrphanPredicting
CHECK_DEADLOCK FALSE
