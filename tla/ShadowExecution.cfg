CONSTANTS
    w1 = w1
    w2 = w2
    Worker = {w1, w2}
    TableCount = 3
    Target = 2
    Statements = 2
    MaxDeliveries = 2
    MaxAttempts = 2
    MaxFaults = 2
    MaxPolls = 2
SYMMETRY MCSymmetry
SPECIFICATION Spec
CONSTRAINT SeededPlainly
CHECK_DEADLOCK FALSE
INVARIANTS TypeOK SeedAccounted OutcomeAgrees
PROPERTY ObservationsFrozen
