SPECIFICATION Spec
CONSTANTS
    r1 = r1
    r2 = r2
    r3 = r3
    alice = alice
    Run = {r1, r2, r3}
    ClusterId = {}
    Invocation = {p1}
    MaxConcurrent = 2
    Owner = {alice}
    OwnerOf <- MCOwnerOf
    MaxPerOwner = 1
    UniqueNames = FALSE
    NoRun = NoRun
    NoCluster = NoCluster
    NoOwner = NoOwner
    NoLimit = NoLimit
SYMMETRY MCOwnerSymmetry
INVARIANTS OwnerCap
CHECK_DEADLOCK FALSE
PROPERTIES ImplementsSlotPool
CONSTRAINT OneTeardown
