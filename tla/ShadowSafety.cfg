SPECIFICATION Spec
CONSTANTS
    r1 = r1
    r2 = r2
    r3 = r3
    alice = alice
    Run = {r1, r2}
    ClusterId = {c1, c2}
    Invocation = {p1}
    MaxConcurrent = 2
    Owner = {alice}
    OwnerOf <- MCOwnerOf
    MaxPerOwner = NoLimit
    UniqueNames = FALSE
    NoRun = NoRun
    NoCluster = NoCluster
    NoOwner = NoOwner
    NoLimit = NoLimit
SYMMETRY MCSymmetry
INVARIANTS TypeOK UsableRowHasSecret SecretLeadsToRowCluster
PROPERTIES NoResurrection WorkingClusterSafe
CHECK_DEADLOCK FALSE
CONSTRAINT SmallWorld
