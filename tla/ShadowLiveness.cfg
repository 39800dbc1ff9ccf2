SPECIFICATION FairSpec
CONSTANTS
    r1 = r1
    r2 = r2
    r3 = r3
    alice = alice
    Run = {r1}
    ClusterId = {c1}
    Invocation = {p1}
    MaxConcurrent = 1
    Owner = {alice}
    OwnerOf <- MCOwnerOf
    MaxPerOwner = NoLimit
    UniqueNames = FALSE
    NoRun = NoRun
    NoCluster = NoCluster
    NoOwner = NoOwner
    NoLimit = NoLimit
PROPERTIES EveryClusterReaped EverySlotReleased
CHECK_DEADLOCK FALSE
