SPECIFICATION Spec
CONSTANTS
    w1 = w1
    w2 = w2
    q1 = q1
    q2 = q2
    q3 = q3
    r1 = r1
    r2 = r2
    Request = {q1, q2, q3}
    User = {alice, bob}
    Workspace = {w1, w2}
    Invite = {i1}
    Name = {n1}
    Repo = {repo1}
    Account = {a1}
    Commit = {c1}
    Run = {r1, r2}
    RepoOf <- MCRepoOf
    None = None
    Gone = Gone
CONSTRAINT Apart
SYMMETRY MCSymmetry
INVARIANTS TypeOK AcceptedIsMember ReadyFindsLink OnePostPerEnd
CHECK_DEADLOCK FALSE
