SPECIFICATION Spec
SYMMETRY MCSymmetry
CONSTANTS
    i1 = i1
    i2 = i2
    i3 = i3
    Invocation = {i1, i2, i3}
    NoInvocation = NoInvocation
    RetryBound = 1
INVARIANTS SucceededIsComplete OkWasApplied NothingLeftAtWork
PROPERTIES ImplementsExecution
CHECK_DEADLOCK FALSE
