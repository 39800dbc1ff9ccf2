SPECIFICATION Spec
CONSTANTS
    q1 = q1
    q2 = q2
    q3 = q3
    Request = {q1, q2}
    PatchTo = {}
SYMMETRY MCSymmetry
PROPERTIES DiscardOnlyPending
CHECK_DEADLOCK FALSE
