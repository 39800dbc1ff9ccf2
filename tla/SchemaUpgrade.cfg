SPECIFICATION Spec
CONSTANT MaxKills = 1
INVARIANT ServesHeadSchema
CHECK_DEADLOCK FALSE
