SPECIFICATION Spec
CONSTANT MaxFaults = 3
INVARIANTS
    TypeOK
    SameSuccess
    VerdictIffWellFormed
    IInv
CHECK_DEADLOCK FALSE
