\* Every function of the C layer and every path through it, one thread.
CONSTANTS
    Threads = {t1}
    Slots = {s1, s2, s3}
    Regions = {}
    Addr = {a1, a2, a3}
    Null = Null
    Shapes <- TwoShapes
    Layouts <- TwoLayouts
    IsizeMax = 7
    MaxInputs = 2
    Used <- AllNames
SYMMETRY Symmetry
SPECIFICATION Spec
INVARIANTS TypeOK Receipts FailClosed
