\* Two threads that generate keys, sign, verify and free concurrently.
CONSTANTS
    Threads = {t1, t2}
    Slots = {s1, s2, s3}
    Regions = {}
    Addr = {a1, a2, a3}
    Null = Null
    Shapes <- SpareShape
    Layouts <- TwoLayouts
    IsizeMax = 7
    MaxInputs = 1
    Used <- CoreNames
SYMMETRY Symmetry
SPECIFICATION Spec
INVARIANTS NoUB OwnedExactly Receipts
