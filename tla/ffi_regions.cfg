\* bbs_ffi_alloc and bbs_ffi_dealloc with every kind of layout, next to calls of
\* two threads, until the host closes.
CONSTANTS
    Threads = {t1, t2}
    Slots = {s1}
    Regions = {r1, r2}
    Addr = {a1, a2, a3}
    Null = Null
    Shapes <- SpareShape
    Layouts <- AllLayouts
    IsizeMax = 7
    MaxInputs = 1
    Used <- NymNames
SPECIFICATION FairSpec
INVARIANTS OwnedExactly IInv
PROPERTIES Refines Drains
