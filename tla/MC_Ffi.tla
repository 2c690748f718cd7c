--------------------------------- MODULE MC_Ffi ---------------------------------
(***************************************************************************)
(* FfiCalls on small instances: the shapes and layouts, the sets of        *)
(* functions of the runs, and the symmetry of the safety runs.             *)
(***************************************************************************)
EXTENDS FfiCalls, TLC

\* There is a block for every handle, so that only bbs_ffi_alloc runs out.
ASSUME RoomAssumption ==
    Cardinality(Addr) >= Cardinality(Slots) + Cardinality(Regions)

\* A Vec that is full and one that has capacity to spare.
TwoShapes == {[len |-> 1, cap |-> 1], [len |-> 1, cap |-> 2]}
SpareShape == {[len |-> 1, cap |-> 2]}

\* A plain layout, an aligned one, an empty one, an alignment that is not a
\* power of two, and a size that is too large only once rounded up.
AllLayouts ==
    {[len |-> 2, align |-> 1], [len |-> 1, align |-> 4], [len |-> 0, align |-> 1],
     [len |-> 1, align |-> 3], [len |-> 7, align |-> 2]}
TwoLayouts == {[len |-> 1, align |-> 4], [len |-> 7, align |-> 2]}

AllNames == {op.name : op \in Functions}
CoreNames == {"generate_keypair", "sign", "verify"}
NymNames == {"generate_nym_secret", "blind_sign_with_nym"}

Symmetry ==
    Permutations(Threads) \cup Permutations(Slots) \cup Permutations(Addr)
=============================================================================
