---------------------------- MODULE BufferOwnership ----------------------------
(***************************************************************************)
(* What the C layer promises about memory (module documentation of         *)
(* src/c_ffi.rs, lines 10-14): every block the library hands out has       *)
(* exactly one owner - a buffer struct or a region handle of the host -    *)
(* from the moment it is allocated until that owner gives it back, and     *)
(* nothing else is ever allocated.                                         *)
(***************************************************************************)
CONSTANTS
    Handles,   \* what the host can own memory through
    Addr,      \* addresses the allocator hands out
    Null       \* the null pointer, not one of Addr

VARIABLES
    live,      \* the allocated addresses
    owner      \* the address each handle owns, or Null

vars == <<live, owner>>

Injective(f) == \A x, y \in DOMAIN f : f[x] = f[y] => x = y

Init == live = {} /\ owner = [h \in Handles |-> Null]

\* Handles that own nothing each get a block of their own, all in one step.
Acquire(got) ==
    /\ Injective(got)
    /\ \A h \in DOMAIN got : owner[h] = Null /\ got[h] \notin live
    /\ owner' = [h \in Handles |-> IF h \in DOMAIN got THEN got[h] ELSE owner[h]]
    /\ live' = live \cup {got[h] : h \in DOMAIN got}

Release(h) ==
    /\ owner[h] # Null
    /\ live' = live \ {owner[h]}
    /\ owner' = [owner EXCEPT ![h] = Null]

Next ==
    \/ \E H \in SUBSET Handles : \E got \in [H -> Addr] : Acquire(got)
    \/ \E h \in Handles : Release(h)

Spec == Init /\ [][Next]_vars

-----------------------------------------------------------------------------
\* No block is leaked, shared by two owners, or owned after it was freed.
Exact ==
    /\ live = {owner[h] : h \in Handles} \ {Null}
    /\ \A g, h \in Handles : owner[g] = owner[h] /\ owner[g] # Null => g = h
=============================================================================
