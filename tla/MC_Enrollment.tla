----------------------------- MODULE MC_Enrollment -----------------------------
(***************************************************************************)
(* Enrollment on small instances.  Index 0 stands for the messages that    *)
(* the examples disclose, index 1 for the one they hide.                   *)
(***************************************************************************)
EXTENDS Enrollment, TLC

CONSTANTS north, south, noon, night

TwoProfiles == {[i \in {0, 1} |-> "a"], [i \in {0, 1} |-> IF i = 0 THEN "b" ELSE "a"]}

OneCommitted == {<<"c">>}

\* The last one asks for a committed message that there is not.
ShowSome ==
    {[messages |-> {0}, committed |-> {}], [messages |-> {0, 1}, committed |-> {1}],
     [messages |-> {0}, committed |-> {2}]}

\* The same scope twice, as for a request that is repeated, and another one.
ThreeRequests ==
    {[scope |-> north, ph |-> noon], [scope |-> north, ph |-> night],
     [scope |-> south, ph |-> noon]}

Symmetry ==
    Permutations(Holders) \cup Permutations(Nyms) \cup Permutations(Factors)
        \cup Permutations(Entropies) \cup Permutations(Keys)
=============================================================================
