--------------------------- MODULE PseudonymRegistry ---------------------------
(***************************************************************************)
(* What the pseudonym functions promise together (src/lib.rs, lines        *)
(* 396-410 and 579-596): the issuer enters members, each under a secret    *)
(* and with attributes, and a verifier only ever accepts a member: under   *)
(* the one pseudonym that the member's secret has in the scope of the      *)
(* request, and with the member's own attributes.                          *)
(***************************************************************************)
VARIABLES
    members,   \* [secret, pk, messages, committed] that the issuer entered
    log        \* what verifiers accepted

vars == <<members, log>>

Init == members = {} /\ log = {}

Enter(m) == members' = members \cup {m} /\ UNCHANGED log

PartOf(f, g) == DOMAIN f \subseteq DOMAIN g /\ \A i \in DOMAIN f : f[i] = g[i]

\* The entry shows part of the attributes of m, and its pseudonym for the scope.
Speaks(entry, m) ==
    /\ entry.pk = m.pk
    /\ entry.pseudonym = [secret |-> m.secret, scope |-> entry.request.scope]
    /\ PartOf(entry.shown.messages, m.messages)
    /\ PartOf(entry.shown.committed, m.committed)

Accept(entry) ==
    /\ \E m \in members : Speaks(entry, m)
    /\ log' = log \cup {entry}
    /\ UNCHANGED members

\* Whom the next step enters and what it accepts are in the next state.
Next ==
    \/ \E m \in members' : Enter(m)
    \/ \E entry \in log' : Accept(entry)

Spec == Init /\ [][Next]_vars
=============================================================================
