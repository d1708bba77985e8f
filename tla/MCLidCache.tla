------------------------------ MODULE MCLidCache ------------------------------
(* Instances of LidCache for TLC.                                          *)
EXTENDS LidCache, TLC

CONSTANTS l1, l2, p1, p2, c1, c2

TwoLids == {l1, l2}
TwoPns == {p1, p2}
TwoCallers == {c1, c2}

Pairs == [lid : Lids, pn : Pns]

\* Every mapping alone, and two that share a number.
Updates == {<<m>> : m \in Pairs} \cup {<<[lid |-> l1, pn |-> p1], [lid |-> l2, pn |-> p1]>>}

Symmetric == Permutations(Callers)
=============================================================================
