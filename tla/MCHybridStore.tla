---------------------------- MODULE MCHybridStore ----------------------------
(* Instances of HybridStore for TLC.                                       *)
EXTENDS HybridStore, TLC

CONSTANTS c1, c2, c3, k1, k2

TwoCalls == {c1, c2}
ThreeCalls == {c1, c2, c3}
OneKey == {k1}
TwoKeys == {k1, k2}

\* Calls and key ids are interchangeable: none has a part of its own.
Symmetric == Permutations(Calls) \cup Permutations(KeyIds)
=============================================================================
