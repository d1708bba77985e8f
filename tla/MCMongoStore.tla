----------------------------- MODULE MCMongoStore -----------------------------
(* Instances of MongoStore for TLC.                                        *)
EXTENDS MongoStore, TLC

CONSTANTS c1, c2, c3, i1, i2

TwoCalls == {c1, c2}
ThreeCalls == {c1, c2, c3}
TwoInstances == {i1, i2}

\* Calls are interchangeable, and so are instances.
Symmetric == Permutations(Calls) \cup Permutations(Instances)

=============================================================================
