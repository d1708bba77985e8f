---------------------------- MODULE MCRedisStore ----------------------------
(* Instances of RedisStore for TLC.                                        *)
EXTENDS RedisStore, TLC

CONSTANTS p1, p2, c1, c2, c3, k1, k2, m1, m2

TwoProcesses == {p1, p2}
ThreeCalls == {c1, c2, c3}
TwoKeys == {k1, k2}
TwoMasterKeys == {m1, m2}

\* Processes that share Redis; a Redis that fails; a process with time passing.
EachHazard ==
  {{"processes"}, {"failures"}, {"time", "rotation"}, {"time", "touch", "delete"}}

Symmetric == Permutations(Calls)
=============================================================================
