------------------------------ MODULE MCService ------------------------------
(* Instances of Service for TLC.                                           *)
EXTENDS Service

CONSTANTS s1, s2, a1, a2, a3, q1, q2

ThreeCalls == {a1, a2, a3}
TwoRequests == {q1, q2}
TwoSessions == {s1, s2}

\* Starting and stopping under probes and batches, by calls in turn and by calls that overlap;
\* two clients of one session; batches; a probe and a read; a touch.
EachSetting ==
  {[ops |-> {"connect", "disconnect", "health", "batchDelete"}, ids |-> {s1}, by |-> {q1}],
   [ops |-> {"connect", "disconnect", "overlap"}, ids |-> {}, by |-> {}],
   [ops |-> {"get", "delete"}, ids |-> {s1}, by |-> {q1, q2}],
   [ops |-> {"batchGet"}, ids |-> {s1, s2}, by |-> {q1}],
   [ops |-> {"batchDelete"}, ids |-> {s1, s2}, by |-> {q1}],
   [ops |-> {"health", "get"}, ids |-> {s1}, by |-> {q1, q2}],
   [ops |-> {"exists", "get", "touch"}, ids |-> {s1}, by |-> {q1}]}
=============================================================================
