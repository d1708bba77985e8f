------------------------------ MODULE MCOutbox ------------------------------
(* Instances of Outbox for TLC.                                            *)
EXTENDS Outbox, TLC

CONSTANTS s1, s2, r1, r2

OneSession == {s1}
TwoSessions == {s1, s2}

OneRun == {r1}
TwoRuns == {r1, r2}

\* Reconciliations are interchangeable, and so are sessions.
Symmetric == Permutations(Runs) \cup Permutations(Sessions)

\* Calls of one session come one after the other with consecutive versions:
\* what the mutex of HybridAuthStore and a fresh expectedVersion give.
InTurn ==
  \A w, x \in Writes :
    (w[1] = x[1] /\ x[2] < w[2] /\ client'[w].pc # "idle")
      => client[x].pc \in {"acked", "rejected"}

AllRight == {}
MongoAndTime == {"mongo", "queue", "expiry"}
MongoOnly == {"mongo"}
CrashOnly == {"crash"}
AllFaults == {"crash", "redis", "mongo", "queue"}

=============================================================================
