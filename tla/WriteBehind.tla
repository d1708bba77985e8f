----------------------------- MODULE WriteBehind -----------------------------
(***************************************************************************)
(* What the outbox promises the callers of HybridAuthStore.set, without    *)
(* saying how: a write that was acknowledged leaves a trace until it is in *)
(* MongoDB or in the dead letter queue, and neither outcome is undone.     *)
(* Outbox.tla is shown to implement this module.                           *)
(***************************************************************************)
CONSTANT Writes          \* the writes, one per session and version

VARIABLES
  fate,                  \* what has become of each write
  acked                  \* the writes whose caller got a result

wbVars == <<fate, acked>>

Fates == {"none", "logged", "dead", "durable"}

WBInit ==
  /\ fate = [w \in Writes |-> "none"]
  /\ acked = {}

\* The intent is recorded in the outbox.
Log(w) ==
  /\ fate[w] = "none"
  /\ fate' = [fate EXCEPT ![w] = "logged"]
  /\ UNCHANGED acked

\* MongoDB has taken the patch; a dead-lettered write may still get there
\* (by the queue's worker, or by a reconciliation that started earlier).
Persist(w) ==
  /\ fate[w] # "durable"
  /\ fate' = [fate EXCEPT ![w] = "durable"]
  /\ UNCHANGED acked

\* The write is handed to an operator.
GiveUp(w) ==
  /\ fate[w] = "logged"
  /\ fate' = [fate EXCEPT ![w] = "dead"]
  /\ UNCHANGED acked

\* The caller gets its result, never for a write that left no trace.
Ack(w) ==
  /\ fate[w] # "none"
  /\ acked' = acked \cup {w}
  /\ UNCHANGED fate

WBNext == \E w \in Writes : Log(w) \/ Persist(w) \/ GiveUp(w) \/ Ack(w)

WBSpec == WBInit /\ [][WBNext]_wbVars

\* Every acknowledged write gets out of the outbox: it is persisted or it is
\* dead-lettered (types/outbox.ts:5, "eventually consistent with Redis").
Settles == \A w \in Writes :
  (w \in acked) ~> (fate[w] \in {"durable", "dead"})

=============================================================================
