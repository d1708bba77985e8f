------------------------------- MODULE Outbox -------------------------------
(***************************************************************************)
(* OutboxManager (src/hybrid/outbox.ts) with the callers around it: the    *)
(* write-behind half of HybridAuthStore.set, which adds an entry, hands    *)
(* the patch to the queue and falls back to MongoDB; the queue's worker;   *)
(* and any number of overlapping reconciliations (the 30 s interval, the   *)
(* public reconcileOutbox, other processes on the same Redis).             *)
(*                                                                         *)
(* A write is a pair <<session, version>>: the hash outbox:{session} has   *)
(* one field per version.  Two calls of set never carry the same pair here *)
(* (HybridStore.tla is about the calls that do).  A MongoDB write always   *)
(* overwrites the document when it succeeds: MongoStore.tla shows why.     *)
(* Every Redis or MongoDB command is one step.                             *)
(***************************************************************************)
EXTENDS Integers, FiniteSets

CONSTANTS
  Sessions,
  Versions,
  Runs,          \* reconciliations that may be under way at the same time
  MaxAttempts,   \* MAX_RETRY_ATTEMPTS
  Concurrency,   \* RECONCILER_CONCURRENCY, the p-limit of one reconciliation
  Faults         \* the failures the environment may produce

ASSUME OutboxAssumption ==
  /\ Versions \subseteq Nat \ {0}
  /\ MaxAttempts \in Nat \ {0}
  /\ Concurrency \in Nat \ {0}
  /\ Faults \subseteq {"crash", "redis", "mongo", "queue", "expiry"}

Writes == Sessions \X Versions

VARIABLES
  entries,       \* the hashes outbox:{session}, one entry per write
  dlq,           \* the writes pushed on outbox:dlq
  retried,       \* how many times markFailed was stored for a write, counted
                 \* up to MaxAttempts
  timers,        \* writes whose HDEL is scheduled: one hour later, or by cleanup
  client,        \* the call of HybridAuthStore.set that carries the write
  queue,         \* messages handed to the queue and not consumed
  mongo,         \* the version whose patch each session's document holds, or 0
  applied,       \* the writes MongoDB has taken at some time
  active,        \* the reconciliations under way
  todo,          \* the sessions a reconciliation has still to read
  job            \* per reconciliation and write, the task given to p-limit

vars == <<entries, dlq, retried, timers, client, queue, mongo, applied,
          active, todo, job>>

store == <<dlq, retried, timers>>
outside == <<client, queue, mongo, applied>>

Statuses == {"absent", "pending", "processing", "completed", "failed"}
Entry == [status : Statuses, attempts : Nat]
Absent == [status |-> "absent", attempts |-> 0]
With(e, status) == [e EXCEPT !.status = status]

ClientPcs == {"idle", "added", "fallback", "marking", "writing", "acked",
              "rejected"}
Idle == [pc |-> "idle", copy |-> Absent]

JobPcs == {"none", "queued", "persist", "marking", "writing", "caught",
           "failing", "removing"}
NoJob == [pc |-> "none", attempts |-> 0, copy |-> Absent]

TypeOK ==
  /\ entries \in [Writes -> Entry]
  /\ dlq \subseteq Writes
  /\ retried \in [Writes -> 0..MaxAttempts]
  /\ timers \subseteq Writes
  /\ client \in [Writes -> [pc : ClientPcs, copy : Entry]]
  /\ queue \subseteq Writes
  /\ mongo \in [Sessions -> Versions \cup {0}]
  /\ applied \subseteq Writes
  /\ active \subseteq Runs
  /\ todo \in [Runs -> SUBSET Sessions]
  /\ job \in [Runs -> [Writes -> [pc : JobPcs, attempts : Nat, copy : Entry]]]

Init ==
  /\ entries = [w \in Writes |-> Absent]
  /\ dlq = {}
  /\ retried = [w \in Writes |-> 0]
  /\ timers = {}
  /\ client = [w \in Writes |-> Idle]
  /\ queue = {}
  /\ mongo = [s \in Sessions |-> 0]
  /\ applied = {}
  /\ active = {}
  /\ todo = [r \in Runs |-> {}]
  /\ job = [r \in Runs |-> [w \in Writes |-> NoJob]]

-----------------------------------------------------------------------------
(* Commands.  A command that fails may or may not have been carried out.   *)

Hset(w, e) == entries' = [entries EXCEPT ![w] = e]

Hdel(w) == Hset(w, Absent)

\* MongoAuthStore.set, when it takes effect: the patch of w replaces whatever
\* patch the document held, newer or older.
MongoSet(w) ==
  /\ mongo' = [mongo EXCEPT ![w[1]] = w[2]]
  /\ applied' = applied \cup {w}

\* markCompleted, its second command: the copy read before is stored back.
StoreCompleted(w, copy) ==
  /\ Hset(w, With(copy, "completed"))
  /\ timers' = timers \cup {w}

\* Mutant: failed entries are never picked up again.
EligiblePendingOnly(e) == e.status = "pending"

Eligible(e) ==
  \/ e.status = "pending"
  \/ e.status = "failed" /\ e.attempts < MaxAttempts

-----------------------------------------------------------------------------
(* HybridAuthStore.set, once Redis holds the new version.                  *)

Goes(w, pc) == client' = [client EXCEPT ![w] = [pc |-> pc, copy |-> Absent]]

\* addEntry: HSETNX, then EXPIRE.  When either fails the entry may be there.
AddEntry(w) ==
  /\ client[w].pc = "idle"
  /\ \/ /\ IF entries[w].status = "absent"
             THEN Hset(w, [status |-> "pending", attempts |-> 0])
             ELSE UNCHANGED entries
        /\ \/ Goes(w, "added")
           \/ "redis" \in Faults /\ Goes(w, "fallback")
     \/ /\ "redis" \in Faults
        /\ Goes(w, "fallback")
        /\ UNCHANGED entries
  /\ UNCHANGED <<store, queue, mongo, applied, active, todo, job>>

\* queue.add
Publish(w) ==
  /\ client[w].pc = "added"
  /\ \/ Goes(w, "acked") /\ queue' = queue \cup {w}
     \/ "queue" \in Faults /\ Goes(w, "fallback") /\ UNCHANGED queue
  /\ UNCHANGED <<entries, store, mongo, applied, active, todo, job>>

\* Mutant: the failure of the direct write is swallowed.
FallbackSwallowsError(w) ==
  /\ client[w].pc = "fallback"
  /\ \/ MongoSet(w) /\ Goes(w, "marking")
     \/ "mongo" \in Faults /\ Goes(w, "acked") /\ UNCHANGED <<mongo, applied>>
  /\ UNCHANGED <<entries, store, queue, active, todo, job>>

\* The catch of queueError: a direct write to MongoDB, whose own failure is
\* the caller's StorageError.
Fallback(w) ==
  /\ client[w].pc = "fallback"
  /\ \/ MongoSet(w) /\ Goes(w, "marking")
     \/ "mongo" \in Faults /\ MongoSet(w) /\ Goes(w, "rejected")
     \/ "mongo" \in Faults /\ Goes(w, "rejected") /\ UNCHANGED <<mongo, applied>>
  /\ UNCHANGED <<entries, store, queue, active, todo, job>>

\* markCompleted after the fallback, first command.
FallbackRead(w) ==
  /\ client[w].pc = "marking"
  /\ \/ entries[w].status = "absent" /\ Goes(w, "acked")
     \/ /\ entries[w].status # "absent"
        /\ client' = [client EXCEPT ![w] = [pc |-> "writing", copy |-> entries[w]]]
     \/ "redis" \in Faults /\ Goes(w, "rejected")
  /\ UNCHANGED <<entries, store, queue, mongo, applied, active, todo, job>>

FallbackWrite(w) ==
  /\ client[w].pc = "writing"
  /\ \/ StoreCompleted(w, client[w].copy) /\ Goes(w, "acked")
     \/ /\ "redis" \in Faults
        /\ Hset(w, With(client[w].copy, "completed"))
        /\ Goes(w, "rejected")
        /\ UNCHANGED timers
     \/ "redis" \in Faults /\ Goes(w, "rejected") /\ UNCHANGED <<entries, timers>>
  /\ UNCHANGED <<dlq, retried, queue, mongo, applied, active, todo, job>>

SetStep(w) == AddEntry(w) \/ Publish(w) \/ Fallback(w) \/ FallbackRead(w)
                \/ FallbackWrite(w)

\* The queue's consumer persists the patch, at least once, and tells the
\* outbox nothing (examples/hybrid-bullmq.ts:143-170).
Deliver(w) ==
  /\ w \in queue
  /\ MongoSet(w)
  /\ queue' \in {queue, queue \ {w}}
  /\ UNCHANGED <<entries, store, client, active, todo, job>>

-----------------------------------------------------------------------------
(* reconcile()                                                             *)

StartRun(r) ==
  /\ r \notin active
  /\ active' = active \cup {r}
  /\ todo' = [todo EXCEPT ![r] =
       {s \in Sessions : \E v \in Versions : entries[<<s, v>>].status # "absent"}]
  /\ UNCHANGED <<entries, store, outside, job>>

\* getPendingEntries of one session: HGETALL is one snapshot of its hash.
Collect(r, s) ==
  /\ r \in active
  /\ s \in todo[r]
  /\ todo' = [todo EXCEPT ![r] = @ \ {s}]
  /\ job' = [job EXCEPT ![r] = [w \in Writes |->
       IF w[1] = s /\ Eligible(entries[w])
         THEN [pc |-> "queued", attempts |-> entries[w].attempts, copy |-> Absent]
         ELSE job[r][w]]]
  /\ UNCHANGED <<entries, store, outside, active>>

\* KEYS or HGETALL fails: the whole reconciliation is given up.
AbortRun(r) ==
  /\ "redis" \in Faults
  /\ r \in active
  /\ todo[r] # {}
  /\ active' = active \ {r}
  /\ todo' = [todo EXCEPT ![r] = {}]
  /\ job' = [job EXCEPT ![r] = [w \in Writes |-> NoJob]]
  /\ UNCHANGED <<entries, store, outside>>

\* Promise.allSettled has every result.
EndRun(r) ==
  /\ r \in active
  /\ todo[r] = {}
  /\ \A w \in Writes : job[r][w].pc = "none"
  /\ active' = active \ {r}
  /\ UNCHANGED <<entries, store, outside, todo, job>>

At(r, w, pc) == job[r][w].pc = pc

\* The task goes on at pc with the given copy of the entry.
Moves(r, w, pc, copy) ==
  job' = [job EXCEPT ![r][w] =
            [pc |-> pc, attempts |-> @.attempts, copy |-> copy]]

Ends(r, w) == job' = [job EXCEPT ![r][w] = NoJob]

Running(r) == {w \in Writes : job[r][w].pc \notin {"none", "queued"}}

\* p-limit starts tasks in the order they were given, at most Concurrency at
\* a time; the tasks of one session were sorted by version.
MayStart(r, w) ==
  /\ Cardinality(Running(r)) < Concurrency
  /\ \A x \in Writes : x[1] = w[1] /\ x[2] < w[2] => ~At(r, x, "queued")

\* The entry read by getPendingEntries, not the stored one, is written back
\* with status processing.
MarkProcessing(r, w) ==
  /\ r \in active /\ todo[r] = {}
  /\ At(r, w, "queued")
  /\ MayStart(r, w)
  /\ \/ /\ Hset(w, [status |-> "processing", attempts |-> job[r][w].attempts])
        /\ \/ Moves(r, w, "persist", Absent)
           \/ "redis" \in Faults /\ Moves(r, w, "caught", Absent)
     \/ "redis" \in Faults /\ Moves(r, w, "caught", Absent) /\ UNCHANGED entries
  /\ UNCHANGED <<store, outside, active, todo>>

\* Mutant: mongo.set is not awaited, so its rejection is not caught.
PersistNotAwaited(r, w) ==
  /\ At(r, w, "persist")
  /\ Moves(r, w, "marking", Absent)
  /\ MongoSet(w) \/ ("mongo" \in Faults /\ UNCHANGED <<mongo, applied>>)
  /\ UNCHANGED <<entries, store, client, queue, active, todo>>

PersistEntry(r, w) ==
  /\ At(r, w, "persist")
  /\ \/ MongoSet(w) /\ Moves(r, w, "marking", Absent)
     \/ "mongo" \in Faults /\ MongoSet(w) /\ Moves(r, w, "caught", Absent)
     \/ "mongo" \in Faults /\ Moves(r, w, "caught", Absent) /\ UNCHANGED <<mongo, applied>>
  /\ UNCHANGED <<entries, store, client, queue, active, todo>>

\* markCompleted: HGET, and nothing more when the field is gone.
CompleteRead(r, w) ==
  /\ At(r, w, "marking")
  /\ \/ entries[w].status = "absent" /\ Ends(r, w)
     \/ entries[w].status # "absent" /\ Moves(r, w, "writing", entries[w])
     \/ "redis" \in Faults /\ Moves(r, w, "caught", Absent)
  /\ UNCHANGED <<entries, store, outside, active, todo>>

\* markCompleted: HSET.  Its failure is handled like MongoDB's.
CompleteWrite(r, w) ==
  /\ At(r, w, "writing")
  /\ \/ StoreCompleted(w, job[r][w].copy) /\ Ends(r, w)
     \/ /\ "redis" \in Faults
        /\ Hset(w, With(job[r][w].copy, "completed"))
        /\ Moves(r, w, "caught", Absent)
        /\ UNCHANGED timers
     \/ /\ "redis" \in Faults
        /\ Moves(r, w, "caught", Absent)
        /\ UNCHANGED <<entries, timers>>
  /\ UNCHANGED <<dlq, retried, outside, active, todo>>

\* Mutant: off by one.
LastAttemptEarly(r, w) == job[r][w].attempts >= MaxAttempts - 2

LastAttempt(r, w) == job[r][w].attempts >= MaxAttempts - 1

\* markFailed: HGET.  A failure inside the catch ends the task for good.
FailRead(r, w) ==
  /\ At(r, w, "caught")
  /\ ~LastAttempt(r, w)
  /\ \/ entries[w].status = "absent" /\ Ends(r, w)
     \/ entries[w].status # "absent" /\ Moves(r, w, "failing", entries[w])
     \/ "redis" \in Faults /\ Ends(r, w)
  /\ UNCHANGED <<entries, store, outside, active, todo>>

\* Mutant: attempts is not incremented.
FailWriteNoCount(r, w) ==
  /\ At(r, w, "failing")
  /\ Hset(w, With(job[r][w].copy, "failed"))
  /\ Ends(r, w)
  /\ UNCHANGED <<store, outside, active, todo>>

\* markFailed: HSET with one more attempt.
FailWrite(r, w) ==
  /\ At(r, w, "failing")
  /\ \/ /\ Hset(w, [status |-> "failed", attempts |-> job[r][w].copy.attempts + 1])
        /\ retried' = [retried EXCEPT ![w] = IF @ < MaxAttempts THEN @ + 1 ELSE @]
     \/ "redis" \in Faults /\ UNCHANGED <<entries, retried>>
  /\ Ends(r, w)
  /\ UNCHANGED <<dlq, timers, outside, active, todo>>

\* Mutant: HDEL is issued without LPUSH.
PushNothing(r, w) ==
  /\ At(r, w, "caught")
  /\ LastAttempt(r, w)
  /\ Moves(r, w, "removing", Absent)
  /\ UNCHANGED <<entries, store, outside, active, todo>>

\* moveToDeadLetter: LPUSH, then HDEL.
PushDeadLetter(r, w) ==
  /\ At(r, w, "caught")
  /\ LastAttempt(r, w)
  /\ \/ dlq' = dlq \cup {w} /\ Moves(r, w, "removing", Absent)
     \/ "redis" \in Faults /\ dlq' \in {dlq, dlq \cup {w}} /\ Ends(r, w)
  /\ UNCHANGED <<entries, retried, timers, outside, active, todo>>

RemoveDead(r, w) ==
  /\ At(r, w, "removing")
  /\ \/ Hdel(w)
     \/ "redis" \in Faults /\ UNCHANGED entries
  /\ Ends(r, w)
  /\ UNCHANGED <<store, outside, active, todo>>

JobStep(r, w) ==
  \/ MarkProcessing(r, w)
  \/ PersistEntry(r, w)
  \/ CompleteRead(r, w)
  \/ CompleteWrite(r, w)
  \/ FailRead(r, w)
  \/ FailWrite(r, w)
  \/ PushDeadLetter(r, w)
  \/ RemoveDead(r, w)

-----------------------------------------------------------------------------
(* Time and crashes                                                        *)

\* One hour after markCompleted; a rejected HDEL is ignored.
TimerFires(w) ==
  /\ w \in timers
  /\ timers' = timers \ {w}
  /\ \/ Hdel(w)
     \/ "redis" \in Faults /\ UNCHANGED entries
  /\ UNCHANGED <<dlq, retried, outside, active, todo, job>>

\* cleanup() has read an entry completed more than an hour ago; its HDEL
\* follows like a timer's.
Cleanup(w) ==
  /\ entries[w].status = "completed"
  /\ timers' = timers \cup {w}
  /\ UNCHANGED <<entries, dlq, retried, outside, active, todo, job>>

\* The hash expires seven days after the last entry was added to it: by then
\* every task and every call has ended, and every entry that reconcile picks
\* up has been picked up.
HashExpires(s) ==
  /\ "expiry" \in Faults
  /\ active = {}
  /\ \A w \in Writes : w[1] = s =>
       /\ ~Eligible(entries[w])
       /\ client[w].pc \in {"idle", "acked", "rejected"}
  /\ entries' = [w \in Writes |-> IF w[1] = s THEN Absent ELSE entries[w]]
  /\ UNCHANGED <<store, outside, active, todo, job>>

\* The process of a reconciliation dies: its tasks stop where they are, and
\* the timers it had scheduled are gone.
Crash(r) ==
  /\ "crash" \in Faults
  /\ r \in active
  /\ active' = active \ {r}
  /\ todo' = [todo EXCEPT ![r] = {}]
  /\ job' = [job EXCEPT ![r] = [w \in Writes |-> NoJob]]
  /\ timers' \in SUBSET timers
  /\ UNCHANGED <<entries, dlq, retried, outside>>

Next ==
  \/ \E w \in Writes : SetStep(w) \/ Deliver(w) \/ TimerFires(w) \/ Cleanup(w)
  \/ \E s \in Sessions : HashExpires(s)
  \/ \E r \in Runs :
       \/ StartRun(r) \/ AbortRun(r) \/ EndRun(r) \/ Crash(r)
       \/ \E s \in Sessions : Collect(r, s)
       \/ \E w \in Writes : JobStep(r, w)

Spec == Init /\ [][Next]_vars

\* The interval keeps firing, and what a reconciliation awaits is answered or
\* rejected.  Nothing is assumed of callers, of the queue's worker, of timers.
Fairness ==
  \A r \in Runs :
    /\ WF_vars(StartRun(r))
    /\ WF_vars(EndRun(r))
    /\ \A s \in Sessions : WF_vars(Collect(r, s))
    /\ \A w \in Writes : WF_vars(JobStep(r, w))

FairSpec == Spec /\ Fairness

-----------------------------------------------------------------------------
(* Properties                                                              *)

\* The three states in which a write cannot be forgotten.
Traced(w) == w \in applied \/ w \in dlq \/ entries[w].status # "absent"

\* The result of a set is returned only for a write that is in MongoDB, in
\* the dead letter queue or in the outbox, and it stays in one of them
\* whatever crashes or fails later: addEntry comes before queue.add, LPUSH
\* before HDEL, and entries are otherwise deleted only after MongoDB has
\* confirmed (outbox.ts:73-135, 311-342, store.ts:387-425).
AckedIsTraced == \A w \in Writes : client[w].pc = "acked" => Traced(w)

\* An entry is marked completed, and its deletion scheduled, only after
\* MongoDB took the patch, whoever marks it: a reconciliation, one that
\* overlaps it, or the fallback of set (outbox.ts:113-135, 223-228).
CompletedIsPersisted ==
  \A w \in Writes :
    (entries[w].status = "completed" \/ w \in timers) => w \in applied

\* A write is dead-lettered only when markFailed has been stored for it
\* MaxAttempts - 1 times before, so that with the failure at hand it had its
\* MaxAttempts attempts, although each task judges by the copy it took when
\* the reconciliation started (outbox.ts:244, 320).
DeadLettersAreExhausted ==
  \A w \in dlq : retried[w] >= MaxAttempts - 1

\* Whoever is about to mark an entry completed has seen MongoDB take it.
ConfirmedIsPersisted ==
  \A w \in Writes :
    /\ client[w].pc \in {"marking", "writing"} => w \in applied
    /\ \A r \in Runs : job[r][w].pc \in {"marking", "writing"} => w \in applied

\* LPUSH comes before HDEL.
RemovedIsDead ==
  \A r \in Runs, w \in Writes : job[r][w].pc = "removing" => w \in dlq

\* An intent, once added to the outbox or taken up by a task, leaves a trace
\* (AckedIsTraced is what the caller sees of it).
AddedIsTraced ==
  \A w \in Writes :
    /\ client[w].pc \in {"added", "acked"} => Traced(w)
    /\ \A r \in Runs : job[r][w].pc # "none" => Traced(w)

\* No copy of an entry, stored or held by a task or a call, claims more
\* attempts than markFailed has stored.
Counted(a, w) == a <= retried[w] \/ retried[w] = MaxAttempts

AttemptsAreCounted ==
  \A w \in Writes :
    /\ Counted(entries[w].attempts, w)
    /\ Counted(client[w].copy.attempts, w)
    /\ \A r \in Runs :
         Counted(job[r][w].attempts, w) /\ Counted(job[r][w].copy.attempts, w)

\* The parts together are inductive: each copy of an entry outlives the state
\* it was read in, so what is proved of the stored entry has to be known of
\* every copy as well.
OutboxInv ==
  /\ TypeOK
  /\ ConfirmedIsPersisted
  /\ CompletedIsPersisted
  /\ RemovedIsDead
  /\ AddedIsTraced
  /\ AttemptsAreCounted
  /\ DeadLettersAreExhausted

\* Some task still works on the write.
InTask(w) == \E r \in Runs : job[r][w].pc # "none"

\* reconcile is called in turn, in one process.
NoOverlap == \A r, q \in active : r = q

\* While reconciliations neither overlap, crash nor lose Redis, an entry that
\* is not finished is one the next reconciliation picks up or one a task is
\* working on: none is left in status processing, and none is failed with no
\* attempt left and yet not dead-lettered (outbox.ts:158-175, 235-250).
NothingStranded ==
  \A w \in Writes :
    \/ entries[w].status \in {"absent", "completed"}
    \/ Eligible(entries[w])
    \/ InTask(w)

\* The documented limit: a failed entry either has attempts left or has gone
\* to the dead letter queue ("Maximum retry attempts before moving to dead
\* letter queue", outbox.ts:27).
FailedIsRetriedOrDead ==
  \A w \in Writes :
    entries[w].status = "failed" => Eligible(entries[w]) \/ InTask(w) \/ w \in dlq

\* Nothing of a session is on its way to MongoDB any more.
Settled(s) ==
  \A w \in Writes : w[1] = s =>
    /\ w \notin queue
    /\ ~InTask(w)
    /\ client[w].pc \in {"idle", "acked", "rejected"}
    /\ entries[w].status \in {"absent", "completed"}

\* Once the outbox of a session has drained without a dead letter, MongoDB
\* holds the newest acknowledged version, the one Redis has (types/outbox.ts:5).
DrainedIsNewest ==
  \A w \in Writes :
    (Settled(w[1]) /\ client[w].pc = "acked" /\ w \in applied)
       => mongo[w[1]] >= w[2]

\* What has become of each write, for the abstract specification.
Fate(w) ==
  IF w \in applied THEN "durable"
  ELSE IF w \in dlq THEN "dead"
  ELSE IF entries[w].status # "absent" THEN "logged"
  ELSE "none"

Acked == {w \in Writes : client[w].pc = "acked"}

WB == INSTANCE WriteBehind
        WITH fate <- [w \in Writes |-> Fate(w)], acked <- Acked

\* The outbox implements its abstract specification: no acknowledged write
\* goes back to having no trace, and neither a persisted nor a dead-lettered
\* write is taken back.
ImplementsWriteBehind == WB!WBSpec

\* Every acknowledged write is eventually in MongoDB or dead-lettered, however
\* often MongoDB fails, as long as the reconciliations keep running.
EverySetSettles == WB!Settles

=============================================================================
