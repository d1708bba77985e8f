---------------------------- MODULE OutboxProofs ----------------------------
(* Proofs about Outbox, for any sessions, versions and reconciliations, any *)
(* limits and, unless a theorem says otherwise, any faults.                 *)
EXTENDS Outbox, TLAPS

Job == [pc : JobPcs, attempts : Nat, copy : Entry]
Call == [pc : ClientPcs, copy : Entry]

\* The records the actions build are entries, tasks and calls.
LEMMA Records ==
  /\ Absent \in Entry
  /\ NoJob \in Job
  /\ Idle \in Call
  /\ \A e \in Entry, status \in Statuses : With(e, status) \in Entry
  /\ \A a \in Nat, status \in Statuses : [status |-> status, attempts |-> a] \in Entry
BY DEF Absent, NoJob, Idle, With, Entry, Job, Call, Statuses, JobPcs, ClientPcs

\* A command on one field of the outbox keeps the entries well formed.
LEMMA HsetType ==
  ASSUME TypeOK, NEW w \in Writes, NEW e \in Entry, Hset(w, e)
  PROVE  entries' \in [Writes -> Entry]
BY DEF TypeOK, Hset

\* A step of a task, or its end, keeps the tasks well formed.
LEMMA MovesType ==
  ASSUME TypeOK, NEW r \in Runs, NEW w \in Writes,
         NEW pc \in JobPcs, NEW copy \in Entry,
         Moves(r, w, pc, copy) \/ Ends(r, w)
  PROVE  job' \in [Runs -> [Writes -> Job]]
<1>1. job \in [Runs -> [Writes -> Job]]
  BY DEF TypeOK, Job
<1>2. [pc |-> pc, attempts |-> job[r][w].attempts, copy |-> copy] \in Job
  BY <1>1 DEF Job
<1>3. \A j \in Job : [job EXCEPT ![r][w] = j] \in [Runs -> [Writes -> Job]]
  BY <1>1
<1>5. CASE Moves(r, w, pc, copy)
  BY <1>2, <1>3, <1>5 DEF Moves
<1>6. CASE Ends(r, w)
  BY <1>3, <1>6, Records DEF Ends
<1> QED
  BY <1>5, <1>6

\* A step of a call of set keeps the calls well formed.
LEMMA GoesType ==
  ASSUME TypeOK, NEW w \in Writes, NEW pc \in ClientPcs, Goes(w, pc)
  PROVE  client' \in [Writes -> Call]
<1>1. client \in [Writes -> Call]
  BY DEF TypeOK, Call
<1>2. [pc |-> pc, copy |-> Absent] \in Call
  BY Records DEF Call
<1> QED
  BY <1>1, <1>2 DEF Goes

\* The patch of a write is one of its session's versions.
LEMMA MongoSetType ==
  ASSUME TypeOK, NEW w \in Writes, MongoSet(w)
  PROVE  /\ mongo' \in [Sessions -> Versions \cup {0}]
         /\ applied' \subseteq Writes
BY DEF TypeOK, MongoSet, Writes

-----------------------------------------------------------------------------
(* Type correctness                                                        *)

LEMMA InitType == Init => TypeOK
<1> SUFFICES ASSUME Init PROVE TypeOK
  OBVIOUS
<1>1. MaxAttempts \in Nat
  BY OutboxAssumption
<1> QED
  BY <1>1, Records DEF Init, TypeOK, Job, Call

\* Each step of a call of set, with the queue's worker, keeps the types.
LEMMA CallType ==
  ASSUME TypeOK, NEW w \in Writes, SetStep(w) \/ Deliver(w)
  PROVE  TypeOK'
<1> USE DEF store, outside
<1>1. entries[w] \in Entry /\ client[w].copy \in Entry
  BY DEF TypeOK
<1>2. CASE AddEntry(w)
  <2>1. [status |-> "pending", attempts |-> 0] \in Entry
    BY Records DEF Statuses
  <2>2. entries' \in [Writes -> Entry]
    BY <1>2, <2>1, HsetType DEF AddEntry, TypeOK
  <2>3. client' \in [Writes -> Call]
    BY <1>2, GoesType DEF AddEntry, ClientPcs
  <2> QED
    BY <1>2, <2>2, <2>3 DEF AddEntry, TypeOK, Call
<1>3. CASE Publish(w)
  <2>1. client' \in [Writes -> Call]
    BY <1>3, GoesType DEF Publish, ClientPcs
  <2> QED
    BY <1>3, <2>1 DEF Publish, TypeOK, Call
<1>4. CASE Fallback(w)
  <2>1. client' \in [Writes -> Call]
    BY <1>4, GoesType DEF Fallback, ClientPcs
  <2>2. mongo' \in [Sessions -> Versions \cup {0}] /\ applied' \subseteq Writes
    BY <1>4, MongoSetType DEF Fallback, TypeOK
  <2> QED
    BY <1>4, <2>1, <2>2 DEF Fallback, TypeOK, Call
<1>5. CASE FallbackRead(w)
  <2>1. client' \in [Writes -> Call]
    <3>1. client \in [Writes -> Call]
      BY DEF TypeOK, Call
    <3>2. [pc |-> "writing", copy |-> entries[w]] \in Call
      BY <1>1 DEF Call, ClientPcs
    <3> QED
      BY <1>5, <3>1, <3>2, GoesType DEF FallbackRead, ClientPcs
  <2> QED
    BY <1>5, <2>1 DEF FallbackRead, TypeOK, Call
<1>6. CASE FallbackWrite(w)
  <2>1. client' \in [Writes -> Call]
    BY <1>6, GoesType DEF FallbackWrite, ClientPcs
  <2>2. With(client[w].copy, "completed") \in Entry
    BY <1>1, Records DEF Statuses
  <2>3. entries' \in [Writes -> Entry]
    BY <1>6, <2>2, HsetType DEF FallbackWrite, StoreCompleted, TypeOK
  <2> QED
    BY <1>6, <2>1, <2>3 DEF FallbackWrite, StoreCompleted, TypeOK, Call
<1>7. CASE Deliver(w)
  <2>1. mongo' \in [Sessions -> Versions \cup {0}] /\ applied' \subseteq Writes
    BY <1>7, MongoSetType DEF Deliver
  <2> QED
    BY <1>7, <2>1 DEF Deliver, TypeOK
<1> QED
  BY <1>2, <1>3, <1>4, <1>5, <1>6, <1>7 DEF SetStep

\* Each step of a reconciliation's task keeps the types.
LEMMA JobType ==
  ASSUME TypeOK, NEW r \in Runs, NEW w \in Writes, JobStep(r, w)
  PROVE  TypeOK'
<1> USE DEF store, outside
<1>1. /\ entries[w] \in Entry
      /\ job[r][w].copy \in Entry
      /\ job[r][w].attempts \in Nat
  BY DEF TypeOK
<1>2. CASE MarkProcessing(r, w)
  <2>1. [status |-> "processing", attempts |-> job[r][w].attempts] \in Entry
    BY <1>1, Records DEF Statuses
  <2>2. entries' \in [Writes -> Entry]
    BY <1>2, <2>1, HsetType DEF MarkProcessing, TypeOK
  <2>3. job' \in [Runs -> [Writes -> Job]]
    BY <1>2, Records, MovesType DEF MarkProcessing, JobPcs
  <2> QED
    BY <1>2, <2>2, <2>3 DEF MarkProcessing, TypeOK, Job
<1>3. CASE PersistEntry(r, w)
  <2>1. job' \in [Runs -> [Writes -> Job]]
    BY <1>3, Records, MovesType DEF PersistEntry, JobPcs
  <2>2. mongo' \in [Sessions -> Versions \cup {0}] /\ applied' \subseteq Writes
    BY <1>3, MongoSetType DEF PersistEntry, TypeOK
  <2> QED
    BY <1>3, <2>1, <2>2 DEF PersistEntry, TypeOK, Job
<1>4. CASE CompleteRead(r, w)
  <2>1. job' \in [Runs -> [Writes -> Job]]
    BY <1>1, <1>4, Records, MovesType DEF CompleteRead, JobPcs
  <2> QED
    BY <1>4, <2>1 DEF CompleteRead, TypeOK, Job
<1>5. CASE CompleteWrite(r, w)
  <2>1. job' \in [Runs -> [Writes -> Job]]
    BY <1>5, Records, MovesType DEF CompleteWrite, JobPcs
  <2>2. With(job[r][w].copy, "completed") \in Entry
    BY <1>1, Records DEF Statuses
  <2>3. entries' \in [Writes -> Entry]
    BY <1>5, <2>2, HsetType DEF CompleteWrite, StoreCompleted, TypeOK
  <2> QED
    BY <1>5, <2>1, <2>3 DEF CompleteWrite, StoreCompleted, TypeOK, Job
<1>6. CASE FailRead(r, w)
  <2>1. job' \in [Runs -> [Writes -> Job]]
    BY <1>1, <1>6, Records, MovesType DEF FailRead, JobPcs
  <2> QED
    BY <1>6, <2>1 DEF FailRead, TypeOK, Job
<1>7. CASE FailWrite(r, w)
  <2>1. job' \in [Runs -> [Writes -> Job]]
    BY <1>7, Records, MovesType DEF FailWrite, JobPcs
  <2>2. job[r][w].copy.attempts + 1 \in Nat
    BY <1>1 DEF Entry
  <2>3. [status |-> "failed", attempts |-> job[r][w].copy.attempts + 1] \in Entry
    BY <2>2, Records DEF Statuses
  <2>4. entries' \in [Writes -> Entry]
    BY <1>7, <2>3, HsetType DEF FailWrite, TypeOK
  <2>5. retried' \in [Writes -> 0..MaxAttempts]
    <3>1. retried \in [Writes -> 0..MaxAttempts]
      BY DEF TypeOK
    <3>2. (IF retried[w] < MaxAttempts THEN retried[w] + 1 ELSE retried[w])
            \in 0..MaxAttempts
      BY <3>1, OutboxAssumption
    <3> QED
      BY <1>7, <3>1, <3>2 DEF FailWrite
  <2> QED
    BY <1>7, <2>1, <2>4, <2>5 DEF FailWrite, TypeOK, Job
<1>8. CASE PushDeadLetter(r, w)
  <2>1. job' \in [Runs -> [Writes -> Job]]
    BY <1>8, Records, MovesType DEF PushDeadLetter, JobPcs
  <2> QED
    BY <1>8, <2>1 DEF PushDeadLetter, TypeOK, Job
<1>9. CASE RemoveDead(r, w)
  <2>1. job' \in [Runs -> [Writes -> Job]]
    BY <1>9, Records, MovesType DEF RemoveDead, JobPcs
  <2>2. entries' \in [Writes -> Entry]
    BY <1>9, Records, HsetType DEF RemoveDead, Hdel, TypeOK
  <2> QED
    BY <1>9, <2>1, <2>2 DEF RemoveDead, TypeOK, Job
<1> QED
  BY <1>2, <1>3, <1>4, <1>5, <1>6, <1>7, <1>8, <1>9 DEF JobStep

\* Starting, feeding and ending a reconciliation, crashing in it, and the
\* deletions that time brings keep the types.
LEMMA RunType ==
  ASSUME TypeOK, NEW r \in Runs,
         \/ StartRun(r) \/ AbortRun(r) \/ EndRun(r) \/ Crash(r)
         \/ \E s \in Sessions : Collect(r, s)
  PROVE  TypeOK'
<1> USE DEF store, outside
<1>1. CASE StartRun(r)
  BY <1>1 DEF StartRun, TypeOK
<1>2. CASE AbortRun(r)
  BY <1>2, Records DEF AbortRun, TypeOK, Job
<1>3. CASE EndRun(r)
  BY <1>3 DEF EndRun, TypeOK
<1>4. CASE Crash(r)
  BY <1>4, Records DEF Crash, TypeOK, Job
<1>5. CASE \E s \in Sessions : Collect(r, s)
  <2> PICK s \in Sessions : Collect(r, s)
    BY <1>5
  <2> DEFINE Task(w) ==
        IF w[1] = s /\ Eligible(entries[w])
          THEN [pc |-> "queued", attempts |-> entries[w].attempts, copy |-> Absent]
          ELSE job[r][w]
  <2>1. ASSUME NEW w \in Writes PROVE Task(w) \in Job
    <3>1. entries[w].attempts \in Nat /\ job[r][w] \in Job
      BY DEF TypeOK, Entry, Job
    <3> QED
      BY <3>1, Records DEF Job, JobPcs
  <2>2. job' = [job EXCEPT ![r] = [w \in Writes |-> Task(w)]]
    BY DEF Collect
  <2>3. job' \in [Runs -> [Writes -> Job]]
    <3>1. [w \in Writes |-> Task(w)] \in [Writes -> Job]
      BY <2>1
    <3>2. job \in [Runs -> [Writes -> Job]]
      BY DEF TypeOK, Job
    <3> HIDE DEF Task
    <3> QED
      BY <2>2, <3>1, <3>2
  <2> QED
    BY <2>3 DEF Collect, TypeOK, Job
<1> QED
  BY <1>1, <1>2, <1>3, <1>4, <1>5

LEMMA TimeType ==
  ASSUME TypeOK,
         \/ \E w \in Writes : TimerFires(w) \/ Cleanup(w)
         \/ \E s \in Sessions : HashExpires(s)
  PROVE  TypeOK'
<1> USE DEF store, outside
<1>1. ASSUME NEW w \in Writes, TimerFires(w) PROVE TypeOK'
  BY <1>1, Records DEF TimerFires, Hdel, Hset, TypeOK
<1>2. ASSUME NEW w \in Writes, Cleanup(w) PROVE TypeOK'
  BY <1>2 DEF Cleanup, TypeOK
<1>3. ASSUME NEW s \in Sessions, HashExpires(s) PROVE TypeOK'
  BY <1>3, Records DEF HashExpires, TypeOK
<1> QED
  BY <1>1, <1>2, <1>3

LEMMA NextType == TypeOK /\ [Next]_vars => TypeOK'
<1> SUFFICES ASSUME TypeOK, [Next]_vars PROVE TypeOK'
  OBVIOUS
<1>1. CASE Next
  BY <1>1, CallType, JobType, RunType, TimeType DEF Next
<1>2. CASE UNCHANGED vars
  BY <1>2 DEF vars, TypeOK
<1> QED
  BY <1>1, <1>2

\* Every variable keeps its type in every behaviour, whatever fails.
THEOREM TypeCorrect == Spec => []TypeOK
<1> QED
  BY InitType, NextType, PTL DEF Spec

-----------------------------------------------------------------------------
(* What one step leaves alone                                              *)

\* Every other task is where it was.
OtherTasks(r, w) ==
  \A q \in Runs, x \in Writes :
    q # r \/ x # w => job'[q][x] = job[q][x]

LEMMA MovesAt ==
  ASSUME TypeOK, NEW r \in Runs, NEW w \in Writes, NEW pc, NEW copy,
         Moves(r, w, pc, copy)
  PROVE  /\ job'[r][w].pc = pc
         /\ job'[r][w].attempts = job[r][w].attempts
         /\ job'[r][w].copy = copy
         /\ OtherTasks(r, w)
BY DEF TypeOK, Moves, OtherTasks

LEMMA EndsAt ==
  ASSUME TypeOK, NEW r \in Runs, NEW w \in Writes, Ends(r, w)
  PROVE  /\ job'[r][w].pc = "none"
         /\ job'[r][w].attempts = 0
         /\ job'[r][w].copy = Absent
         /\ OtherTasks(r, w)
BY DEF TypeOK, Ends, OtherTasks, NoJob

LEMMA HsetAt ==
  ASSUME TypeOK, NEW w \in Writes, NEW e, Hset(w, e)
  PROVE  entries'[w] = e /\ \A x \in Writes : x # w => entries'[x] = entries[x]
BY DEF TypeOK, Hset

LEMMA GoesAt ==
  ASSUME TypeOK, NEW w \in Writes, NEW pc, Goes(w, pc)
  PROVE  /\ client'[w].pc = pc /\ client'[w].copy = Absent
         /\ \A x \in Writes : x # w => client'[x] = client[x]
BY DEF TypeOK, Goes

\* A reconciliation that starts, reads, ends, gives up or dies: its tasks are
\* as they were, or forgotten, or new with a copy of an entry as it is.
LEMMA RunFrame ==
  ASSUME TypeOK, NEW r \in Runs,
         \/ StartRun(r) \/ AbortRun(r) \/ EndRun(r) \/ Crash(r)
         \/ \E s \in Sessions : Collect(r, s)
  PROVE  /\ entries' = entries /\ client' = client /\ applied' = applied
         /\ dlq' = dlq /\ retried' = retried /\ timers' \subseteq timers
         /\ \A q \in Runs, x \in Writes :
              \/ job'[q][x] = job[q][x]
              \/ /\ \/ job'[q][x].pc = "none"
                    \/ job'[q][x].pc = "queued" /\ Eligible(entries[x])
                 /\ job'[q][x].attempts \in {0, entries[x].attempts}
                 /\ job'[q][x].copy = Absent
<1> USE DEF store, outside
<1>1. CASE StartRun(r) \/ EndRun(r)
  BY <1>1 DEF StartRun, EndRun
<1>2. CASE AbortRun(r) \/ Crash(r)
  <2>1. job' = [job EXCEPT ![r] = [w \in Writes |-> NoJob]]
    BY <1>2 DEF AbortRun, Crash
  <2>2. \A q \in Runs, x \in Writes :
          job'[q][x] = IF q = r THEN NoJob ELSE job[q][x]
    BY <2>1 DEF TypeOK
  <2>3. NoJob.pc = "none" /\ NoJob.attempts = 0 /\ NoJob.copy = Absent
    BY DEF NoJob
  <2>4. /\ entries' = entries /\ client' = client /\ applied' = applied
        /\ dlq' = dlq /\ retried' = retried /\ timers' \subseteq timers
    BY <1>2 DEF AbortRun, Crash
  <2> QED
    BY <2>2, <2>3, <2>4
<1>3. ASSUME NEW s \in Sessions, Collect(r, s)
      PROVE  \A q \in Runs, x \in Writes :
              \/ job'[q][x] = job[q][x]
              \/ /\ \/ job'[q][x].pc = "none"
                    \/ job'[q][x].pc = "queued" /\ Eligible(entries[x])
                 /\ job'[q][x].attempts \in {0, entries[x].attempts}
                 /\ job'[q][x].copy = Absent
  <2> SUFFICES ASSUME NEW q \in Runs, NEW x \in Writes, job'[q][x] # job[q][x]
               PROVE  /\ \/ job'[q][x].pc = "none"
                         \/ job'[q][x].pc = "queued" /\ Eligible(entries[x])
                      /\ job'[q][x].attempts \in {0, entries[x].attempts}
                      /\ job'[q][x].copy = Absent
    OBVIOUS
  <2>1. q = r /\ job'[r][x] = IF x[1] = s /\ Eligible(entries[x])
                 THEN [pc |-> "queued", attempts |-> entries[x].attempts, copy |-> Absent]
                 ELSE job[r][x]
    BY <1>3 DEF Collect, TypeOK
  <2> QED
    BY <2>1
<1>4. CASE \E s \in Sessions : Collect(r, s)
  BY <1>3, <1>4 DEF Collect
<1> QED
  BY <1>1, <1>2, <1>4

\* A step of a task concerns its own write, and takes nothing back from
\* MongoDB nor from the dead letter queue.
LEMMA JobFrame ==
  ASSUME TypeOK, NEW r \in Runs, NEW w \in Writes, JobStep(r, w)
  PROVE  /\ OtherTasks(r, w)
         /\ \A x \in Writes : x # w =>
              entries'[x] = entries[x] /\ retried'[x] = retried[x]
         /\ \A x \in Writes : x # w => (x \in timers' <=> x \in timers)
         /\ \A x \in Writes : x # w => (x \in dlq' <=> x \in dlq)
         /\ applied \subseteq applied' /\ applied' \subseteq applied \cup {w}
         /\ dlq \subseteq dlq' /\ client' = client
<1> USE MovesAt, EndsAt, HsetAt DEF store, outside
<1>1. CASE MarkProcessing(r, w)
  <2>1. OtherTasks(r, w)
    BY <1>1 DEF MarkProcessing
  <2>2. \A x \in Writes : x # w => entries'[x] = entries[x]
    BY <1>1 DEF MarkProcessing
  <2> QED
    BY <1>1, <2>1, <2>2 DEF MarkProcessing
<1>2. CASE PersistEntry(r, w)
  BY <1>2 DEF PersistEntry, MongoSet
<1>3. CASE CompleteRead(r, w)
  BY <1>3 DEF CompleteRead
<1>4. CASE CompleteWrite(r, w)
  BY <1>4 DEF CompleteWrite, StoreCompleted
<1>5. CASE FailRead(r, w)
  BY <1>5 DEF FailRead
<1>6. CASE FailWrite(r, w)
  <2>1. \A x \in Writes : x # w => retried'[x] = retried[x]
    BY <1>6 DEF FailWrite, TypeOK
  <2> QED
    BY <1>6, <2>1 DEF FailWrite
<1>7. CASE PushDeadLetter(r, w)
  BY <1>7 DEF PushDeadLetter
<1>8. CASE RemoveDead(r, w)
  BY <1>8 DEF RemoveDead, Hdel
<1> QED
  BY <1>1, <1>2, <1>3, <1>4, <1>5, <1>6, <1>7, <1>8 DEF JobStep

\* A step of a call, or of the queue's worker, concerns its own write.
LEMMA CallFrame ==
  ASSUME TypeOK, NEW w \in Writes, SetStep(w) \/ Deliver(w)
  PROVE  /\ \A x \in Writes : x # w =>
              entries'[x] = entries[x] /\ client'[x] = client[x]
         /\ \A x \in Writes : x # w => (x \in timers' <=> x \in timers)
         /\ applied \subseteq applied' /\ applied' \subseteq applied \cup {w}
         /\ dlq' = dlq /\ retried' = retried /\ job' = job
<1> USE HsetAt, GoesAt DEF store
<1>1. CASE AddEntry(w)
  BY <1>1 DEF AddEntry
<1>2. CASE Publish(w)
  BY <1>2 DEF Publish
<1>3. CASE Fallback(w)
  BY <1>3 DEF Fallback, MongoSet
<1>4. CASE FallbackRead(w)
  <2>1. ASSUME NEW x \in Writes, x # w PROVE client'[x] = client[x]
    <3>1. CASE client' = [client EXCEPT ![w] = [pc |-> "writing", copy |-> entries[w]]]
      BY <2>1, <3>1 DEF TypeOK
    <3>2. CASE \E pc \in {"acked", "rejected"} : Goes(w, pc)
      BY <2>1, <3>2
    <3> QED
      BY <1>4, <3>1, <3>2 DEF FallbackRead
  <2> QED
    BY <1>4, <2>1 DEF FallbackRead
<1>5. CASE FallbackWrite(w)
  BY <1>5 DEF FallbackWrite, StoreCompleted
<1>6. CASE Deliver(w)
  BY <1>6 DEF Deliver, MongoSet
<1> QED
  BY <1>1, <1>2, <1>3, <1>4, <1>5, <1>6 DEF SetStep

-----------------------------------------------------------------------------
(* What is confirmed, completed or about to be deleted is in MongoDB        *)

LEMMA PersistedInit == Init => ConfirmedIsPersisted /\ CompletedIsPersisted
BY DEF Init, ConfirmedIsPersisted, CompletedIsPersisted, Absent, Idle, NoJob

LEMMA PersistedStep ==
  ASSUME TypeOK, ConfirmedIsPersisted, CompletedIsPersisted, [Next]_vars
  PROVE  ConfirmedIsPersisted' /\ CompletedIsPersisted'
<1>1. ASSUME NEW w \in Writes, SetStep(w) \/ Deliver(w)
      PROVE  ConfirmedIsPersisted' /\ CompletedIsPersisted'
  <2> USE HsetAt, GoesAt DEF ConfirmedIsPersisted, CompletedIsPersisted, store
  <2>1. SUFFICES
          /\ client'[w].pc \in {"marking", "writing"} => w \in applied'
          /\ entries'[w].status = "completed" \/ w \in timers' => w \in applied'
    BY <1>1, CallFrame
  <2>2. CASE AddEntry(w)
    BY <2>2 DEF AddEntry
  <2>3. CASE Publish(w)
    BY <2>3 DEF Publish
  <2>4. CASE Fallback(w)
    BY <2>4 DEF Fallback, MongoSet
  <2>5. CASE FallbackRead(w)
    BY <2>5 DEF FallbackRead
  <2>6. CASE FallbackWrite(w)
    BY <2>6 DEF FallbackWrite, StoreCompleted
  <2>7. CASE Deliver(w)
    BY <2>7 DEF Deliver, MongoSet
  <2> QED
    BY <1>1, <2>2, <2>3, <2>4, <2>5, <2>6, <2>7 DEF SetStep
<1>2. ASSUME NEW r \in Runs, NEW w \in Writes, JobStep(r, w)
      PROVE  ConfirmedIsPersisted' /\ CompletedIsPersisted'
  <2>1. /\ OtherTasks(r, w)
        /\ \A x \in Writes : x # w => entries'[x] = entries[x]
        /\ \A x \in Writes : x # w => (x \in timers' <=> x \in timers)
        /\ applied \subseteq applied' /\ client' = client
    BY <1>2, JobFrame
  <2>2. SUFFICES
          /\ job'[r][w].pc \in {"marking", "writing"} => w \in applied'
          /\ entries'[w].status = "completed" \/ w \in timers' => w \in applied'
    BY <2>1 DEF OtherTasks, ConfirmedIsPersisted, CompletedIsPersisted
  <2> USE MovesAt, EndsAt, HsetAt
      DEF ConfirmedIsPersisted, CompletedIsPersisted, store, outside, At, NoJob
  <2>3. CASE MarkProcessing(r, w)
    BY <2>3 DEF MarkProcessing
  <2>4. CASE PersistEntry(r, w)
    BY <2>4 DEF PersistEntry, MongoSet
  <2>5. CASE CompleteRead(r, w)
    BY <2>5 DEF CompleteRead
  <2>6. CASE CompleteWrite(r, w)
    BY <2>6 DEF CompleteWrite, StoreCompleted
  <2>7. CASE FailRead(r, w)
    BY <2>7 DEF FailRead
  <2>8. CASE FailWrite(r, w)
    BY <2>8 DEF FailWrite
  <2>9. CASE PushDeadLetter(r, w)
    BY <2>9 DEF PushDeadLetter
  <2>10. CASE RemoveDead(r, w)
    BY <2>10 DEF RemoveDead, Hdel, Absent
  <2> QED
    BY <1>2, <2>3, <2>4, <2>5, <2>6, <2>7, <2>8, <2>9, <2>10 DEF JobStep
<1>3. ASSUME NEW r \in Runs,
             \/ StartRun(r) \/ AbortRun(r) \/ EndRun(r) \/ Crash(r)
             \/ \E s \in Sessions : Collect(r, s)
      PROVE  ConfirmedIsPersisted' /\ CompletedIsPersisted'
  BY <1>3, RunFrame DEF ConfirmedIsPersisted, CompletedIsPersisted
<1>4. ASSUME \/ \E w \in Writes : TimerFires(w) \/ Cleanup(w)
             \/ \E s \in Sessions : HashExpires(s)
      PROVE  ConfirmedIsPersisted' /\ CompletedIsPersisted'
  <2> USE DEF ConfirmedIsPersisted, CompletedIsPersisted, outside, Absent
  <2>1. ASSUME NEW w \in Writes, TimerFires(w)
        PROVE  ConfirmedIsPersisted' /\ CompletedIsPersisted'
    BY <2>1, HsetAt DEF TimerFires, Hdel
  <2>2. ASSUME NEW w \in Writes, Cleanup(w)
        PROVE  ConfirmedIsPersisted' /\ CompletedIsPersisted'
    BY <2>2 DEF Cleanup
  <2>3. ASSUME NEW s \in Sessions, HashExpires(s)
        PROVE  ConfirmedIsPersisted' /\ CompletedIsPersisted'
    BY <2>3 DEF HashExpires, store
  <2> QED
    BY <1>4, <2>1, <2>2, <2>3
<1>5. CASE UNCHANGED vars
  BY <1>5 DEF vars, ConfirmedIsPersisted, CompletedIsPersisted
<1> QED
  BY <1>1, <1>2, <1>3, <1>4, <1>5 DEF Next

\* Only what MongoDB has taken is marked completed or scheduled for deletion,
\* by whoever marks it, whatever crashes or fails.
THEOREM CompletedTheorem == Spec => []CompletedIsPersisted
<1>1. TypeOK /\ ConfirmedIsPersisted /\ CompletedIsPersisted /\ [Next]_vars
        => ConfirmedIsPersisted' /\ CompletedIsPersisted'
  BY PersistedStep
<1> QED
  BY <1>1, PersistedInit, TypeCorrect, PTL DEF Spec

-----------------------------------------------------------------------------
(* A write that was added to the outbox leaves a trace                      *)

LEMMA TracedInit == Init => RemovedIsDead /\ AddedIsTraced
BY DEF Init, RemovedIsDead, AddedIsTraced, Idle, NoJob

LEMMA TracedStep ==
  ASSUME "expiry" \notin Faults, TypeOK, ConfirmedIsPersisted,
         CompletedIsPersisted, RemovedIsDead, AddedIsTraced, [Next]_vars
  PROVE  RemovedIsDead' /\ AddedIsTraced'
<1>1. ASSUME NEW w \in Writes, SetStep(w) \/ Deliver(w)
      PROVE  RemovedIsDead' /\ AddedIsTraced'
  <2>1. RemovedIsDead'
    BY <1>1, CallFrame DEF RemovedIsDead
  <2>2. SUFFICES /\ client'[w].pc \in {"added", "acked"} => Traced(w)'
                 /\ Traced(w) => Traced(w)'
    BY <1>1, <2>1, CallFrame DEF AddedIsTraced, Traced
  <2> USE HsetAt, GoesAt DEF AddedIsTraced, Traced, store
  <2>3. CASE AddEntry(w)
    BY <2>3 DEF AddEntry
  <2>4. CASE Publish(w)
    BY <2>4 DEF Publish
  <2>5. CASE Fallback(w)
    BY <2>5 DEF Fallback, MongoSet
  <2>6. CASE FallbackRead(w)
    <3>1. w \in applied /\ applied' = applied
      BY <2>6 DEF FallbackRead, ConfirmedIsPersisted
    <3> QED
      BY <3>1
  <2>7. CASE FallbackWrite(w)
    <3>1. w \in applied /\ applied' = applied
      BY <2>7 DEF FallbackWrite, ConfirmedIsPersisted
    <3> QED
      BY <3>1
  <2>8. CASE Deliver(w)
    BY <2>8 DEF Deliver, MongoSet
  <2> QED
    BY <1>1, <2>3, <2>4, <2>5, <2>6, <2>7, <2>8 DEF SetStep
<1>2. ASSUME NEW r \in Runs, NEW w \in Writes, JobStep(r, w)
      PROVE  RemovedIsDead' /\ AddedIsTraced'
  <2>1. /\ OtherTasks(r, w)
        /\ \A x \in Writes : x # w => entries'[x] = entries[x]
        /\ dlq \subseteq dlq' /\ applied \subseteq applied' /\ client' = client
    BY <1>2, JobFrame
  <2>2. SUFFICES
          /\ job'[r][w].pc = "removing" => w \in dlq'
          /\ Traced(w) => Traced(w)'
          /\ job'[r][w].pc # "none" => job[r][w].pc # "none"
    BY <2>1 DEF OtherTasks, RemovedIsDead, AddedIsTraced, Traced
  <2> USE MovesAt, EndsAt, HsetAt
      DEF RemovedIsDead, Traced, store, outside, At
  <2>3. CASE MarkProcessing(r, w)
    BY <2>3 DEF MarkProcessing
  <2>4. CASE PersistEntry(r, w)
    BY <2>1, <2>4 DEF PersistEntry
  <2>5. CASE CompleteRead(r, w)
    BY <2>5 DEF CompleteRead
  <2>6. CASE CompleteWrite(r, w)
    BY <2>1, <2>6 DEF CompleteWrite, ConfirmedIsPersisted
  <2>7. CASE FailRead(r, w)
    BY <2>7 DEF FailRead
  <2>8. CASE FailWrite(r, w)
    <3>1. entries'[w] = entries[w] \/ entries'[w].status = "failed"
      BY <2>8 DEF FailWrite
    <3>2. job'[r][w].pc = "none" /\ applied' = applied /\ dlq' = dlq
      BY <2>8 DEF FailWrite
    <3> QED
      BY <3>1, <3>2
  <2>9. CASE PushDeadLetter(r, w)
    BY <2>9 DEF PushDeadLetter
  <2>10. CASE RemoveDead(r, w)
    BY <2>1, <2>10 DEF RemoveDead
  <2> QED
    BY <1>2, <2>3, <2>4, <2>5, <2>6, <2>7, <2>8, <2>9, <2>10 DEF JobStep
<1>3. ASSUME NEW r \in Runs,
             \/ StartRun(r) \/ AbortRun(r) \/ EndRun(r) \/ Crash(r)
             \/ \E s \in Sessions : Collect(r, s)
      PROVE  RemovedIsDead' /\ AddedIsTraced'
  BY <1>3, RunFrame DEF RemovedIsDead, AddedIsTraced, Traced, Eligible
<1>4. ASSUME NEW w \in Writes, TimerFires(w)
      PROVE  RemovedIsDead' /\ AddedIsTraced'
  <2>1. w \in applied
    BY <1>4 DEF TimerFires, CompletedIsPersisted
  <2> QED
    BY <1>4, <2>1, HsetAt
       DEF TimerFires, Hdel, RemovedIsDead, AddedIsTraced, Traced, outside
<1>5. ASSUME NEW w \in Writes, Cleanup(w)
      PROVE  RemovedIsDead' /\ AddedIsTraced'
  BY <1>5 DEF Cleanup, RemovedIsDead, AddedIsTraced, Traced, outside
<1>6. CASE UNCHANGED vars
  BY <1>6 DEF vars, RemovedIsDead, AddedIsTraced, Traced
<1> QED
  BY <1>1, <1>2, <1>3, <1>4, <1>5, <1>6 DEF Next, HashExpires

\* As long as no hash reaches its seven days, a write whose set has returned a
\* result is in the outbox, in the dead letter queue or in MongoDB, however
\* many reconciliations overlap and whatever crashes or fails.
THEOREM AckedTheorem == "expiry" \notin Faults => (Spec => []AckedIsTraced)
<1> SUFFICES ASSUME "expiry" \notin Faults PROVE Spec => []AckedIsTraced
  OBVIOUS
<1> DEFINE IInv == /\ TypeOK /\ ConfirmedIsPersisted /\ CompletedIsPersisted
                   /\ RemovedIsDead /\ AddedIsTraced
<1>1. Init => IInv
  BY InitType, PersistedInit, TracedInit
<1>2. IInv /\ [Next]_vars => IInv'
  BY NextType, PersistedStep, TracedStep
<1>3. IInv => AckedIsTraced
  BY DEF AddedIsTraced, AckedIsTraced
<1> QED
  BY <1>1, <1>2, <1>3, PTL DEF Spec

-----------------------------------------------------------------------------
(* A dead letter had all its attempts                                       *)

\* The attempts a step of a task stores or takes with it are copies, except
\* that markFailed adds one and counts it.
LEMMA JobAttempts ==
  ASSUME TypeOK, NEW r \in Runs, NEW w \in Writes, JobStep(r, w)
  PROVE  /\ job'[r][w].attempts \in {0, job[r][w].attempts}
         /\ job'[r][w].copy \in {Absent, entries[w]}
         /\ \/ /\ retried'[w] = retried[w]
               /\ entries'[w].attempts \in {entries[w].attempts, 0,
                    job[r][w].attempts, job[r][w].copy.attempts}
            \/ /\ entries'[w].attempts = job[r][w].copy.attempts + 1
               /\ retried'[w] = IF retried[w] < MaxAttempts
                                  THEN retried[w] + 1 ELSE retried[w]
         /\ w \in dlq' => w \in dlq \/ job[r][w].attempts >= MaxAttempts - 1
<1> USE MovesAt, EndsAt, HsetAt DEF store, outside
<1>1. CASE MarkProcessing(r, w)
  <2>1. /\ job'[r][w].attempts = job[r][w].attempts
        /\ job'[r][w].copy = Absent
    BY <1>1 DEF MarkProcessing
  <2>2. entries'[w].attempts \in {entries[w].attempts, job[r][w].attempts}
    BY <1>1 DEF MarkProcessing
  <2>3. retried' = retried /\ dlq' = dlq
    BY <1>1 DEF MarkProcessing
  <2> QED
    BY <2>1, <2>2, <2>3
<1>2. CASE PersistEntry(r, w)
  BY <1>2 DEF PersistEntry
<1>3. CASE CompleteRead(r, w)
  BY <1>3 DEF CompleteRead
<1>4. CASE CompleteWrite(r, w)
  <2>1. With(job[r][w].copy, "completed").attempts = job[r][w].copy.attempts
    BY DEF With, TypeOK, Entry
  <2>2. entries'[w].attempts \in {entries[w].attempts, job[r][w].copy.attempts}
    BY <1>4, <2>1 DEF CompleteWrite, StoreCompleted
  <2>3. /\ job'[r][w].attempts \in {0, job[r][w].attempts}
        /\ job'[r][w].copy = Absent
    BY <1>4 DEF CompleteWrite
  <2>4. retried' = retried /\ dlq' = dlq
    BY <1>4 DEF CompleteWrite
  <2> QED
    BY <2>2, <2>3, <2>4
<1>5. CASE FailRead(r, w)
  BY <1>5 DEF FailRead
<1>6. CASE FailWrite(r, w)
  <2>1. job'[r][w].attempts = 0 /\ job'[r][w].copy = Absent /\ dlq' = dlq
    BY <1>6 DEF FailWrite
  <2>2. CASE entries' = entries /\ retried' = retried
    BY <2>1, <2>2
  <2>3. CASE /\ Hset(w, [status |-> "failed", attempts |-> job[r][w].copy.attempts + 1])
             /\ retried' = [retried EXCEPT ![w] = IF @ < MaxAttempts THEN @ + 1 ELSE @]
    <3>1. entries'[w].attempts = job[r][w].copy.attempts + 1
      BY <2>3
    <3>2. retried'[w] = IF retried[w] < MaxAttempts THEN retried[w] + 1 ELSE retried[w]
      BY <2>3 DEF TypeOK
    <3> QED
      BY <2>1, <3>1, <3>2
  <2> QED
    BY <1>6, <2>2, <2>3 DEF FailWrite
<1>7. CASE PushDeadLetter(r, w)
  BY <1>7 DEF PushDeadLetter, LastAttempt
<1>8. CASE RemoveDead(r, w)
  BY <1>8 DEF RemoveDead, Hdel, Absent
<1> QED
  BY <1>1, <1>2, <1>3, <1>4, <1>5, <1>6, <1>7, <1>8 DEF JobStep

LEMMA CallAttempts ==
  ASSUME TypeOK, NEW w \in Writes, SetStep(w) \/ Deliver(w)
  PROVE  /\ client'[w].copy \in {Absent, entries[w], client[w].copy}
         /\ entries'[w].attempts \in
              {entries[w].attempts, 0, client[w].copy.attempts}
<1> USE HsetAt, GoesAt
<1>1. CASE AddEntry(w)
  BY <1>1 DEF AddEntry
<1>2. CASE Publish(w)
  BY <1>2 DEF Publish
<1>3. CASE Fallback(w)
  BY <1>3 DEF Fallback
<1>4. CASE FallbackRead(w)
  <2>1. entries' = entries
    BY <1>4 DEF FallbackRead
  <2>2. CASE \E pc \in {"acked", "rejected"} : Goes(w, pc)
    BY <2>1, <2>2
  <2>3. CASE client' = [client EXCEPT ![w] = [pc |-> "writing", copy |-> entries[w]]]
    BY <2>1, <2>3 DEF TypeOK
  <2> QED
    BY <1>4, <2>2, <2>3 DEF FallbackRead
<1>5. CASE FallbackWrite(w)
  <2>1. With(client[w].copy, "completed").attempts = client[w].copy.attempts
    BY DEF With, TypeOK, Entry
  <2> QED
    BY <1>5, <2>1 DEF FallbackWrite, StoreCompleted
<1>6. CASE Deliver(w)
  BY <1>6 DEF Deliver
<1> QED
  BY <1>1, <1>2, <1>3, <1>4, <1>5, <1>6 DEF SetStep

LEMMA AttemptsInit == Init => AttemptsAreCounted /\ DeadLettersAreExhausted
BY DEF Init, AttemptsAreCounted, DeadLettersAreExhausted, Counted, Absent,
       Idle, NoJob

LEMMA AttemptsStep ==
  ASSUME TypeOK, TypeOK', AttemptsAreCounted, DeadLettersAreExhausted,
         [Next]_vars
  PROVE  AttemptsAreCounted' /\ DeadLettersAreExhausted'
<1>0. /\ MaxAttempts \in Nat
      /\ \A x \in Writes : retried[x] \in 0..MaxAttempts
      /\ \A x \in Writes : retried'[x] \in 0..MaxAttempts
      /\ \A x \in Writes : Absent.attempts = 0 /\ Counted(0, x)
      /\ \A x \in Writes : entries[x].attempts \in Nat
      /\ \A x \in Writes : client[x].copy.attempts \in Nat
      /\ \A q \in Runs, x \in Writes :
           job[q][x].attempts \in Nat /\ job[q][x].copy.attempts \in Nat
  BY OutboxAssumption DEF TypeOK, Entry, Absent, Counted
<1>1. ASSUME NEW w \in Writes, SetStep(w) \/ Deliver(w)
      PROVE  AttemptsAreCounted' /\ DeadLettersAreExhausted'
  <2>1. dlq' = dlq /\ retried' = retried /\ job' = job
    BY <1>1, CallFrame
  <2>2. /\ client'[w].copy \in {Absent, entries[w], client[w].copy}
        /\ entries'[w].attempts \in
             {entries[w].attempts, 0, client[w].copy.attempts}
    BY <1>1, CallAttempts
  <2>3. /\ Counted(entries'[w].attempts, w)
        /\ Counted(client'[w].copy.attempts, w)
    BY <1>0, <2>2 DEF AttemptsAreCounted
  <2>4. \A x \in Writes : x # w => entries'[x] = entries[x] /\ client'[x] = client[x]
    BY <1>1, CallFrame
  <2>5. AttemptsAreCounted'
    BY <2>1, <2>3, <2>4 DEF AttemptsAreCounted, Counted
  <2> QED
    BY <2>1, <2>5 DEF DeadLettersAreExhausted
<1>2. ASSUME NEW r \in Runs, NEW w \in Writes, JobStep(r, w)
      PROVE  AttemptsAreCounted' /\ DeadLettersAreExhausted'
  <2>1. /\ OtherTasks(r, w) /\ client' = client
        /\ \A x \in Writes : x # w =>
             entries'[x] = entries[x] /\ retried'[x] = retried[x]
        /\ \A x \in Writes : x # w => (x \in dlq' <=> x \in dlq)
    BY <1>2, JobFrame
  <2>2. /\ job'[r][w].attempts \in {0, job[r][w].attempts}
        /\ job'[r][w].copy \in {Absent, entries[w]}
        /\ \/ /\ retried'[w] = retried[w]
              /\ entries'[w].attempts \in {entries[w].attempts, 0,
                   job[r][w].attempts, job[r][w].copy.attempts}
           \/ /\ entries'[w].attempts = job[r][w].copy.attempts + 1
              /\ retried'[w] = IF retried[w] < MaxAttempts
                                 THEN retried[w] + 1 ELSE retried[w]
        /\ w \in dlq' => w \in dlq \/ job[r][w].attempts >= MaxAttempts - 1
    BY <1>2, JobAttempts
  <2>3. retried[w] <= retried'[w]
    BY <1>0, <2>2
  <2>4. \A a \in Nat : Counted(a, w) => a <= retried'[w] \/ retried'[w] = MaxAttempts
    BY <1>0, <2>3 DEF Counted
  <2>5. entries'[w].attempts <= retried'[w] \/ retried'[w] = MaxAttempts
    <3>1. Counted(job[r][w].copy.attempts, w)
      BY DEF AttemptsAreCounted
    <3>2. CASE retried'[w] = retried[w]
               /\ entries'[w].attempts \in {entries[w].attempts, 0,
                   job[r][w].attempts, job[r][w].copy.attempts}
      BY <1>0, <2>4, <3>2 DEF AttemptsAreCounted
    <3>3. CASE /\ entries'[w].attempts = job[r][w].copy.attempts + 1
               /\ retried'[w] = IF retried[w] < MaxAttempts
                                  THEN retried[w] + 1 ELSE retried[w]
      BY <1>0, <3>1, <3>3 DEF Counted
    <3> QED
      BY <2>2, <3>2, <3>3
  <2>6. /\ job'[r][w].attempts <= retried'[w] \/ retried'[w] = MaxAttempts
        /\ job'[r][w].copy.attempts <= retried'[w] \/ retried'[w] = MaxAttempts
    BY <1>0, <2>2, <2>4 DEF AttemptsAreCounted
  <2>7. AttemptsAreCounted'
    <3> SUFFICES ASSUME NEW x \in Writes
                 PROVE  /\ Counted(entries[x].attempts, x)'
                        /\ Counted(client[x].copy.attempts, x)'
                        /\ \A q \in Runs : /\ Counted(job[q][x].attempts, x)'
                                           /\ Counted(job[q][x].copy.attempts, x)'
      BY DEF AttemptsAreCounted
    <3>1. CASE x # w
      BY <2>1, <3>1 DEF AttemptsAreCounted, Counted, OtherTasks
    <3>2. CASE x = w
      <4>1. Counted(client[w].copy.attempts, w)'
        BY <1>0, <2>1, <2>4 DEF AttemptsAreCounted, Counted
      <4>2. ASSUME NEW q \in Runs, q # r
            PROVE  Counted(job[q][w].attempts, w)' /\ Counted(job[q][w].copy.attempts, w)'
        BY <1>0, <2>1, <2>4, <4>2 DEF AttemptsAreCounted, Counted, OtherTasks
      <4> QED
        BY <2>5, <2>6, <3>2, <4>1, <4>2 DEF Counted
    <3> QED
      BY <3>1, <3>2
  <2>8. w \in dlq' => retried'[w] >= MaxAttempts - 1
    <3>1. Counted(job[r][w].attempts, w)
      BY DEF AttemptsAreCounted
    <3> QED
      BY <1>0, <2>2, <2>3, <3>1 DEF DeadLettersAreExhausted, Counted
  <2> QED
    BY <2>1, <2>7, <2>8 DEF DeadLettersAreExhausted, TypeOK
<1>3. ASSUME NEW r \in Runs,
             \/ StartRun(r) \/ AbortRun(r) \/ EndRun(r) \/ Crash(r)
             \/ \E s \in Sessions : Collect(r, s)
      PROVE  AttemptsAreCounted' /\ DeadLettersAreExhausted'
  <2>1. /\ entries' = entries /\ client' = client
        /\ dlq' = dlq /\ retried' = retried
    BY <1>3, RunFrame
  <2>2. ASSUME NEW q \in Runs, NEW x \in Writes
        PROVE  Counted(job'[q][x].attempts, x) /\ Counted(job'[q][x].copy.attempts, x)
    BY <1>0, <1>3, RunFrame DEF AttemptsAreCounted
  <2> QED
    BY <2>1, <2>2 DEF AttemptsAreCounted, DeadLettersAreExhausted, Counted
<1>4. ASSUME \/ \E w \in Writes : TimerFires(w) \/ Cleanup(w)
             \/ \E s \in Sessions : HashExpires(s)
      PROVE  AttemptsAreCounted' /\ DeadLettersAreExhausted'
  <2>1. client' = client /\ dlq' = dlq /\ retried' = retried /\ job' = job
    BY <1>4 DEF TimerFires, Cleanup, HashExpires, store, outside
  <2>2. \A x \in Writes : entries'[x].attempts \in {entries[x].attempts, 0}
    BY <1>0, <1>4, HsetAt DEF TimerFires, Cleanup, HashExpires, Hdel
  <2> QED
    BY <1>0, <2>1, <2>2 DEF AttemptsAreCounted, DeadLettersAreExhausted, Counted
<1>5. CASE UNCHANGED vars
  BY <1>5 DEF vars, AttemptsAreCounted, DeadLettersAreExhausted, Counted
<1> QED
  BY <1>1, <1>2, <1>3, <1>4, <1>5 DEF Next

\* A write reaches the dead letter queue only after MaxAttempts - 1 stored
\* failures before the last one, even though overlapping tasks judge by copies
\* of the entry and overwrite each other's counts.
THEOREM DeadLetterTheorem == Spec => []DeadLettersAreExhausted
<1> DEFINE IInv == TypeOK /\ AttemptsAreCounted /\ DeadLettersAreExhausted
<1>1. Init => IInv
  BY InitType, AttemptsInit
<1>2. IInv /\ [Next]_vars => IInv'
  BY NextType, AttemptsStep
<1> QED
  BY <1>1, <1>2, PTL DEF Spec

-----------------------------------------------------------------------------
(* No entry is stranded while reconciliations take turns                   *)

\* Whatever a task, or a call of set about to mark its entry, has read of the
\* attempts is of the same reconciliation: less than the task was given.
TaskFits(r, w) ==
  LET j == job[r][w] IN
  /\ j.pc # "none" =>
       /\ r \in active
       /\ entries[w].attempts <= j.attempts
       /\ client[w].pc = "writing" => client[w].copy.attempts <= j.attempts
  /\ j.pc \in {"writing", "failing"} =>
       /\ entries[w].attempts <= j.copy.attempts
       /\ j.copy.attempts <= j.attempts
       /\ client[w].pc = "writing" => client[w].copy.attempts <= j.copy.attempts
  /\ j.pc = "failing" => j.attempts < MaxAttempts - 1

Held(w) ==
  /\ entries[w].status = "failed" => entries[w].attempts < MaxAttempts
  /\ entries[w].status = "processing" => InTask(w)
  /\ client[w].pc = "writing" /\ entries[w].status # "absent" =>
       client[w].copy.attempts <= entries[w].attempts
  /\ \A r \in Runs : TaskFits(r, w)

StrandInv == \A w \in Writes : Held(w)

LEMMA AttemptTypes ==
  ASSUME TypeOK
  PROVE  /\ MaxAttempts \in Nat
         /\ Absent.attempts = 0 /\ Absent.status = "absent"
         /\ \A w \in Writes : /\ entries[w].attempts \in Nat
                              /\ client[w].copy.attempts \in Nat
         /\ \A r \in Runs, w \in Writes : job[r][w].attempts \in Nat
                                          /\ job[r][w].copy.attempts \in Nat
BY OutboxAssumption DEF TypeOK, Entry, Absent

\* What is held of a write whose entry, call and tasks are as they were.
LEMMA HeldStays ==
  ASSUME NEW w \in Writes, Held(w), entries'[w] = entries[w], client'[w] = client[w],
         \A r \in Runs : job'[r][w] = job[r][w],
         active \subseteq active'
  PROVE  Held(w)'
BY DEF Held, TaskFits, InTask

\* What a step of a task may do while Redis answers.
LEMMA JobOutcome ==
  ASSUME TypeOK, "redis" \notin Faults, NEW r \in Runs, NEW w \in Writes, JobStep(r, w)
  PROVE  /\ job[r][w].pc # "none" /\ active' = active
         /\ \/ /\ job'[r][w].pc = "persist" /\ job'[r][w].attempts = job[r][w].attempts
               /\ entries'[w] = [status |-> "processing", attempts |-> job[r][w].attempts]
            \/ /\ job'[r][w].pc \in {"marking", "caught", "removing"}
               /\ job'[r][w].attempts = job[r][w].attempts
               /\ entries'[w] = entries[w]
            \/ /\ job'[r][w].pc \in {"writing", "failing"} /\ entries[w].status # "absent"
               /\ job'[r][w].attempts = job[r][w].attempts
               /\ job'[r][w].copy = entries[w]
               /\ job'[r][w].pc = "failing" => ~LastAttempt(r, w)
               /\ entries'[w] = entries[w]
            \/ /\ job'[r][w].pc = "none"
               /\ \/ entries[w].status = "absent" /\ entries'[w] = entries[w]
                  \/ entries'[w] = Absent
                  \/ job[r][w].pc = "writing"
                       /\ entries'[w] = With(job[r][w].copy, "completed")
                  \/ job[r][w].pc = "failing"
                       /\ entries'[w] = [status |-> "failed",
                                         attempts |-> job[r][w].copy.attempts + 1]
<1> USE MovesAt, EndsAt, HsetAt DEF At
<1>1. CASE MarkProcessing(r, w)
  BY <1>1 DEF MarkProcessing
<1>2. CASE PersistEntry(r, w)
  BY <1>2 DEF PersistEntry
<1>3. CASE CompleteRead(r, w)
  BY <1>3 DEF CompleteRead
<1>4. CASE CompleteWrite(r, w)
  BY <1>4 DEF CompleteWrite, StoreCompleted
<1>5. CASE FailRead(r, w)
  BY <1>5 DEF FailRead
<1>6. CASE FailWrite(r, w)
  BY <1>6 DEF FailWrite
<1>7. CASE PushDeadLetter(r, w)
  BY <1>7 DEF PushDeadLetter
<1>8. CASE RemoveDead(r, w)
  BY <1>8 DEF RemoveDead, Hdel
<1> QED
  BY <1>1, <1>2, <1>3, <1>4, <1>5, <1>6, <1>7, <1>8 DEF JobStep

\* The task that makes a step is the only one of its write.
LEMMA AloneInTask ==
  ASSUME StrandInv, NoOverlap, NEW r \in Runs, NEW w \in Writes, job[r][w].pc # "none"
  PROVE  \A q \in Runs : q # r => job[q][w].pc = "none"
BY DEF StrandInv, Held, TaskFits, NoOverlap

LEMMA JobHeld ==
  ASSUME TypeOK, StrandInv, NoOverlap, "redis" \notin Faults,
         NEW r \in Runs, NEW w \in Writes, JobStep(r, w)
  PROVE  StrandInv'
<1>1. /\ OtherTasks(r, w) /\ client' = client
      /\ \A x \in Writes : x # w => entries'[x] = entries[x]
  BY JobFrame
<1>2. active' = active /\ job[r][w].pc # "none"
  BY JobOutcome
<1>3. \A x \in Writes : x # w => Held(x)'
  BY <1>1, <1>2, HeldStays DEF StrandInv, OtherTasks
<1>4. \A q \in Runs : q # r => job'[q][w].pc = "none"
  BY <1>1, <1>2, AloneInTask DEF OtherTasks
<1>5. \A q \in Runs : q # r => TaskFits(q, w)'
  BY <1>4 DEF TaskFits
<1>6. Held(w) /\ TaskFits(r, w) /\ r \in active
  BY <1>2 DEF StrandInv, Held, TaskFits
<1> DEFINE e == entries[w]
           f == entries'[w]
           c == client[w]
           j == job[r][w]
           k == job'[r][w]
<1>7. /\ MaxAttempts \in Nat /\ e.attempts \in Nat /\ c.copy.attempts \in Nat
      /\ j.attempts \in Nat /\ j.copy.attempts \in Nat
      /\ Absent.attempts = 0 /\ Absent.status = "absent"
  BY AttemptTypes
<1>8. /\ e.status = "failed" => e.attempts < MaxAttempts
      /\ c.pc = "writing" /\ e.status # "absent" => c.copy.attempts <= e.attempts
      /\ e.attempts <= j.attempts
      /\ c.pc = "writing" => c.copy.attempts <= j.attempts
      /\ j.pc \in {"writing", "failing"} =>
           /\ e.attempts <= j.copy.attempts
           /\ j.copy.attempts <= j.attempts
           /\ c.pc = "writing" => c.copy.attempts <= j.copy.attempts
      /\ j.pc = "failing" => j.attempts < MaxAttempts - 1
  BY <1>2, <1>6 DEF Held, TaskFits
<1>9. /\ f.status = "failed" => f.attempts < MaxAttempts
      /\ f.status = "processing" => k.pc # "none" \/ f = e
      /\ c.pc = "writing" /\ f.status # "absent" => c.copy.attempts <= f.attempts
      /\ k.pc # "none" =>
           /\ f.attempts <= k.attempts
           /\ c.pc = "writing" => c.copy.attempts <= k.attempts
      /\ k.pc \in {"writing", "failing"} =>
           /\ f.attempts <= k.copy.attempts
           /\ k.copy.attempts <= k.attempts
           /\ c.pc = "writing" => c.copy.attempts <= k.copy.attempts
      /\ k.pc = "failing" => k.attempts < MaxAttempts - 1
      /\ k.pc = "none" => f.status # "processing"
  <2>1. CASE /\ k.pc = "persist" /\ k.attempts = j.attempts
             /\ f = [status |-> "processing", attempts |-> j.attempts]
    <3>1. f.status = "processing" /\ f.attempts = j.attempts
      BY <2>1
    <3> HIDE DEF e, f, c, j, k
    <3> QED BY <1>7, <1>8, <2>1, <3>1
  <2>2. CASE /\ k.pc \in {"marking", "caught", "removing"}
             /\ k.attempts = j.attempts
             /\ f = e
    <3> HIDE DEF e, f, c, j, k
    <3> QED BY <1>7, <1>8, <2>2
  <2>3. CASE /\ k.pc \in {"writing", "failing"} /\ e.status # "absent"
             /\ k.attempts = j.attempts
             /\ k.copy = e
             /\ k.pc = "failing" => ~LastAttempt(r, w)
             /\ f = e
    <3>1. ~LastAttempt(r, w) => j.attempts < MaxAttempts - 1
      BY <1>7 DEF LastAttempt
    <3> HIDE DEF e, f, c, j, k
    <3> QED BY <1>7, <1>8, <2>3, <3>1
  <2>4. CASE k.pc = "none" /\ e.status = "absent" /\ f = e
    <3> HIDE DEF e, f, c, j, k
    <3> QED BY <1>7, <1>8, <2>4
  <2>5. CASE k.pc = "none" /\ f = Absent
    <3> HIDE DEF e, f, c, j, k
    <3> QED BY <1>7, <1>8, <2>5
  <2>6. CASE k.pc = "none" /\ j.pc = "writing" /\ f = With(j.copy, "completed")
    <3>1. f.status = "completed" /\ f.attempts = j.copy.attempts
      BY <2>6 DEF With, TypeOK, Entry
    <3> HIDE DEF e, f, c, j, k
    <3> QED BY <1>7, <1>8, <2>6, <3>1
  <2>7. CASE /\ k.pc = "none" /\ j.pc = "failing"
             /\ f = [status |-> "failed", attempts |-> j.copy.attempts + 1]
    <3>1. f.status = "failed" /\ f.attempts = j.copy.attempts + 1
      BY <2>7
    <3> HIDE DEF e, f, c, j, k
    <3> QED BY <1>7, <1>8, <2>7, <3>1
  <2> QED BY <2>1, <2>2, <2>3, <2>4, <2>5, <2>6, <2>7, JobOutcome
<1>10. TaskFits(r, w)'
  BY <1>1, <1>2, <1>6, <1>9 DEF TaskFits
<1>11. Held(w)'
  <2>1. f.status = "processing" => InTask(w)'
    BY <1>9 DEF InTask
  <2> QED BY <1>1, <1>5, <1>9, <1>10, <2>1 DEF Held
<1> QED BY <1>3, <1>11 DEF StrandInv

\* What a step of a call, or of the queue's worker, may do while Redis answers.
LEMMA CallOutcome ==
  ASSUME TypeOK, "redis" \notin Faults, NEW w \in Writes, SetStep(w) \/ Deliver(w)
  PROVE  /\ active' = active
         /\ \/ /\ client'[w].pc # "writing"
               /\ \/ entries'[w] = entries[w]
                  \/ entries[w].status = "absent"
                       /\ entries'[w] = [status |-> "pending", attempts |-> 0]
                  \/ client[w].pc = "writing"
                       /\ entries'[w] = With(client[w].copy, "completed")
            \/ /\ client'[w].pc = "writing" /\ entries'[w] = entries[w]
               /\ client'[w].copy = entries[w] /\ entries[w].status # "absent"
            \/ client'[w] = client[w] /\ entries'[w] = entries[w]
<1> USE HsetAt, GoesAt DEF outside
<1>1. CASE AddEntry(w)
  BY <1>1 DEF AddEntry
<1>2. CASE Publish(w)
  BY <1>2 DEF Publish
<1>3. CASE Fallback(w)
  BY <1>3 DEF Fallback
<1>4. CASE FallbackRead(w)
  <2>1. CASE client' = [client EXCEPT ![w] = [pc |-> "writing", copy |-> entries[w]]]
             /\ entries[w].status # "absent"
    BY <1>4, <2>1 DEF FallbackRead, TypeOK
  <2>2. CASE Goes(w, "acked")
    BY <1>4, <2>2 DEF FallbackRead
  <2> QED BY <1>4, <2>1, <2>2 DEF FallbackRead
<1>5. CASE FallbackWrite(w)
  BY <1>5 DEF FallbackWrite, StoreCompleted
<1>6. CASE Deliver(w)
  BY <1>6 DEF Deliver
<1> QED
  BY <1>1, <1>2, <1>3, <1>4, <1>5, <1>6 DEF SetStep

LEMMA CallHeld ==
  ASSUME TypeOK, StrandInv, "redis" \notin Faults, NEW w \in Writes, SetStep(w) \/ Deliver(w)
  PROVE  StrandInv'
<1>1. /\ job' = job
      /\ \A x \in Writes : x # w => entries'[x] = entries[x] /\ client'[x] = client[x]
  BY CallFrame
<1>2. active' = active
  BY CallOutcome
<1>3. \A x \in Writes : x # w => Held(x)'
  BY <1>1, <1>2, HeldStays DEF StrandInv
<1> DEFINE e == entries[w]
           f == entries'[w]
           c == client[w]
           d == client'[w]
<1>4. /\ e.attempts \in Nat /\ c.copy.attempts \in Nat
      /\ \A r \in Runs : job[r][w].attempts \in Nat /\ job[r][w].copy.attempts \in Nat
  BY AttemptTypes
<1>5. /\ e.status = "failed" => e.attempts < MaxAttempts
      /\ e.status = "processing" => InTask(w)
      /\ c.pc = "writing" /\ e.status # "absent" => c.copy.attempts <= e.attempts
      /\ \A r \in Runs : TaskFits(r, w)
  BY DEF StrandInv, Held
<1>6. /\ f.status = "failed" => f.attempts < MaxAttempts
      /\ f.status = "processing" => f = e
      /\ d.pc = "writing" /\ f.status # "absent" => d.copy.attempts <= f.attempts
      /\ f.attempts \in {0, e.attempts} \/ (c.pc = "writing" /\ f.attempts = c.copy.attempts)
      /\ d.pc = "writing" => \/ d.copy.attempts = e.attempts
                             \/ c.pc = "writing" /\ d.copy.attempts = c.copy.attempts
  <2>1. CASE /\ d.pc # "writing"
             /\ \/ f = e
                \/ e.status = "absent" /\ f = [status |-> "pending", attempts |-> 0]
    BY <1>5, <2>1
  <2>2. CASE d.pc # "writing" /\ c.pc = "writing" /\ f = With(c.copy, "completed")
    <3>1. f.status = "completed" /\ f.attempts = c.copy.attempts
      BY <2>2 DEF With, TypeOK, Entry
    <3> QED BY <1>4, <2>2, <3>1
  <2>3. CASE d.pc = "writing" /\ f = e /\ d.copy = e /\ e.status # "absent"
    BY <1>4, <1>5, <2>3
  <2>4. CASE d = c /\ f = e
    BY <1>5, <2>4
  <2> QED BY <2>1, <2>2, <2>3, <2>4, CallOutcome
<1>7. ASSUME NEW r \in Runs PROVE TaskFits(r, w)'
  <2> DEFINE j == job[r][w]
  <2>1. /\ j.pc # "none" =>
             /\ r \in active
             /\ e.attempts <= j.attempts
             /\ c.pc = "writing" => c.copy.attempts <= j.attempts
        /\ j.pc \in {"writing", "failing"} =>
             /\ e.attempts <= j.copy.attempts
             /\ j.copy.attempts <= j.attempts
             /\ c.pc = "writing" => c.copy.attempts <= j.copy.attempts
        /\ j.pc = "failing" => j.attempts < MaxAttempts - 1
    BY <1>5 DEF TaskFits
  <2>2. j.attempts \in Nat /\ j.copy.attempts \in Nat
    BY <1>4
  <2> HIDE DEF e, f, c, d, j
  <2>3. /\ j.pc # "none" =>
             /\ r \in active
             /\ f.attempts <= j.attempts
             /\ d.pc = "writing" => d.copy.attempts <= j.attempts
        /\ j.pc \in {"writing", "failing"} =>
             /\ f.attempts <= j.copy.attempts
             /\ j.copy.attempts <= j.attempts
             /\ d.pc = "writing" => d.copy.attempts <= j.copy.attempts
        /\ j.pc = "failing" => j.attempts < MaxAttempts - 1
    BY <1>4, <1>6, <2>1, <2>2
  <2> QED BY <1>1, <1>2, <2>3 DEF TaskFits, e, f, c, d, j
<1>8. f.status = "processing" => InTask(w)'
  BY <1>1, <1>5, <1>6 DEF InTask
<1>9. Held(w)'
  BY <1>6, <1>7, <1>8 DEF Held
<1> QED BY <1>3, <1>9 DEF StrandInv

\* A reconciliation that starts, reads or ends keeps the tasks there are, and a
\* new one is given what the entry says.
LEMMA RunOutcome ==
  ASSUME TypeOK, StrandInv, NEW r \in Runs,
         StartRun(r) \/ EndRun(r) \/ \E s \in Sessions : Collect(r, s)
  PROVE  /\ entries' = entries /\ client' = client
         /\ \A q \in Runs, x \in Writes :
              \/ job'[q][x] = job[q][x] /\ (job[q][x].pc # "none" => q \in active')
              \/ /\ job'[q][x].pc = "queued" /\ q \in active'
                 /\ job'[q][x].attempts = entries[x].attempts
                 /\ Eligible(entries[x])
<1> USE DEF outside
<1>0. \A q \in Runs, x \in Writes : job[q][x].pc # "none" => q \in active
  BY DEF StrandInv, Held, TaskFits
<1>1. CASE StartRun(r)
  BY <1>0, <1>1 DEF StartRun
<1>2. CASE EndRun(r)
  BY <1>0, <1>2 DEF EndRun
<1>3. ASSUME NEW s \in Sessions, Collect(r, s)
      PROVE  /\ entries' = entries /\ client' = client
             /\ \A q \in Runs, x \in Writes :
                  \/ job'[q][x] = job[q][x] /\ (job[q][x].pc # "none" => q \in active')
                  \/ /\ job'[q][x].pc = "queued" /\ q \in active'
                     /\ job'[q][x].attempts = entries[x].attempts
                     /\ Eligible(entries[x])
  <2> SUFFICES ASSUME NEW q \in Runs, NEW x \in Writes, job'[q][x] # job[q][x]
               PROVE  /\ job'[q][x].pc = "queued" /\ q \in active'
                      /\ job'[q][x].attempts = entries[x].attempts
                      /\ Eligible(entries[x])
    BY <1>0, <1>3 DEF Collect
  <2>1. q = r /\ job'[r][x] = IF x[1] = s /\ Eligible(entries[x])
                 THEN [pc |-> "queued", attempts |-> entries[x].attempts, copy |-> Absent]
                 ELSE job[r][x]
    BY <1>3 DEF Collect, TypeOK
  <2>2. r \in active'
    BY <1>3 DEF Collect
  <2> QED BY <2>1, <2>2
<1> QED BY <1>1, <1>2, <1>3

LEMMA RunHeld ==
  ASSUME TypeOK, StrandInv, NEW r \in Runs,
         StartRun(r) \/ EndRun(r) \/ \E s \in Sessions : Collect(r, s)
  PROVE  StrandInv'
<1> SUFFICES ASSUME NEW w \in Writes PROVE Held(w)'
  BY DEF StrandInv
<1>1. /\ entries' = entries /\ client' = client
      /\ \A q \in Runs :
           \/ job'[q][w] = job[q][w] /\ (job[q][w].pc # "none" => q \in active')
           \/ /\ job'[q][w].pc = "queued" /\ q \in active'
              /\ job'[q][w].attempts = entries[w].attempts
              /\ Eligible(entries[w])
  BY RunOutcome
<1>2. Held(w) /\ entries[w].attempts \in Nat
  BY AttemptTypes DEF StrandInv
<1>3. ASSUME NEW q \in Runs PROVE TaskFits(q, w)'
  <2>1. CASE job'[q][w] = job[q][w] /\ (job[q][w].pc # "none" => q \in active')
    BY <1>1, <1>2, <2>1 DEF Held, TaskFits
  <2>2. CASE /\ job'[q][w].pc = "queued" /\ q \in active'
             /\ job'[q][w].attempts = entries[w].attempts
             /\ Eligible(entries[w])
    <3>1. entries[w].status # "absent"
      BY <2>2 DEF Eligible
    <3>2. client[w].pc = "writing" => client[w].copy.attempts <= entries[w].attempts
      BY <1>2, <3>1 DEF Held
    <3> QED BY <1>1, <1>2, <2>2, <3>2 DEF TaskFits
  <2> QED BY <1>1, <2>1, <2>2
<1>4. InTask(w) => InTask(w)'
  BY <1>1 DEF InTask
<1> QED BY <1>1, <1>2, <1>3, <1>4 DEF Held

LEMMA TimeHeld ==
  ASSUME TypeOK, StrandInv,
         \/ \E w \in Writes : TimerFires(w) \/ Cleanup(w)
         \/ \E s \in Sessions : HashExpires(s)
  PROVE  StrandInv'
<1>1. client' = client /\ job' = job /\ active' = active
  BY DEF TimerFires, Cleanup, HashExpires, store, outside
<1>2. \A x \in Writes : entries'[x] \in {entries[x], Absent}
  BY HsetAt DEF TimerFires, Cleanup, HashExpires, Hdel, TypeOK
<1> SUFFICES ASSUME NEW w \in Writes PROVE Held(w)'
  BY DEF StrandInv
<1>3. CASE entries'[w] = entries[w]
  BY <1>1, <1>3, HeldStays DEF StrandInv
<1>4. CASE entries'[w] = Absent
  <2>1. Absent.attempts = 0 /\ Absent.status = "absent" /\ Held(w)
    BY AttemptTypes DEF StrandInv
  <2>2. \A r \in Runs : job[r][w].attempts \in Nat /\ job[r][w].copy.attempts \in Nat
    BY AttemptTypes
  <2> QED BY <1>1, <1>4, <2>1, <2>2 DEF Held, TaskFits
<1> QED BY <1>2, <1>3, <1>4

LEMMA StrandStep ==
  ASSUME "redis" \notin Faults, "crash" \notin Faults
  PROVE  TypeOK /\ StrandInv /\ NoOverlap /\ [Next]_vars => StrandInv'
<1> SUFFICES ASSUME TypeOK, StrandInv, NoOverlap, [Next]_vars PROVE StrandInv'
  OBVIOUS
<1>1. CASE UNCHANGED vars
  BY <1>1, HeldStays DEF vars, StrandInv
<1>2. \A r \in Runs : ~AbortRun(r) /\ ~Crash(r)
  BY DEF AbortRun, Crash
<1> QED
  BY <1>1, <1>2, JobHeld, CallHeld, RunHeld, TimeHeld DEF Next

\* While reconciliations take turns and neither crash nor lose Redis, no entry is
\* left that the next one would not pick up: none stays in status processing
\* and none fails for good without going to the dead letter queue, whatever
\* MongoDB and the queue do and whenever the calls of set mark their own entries
\* (outbox.ts:158-175, 213-262, 275-342).
THEOREM StrandedTheorem ==
  "redis" \notin Faults /\ "crash" \notin Faults
    => (Spec /\ []NoOverlap => []NothingStranded)
<1> SUFFICES ASSUME "redis" \notin Faults, "crash" \notin Faults
             PROVE  Spec /\ []NoOverlap => []NothingStranded
  OBVIOUS
<1>1. Init => StrandInv
  BY DEF Init, StrandInv, Held, TaskFits, Absent, Idle, NoJob
<1>2. TypeOK /\ StrandInv /\ NoOverlap /\ [Next]_vars => StrandInv'
  BY StrandStep
<1>3. TypeOK /\ StrandInv => NothingStranded
  <2> SUFFICES ASSUME TypeOK, StrandInv, NEW w \in Writes
               PROVE  \/ entries[w].status \in {"absent", "completed"}
                      \/ Eligible(entries[w])
                      \/ InTask(w)
    BY DEF NothingStranded
  <2>1. entries[w].status \in Statuses
    BY DEF TypeOK, Entry
  <2> QED BY <2>1 DEF StrandInv, Held, Eligible, Statuses
<1> QED
  BY <1>1, <1>2, <1>3, TypeCorrect, PTL DEF Spec

-----------------------------------------------------------------------------
(* The outbox implements WriteBehind                                        *)

\* What a step may do to the fate of one write.
Advances(w) ==
  \/ Fate(w)' = Fate(w)
  \/ Fate(w) = "none" /\ Fate(w)' = "logged"
  \/ Fate(w) # "durable" /\ Fate(w)' = "durable"
  \/ Fate(w) = "logged" /\ Fate(w)' = "dead"

LEMMA OneWriteAdvances ==
  ASSUME NEW w \in Writes, Advances(w),
         \A x \in Writes : x # w => Fate(x)' = Fate(x),
         \/ Acked' = Acked
         \/ Acked' = Acked \cup {w} /\ Fate(w)' = Fate(w) /\ Fate(w) # "none"
  PROVE  [WB!WBNext]_(WB!wbVars)
<1> DEFINE fate == [x \in Writes |-> Fate(x)]
           fate1 == [x \in Writes |-> Fate(x)']
<1>1. fate1 = [fate EXCEPT ![w] = Fate(w)']
  OBVIOUS
<1>2. fate[w] = Fate(w)
  OBVIOUS
<1> HIDE DEF fate
<1>3. CASE Acked' = Acked /\ Fate(w)' = Fate(w)
  <2>1. fate1 = fate
    BY <1>3 DEF fate
  <2> QED
    BY <1>3, <2>1 DEF WB!wbVars, fate
<1>4. CASE Acked' = Acked \cup {w} /\ Fate(w)' = Fate(w) /\ Fate(w) # "none"
  <2>1. fate1 = fate
    BY <1>4 DEF fate
  <2> QED
    BY <1>2, <1>4, <2>1 DEF WB!WBNext, WB!Ack, fate
<1>5. CASE Acked' = Acked /\ Fate(w)' # Fate(w)
  BY <1>1, <1>2, <1>5 DEF Advances, WB!WBNext, WB!Log, WB!Persist, WB!GiveUp, fate
<1> QED
  BY <1>3, <1>4, <1>5

LEMMA RefinementStep ==
  ASSUME "expiry" \notin Faults, TypeOK, ConfirmedIsPersisted,
         CompletedIsPersisted, RemovedIsDead, AddedIsTraced, [Next]_vars
  PROVE  [WB!WBNext]_(WB!wbVars)
<1>1. ASSUME NEW w \in Writes, SetStep(w) \/ Deliver(w)
      PROVE  [WB!WBNext]_(WB!wbVars)
  <2>1. /\ \A x \in Writes : x # w => Fate(x)' = Fate(x)
        /\ \A x \in Writes : x # w => client'[x] = client[x]
    BY <1>1, CallFrame DEF Fate
  <2>2. /\ Advances(w)
        /\ \/ client'[w].pc = "acked" <=> client[w].pc = "acked"
           \/ client'[w].pc = "acked" /\ Fate(w)' = Fate(w) /\ Fate(w) # "none"
    <3> USE HsetAt, GoesAt DEF Advances, Fate, store
    <3>1. CASE AddEntry(w)
      BY <3>1 DEF AddEntry
    <3>2. CASE Publish(w)
      BY <3>2 DEF Publish, AddedIsTraced, Traced
    <3>3. CASE Fallback(w)
      BY <3>3 DEF Fallback, MongoSet
    <3>4. CASE FallbackRead(w)
      <4>1. w \in applied /\ applied' = applied
        BY <3>4 DEF FallbackRead, ConfirmedIsPersisted
      <4>2. client'[w].pc \in {"acked", "writing", "rejected"}
        BY <3>4 DEF FallbackRead, TypeOK
      <4> QED
        BY <3>4, <4>1, <4>2 DEF FallbackRead
    <3>5. CASE FallbackWrite(w)
      <4>1. w \in applied /\ applied' = applied
        BY <3>5 DEF FallbackWrite, ConfirmedIsPersisted
      <4> QED
        BY <3>5, <4>1 DEF FallbackWrite
    <3>6. CASE Deliver(w)
      BY <3>6 DEF Deliver, MongoSet
    <3> QED
      BY <1>1, <3>1, <3>2, <3>3, <3>4, <3>5, <3>6 DEF SetStep
  <2>3. \/ Acked' = Acked
        \/ Acked' = Acked \cup {w} /\ Fate(w)' = Fate(w) /\ Fate(w) # "none"
    BY <2>1, <2>2 DEF Acked
  <2> QED
    BY <2>1, <2>2, <2>3, OneWriteAdvances
<1>2. ASSUME NEW r \in Runs, NEW w \in Writes, JobStep(r, w)
      PROVE  [WB!WBNext]_(WB!wbVars)
  <2>1. /\ \A x \in Writes : x # w => entries'[x] = entries[x]
        /\ \A x \in Writes : x # w => (x \in dlq' <=> x \in dlq)
        /\ applied \subseteq applied' /\ applied' \subseteq applied \cup {w}
        /\ dlq \subseteq dlq' /\ client' = client
    BY <1>2, JobFrame
  <2>2. \A x \in Writes : x # w => Fate(x)' = Fate(x)
    BY <2>1 DEF Fate
  <2>3. Acked' = Acked
    BY <2>1 DEF Acked
  <2>4. Advances(w)
    <3> USE HsetAt DEF Advances, Fate, store, outside, At
    <3>1. CASE MarkProcessing(r, w)
      <4>1. entries'[w] = entries[w] \/ entries'[w].status = "processing"
        BY <3>1 DEF MarkProcessing
      <4>2. applied' = applied /\ dlq' = dlq
        BY <3>1 DEF MarkProcessing
      <4> QED
        BY <4>1, <4>2
    <3>2. CASE PersistEntry(r, w)
      BY <3>2 DEF PersistEntry, MongoSet
    <3>3. CASE CompleteRead(r, w)
      BY <3>3 DEF CompleteRead
    <3>4. CASE CompleteWrite(r, w)
      BY <2>1, <3>4 DEF CompleteWrite, ConfirmedIsPersisted
    <3>5. CASE FailRead(r, w)
      BY <3>5 DEF FailRead
    <3>6. CASE FailWrite(r, w)
      <4>1. entries'[w] = entries[w] \/ entries'[w].status = "failed"
        BY <3>6 DEF FailWrite
      <4>2. applied' = applied /\ dlq' = dlq
        BY <3>6 DEF FailWrite
      <4> QED
        BY <4>1, <4>2
    <3>7. CASE PushDeadLetter(r, w)
      <4>1. Fate(w) # "none"
        BY <3>7 DEF PushDeadLetter, AddedIsTraced, Traced
      <4>2. entries' = entries /\ applied' = applied /\ dlq' \in {dlq, dlq \cup {w}}
        BY <3>7 DEF PushDeadLetter
      <4> QED
        BY <4>1, <4>2
    <3>8. CASE RemoveDead(r, w)
      BY <2>1, <3>8 DEF RemoveDead, RemovedIsDead
    <3> QED
      BY <1>2, <3>1, <3>2, <3>3, <3>4, <3>5, <3>6, <3>7, <3>8 DEF JobStep
  <2> QED
    BY <2>2, <2>3, <2>4, OneWriteAdvances
<1>3. ASSUME NEW r \in Runs,
             \/ StartRun(r) \/ AbortRun(r) \/ EndRun(r) \/ Crash(r)
             \/ \E s \in Sessions : Collect(r, s)
      PROVE  [WB!WBNext]_(WB!wbVars)
  BY <1>3, RunFrame DEF Fate, Acked, WB!wbVars
<1>4. ASSUME NEW w \in Writes, TimerFires(w)
      PROVE  [WB!WBNext]_(WB!wbVars)
  <2>1. w \in applied /\ applied' = applied /\ dlq' = dlq /\ client' = client
    BY <1>4 DEF TimerFires, CompletedIsPersisted, outside
  <2>2. \A x \in Writes : Fate(x)' = Fate(x)
    BY <1>4, <2>1, HsetAt DEF TimerFires, Hdel, Fate
  <2> QED
    BY <2>1, <2>2 DEF Acked, WB!wbVars
<1>5. ASSUME NEW w \in Writes, Cleanup(w)
      PROVE  [WB!WBNext]_(WB!wbVars)
  BY <1>5 DEF Cleanup, outside, Fate, Acked, WB!wbVars
<1>6. CASE UNCHANGED vars
  BY <1>6 DEF vars, Fate, Acked, WB!wbVars
<1> QED
  BY <1>1, <1>2, <1>3, <1>4, <1>5, <1>6 DEF Next, HashExpires

\* As long as no hash reaches its seven days, the outbox implements its
\* abstract specification.
THEOREM RefinementTheorem == "expiry" \notin Faults => (Spec => ImplementsWriteBehind)
<1> SUFFICES ASSUME "expiry" \notin Faults PROVE Spec => ImplementsWriteBehind
  OBVIOUS
<1> DEFINE IInv == /\ TypeOK /\ ConfirmedIsPersisted /\ CompletedIsPersisted
                   /\ RemovedIsDead /\ AddedIsTraced
<1>1. Init => IInv
  BY InitType, PersistedInit, TracedInit
<1>2. IInv /\ [Next]_vars => IInv'
  BY NextType, PersistedStep, TracedStep
<1>3. Init => WB!WBInit
  BY DEF Init, Fate, Acked, Idle, Absent, WB!WBInit
<1>4. IInv /\ [Next]_vars => [WB!WBNext]_(WB!wbVars)
  BY RefinementStep
<1> QED
  BY <1>1, <1>2, <1>3, <1>4, PTL DEF Spec, ImplementsWriteBehind, WB!WBSpec

=============================================================================
