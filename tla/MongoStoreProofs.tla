--------------------------- MODULE MongoStoreProofs ---------------------------
(* Proofs about MongoStore, for any calls, instances, versions, retries and  *)
(* times and, unless a theorem says otherwise, any faults.                    *)
EXTENDS MongoStore, TLAPS

\* Where a call goes, and that no other call moves.
LEMMA GoesAt ==
  ASSUME TypeOK, NEW c \in Calls, NEW where, Goes(c, where)
  PROVE  /\ pc'[c] = where
         /\ \A d \in Calls : d # c => pc'[d] = pc[d]
BY DEF TypeOK, Goes

\* A call that goes to one of the places keeps the places well formed.
LEMMA GoesType ==
  ASSUME TypeOK, NEW c \in Calls, NEW where \in Pcs, Goes(c, where)
  PROVE  pc' \in [Calls -> Pcs]
BY DEF TypeOK, Goes

-----------------------------------------------------------------------------
(* Type correctness                                                        *)

LEMMA DocTypes == NoDoc \in Docs /\ OldDoc \in Docs
BY DEF NoDoc, OldDoc, Docs, Data

LEMMA InitType == Init => TypeOK
<1> SUFFICES ASSUME Init PROVE TypeOK
  OBVIOUS
<1>1. MaxRetries \in Nat /\ CacheTtl \in Nat /\ Latency \in Nat
  BY MongoAssumption
<1>2. at \in [Calls -> Instances]
  BY DEF Init
<1>3. doc \in Docs /\ cache \in [Instances -> Docs] /\ got \in [Calls -> Docs]
  BY DocTypes DEF Init
<1> QED
  BY <1>1, <1>2, <1>3 DEF Init, TypeOK, Pcs, Finished, AllOps

\* A write leaves a document.
LEMMA WriteType ==
  ASSUME TypeOK, NEW c \in Calls, Write(c)
  PROVE  /\ doc' \in Docs
         /\ effects' \in [Calls -> Nat]
         /\ changes' \in Nat
         /\ seen' \in [Calls -> Nat]
<1>1. /\ expect[c] + 1 \in Nat /\ changes + 1 \in Nat
      /\ doc.creds \in Data /\ doc.keys \in Data /\ c \in Data
  BY DEF TypeOK, Docs, Data
<1>2. doc' \in Docs
  BY <1>1 DEF Write, Docs
<1> QED
  BY <1>1, <1>2 DEF Write, TypeOK

LEMMA RemoveType ==
  ASSUME TypeOK, NEW c \in Calls, Remove(c)
  PROVE  /\ doc' \in Docs
         /\ effects' \in [Calls -> Nat]
         /\ changes' \in Nat
         /\ seen' \in [Calls -> Nat]
BY DocTypes DEF Remove, TypeOK

\* The retries of a set are counted up to MaxRetries + 1.
LEMMA AttemptType ==
  ASSUME TypeOK, NEW c \in Calls, DuplicateKey(c)
  PROVE  /\ pc' \in [Calls -> Pcs]
         /\ attempt' \in [Calls -> 0..MaxRetries + 1]
         /\ guarded' \in [Calls -> BOOLEAN]
<1>1. MaxRetries \in Nat
  BY MongoAssumption
<1>2. pc' \in [Calls -> Pcs]
  BY GoesType DEF DuplicateKey, Pcs, Finished
<1>3. CASE attempt[c] <= MaxRetries
  <2>1. attempt[c] + 1 \in 0..MaxRetries + 1
    BY <1>1, <1>3 DEF TypeOK
  <2> QED
    BY <1>2, <1>3, <2>1 DEF DuplicateKey, TypeOK
<1>4. CASE ~(attempt[c] <= MaxRetries)
  BY <1>2, <1>4 DEF DuplicateKey, TypeOK
<1> QED
  BY <1>3, <1>4

\* Each step of a read keeps the types.
LEMMA ReadType ==
  ASSUME TypeOK, NEW c \in Calls, ReadCache(c) \/ Find(c) \/ Found(c)
  PROVE  TypeOK'
<1> USE DEF document, caching, call, reading
<1>1. CASE ReadCache(c)
  <2>1. pc' \in [Calls -> Pcs]
    BY <1>1, GoesType DEF ReadCache, Answers, Pcs, Finished
  <2>3. cache' \in [Instances -> Docs]
    BY <1>1, DocTypes DEF ReadCache, TypeOK
  <2> QED
    BY <1>1, <2>1, <2>3 DEF ReadCache, TypeOK
<1>2. CASE Find(c)
  <2>1. pc' \in [Calls -> Pcs]
    BY <1>2, GoesType DEF Find, Pcs, Finished
  <2>2. Latency \in Nat
    BY MongoAssumption
  <2>3. wait' \in [Calls -> 0..Latency] /\ stale' \in [Instances \cup Calls -> Nat]
    BY <1>2, <2>2 DEF Find, TypeOK
  <2>4. got' \in [Calls -> Docs] /\ floor' \in [Calls -> Nat]
    BY <1>2 DEF Find, TypeOK
  <2> QED
    BY <1>2, <2>1, <2>3, <2>4 DEF Find, TypeOK
<1>3. CASE Found(c)
  <2>1. pc' \in [Calls -> Pcs]
    BY <1>3, GoesType DEF Found, Answers, Pcs, Finished
  <2>3. CacheTtl \in Nat
    BY MongoAssumption
  <2>4. cache' \in [Instances -> Docs] /\ age' \in [Instances -> 0..CacheTtl + 1]
        /\ stale' \in [Instances \cup Calls -> Nat]
    BY <1>3, <2>3 DEF Found, TypeOK
  <2>5. got' \in [Calls -> Docs]
    BY <1>3, DocTypes DEF Found, TypeOK
  <2> QED
    BY <1>3, <2>1, <2>4, <2>5 DEF Found, TypeOK
<1> QED
  BY <1>1, <1>2, <1>3

\* Each step of a set, a delete or a touch keeps the types.
LEMMA WriterType ==
  ASSUME TypeOK, NEW c \in Calls,
         \/ Update(c) \/ Insert(c) \/ Retry(c)
         \/ Delete(c) \/ Touch(c) \/ Finish(c)
  PROVE  TypeOK'
<1> USE DEF document, caching, call, reading
<1>1. CASE Update(c)
  <2>1. pc' \in [Calls -> Pcs] /\ attempt' = attempt
    BY <1>1, GoesType DEF Update, Fail, Pcs, Finished
  <2>2. doc' \in Docs /\ effects' \in [Calls -> Nat] /\ changes' \in Nat
        /\ seen' \in [Calls -> Nat]
    BY <1>1, WriteType DEF Update, TypeOK
  <2> QED
    BY <1>1, <2>1, <2>2 DEF Update, TypeOK
<1>2. CASE Insert(c)
  <2>1. /\ pc' \in [Calls -> Pcs]
        /\ attempt' \in [Calls -> 0..MaxRetries + 1]
        /\ guarded' \in [Calls -> BOOLEAN]
    <3>1. CASE DuplicateKey(c)
      BY <3>1, AttemptType
    <3>2. CASE UNCHANGED <<guarded, attempt>> /\ Goes(c, "written")
      BY <3>2, GoesType DEF TypeOK, Pcs
    <3>3. CASE UNCHANGED guarded /\ Fail(c)
      BY <3>3, GoesType DEF Fail, TypeOK, Pcs, Finished
    <3> QED
      BY <1>2, <3>1, <3>2, <3>3 DEF Insert
  <2>2. doc' \in Docs /\ effects' \in [Calls -> Nat] /\ changes' \in Nat
        /\ seen' \in [Calls -> Nat]
    BY <1>2, WriteType DEF Insert, TypeOK
  <2> QED
    BY <1>2, <2>1, <2>2 DEF Insert, TypeOK
<1>3. CASE Retry(c)
  <2>1. pc' \in [Calls -> Pcs]
    BY <1>3, GoesType DEF Retry, Pcs
  <2> QED
    BY <1>3, <2>1 DEF Retry, TypeOK
<1>4. CASE Delete(c)
  <2>1. pc' \in [Calls -> Pcs] /\ attempt' = attempt
    BY <1>4, GoesType DEF Delete, Fail, Pcs, Finished
  <2>2. doc' \in Docs /\ effects' \in [Calls -> Nat] /\ changes' \in Nat
        /\ seen' \in [Calls -> Nat]
    BY <1>4, RemoveType DEF Delete, TypeOK
  <2> QED
    BY <1>4, <2>1, <2>2 DEF Delete, TypeOK
<1>5. CASE Touch(c)
  <2>1. pc' \in [Calls -> Pcs]
    BY <1>5, GoesType DEF Touch, Pcs, Finished
  <2> QED
    BY <1>5, <2>1 DEF Touch, TypeOK
<1>6. CASE Finish(c)
  <2>1. pc' \in [Calls -> Pcs]
    BY <1>6, GoesType DEF Finish, Pcs, Finished
  <2>2. cache' \in [Instances -> Docs]
    BY <1>6, DocTypes DEF Finish, TypeOK
  <2>3. own' \in [Instances -> Nat]
    BY <1>6 DEF Finish, Newest, TypeOK
  <2> QED
    BY <1>6, <2>1, <2>2, <2>3 DEF Finish, TypeOK
<1> QED
  BY <1>1, <1>2, <1>3, <1>4, <1>5, <1>6

\* A call that begins, and the passing of time, keep the types.
LEMMA OtherType ==
  ASSUME TypeOK,
         \/ \E c \in Calls, o \in Ops, i \in Instances, e \in Expected : Begin(c, o, i, e)
         \/ \E i \in Instances : CleanupCache(i)
         \/ Tick
         \/ Expire
  PROVE  TypeOK'
<1> USE DEF document, caching, call, reading
<1>1. ASSUME NEW c \in Calls, NEW o \in Ops, NEW i \in Instances,
             NEW e \in Expected, Begin(c, o, i, e)
      PROVE  TypeOK'
  <2>1. o \in AllOps /\ e \in Nat
    BY MongoAssumption
  <2>2. pc' \in [Calls -> Pcs]
    <3>1. (CASE o = "get" -> "cache" [] o \in Sets -> "update" [] OTHER -> o) \in Pcs
      BY <2>1 DEF AllOps, Sets, Pcs
    <3> QED
      BY <1>1, <3>1, GoesType DEF Begin
  <2>3. guarded' \in [Calls -> BOOLEAN]
    BY <1>1 DEF Begin, TypeOK
  <2> QED
    BY <1>1, <2>1, <2>2, <2>3 DEF Begin, TypeOK
<1>2. ASSUME NEW i \in Instances, CleanupCache(i)
      PROVE  TypeOK'
  BY <1>2, DocTypes DEF CleanupCache, TypeOK
<1>3. CASE Tick
  <2>1. CacheTtl \in Nat /\ Latency \in Nat
    BY MongoAssumption
  <2>2. age' \in [Instances -> 0..CacheTtl + 1]
    BY <1>3, <2>1 DEF Tick, TypeOK
  <2>3. wait' \in [Calls -> 0..Latency]
    BY <1>3, <2>1 DEF Tick, TypeOK
  <2>4. stale' \in [Instances \cup Calls -> Nat]
    BY <1>3, <2>1 DEF Tick, TypeOK
  <2> QED
    BY <1>3, <2>2, <2>3, <2>4 DEF Tick, TypeOK
<1>4. CASE Expire
  BY <1>4, DocTypes DEF Expire, TypeOK
<1> QED
  BY <1>1, <1>2, <1>3, <1>4

LEMMA NextType == TypeOK /\ [Next]_vars => TypeOK'
<1> SUFFICES ASSUME TypeOK, [Next]_vars PROVE TypeOK'
  OBVIOUS
<1>1. CASE UNCHANGED vars
  BY <1>1 DEF vars, TypeOK
<1> QED
  BY <1>1, ReadType, WriterType, OtherType DEF Next, CallStep

\* Every reachable state is well formed: in particular a set is retried at
\* most MaxRetries + 1 times, so the loop of set ends (store.ts:369-400).
THEOREM TypeCorrect == Spec => []TypeOK
BY InitType, NextType, PTL DEF Spec

-----------------------------------------------------------------------------
(* A write takes effect once                                               *)

\* What a call that is at a place can be.
Fits(c) ==
  /\ pc[c] \in {"cache", "find", "found"} => op[c] = "get"
  /\ pc[c] \in {"update", "insert", "sleep"} => op[c] \in Sets
  /\ pc[c] = "delete" => op[c] = "delete"
  /\ pc[c] = "touch" => op[c] = "touch"
  /\ pc[c] = "written" => op[c] \in Sets \cup {"delete", "touch"}

\* No effect before the end, and never two: only the steps that write lead
\* out of the loop, and an answer that is lost ends it.
EffectFits(c) ==
  /\ pc[c] \notin {"written"} \cup Finished => effects[c] = 0
  /\ effects[c] <= 1
  /\ IsWrite(c) /\ pc[c] \in {"written", "acked"} => effects[c] = 1

CallInv == \A c \in Calls : Fits(c) /\ EffectFits(c)

\* A call changes neither what it is nor where the others are.
LEMMA CallFrame ==
  ASSUME TypeOK, NEW c \in Calls, CallStep(c)
  PROVE  /\ op' = op /\ at' = at /\ expect' = expect
         /\ \A d \in Calls : d # c =>
              pc'[d] = pc[d] /\ effects'[d] = effects[d] /\ guarded'[d] = guarded[d]
                /\ attempt'[d] = attempt[d]
<1> USE GoesAt DEF document, caching, call, reading
<1>1. CASE ReadCache(c)
  BY <1>1 DEF ReadCache, Answers
<1>2. CASE Find(c)
  BY <1>2 DEF Find
<1>3. CASE Found(c)
  BY <1>3 DEF Found, Answers
<1>4. CASE Update(c)
  BY <1>4 DEF Update, Fail, Write, TypeOK
<1>5. CASE Insert(c)
  <2>1. op' = op /\ at' = at /\ expect' = expect
    BY <1>5 DEF Insert
  <2>2. CASE doc.ver = 0
    BY <1>5, <2>1, <2>2 DEF Insert, Fail, Write, TypeOK
  <2>3. CASE doc.ver # 0
    BY <1>5, <2>1, <2>3 DEF Insert, DuplicateKey, TypeOK
  <2> QED
    BY <2>2, <2>3
<1>6. CASE Retry(c)
  BY <1>6 DEF Retry
<1>7. CASE Delete(c)
  BY <1>7 DEF Delete, Fail, Remove, TypeOK
<1>8. CASE Touch(c)
  BY <1>8 DEF Touch
<1>9. CASE Finish(c)
  BY <1>9 DEF Finish
<1> QED
  BY <1>1, <1>2, <1>3, <1>4, <1>5, <1>6, <1>7, <1>8, <1>9 DEF CallStep

\* Where a step leads from each place, and whether it is the one that counts.
LEMMA CallMoves ==
  ASSUME TypeOK, NEW c \in Calls, CallStep(c)
  PROVE  \/ /\ effects'[c] = effects[c]
            /\ \/ pc[c] \in {"cache", "find", "found"} /\ pc'[c] \in {"find", "found", "acked", "rejected"}
               \/ pc[c] \in {"update", "insert", "sleep"} /\ pc'[c] \in {"update", "insert", "sleep", "rejected"}
               \/ pc[c] = "delete" /\ pc'[c] = "rejected"
               \/ pc[c] = "touch" /\ pc'[c] \in {"written", "rejected"}
               \/ pc[c] = "written" /\ pc'[c] = "acked"
         \/ /\ effects'[c] = effects[c] + 1
            /\ pc[c] \in {"update", "insert", "delete"}
            /\ pc'[c] \in {"written", "rejected"}
<1> USE GoesAt DEF document, caching, call, reading
<1>1. CASE ReadCache(c)
  BY <1>1 DEF ReadCache, Answers
<1>2. CASE Find(c)
  BY <1>2 DEF Find
<1>3. CASE Found(c)
  BY <1>3 DEF Found, Answers
<1>4. CASE Update(c)
  BY <1>4 DEF Update, Fail, Write, TypeOK
<1>5. CASE Insert(c)
  <2>1. CASE doc.ver = 0
    BY <1>5, <2>1 DEF Insert, Fail, Write, TypeOK
  <2>2. CASE doc.ver # 0
    BY <1>5, <2>2 DEF Insert, DuplicateKey, TypeOK
  <2> QED
    BY <2>1, <2>2
<1>6. CASE Retry(c)
  BY <1>6 DEF Retry
<1>7. CASE Delete(c)
  BY <1>7 DEF Delete, Fail, Remove, TypeOK
<1>8. CASE Touch(c)
  BY <1>8 DEF Touch
<1>9. CASE Finish(c)
  BY <1>9 DEF Finish
<1> QED
  BY <1>1, <1>2, <1>3, <1>4, <1>5, <1>6, <1>7, <1>8, <1>9 DEF CallStep

\* A call that begins has had no effect and leaves the others alone.
LEMMA BeginAt ==
  ASSUME TypeOK, NEW c \in Calls, NEW o \in Ops, NEW i \in Instances,
         NEW e \in Expected, Begin(c, o, i, e)
  PROVE  /\ pc[c] = "idle"
         /\ op'[c] = o
         /\ \/ o = "get" /\ pc'[c] = "cache"
            \/ o \in Sets /\ pc'[c] = "update"
            \/ o \in {"delete", "touch"} /\ pc'[c] = o
         /\ UNCHANGED <<document, attempt>>
         /\ \A d \in Calls : d # c =>
              pc'[d] = pc[d] /\ op'[d] = op[d] /\ guarded'[d] = guarded[d]
<1>1. o \in AllOps
  BY MongoAssumption
<1>2. Goes(c, CASE o = "get" -> "cache" [] o \in Sets -> "update" [] OTHER -> o)
  BY DEF Begin
<1>3. \/ o = "get" /\ pc'[c] = "cache"
      \/ o \in Sets /\ pc'[c] = "update"
      \/ o \in {"delete", "touch"} /\ pc'[c] = o
  BY <1>1, <1>2 DEF Goes, AllOps, Sets, TypeOK
<1> QED
  BY <1>2, <1>3, GoesAt DEF Begin, TypeOK

LEMMA CallInvInit == Init => CallInv
BY DEF Init, CallInv, Fits, EffectFits, IsWrite, Sets, Finished

LEMMA CallInvStep == TypeOK /\ CallInv /\ [Next]_vars => CallInv'
<1> SUFFICES ASSUME TypeOK, CallInv, [Next]_vars PROVE CallInv'
  OBVIOUS
<1> USE DEF CallInv, Fits, EffectFits, IsWrite, Finished
<1>1. ASSUME NEW c \in Calls, CallStep(c) PROVE CallInv'
  <2>1. Fits(c)' /\ EffectFits(c)'
    BY <1>1, CallFrame, CallMoves DEF Sets
  <2> QED
    BY <1>1, <2>1, CallFrame
<1>2. ASSUME NEW c \in Calls, NEW o \in Ops, NEW i \in Instances,
             NEW e \in Expected, Begin(c, o, i, e)
      PROVE  CallInv'
  <2>1. Fits(c)' /\ EffectFits(c)'
    BY <1>2, BeginAt DEF Sets, document
  <2> QED
    BY <1>2, <2>1, BeginAt DEF document
<1>3. CASE UNCHANGED <<pc, op, effects>>
  BY <1>3
<1>4. ASSUME NEW i \in Instances, CleanupCache(i) PROVE CallInv'
  BY <1>3, <1>4 DEF CleanupCache, document, call
<1>5. CASE Tick \/ Expire
  BY <1>3, <1>5 DEF Tick, Expire, document, call
<1>6. CASE UNCHANGED vars
  BY <1>3, <1>6 DEF vars
<1> QED
  BY <1>1, <1>2, <1>4, <1>5, <1>6 DEF Next

\* However often a set is retried and whatever answers are lost, it changes
\* the document at most once, and it has when it returns (store.ts:369-442).
THEOREM OnceTheorem == Spec => []TakesEffectOnce
<1>1. CallInv => TakesEffectOnce
  BY DEF CallInv, EffectFits, TakesEffectOnce, Finished
<1> QED
  BY <1>1, TypeCorrect, CallInvInit, CallInvStep, PTL DEF Spec

-----------------------------------------------------------------------------
(* What the cache serves is recent                                         *)

\* What a read holds is no staler than the read is old, and what a cache holds
\* no staler than the entry and the read that made it.
AgeInv ==
  /\ \A i \in Instances : cache[i] # NoDoc => stale[i] <= age[i] + Latency
  /\ \A c \in Calls : pc[c] = "found" => stale[c] <= wait[c]

\* Most steps hold on to what there is, or let go of it.
LEMMA AgeKept ==
  ASSUME AgeInv, UNCHANGED <<age, wait, stale>>,
         \A i \in Instances : cache'[i] \in {cache[i], NoDoc},
         \A c \in Calls : pc'[c] = "found" => pc[c] = "found"
  PROVE  AgeInv'
BY DEF AgeInv

LEMMA AgeCall ==
  ASSUME TypeOK, AgeInv, NEW c \in Calls, CallStep(c)
  PROVE  AgeInv'
<1> USE GoesAt DEF document, caching, call, reading
<1>1. Calls \cap Instances = {} /\ Latency \in Nat
  BY MongoAssumption
<1>2. CASE ReadCache(c)
  BY <1>2, AgeKept DEF ReadCache, Answers, TypeOK
<1>3. CASE Find(c)
  <2>1. stale'[c] = 0 /\ \A x \in Instances \cup Calls : x # c => stale'[x] = stale[x]
    BY <1>3 DEF Find, TypeOK
  <2>2. wait'[c] = 0 /\ \A d \in Calls : d # c => wait'[d] = wait[d]
    BY <1>3 DEF Find, TypeOK
  <2> QED
    BY <1>1, <1>3, <2>1, <2>2 DEF Find, AgeInv
<1>4. CASE Found(c)
  <2>1. pc'[c] # "found" /\ wait' = wait
    BY <1>4 DEF Found, Answers
  <2>2. CASE got[c] = NoDoc
    BY <1>4, <2>1, <2>2, AgeKept DEF Found, Answers, TypeOK
  <2>3. CASE got[c] # NoDoc
    <3> DEFINE i == at[c]
    <3>1. i \in Instances /\ stale[c] <= Latency
      BY <1>1, <1>4 DEF TypeOK, AgeInv, Found
    <3>2. /\ age'[i] = 0 /\ stale'[i] = stale[c]
          /\ \A j \in Instances : j # i =>
               cache'[j] = cache[j] /\ age'[j] = age[j] /\ stale'[j] = stale[j]
          /\ \A d \in Calls : stale'[d] = stale[d]
      BY <1>1, <1>4, <2>3, <3>1 DEF Found, TypeOK
    <3> HIDE DEF i
    <3>3. \A j \in Instances : cache'[j] # NoDoc => stale'[j] <= age'[j] + Latency
      <4>1. stale'[i] <= age'[i] + Latency
        BY <1>1, <3>1, <3>2
      <4> QED
        BY <3>1, <3>2, <4>1 DEF AgeInv
    <3>4. \A d \in Calls : d # c => pc'[d] = pc[d]
      BY <1>4 DEF Found, Answers
    <3> QED
      BY <2>1, <3>2, <3>3, <3>4 DEF AgeInv
  <2> QED
    BY <2>2, <2>3
<1>5. CASE Update(c)
  BY <1>5, AgeKept DEF Update, Fail
<1>6. CASE Insert(c)
  BY <1>6, AgeKept DEF Insert, Fail, DuplicateKey
<1>7. CASE Retry(c)
  BY <1>7, AgeKept DEF Retry
<1>8. CASE Delete(c)
  BY <1>8, AgeKept DEF Delete, Fail
<1>9. CASE Touch(c)
  BY <1>9, AgeKept DEF Touch
<1>10. CASE Finish(c)
  BY <1>10, AgeKept DEF Finish, TypeOK
<1> QED
  BY <1>2, <1>3, <1>4, <1>5, <1>6, <1>7, <1>8, <1>9, <1>10 DEF CallStep

LEMMA AgeTick ==
  ASSUME TypeOK, AgeInv, Tick
  PROVE  AgeInv'
<1>1. CacheTtl \in Nat /\ Latency \in Nat
  BY MongoAssumption
<1>2. ASSUME NEW i \in Instances, cache'[i] # NoDoc
      PROVE  stale'[i] <= age'[i] + Latency
  <2>1. /\ stale[i] \in Nat /\ age[i] \in 0..CacheTtl + 1
        /\ cache[i] # NoDoc
    BY <1>2 DEF TypeOK, Tick
  <2>2. stale[i] <= age[i] + Latency
    BY <2>1 DEF AgeInv
  <2>3. age'[i] = IF age[i] <= CacheTtl THEN age[i] + 1 ELSE age[i]
    BY <2>1 DEF Tick
  <2>4. \/ stale'[i] = 0
        \/ stale[i] <= CacheTtl + Latency /\ stale'[i] = stale[i] + 1
        \/ ~(stale[i] <= CacheTtl + Latency) /\ stale'[i] = stale[i]
    BY DEF Tick
  <2> QED
    BY <1>1, <2>1, <2>2, <2>3, <2>4
<1>3. ASSUME NEW c \in Calls, pc'[c] = "found"
      PROVE  stale'[c] <= wait'[c]
  <2>1. pc[c] = "found" /\ stale[c] \in Nat /\ wait[c] \in Nat
    BY <1>1, <1>3 DEF TypeOK, Tick
  <2>2. stale[c] <= wait[c] /\ wait'[c] = wait[c] + 1
    BY <2>1 DEF AgeInv, Tick
  <2>3. stale'[c] \in {0, stale[c], stale[c] + 1}
    BY DEF Tick
  <2> QED
    BY <2>1, <2>2, <2>3
<1> QED
  BY <1>2, <1>3 DEF AgeInv

LEMMA AgeStep == TypeOK /\ AgeInv /\ [Next]_vars => AgeInv'
<1> SUFFICES ASSUME TypeOK, AgeInv, [Next]_vars PROVE AgeInv'
  OBVIOUS
<1> USE DEF document, caching, call, reading
<1>1. ASSUME NEW c \in Calls, NEW o \in Ops, NEW i \in Instances,
             NEW e \in Expected, Begin(c, o, i, e)
      PROVE  AgeInv'
  <2>1. \A d \in Calls : pc'[d] = "found" => pc[d] = "found"
    BY <1>1, BeginAt
  <2> QED
    BY <1>1, <2>1, AgeKept DEF Begin
<1>2. ASSUME NEW i \in Instances, CleanupCache(i) PROVE AgeInv'
  BY <1>2, AgeKept DEF CleanupCache, TypeOK
<1>3. CASE Expire \/ UNCHANGED vars
  BY <1>3, AgeKept DEF Expire, vars
<1> QED
  BY <1>1, <1>2, <1>3, AgeCall, AgeTick DEF Next

\* For any TTL and any latency, what a cache may still serve was the stored
\* document no longer ago than the two together (store.ts:70-131, 274-282).
THEOREM RecentTheorem == Spec => []ServedIsRecent
<1>1. Init => AgeInv
  BY DEF Init, AgeInv
<1>2. TypeOK /\ AgeInv => ServedIsRecent
  <2> SUFFICES ASSUME TypeOK, AgeInv, NEW i \in Instances,
                      cache[i] # NoDoc, age[i] <= CacheTtl
               PROVE  stale[i] <= CacheTtl + Latency
    BY DEF ServedIsRecent
  <2>1. CacheTtl \in Nat /\ Latency \in Nat /\ age[i] \in Nat /\ stale[i] \in Nat
    BY MongoAssumption DEF TypeOK
  <2> QED
    BY <2>1 DEF AgeInv
<1> QED
  BY <1>1, <1>2, AgeStep, TypeCorrect, PTL DEF Spec

-----------------------------------------------------------------------------
(* What an instance caches of its own writes                               *)

\* The stored document carries the number of the last change, and what a read
\* has found is no older than what its instance had written when it was sent.
SentInv ==
  /\ doc # NoDoc => doc.change = changes
  /\ \A i \in Instances : own[i] <= changes
  /\ \A c \in Calls :
       /\ seen[c] <= changes
       /\ pc[c] = "found" /\ got[c] # NoDoc => got[c].change >= floor[c]

\* The fields a document's change number is taken from.
LEMMA ChangeTypes ==
  ASSUME TypeOK
  PROVE  /\ doc.change \in Nat /\ changes \in Nat
         /\ \A i \in Instances : own[i] \in Nat /\ cache[i].change \in Nat
         /\ \A c \in Calls : /\ at[c] \in Instances /\ got[c].change \in Nat
                             /\ seen[c] \in Nat /\ floor[c] \in Nat
BY DEF TypeOK, Docs

\* A read is given the stored document, which no write of its instance is
\* newer than.
LEMMA ReadSent ==
  ASSUME TypeOK, SentInv, NEW c \in Calls, ReadCache(c) \/ Find(c) \/ Found(c)
  PROVE  SentInv'
<1> USE DEF document, caching, call, reading
<1>1. doc' = doc /\ changes' = changes /\ own' = own /\ seen' = seen
  BY DEF ReadCache, Find, Found
<1>2. CASE ReadCache(c) \/ Found(c)
  <2>1. /\ \A d \in Calls : pc'[d] = "found" => pc[d] = "found" /\ got'[d] = got[d]
        /\ floor' = floor
    BY <1>2, GoesAt DEF ReadCache, Found, Answers, TypeOK
  <2> QED BY <1>1, <2>1 DEF SentInv
<1>3. CASE Find(c)
  <2>1. doc # NoDoc => doc.change >= own[at[c]]
    BY ChangeTypes DEF SentInv
  <2>2. /\ pc'[c] = "found" => got'[c] = doc
        /\ floor'[c] = own[at[c]]
        /\ \A d \in Calls : d # c => /\ pc'[d] = pc[d] /\ got'[d] = got[d]
                                     /\ floor'[d] = floor[d]
    BY <1>3, GoesAt DEF Find, TypeOK
  <2> QED BY <1>1, <2>1, <2>2 DEF SentInv
<1> QED BY <1>2, <1>3

\* Every change is given a greater number than any before it.
LEMMA WriteSent ==
  ASSUME TypeOK, SentInv, NEW c \in Calls,
         \/ Update(c) \/ Insert(c) \/ Retry(c)
         \/ Delete(c) \/ Touch(c) \/ Finish(c)
  PROVE  SentInv'
<1> USE DEF document, caching, call, reading
<1>1. CallStep(c)
  BY DEF CallStep
<1>2. got' = got /\ floor' = floor
  BY DEF Update, Insert, Retry, Delete, Touch, Finish
<1>3. \A d \in Calls : pc'[d] = "found" => pc[d] = "found"
  <2>1. pc[c] \in {"update", "insert", "sleep", "delete", "touch", "written"}
    BY DEF Update, Insert, Retry, Delete, Touch, Finish
  <2>2. pc'[c] # "found"
    BY <1>1, <2>1, CallMoves
  <2> QED BY <1>1, <2>2, CallFrame
<1>4. CASE Finish(c)
  <2>1. Newest(c) <= changes /\ Newest(c) \in Nat /\ at[c] \in Instances
    BY ChangeTypes DEF Newest, SentInv
  <2>2. \A i \in Instances : own'[i] <= changes
    BY <1>4, <2>1 DEF Finish, SentInv, TypeOK
  <2> QED BY <1>2, <1>3, <1>4, <2>2 DEF Finish, SentInv
<1>5. CASE ~Finish(c)
  <2>1. own' = own
    BY <1>5 DEF Update, Insert, Retry, Delete, Touch
  <2>2. \/ doc' = doc /\ changes' = changes /\ seen' = seen
        \/ /\ changes' = changes + 1
           /\ doc' = NoDoc \/ doc'.change = changes'
           /\ \A d \in Calls : seen'[d] \in {seen[d], changes'}
    <3>1. ASSUME Write(c)
          PROVE  /\ changes' = changes + 1 /\ doc'.change = changes'
                 /\ \A d \in Calls : seen'[d] \in {seen[d], changes'}
      BY <3>1 DEF Write, TypeOK
    <3>2. ASSUME Remove(c)
          PROVE  /\ changes' = changes + 1 /\ doc' = NoDoc
                 /\ \A d \in Calls : seen'[d] \in {seen[d], changes'}
      BY <3>2 DEF Remove, TypeOK
    <3> QED BY <1>5, <3>1, <3>2 DEF Update, Insert, Retry, Delete, Touch
  <2>3. changes \in Nat /\ changes' \in Nat /\ changes <= changes'
    BY <2>2, ChangeTypes
  <2>4. \A d \in Calls : seen'[d] <= changes'
    BY <2>2, <2>3, ChangeTypes DEF SentInv
  <2>5. \A i \in Instances : own'[i] <= changes'
    BY <2>1, <2>3, ChangeTypes DEF SentInv
  <2> QED BY <1>2, <1>3, <2>2, <2>4, <2>5 DEF SentInv
<1> QED BY <1>4, <1>5

LEMMA SentStep == TypeOK /\ SentInv /\ [Next]_vars => SentInv'
<1> SUFFICES ASSUME TypeOK, SentInv, [Next]_vars PROVE SentInv'
  OBVIOUS
<1> USE DEF document, caching, call, reading
<1>1. ASSUME UNCHANGED <<changes, got, own, floor, seen>>, doc' \in {doc, NoDoc},
             \A c \in Calls : pc'[c] = "found" => pc[c] = "found"
      PROVE  SentInv'
  BY <1>1 DEF SentInv
<1>2. ASSUME NEW c \in Calls, NEW o \in Ops, NEW i \in Instances, NEW e \in Expected,
             Begin(c, o, i, e)
      PROVE  SentInv'
  <2>1. \A d \in Calls : pc'[d] = "found" => pc[d] = "found"
    BY <1>2, BeginAt
  <2> QED BY <1>1, <1>2, <2>1 DEF Begin
<1>3. ASSUME NEW i \in Instances, CleanupCache(i) PROVE SentInv'
  BY <1>1, <1>3 DEF CleanupCache
<1>4. CASE Tick \/ Expire \/ UNCHANGED vars
  BY <1>1, <1>4 DEF Tick, Expire, vars
<1> QED BY <1>2, <1>3, <1>4, ReadSent, WriteSent DEF Next, CallStep

\* The one step after which a cache is behind its instance's own writes.
LEMMA OnlyOvertakenLag ==
  ASSUME TypeOK, SentInv, [Next]_vars, NEW i \in Instances, Lags(i)', ~Lags(i)
  PROVE  \E c \in Calls : at[c] = i /\ Found(c) /\ floor[c] # own[i]
<1> USE DEF document, caching, call, reading, Lags
<1>1. ~(cache'[i] \in {cache[i], NoDoc} /\ own'[i] = own[i])
  OBVIOUS
<1>2. ASSUME NEW c \in Calls, Found(c)
      PROVE  at[c] = i /\ floor[c] # own[i]
  <2>1. own' = own /\ at[c] = i /\ cache'[i] = got[c] /\ got[c] # NoDoc
    BY <1>1, <1>2 DEF Found, TypeOK
  <2>2. got[c].change >= floor[c]
    BY <1>2, <2>1 DEF Found, SentInv
  <2> QED BY <2>1, <2>2, ChangeTypes
<1>3. ASSUME NEW c \in Calls, Finish(c) PROVE FALSE
  <2>1. at[c] = i
    BY <1>1, <1>3 DEF Finish, TypeOK
  <2> QED BY <1>3, <2>1 DEF Finish, TypeOK
<1>4. ASSUME NEW c \in Calls, ReadCache(c) \/ Find(c) PROVE FALSE
  BY <1>1, <1>4 DEF ReadCache, Find, TypeOK
<1>5. ASSUME NEW c \in Calls, Update(c) \/ Insert(c) \/ Retry(c) \/ Delete(c) \/ Touch(c)
      PROVE  FALSE
  BY <1>1, <1>5 DEF Update, Insert, Retry, Delete, Touch
<1>6. ASSUME NEW c \in Calls, NEW o \in Ops, NEW j \in Instances, NEW e \in Expected,
             Begin(c, o, j, e)
      PROVE  FALSE
  BY <1>1, <1>6 DEF Begin
<1>7. ASSUME NEW j \in Instances, CleanupCache(j) PROVE FALSE
  BY <1>1, <1>7 DEF CleanupCache, TypeOK
<1>8. CASE Tick \/ Expire \/ UNCHANGED vars
  BY <1>1, <1>8 DEF Tick, Expire, vars
<1> QED BY <1>2, <1>3, <1>4, <1>5, <1>6, <1>7, <1>8 DEF Next, CallStep

\* However many calls of an instance overlap, whatever is lost, retried, removed
\* or expires: an instance's cache falls behind its own writes only by the answer
\* to a read that one of them has overtaken (store.ts:70-131, 274-282, 422-423).
THEOREM OwnWritesTheorem == Spec => OwnWritesAreCached
<1> DEFINE Overtaken == \A i \in Instances :
       Lags(i)' /\ ~Lags(i) =>
         \E c \in Calls : at[c] = i /\ Found(c) /\ floor[c] # own[i]
<1>1. Init => SentInv
  <2> SUFFICES ASSUME Init PROVE SentInv
    OBVIOUS
  <2>1. NoDoc.change = 0 /\ OldDoc.change = 1
    BY DEF NoDoc, OldDoc
  <2> QED BY <2>1 DEF Init, SentInv
<1>2. TypeOK /\ SentInv /\ [Next]_vars => [Overtaken]_vars
  BY OnlyOvertakenLag
<1> QED
  BY <1>1, <1>2, TypeCorrect, SentStep, PTL DEF Spec, OwnWritesAreCached

-----------------------------------------------------------------------------
(* The store implements DocumentRegister                                   *)

\* What one step does to the register, seen from the call that takes it.
Keeps(c) == Stored' = Stored /\ Progress(c)' = Progress(c)

Fails(c) == Stored' = Stored /\ Progress(c) = "open" /\ Progress(c)' = "failed"

Answered(c) ==
  Stored' = Stored /\ Progress(c) = "applied" /\ Progress(c)' = "answered"

Takes(c) ==
  /\ Progress(c) = "open"
  /\ Progress(c)' \in {"applied", "failed"}
  /\ Stored' = [f \in Fields |-> IF Target(c) = {} THEN None
                                 ELSE IF f \in Target(c) THEN c ELSE Stored[f]]

\* The abstract state when one call has moved.
LEMMA OneCallMoves ==
  ASSUME NEW c \in Calls,
         \A x \in Calls : Target(x)' = Target(x),
         \A x \in Calls : x # c => Progress(x)' = Progress(x),
         Keeps(c) \/ Fails(c) \/ Answered(c) \/ Takes(c)
  PROVE  [DR!DRNext]_(DR!drVars)
<1> DEFINE writes == [x \in Calls |-> Target(x)]
           writes1 == [x \in Calls |-> Target(x)']
           status == [x \in Calls |-> Progress(x)]
           status1 == [x \in Calls |-> Progress(x)']
<1>1. writes1 = writes
  OBVIOUS
<1>2. status1 = [status EXCEPT ![c] = Progress(c)']
  OBVIOUS
<1>3. status[c] = Progress(c) /\ writes[c] = Target(c)
  OBVIOUS
<1>4. CASE Keeps(c)
  <2>1. status1 = status
    BY <1>4 DEF Keeps
  <2> QED
    BY <1>1, <1>4, <2>1 DEF Keeps, DR!drVars
<1>5. CASE Fails(c)
  <2>1. DR!Fail(c)
    BY <1>1, <1>2, <1>3, <1>5 DEF Fails, DR!Fail
  <2> QED
    BY <2>1 DEF DR!DRNext
<1>6. CASE Answered(c)
  <2>1. DR!Answer(c)
    BY <1>1, <1>2, <1>3, <1>6 DEF Answered, DR!Answer
  <2> QED
    BY <2>1 DEF DR!DRNext
<1>7. CASE Takes(c)
  <2>1. Stored' = DR!Effect(c)
    BY <1>3, <1>7 DEF Takes, DR!Effect
  <2>2. DR!Take(c)
    BY <1>1, <1>2, <1>3, <1>7, <2>1 DEF Takes, DR!Take
  <2> QED
    BY <2>2 DEF DR!DRNext
<1> QED
  BY <1>4, <1>5, <1>6, <1>7

\* A step changes the document only when it is the one that counts.
LEMMA DocumentMoves ==
  ASSUME TypeOK, NEW c \in Calls, CallStep(c)
  PROVE  \/ doc' = doc /\ effects'[c] = effects[c]
         \/ Write(c) /\ pc[c] \in {"update", "insert"}
         \/ Remove(c) /\ pc[c] = "delete"
<1> USE DEF document, caching, call, reading
<1>1. CASE Update(c) \/ Insert(c) \/ Delete(c)
  BY <1>1 DEF Update, Insert, Delete
<1>2. CASE ReadCache(c) \/ Find(c) \/ Found(c) \/ Retry(c) \/ Touch(c) \/ Finish(c)
  BY <1>2 DEF ReadCache, Find, Found, Retry, Touch, Finish
<1> QED
  BY <1>1, <1>2 DEF CallStep

LEMMA CallRefines ==
  ASSUME TypeOK, CallInv, NEW c \in Calls, CallStep(c)
  PROVE  [DR!DRNext]_(DR!drVars)
<1>1. /\ \A x \in Calls : Target(x)' = Target(x)
      /\ \A x \in Calls : x # c => Progress(x)' = Progress(x)
      /\ op'[c] = op[c]
  BY CallFrame DEF Target, Progress, IsWrite
<1>2. Fits(c)
  BY DEF CallInv
<1>3. CASE doc' = doc /\ effects'[c] = effects[c]
  <2>1. Stored' = Stored
    BY <1>3 DEF Stored
  <2>2. effects[c] # effects[c] + 1
    BY DEF TypeOK
  <2>3. Keeps(c) \/ Fails(c) \/ Answered(c)
    <3>1. CASE pc[c] \in {"cache", "find", "found", "touch"}
      <4>1. ~IsWrite(c) /\ ~IsWrite(c)'
        BY <1>1, <1>2, <3>1 DEF Fits, IsWrite, Sets
      <4>2. Progress(c) = "idle" /\ Progress(c)' = "idle"
        BY <4>1 DEF Progress
      <4> QED
        BY <2>1, <4>2 DEF Keeps
    <3>2. CASE pc[c] \in {"update", "insert", "sleep", "delete"}
      <4>1. pc'[c] \in {"update", "insert", "sleep", "rejected"} \/ (pc[c] = "delete" /\ pc'[c] = "rejected")
        BY <1>3, <2>2, <3>2, CallMoves
      <4> QED
        BY <1>1, <1>2, <2>1, <3>2, <4>1 DEF Fits, Keeps, Fails, Progress, IsWrite
    <3>3. CASE pc[c] = "written"
      <4>1. pc'[c] = "acked"
        BY <3>3, CallMoves
      <4> QED
        BY <1>1, <1>2, <2>1, <3>3, <4>1 DEF Keeps, Answered, Progress, IsWrite
    <3> QED
      BY <3>1, <3>2, <3>3, CallMoves
  <2> QED
    BY <1>1, <2>3, OneCallMoves
<1>4. ASSUME Write(c) \/ Remove(c), pc[c] \in {"update", "insert", "delete"}
      PROVE  Progress(c) = "open" /\ Progress(c)' \in {"applied", "failed"}
  <2>1. IsWrite(c) /\ IsWrite(c)'
    BY <1>1, <1>2, <1>4 DEF Fits, IsWrite
  <2>2. effects'[c] # effects[c]
    BY <1>4 DEF Write, Remove, TypeOK
  <2>3. pc'[c] \in {"written", "rejected"}
    BY <2>2, CallMoves
  <2> QED
    BY <1>4, <2>1, <2>3 DEF Progress
<1>5. CASE Write(c) /\ pc[c] \in {"update", "insert"}
  <2>1. op[c] \in Sets
    BY <1>2, <1>5 DEF Fits
  <2>2. /\ doc'.creds = IF op[c] \in {"creds", "both"} THEN c ELSE doc.creds
        /\ doc'.keys = IF op[c] \in {"keys", "both"} THEN c ELSE doc.keys
    BY <1>5 DEF Write
  <2>3. /\ Target(c) # {}
        /\ "creds" \in Target(c) <=> op[c] \in {"creds", "both"}
        /\ "keys" \in Target(c) <=> op[c] \in {"keys", "both"}
    BY <2>1 DEF Target, Sets, Fields
  <2>4. Stored' = [f \in Fields |-> IF f \in Target(c) THEN c ELSE Stored[f]]
    BY <2>2, <2>3 DEF Stored, Fields
  <2>5. Takes(c)
    BY <1>4, <1>5, <2>3, <2>4 DEF Takes
  <2> QED
    BY <1>1, <2>5, OneCallMoves
<1>6. CASE Remove(c) /\ pc[c] = "delete"
  <2>1. op[c] = "delete" /\ Target(c) = {}
    BY <1>2, <1>6 DEF Fits, Target, Sets
  <2>2. Stored' = [f \in Fields |-> None]
    BY <1>6 DEF Remove, Stored, NoDoc
  <2>3. Takes(c)
    BY <1>4, <1>6, <2>1, <2>2 DEF Takes
  <2> QED
    BY <1>1, <2>3, OneCallMoves
<1> QED
  BY <1>3, <1>5, <1>6, DocumentMoves

\* A set or a delete that begins starts in the register; reads do not.
LEMMA BeginRefines ==
  ASSUME TypeOK, NEW c \in Calls, NEW o \in Ops, NEW i \in Instances,
         NEW e \in Expected, Begin(c, o, i, e),
         op[c] = "get" \/ pc[c] # "idle"
  PROVE  [DR!DRNext]_(DR!drVars)
<1> DEFINE writes == [x \in Calls |-> Target(x)]
           writes1 == [x \in Calls |-> Target(x)']
           status == [x \in Calls |-> Progress(x)]
           status1 == [x \in Calls |-> Progress(x)']
<1>1. \A x \in Calls : x # c => Target(x)' = Target(x) /\ Progress(x)' = Progress(x)
  <2> HIDE DEF writes, writes1, status, status1
  <2> TAKE x \in Calls
  <2> HAVE x # c
  <2>1. pc'[x] = pc[x] /\ op'[x] = op[x]
    BY BeginAt
  <2>2. Target(x)' = Target(x)
    BY <2>1, Zenon DEF Target
  <2>3. Progress(x)' = Progress(x)
    BY <2>1, Zenon DEF Progress, IsWrite
  <2> QED
    BY <2>2, <2>3
<1>2. /\ writes1 = [writes EXCEPT ![c] = Target(c)']
      /\ status1 = [status EXCEPT ![c] = Progress(c)']
  BY <1>1
<1>3. Stored' = Stored
  BY BeginAt DEF Stored, document
<1>4. Progress(c) = "idle" /\ Target(c) = {}
  BY BeginAt DEF Progress, Target, Sets
<1>5. CASE o \in {"get", "touch"}
  <2>1. Target(c)' = {} /\ Progress(c)' = "idle"
    BY <1>5, BeginAt DEF Target, Progress, IsWrite, Sets
  <2>2. writes1 = writes /\ status1 = status
    BY <1>1, <1>4, <2>1
  <2> QED
    BY <1>3, <2>2 DEF DR!drVars
<1>6. CASE o \in Sets \cup {"delete"}
  <2>1. Progress(c)' = "open"
    BY <1>6, BeginAt DEF Progress, IsWrite, Sets
  <2>2. Target(c)' \in SUBSET Fields
    BY DEF Target, Fields, Sets
  <2>3. DR!Start(c, Target(c)')
    BY <1>2, <1>3, <1>4, <2>1 DEF DR!Start
  <2> QED
    BY <2>2, <2>3 DEF DR!DRNext
<1> QED
  BY <1>5, <1>6, MongoAssumption DEF AllOps, Sets

\* Idle calls are counted as reads until they begin.
IdleInv == \A c \in Calls : pc[c] = "idle" => op[c] = "get"

LEMMA IdleStep == TypeOK /\ IdleInv /\ [Next]_vars => IdleInv'
<1> SUFFICES ASSUME TypeOK, IdleInv, [Next]_vars PROVE IdleInv'
  OBVIOUS
<1> USE DEF IdleInv
<1>1. ASSUME NEW c \in Calls, CallStep(c) PROVE IdleInv'
  BY <1>1, CallFrame, CallMoves
<1>2. ASSUME NEW c \in Calls, NEW o \in Ops, NEW i \in Instances,
             NEW e \in Expected, Begin(c, o, i, e)
      PROVE  IdleInv'
  BY <1>2, BeginAt DEF Sets
<1>3. CASE UNCHANGED <<pc, op>>
  BY <1>3
<1> QED
  BY <1>1, <1>2, <1>3 DEF Next, CleanupCache, Tick, Expire, call, vars

LEMMA RefinementStep ==
  ASSUME TypeOK, CallInv, IdleInv, [Next]_vars
  PROVE  [DR!DRNext]_(DR!drVars)
<1>1. ASSUME NEW c \in Calls, NEW o \in Ops, NEW i \in Instances,
             NEW e \in Expected, Begin(c, o, i, e)
      PROVE  [DR!DRNext]_(DR!drVars)
  BY <1>1, BeginRefines DEF IdleInv
<1>2. CASE UNCHANGED <<doc, pc, op>>
  BY <1>2 DEF DR!drVars, Stored, Target, Progress, IsWrite
<1>3. CASE Expire
  <2>1. Stored' = [f \in Fields |-> None]
    BY <1>3 DEF Expire, Stored, NoDoc
  <2>2. /\ \A x \in Calls : Target(x)' = Target(x)
        /\ \A x \in Calls : Progress(x)' = Progress(x)
    BY <1>3 DEF Expire, Target, Progress, IsWrite, call
  <2>3. DR!Expire
    BY <2>1, <2>2 DEF DR!Expire
  <2> QED
    BY <2>3 DEF DR!DRNext
<1> QED
  BY <1>1, <1>2, <1>3, CallRefines
     DEF Next, CleanupCache, Tick, document, call, vars

\* Filters, upserts, E11000 and retries come to one atomic overwrite per set
\* or delete, for any number of calls and instances and with every fault:
\* MongoStore implements DocumentRegister (store.ts:304-470).
THEOREM RegisterTheorem == Spec => ImplementsRegister
<1>1. Init => DR!DRInit
  <2> SUFFICES ASSUME Init PROVE DR!DRInit
    OBVIOUS
  <2>1. Stored \in {[f \in Fields |-> None], [f \in Fields |-> Old]}
    BY DEF Init, Stored, NoDoc, OldDoc
  <2>2. \A c \in Calls : Target(c) = {} /\ Progress(c) = "idle"
    BY DEF Init, Target, Progress, Sets
  <2> QED
    BY <2>1, <2>2 DEF DR!DRInit
<1>2. Init => IdleInv
  BY DEF Init, IdleInv
<1> QED
  BY <1>1, <1>2, IdleStep, RefinementStep, TypeCorrect, CallInvInit, CallInvStep,
     PTL DEF Spec, ImplementsRegister, DR!DRSpec

=============================================================================
