-------------------------- MODULE HybridStoreProofs --------------------------
(* Proofs about HybridStore, for any calls and key ids and, where a theorem  *)
(* says no more, with the queue or without it and with every fault.          *)
EXTENDS HybridStore, SequenceTheorems, TLAPS

-----------------------------------------------------------------------------
(* Helpers                                                                 *)

LEMMA GoesAt ==
  ASSUME TypeOK, NEW c \in Calls, NEW where, Goes(c, where)
  PROVE  /\ pc'[c] = where
         /\ \A d \in Calls : d # c => pc'[d] = pc[d]
BY DEF TypeOK, Goes

LEMMA GoesType ==
  ASSUME TypeOK, NEW c \in Calls, NEW where \in Pcs, Goes(c, where)
  PROVE  pc' \in [Calls -> Pcs]
BY DEF TypeOK, Goes

\* Snapshots stay snapshots when a field of them is replaced.
LEMMA KeysTypes == NoKeys \in Keys /\ [k \in KeyIds |-> Old] \in Keys
BY DEF NoKeys, Keys, Values

LEMMA SnapshotTypes ==
  Empty \in Snapshots /\ Stored \in Snapshots /\ [Stored EXCEPT !.ver = 3] \in Snapshots
<1> DEFINE olds == [k \in KeyIds |-> Old]
<1>1. NoKeys \in Keys /\ olds \in Keys
  BY KeysTypes
<1>2. Empty \in Snapshots
  BY <1>1 DEF Empty, Snapshots
<1> HIDE DEF olds
<1>3. /\ [creds |-> 1, keys |-> olds, ver |-> 2] \in Snapshots
      /\ [[creds |-> 1, keys |-> olds, ver |-> 2] EXCEPT !.ver = 3] \in Snapshots
  BY <1>1 DEF Snapshots
<1> QED
  BY <1>2, <1>3 DEF Stored, olds

LEMMA SnapshotFields ==
  ASSUME NEW s \in Snapshots, NEW n \in Nat, NEW m \in Nat, NEW ks \in Keys
  PROVE  /\ [s EXCEPT !.creds = n] \in Snapshots
         /\ [s EXCEPT !.keys = ks] \in Snapshots
         /\ [s EXCEPT !.ver = n] \in Snapshots
         /\ [s EXCEPT !.creds = n, !.ver = m] \in Snapshots
         /\ [s EXCEPT !.keys = ks, !.ver = m] \in Snapshots
BY DEF Snapshots

LEMMA NoTypes == NoPatch \in Patches /\ NoWarm \in Warms
BY KeysTypes, SnapshotTypes DEF NoPatch, Patches, NoWarm, Warms, WarmPcs

LEMMA MergeType ==
  ASSUME NEW stored \in Keys, NEW given \in Keys
  PROVE  Merge(stored, given) \in Keys
BY DEF Merge, Keys

\* The keys a call patches are keys.
LEMMA PatchedType ==
  ASSUME TypeOK, NEW c \in Calls, NEW snap \in Snapshots
  PROVE  Patched(c, snap) \in Keys
<1>1. snap.keys \in Keys /\ key[c] \in KeyIds /\ c \in Values /\ None \in Values
  BY DEF Snapshots, TypeOK, Values
<1> QED
  BY <1>1, KeysTypes DEF Patched, Keys

LEMMA SharedType ==
  ASSUME TypeOK, NEW c \in Calls, NEW snap \in Snapshots
  PROVE  Shared(c, snap) \in Snapshots
BY PatchedType, SnapshotFields, PatchedType DEF Shared, Snapshots

\* What MongoDB holds after a patch.
LEMMA MongoPutType ==
  ASSUME TypeOK, NEW c \in Calls, NEW ver \in Nat, MongoPut(c, ver)
  PROVE  mongo' \in Snapshots /\ took' \subseteq Calls
<1>1. patch[c].creds \in Nat /\ patch[c].keys \in Keys
  BY DEF TypeOK, Patches
<1>2. /\ [mongo EXCEPT !.creds = patch[c].creds, !.ver = ver] \in Snapshots
      /\ [mongo EXCEPT !.keys = patch[c].keys, !.ver = ver] \in Snapshots
  BY <1>1 DEF TypeOK, Snapshots
<1> QED
  BY <1>2 DEF MongoPut, TypeOK

\* What Redis holds after a patch.
LEMMA RedisFieldType ==
  ASSUME TypeOK, NEW c \in Calls
  PROVE  /\ RedisField(c) \in Snapshots
         /\ [RedisField(c) EXCEPT !.ver = expect[c] + 1] \in Snapshots
<1>1. patch[c].creds \in Nat /\ patch[c].keys \in Keys /\ current[c] \in Keys
      /\ expect[c] + 1 \in Nat
  BY DEF TypeOK, Patches
<1>2. Merge(current[c], patch[c].keys) \in Keys
  BY <1>1, MergeType
<1>3. RedisField(c) \in Snapshots
  BY <1>1, <1>2, SnapshotFields DEF RedisField, TypeOK
<1> QED
  BY <1>1, <1>3, SnapshotFields

LEMMA ReleaseType ==
  ASSUME TypeOK, NEW c \in Calls, Release(c), Holds(c)
  PROVE  mutex' \in [0..MaxGen -> Seq(Calls)]
<1>1. held[c] \in 0..MaxGen /\ mutex[held[c]] \in Seq(Calls) /\ mutex[held[c]] # <<>>
  BY DEF TypeOK, Holds
<1>2. Tail(mutex[held[c]]) \in Seq(Calls)
  BY <1>1
<1> QED
  BY <1>1, <1>2 DEF Release, TypeOK

-----------------------------------------------------------------------------
(* Types                                                                   *)

LEMMA InitType == Init => TypeOK
<1> SUFFICES ASSUME Init PROVE TypeOK
  OBVIOUS
<1> USE HybridAssumption, SnapshotTypes, KeysTypes, NoTypes
<1>1. redis \in Snapshots /\ mongo \in Snapshots /\ cache \in Snapshots
  BY DEF Init
<1>2. /\ pc \in [Calls -> Pcs] /\ op \in [Calls -> AllOps] /\ key \in [Calls -> KeyIds]
      /\ held \in [Calls -> 0..MaxGen] /\ mutex \in [0..MaxGen -> Seq(Calls)]
      /\ gen \in 0..MaxGen
  BY DEF Init, Pcs, AllOps
<1>3. /\ expect \in [Calls -> Nat] /\ patch \in [Calls -> Patches]
      /\ current \in [Calls -> Keys] /\ warm \in [Calls -> Warms]
  BY DEF Init
<1> QED
  BY <1>1, <1>2, <1>3 DEF Init, TypeOK

LEMMA EnterType ==
  ASSUME TypeOK, NEW c \in Calls, NEW snap \in Snapshots, Enter(c, snap)
  PROVE  /\ pc' \in [Calls -> Pcs] /\ seen' \in [Calls -> Nat] /\ level' \in Nat
         /\ mutex' \in [0..MaxGen -> Seq(Calls)] /\ gen' \in 0..MaxGen
         /\ held' \in [Calls -> 0..MaxGen] /\ expect' \in [Calls -> Nat]
         /\ patch' \in [Calls -> Patches]
<1>1. snap.creds \in Nat /\ snap.ver \in Nat /\ Patched(c, snap) \in Keys
  BY PatchedType DEF Snapshots
<1>2. CASE op[c] = "get"
  BY <1>1, <1>2 DEF Enter, Goes, TypeOK, Pcs, Finished, Newer
<1>3. CASE op[c] # "get"
  <2>1. [creds |-> 0, keys |-> Patched(c, snap)] \in Patches
    BY <1>1 DEF Patches
  <2>2. Append(mutex[gen], c) \in Seq(Calls)
    <3>1. mutex[gen] \in Seq(Calls)
      BY DEF TypeOK
    <3> QED
      BY <3>1
  <2>3. /\ mutex' = [mutex EXCEPT ![gen] = Append(mutex[gen], c)]
        /\ patch' = [patch EXCEPT ![c] = [creds |-> 0, keys |-> Patched(c, snap)]]
        /\ held' = [held EXCEPT ![c] = gen] /\ expect' = [expect EXCEPT ![c] = snap.ver]
        /\ Goes(c, "waiting")
        /\ UNCHANGED <<gen, level, seen>>
    BY <1>3 DEF Enter
  <2>4. pc' \in [Calls -> Pcs]
    BY <2>3, GoesType DEF Pcs
  <2>5. patch' \in [Calls -> Patches]
    BY <2>1, <2>3 DEF TypeOK
  <2>6. mutex' \in [0..MaxGen -> Seq(Calls)]
    BY <2>2, <2>3 DEF TypeOK
  <2> QED
    BY <1>1, <2>3, <2>4, <2>5, <2>6 DEF TypeOK
<1> QED
  BY <1>2, <1>3

LEMMA ReadType ==
  ASSUME TypeOK, NEW c \in Calls, ReadMeta(c) \/ ReadFields(c) \/ ReadMongo(c)
  PROVE  TypeOK'
<1>1. CASE ReadMeta(c)
  <2>1. redis.ver \in Nat
    BY DEF TypeOK, Snapshots
  <2>2. expect' \in [Calls -> Nat]
    <3>1. expect \in [Calls -> Nat]
      BY DEF TypeOK
    <3>2. \E n \in Nat : expect' = [expect EXCEPT ![c] = n] \/ expect' = expect
      BY <1>1, <2>1 DEF ReadMeta
    <3> QED
      BY <3>1, <3>2
  <2>3. pc' \in [Calls -> Pcs]
    BY <1>1, GoesType DEF ReadMeta, Pcs
  <2>4. UNCHANGED <<redis, mongo, cache, memory, gen, mutex, op, key, held, patch,
                    current, warm, outbox, queue, took, level, floor, seen>>
    BY <1>1 DEF ReadMeta, locks, behind, observed
  <2> QED
    BY <2>2, <2>3, <2>4 DEF TypeOK
<1>2. CASE ReadFields(c)
  <2>1. PICK creds \in {redis.creds, 0}, keys \in {redis.keys, NoKeys} :
          IF creds = 0
            THEN Goes(c, "mongo")
                   /\ UNCHANGED <<locks, held, expect, patch, level, seen>>
            ELSE Enter(c, [creds |-> creds, keys |-> keys, ver |-> expect[c]])
    BY <1>2 DEF ReadFields
  <2>2. [creds |-> creds, keys |-> keys, ver |-> expect[c]] \in Snapshots
    BY KeysTypes DEF TypeOK, Snapshots
  <2>3. UNCHANGED <<redis, mongo, cache, memory, op, key, current, warm, outbox,
                    queue, took, floor>>
    BY <1>2 DEF ReadFields, behind
  <2>4. CASE creds = 0
    BY <2>1, <2>3, <2>4 DEF TypeOK, Goes, Pcs, locks
  <2>5. CASE creds # 0
    <3>1. Enter(c, [creds |-> creds, keys |-> keys, ver |-> expect[c]])
      BY <2>1, <2>5
    <3> QED
      BY <2>2, <2>3, <3>1, EnterType DEF TypeOK
  <2> QED
    BY <2>4, <2>5
<1>3. CASE ReadMongo(c)
  <2> DEFINE doc == IF cache.ver # 0 THEN cache ELSE mongo
  <2>1. doc \in Snapshots
    BY DEF TypeOK
  <2>2. Empty \in Snapshots
    BY SnapshotTypes
  <2>3. UNCHANGED <<redis, mongo, memory, op, key, current, outbox, queue, took, floor>>
    BY <1>3 DEF ReadMongo, behind
  <2>4. Enter(c, doc) \/ Enter(c, Empty)
    BY <1>3 DEF ReadMongo
  <2>5. cache' \in Snapshots
    BY <1>3, <2>1 DEF ReadMongo, TypeOK
  <2>6. [pc |-> "check", data |-> Shared(c, doc), keys |-> NoKeys] \in Warms
    BY <2>1, SharedType, KeysTypes DEF Warms, WarmPcs
  <2>7. warm' \in [Calls -> Warms]
    BY <1>3, <2>6 DEF ReadMongo, TypeOK
  <2> HIDE DEF doc
  <2> QED
    BY <2>1, <2>2, <2>3, <2>4, <2>5, <2>7, EnterType DEF TypeOK
<1> QED
  BY <1>1, <1>2, <1>3

LEMMA ReleaseGivesType ==
  ASSUME TypeOK, NEW c \in Calls, Holds(c),
         Return(c) \/ Reject(c)
  PROVE  /\ pc' \in [Calls -> Pcs] /\ mutex' \in [0..MaxGen -> Seq(Calls)]
         /\ level' \in Nat
<1>1. mutex' \in [0..MaxGen -> Seq(Calls)]
  BY ReleaseType DEF Return, Reject
<1>2. pc' \in [Calls -> Pcs]
  BY GoesType DEF Return, Reject, Pcs, Finished
<1>3. level \in Nat /\ patch[c].creds \in Nat
  BY DEF TypeOK, Patches
<1>4. level' \in Nat
  BY <1>3 DEF Return, Reject, Newer
<1> QED
  BY <1>1, <1>2, <1>4

LEMMA BeginType ==
  ASSUME TypeOK, NEW c \in Calls, NEW o \in Ops, NEW k \in KeyIds, Begin(c, o, k)
  PROVE  TypeOK'
<1>1. pc' \in [Calls -> Pcs]
  BY GoesType DEF Begin, Pcs
<1>2. o \in AllOps
  BY HybridAssumption DEF AllOps
<1>3. /\ op' \in [Calls -> AllOps] /\ key' \in [Calls -> KeyIds] /\ memory' \in Nat
      /\ floor' \in [Calls -> Nat]
  BY <1>2 DEF Begin, TypeOK
<1>4. UNCHANGED <<redis, mongo, cache, gen, mutex, held, expect, patch, current, warm,
                  outbox, queue, took, level, seen>>
  BY DEF Begin, locks, locals, behind
<1> QED
  BY <1>1, <1>3, <1>4 DEF TypeOK

LEMMA SetType ==
  ASSUME TypeOK, NEW c \in Calls, Holds(c), SetStep(c)
  PROVE  TypeOK'
<1>1. CASE Acquire(c)
  <2>1. pc' \in [Calls -> Pcs]
    BY <1>1, GoesType DEF Acquire, Pcs, Section
  <2>2. patch' \in [Calls -> Patches]
    <3>1. patch \in [Calls -> Patches] /\ memory \in Nat
      BY DEF TypeOK
    <3>2. PICK n \in Nat : patch' = [patch EXCEPT ![c].creds = n]
      BY <1>1, <3>1 DEF Acquire
    <3>3. [patch[c] EXCEPT !.creds = n] \in Patches
      BY <3>1 DEF Patches
    <3> QED
      BY <3>1, <3>2, <3>3
  <2>3. UNCHANGED <<redis, mongo, cache, memory, gen, mutex, op, key, held, expect,
                    current, warm, outbox, queue, took, level, floor, seen>>
    BY <1>1 DEF Acquire, locks, behind, observed
  <2> QED
    BY <2>1, <2>2, <2>3 DEF TypeOK
<1>2. CASE MergeRead(c)
  <2>1. pc' \in [Calls -> Pcs]
    BY <1>2, GoesType DEF MergeRead, Pcs, Section
  <2>2. current' \in [Calls -> Keys]
    <3>1. redis.keys \in Keys /\ current \in [Calls -> Keys]
      BY DEF TypeOK, Snapshots
    <3> QED
      BY <1>2, <3>1, KeysTypes DEF MergeRead
  <2>3. UNCHANGED <<redis, mongo, cache, memory, gen, mutex, op, key, held, expect,
                    patch, warm, outbox, queue, took, level, floor, seen>>
    BY <1>2 DEF MergeRead, locks, behind, observed
  <2> QED
    BY <2>1, <2>2, <2>3 DEF TypeOK
<1>3. CASE RedisWrite(c)
  <2>1. redis' \in Snapshots
    <3>1. redis \in Snapshots
      BY DEF TypeOK
    <3> QED
      BY <1>3, <3>1, RedisFieldType DEF RedisWrite
  <2>2. (Goes(c, "persist") /\ UNCHANGED <<mutex, level>>) \/ Reject(c)
    BY <1>3 DEF RedisWrite
  <2>3. /\ pc' \in [Calls -> Pcs] /\ mutex' \in [0..MaxGen -> Seq(Calls)]
        /\ level' \in Nat
    BY <2>2, GoesType, ReleaseGivesType DEF Pcs, Section, TypeOK
  <2>4. UNCHANGED <<mongo, cache, memory, gen, op, key, held, expect, patch, current,
                    warm, outbox, queue, took, floor, seen>>
    BY <1>3 DEF RedisWrite, locals, behind
  <2> QED
    BY <2>1, <2>3, <2>4 DEF TypeOK
<1>4. CASE PersistDirect(c)
  <2>1. expect[c] + 1 \in Nat
    BY DEF TypeOK
  <2>2. mongo' \in Snapshots /\ took' \subseteq Calls
    <3>1. MongoPut(c, expect[c] + 1) \/ UNCHANGED <<mongo, took>>
      BY <1>4 DEF PersistDirect
    <3>2. mongo \in Snapshots /\ took \subseteq Calls
      BY DEF TypeOK
    <3> QED
      BY <2>1, <3>1, <3>2, MongoPutType
  <2>3. cache' \in Snapshots
    <3>1. cache \in Snapshots
      BY DEF TypeOK
    <3> QED
      BY <1>4, <3>1, SnapshotTypes DEF PersistDirect
  <2>4. (Goes(c, "mark") /\ UNCHANGED <<mutex, level>>) \/ Return(c) \/ Reject(c)
    BY <1>4 DEF PersistDirect
  <2>5. /\ pc' \in [Calls -> Pcs] /\ mutex' \in [0..MaxGen -> Seq(Calls)]
        /\ level' \in Nat
    BY <2>4, GoesType, ReleaseGivesType DEF Pcs, Section, TypeOK
  <2>6. UNCHANGED <<redis, memory, gen, op, key, held, expect, patch, current, warm,
                    outbox, queue, floor, seen>>
    BY <1>4 DEF PersistDirect, locals, behind
  <2> QED
    BY <2>2, <2>3, <2>5, <2>6 DEF TypeOK
<1>5. CASE AddEntry(c)
  <2>1. pc' \in [Calls -> Pcs]
    BY <1>5, GoesType DEF AddEntry, Pcs, Section
  <2>2. outbox' \subseteq [ver : Nat, call : Calls, done : BOOLEAN]
    <3>1. expect[c] + 1 \in Nat
      BY DEF TypeOK
    <3>2. EntryOf(c) \in [ver : Nat, call : Calls, done : BOOLEAN]
      BY <3>1 DEF EntryOf
    <3>3. outbox \subseteq [ver : Nat, call : Calls, done : BOOLEAN]
      BY DEF TypeOK
    <3> QED
      BY <1>5, <3>2, <3>3 DEF AddEntry
  <2>3. UNCHANGED <<redis, mongo, cache, memory, gen, mutex, op, key, held, expect,
                    patch, current, warm, queue, took, level, floor, seen>>
    BY <1>5 DEF AddEntry, locks, locals, observed
  <2> QED
    BY <2>1, <2>2, <2>3 DEF TypeOK
<1>6. CASE Publish(c)
  <2>1. (Goes(c, "fallback") /\ UNCHANGED <<mutex, level>>) \/ Return(c)
    BY <1>6 DEF Publish
  <2>2. /\ pc' \in [Calls -> Pcs] /\ mutex' \in [0..MaxGen -> Seq(Calls)]
        /\ level' \in Nat
    BY <2>1, GoesType, ReleaseGivesType DEF Pcs, Section, TypeOK
  <2>3. queue' \subseteq Calls
    BY <1>6 DEF Publish, TypeOK
  <2>4. UNCHANGED <<redis, mongo, cache, memory, gen, op, key, held, expect, patch,
                    current, warm, outbox, took, floor, seen>>
    BY <1>6 DEF Publish, locals
  <2> QED
    BY <2>2, <2>3, <2>4 DEF TypeOK
<1>7. CASE Mark(c)
  <2>1. Return(c) \/ Reject(c)
    BY <1>7 DEF Mark
  <2>2. /\ pc' \in [Calls -> Pcs] /\ mutex' \in [0..MaxGen -> Seq(Calls)]
        /\ level' \in Nat
    BY <2>1, ReleaseGivesType
  <2>3. outbox' \subseteq [ver : Nat, call : Calls, done : BOOLEAN]
    <3>1. outbox \subseteq [ver : Nat, call : Calls, done : BOOLEAN]
      BY DEF TypeOK
    <3>2. \A e \in outbox : [e EXCEPT !.done = TRUE] \in [ver : Nat, call : Calls, done : BOOLEAN]
      BY <3>1
    <3> QED
      BY <1>7, <3>1, <3>2 DEF Mark
  <2>4. UNCHANGED <<redis, mongo, cache, memory, gen, op, key, held, expect, patch,
                    current, warm, queue, took, floor, seen>>
    BY <1>7 DEF Mark, locals
  <2> QED
    BY <2>2, <2>3, <2>4 DEF TypeOK
<1> QED
  BY <1>1, <1>2, <1>3, <1>4, <1>5, <1>6, <1>7 DEF SetStep

LEMMA DeleteType ==
  ASSUME TypeOK, NEW c \in Calls, DeleteRedis(c) \/ DeleteMongo(c)
  PROVE  TypeOK'
<1>1. CASE DeleteRedis(c)
  <2>1. pc' \in [Calls -> Pcs]
    BY <1>1, GoesType DEF DeleteRedis, Pcs
  <2>2. redis' \in Snapshots
    BY <1>1, SnapshotTypes DEF DeleteRedis, TypeOK
  <2>3. UNCHANGED <<mongo, cache, memory, gen, mutex, op, key, held, expect, patch,
                    current, warm, outbox, queue, took, level, floor, seen>>
    BY <1>1 DEF DeleteRedis, locks, locals, behind, observed
  <2> QED
    BY <2>1, <2>2, <2>3 DEF TypeOK
<1>2. CASE DeleteMongo(c)
  <2>1. pc' \in [Calls -> Pcs]
    BY <1>2, GoesType DEF DeleteMongo, Pcs, Finished
  <2>2. mongo' \in Snapshots /\ cache' \in Snapshots
    BY <1>2, SnapshotTypes DEF DeleteMongo, TypeOK
  <2>3. UNCHANGED <<redis, memory, gen, mutex, op, key, held, expect, patch, current,
                    warm, outbox, queue, took, level, floor, seen>>
    BY <1>2 DEF DeleteMongo, locks, locals, behind, observed
  <2> QED
    BY <2>1, <2>2, <2>3 DEF TypeOK
<1> QED
  BY <1>1, <1>2

LEMMA WarmType ==
  ASSUME TypeOK, NEW c \in Calls, WarmStep(c)
  PROVE  TypeOK'
<1>1. warm[c] \in Warms /\ warm \in [Calls -> Warms] /\ redis \in Snapshots
  BY DEF TypeOK
<1>2. warm[c].data \in Snapshots /\ warm[c].keys \in Keys /\ redis.keys \in Keys
  BY <1>1 DEF Warms, Snapshots
<1>3. /\ [warm[c] EXCEPT !.pc = "merge"] \in Warms
      /\ \A keys \in Keys : [warm[c] EXCEPT !.pc = "write", !.keys = keys] \in Warms
  BY <1>1 DEF Warms, WarmPcs
<1>4. NoWarm \in Warms /\ NoKeys \in Keys
  BY NoTypes, KeysTypes
<1>5. warm' \in [Calls -> Warms]
  <2>1. CASE WarmCheck(c)
    BY <1>1, <1>3, <1>4, <2>1 DEF WarmCheck, WarmEnds, WarmGoes
  <2>2. CASE WarmMerge(c)
    <3>1. PICK keys \in Keys : warm' = [warm EXCEPT ![c].pc = "write", ![c].keys = keys]
      BY <1>2, <1>4, <2>2 DEF WarmMerge
    <3> QED
      BY <1>1, <1>3, <3>1
  <2>3. CASE WarmWrite(c)
    BY <1>1, <1>4, <2>3 DEF WarmWrite, WarmEnds
  <2> QED
    BY <2>1, <2>2, <2>3 DEF WarmStep
<1>6. redis' \in Snapshots
  <2>1. CASE WarmCheck(c) \/ WarmMerge(c)
    BY <1>1, <2>1 DEF WarmCheck, WarmMerge
  <2>2. CASE WarmWrite(c)
    <3> DEFINE creds == [redis EXCEPT !.creds = warm[c].data.creds]
               merged == Merge(warm[c].keys, warm[c].data.keys)
               keys == [creds EXCEPT !.keys = merged]
               all == [keys EXCEPT !.ver = warm[c].data.ver + 1]
    <3>1. warm[c].data.creds \in Nat /\ warm[c].data.ver + 1 \in Nat /\ merged \in Keys
      <4>1. warm[c].data.creds \in Nat /\ warm[c].data.ver \in Nat /\ warm[c].data.keys \in Keys
        BY <1>2 DEF Snapshots
      <4> QED
        BY <1>2, <4>1, MergeType
    <3> HIDE DEF merged
    <3>2. creds \in Snapshots
      BY <1>1, <3>1, SnapshotFields
    <3> HIDE DEF creds
    <3>3. keys \in Snapshots
      BY <3>1, <3>2, SnapshotFields
    <3> HIDE DEF keys
    <3>4. all \in Snapshots
      BY <3>1, <3>3, SnapshotFields
    <3> HIDE DEF all
    <3>5. redis' \in {redis, creds, keys, all}
      BY <2>2 DEF WarmWrite, creds, keys, all, merged
    <3> QED
      BY <1>1, <3>2, <3>3, <3>4, <3>5
  <2> QED
    BY <2>1, <2>2 DEF WarmStep
<1>7. UNCHANGED <<mongo, cache, memory, gen, mutex, pc, op, key, held, expect, patch,
                  current, outbox, queue, took, level, floor, seen>>
  BY DEF WarmStep, WarmCheck, WarmMerge, WarmWrite, locks, control, locals, behind, observed
<1> QED
  BY <1>5, <1>6, <1>7 DEF TypeOK

LEMMA AroundType ==
  ASSUME TypeOK, Around
  PROVE  TypeOK'
<1>1. /\ cache \in Snapshots /\ outbox \subseteq [ver : Nat, call : Calls, done : BOOLEAN]
      /\ redis \in Snapshots /\ mongo \in Snapshots /\ took \subseteq Calls
      /\ gen \in 0..MaxGen /\ expect \in [Calls -> Nat] /\ queue \subseteq Calls
  BY DEF TypeOK
<1>2. Empty \in Snapshots /\ NoKeys \in Keys
  BY SnapshotTypes, KeysTypes
<1>3. ASSUME NEW e \in outbox, Drain(e) PROVE TypeOK'
  <2>1. /\ e.call \in Calls /\ e.ver + 1 \in Nat
        /\ [e EXCEPT !.done = TRUE] \in [ver : Nat, call : Calls, done : BOOLEAN]
    <3>1. e \in [ver : Nat, call : Calls, done : BOOLEAN]
      BY <1>1
    <3>2. e.call \in Calls /\ e.ver \in Nat
      BY <3>1
    <3>3. [e EXCEPT !.done = TRUE] \in [ver : Nat, call : Calls, done : BOOLEAN]
      BY <3>1
    <3> QED
      BY <3>2, <3>3
  <2>2. mongo' \in Snapshots /\ took' \subseteq Calls
    BY <1>3, <2>1, MongoPutType DEF Drain
  <2>3. /\ cache' \in Snapshots
        /\ outbox' \subseteq [ver : Nat, call : Calls, done : BOOLEAN]
    BY <1>1, <1>2, <1>3, <2>1 DEF Drain
  <2>4. UNCHANGED <<redis, memory, gen, mutex, pc, op, key, held, expect, patch, current,
                    warm, queue, level, floor, seen>>
    BY <1>3 DEF Drain, locks, control, locals, observed
  <2> QED
    BY <2>2, <2>3, <2>4 DEF TypeOK
<1>4. ASSUME NEW e \in outbox, Forget(e) PROVE TypeOK'
  <2>1. outbox' \subseteq [ver : Nat, call : Calls, done : BOOLEAN]
    BY <1>1, <1>4 DEF Forget
  <2>2. UNCHANGED <<redis, mongo, cache, memory, gen, mutex, pc, op, key, held, expect,
                    patch, current, warm, queue, took, level, floor, seen>>
    BY <1>4 DEF Forget, locks, control, locals, observed
  <2> QED
    BY <2>1, <2>2 DEF TypeOK
<1>5. ASSUME NEW c \in Calls, Deliver(c) PROVE TypeOK'
  <2>1. expect[c] + 2 \in Nat
    BY <1>1
  <2>2. mongo' \in Snapshots /\ took' \subseteq Calls
    <3>1. MongoPut(c, expect[c] + 2) \/ UNCHANGED <<mongo, took>>
      BY <1>5 DEF Deliver
    <3> QED
      BY <1>1, <2>1, <3>1, MongoPutType
  <2>3. queue' \subseteq Calls
    BY <1>1, <1>5 DEF Deliver
  <2>4. UNCHANGED <<redis, cache, memory, gen, mutex, pc, op, key, held, expect, patch,
                    current, warm, outbox, level, floor, seen>>
    BY <1>5 DEF Deliver, locks, control, locals, observed
  <2> QED
    BY <2>2, <2>3, <2>4 DEF TypeOK
<1>6. CASE CacheExpires
  BY <1>2, <1>6 DEF CacheExpires, locks, control, locals, behind, observed, TypeOK
<1>7. CASE Evict
  <2>1. gen' \in 0..MaxGen
    BY <1>1, <1>7, HybridAssumption DEF Evict
  <2>2. UNCHANGED <<redis, mongo, cache, memory, mutex, pc, op, key, held, expect, patch,
                    current, warm, outbox, queue, took, level, floor, seen>>
    BY <1>7 DEF Evict, control, locals, behind, observed
  <2> QED
    BY <2>1, <2>2 DEF TypeOK
<1>8. CASE RedisExpires
  <2>1. redis' \in Snapshots
    BY <1>1, <1>2, <1>8, SnapshotFields DEF RedisExpires
  <2>2. UNCHANGED <<mongo, cache, memory, gen, mutex, pc, op, key, held, expect, patch,
                    current, warm, outbox, queue, took, level, floor, seen>>
    BY <1>8 DEF RedisExpires, locks, control, locals, behind, observed
  <2> QED
    BY <2>1, <2>2 DEF TypeOK
<1> QED
  BY <1>3, <1>4, <1>5, <1>6, <1>7, <1>8 DEF Around

LEMMA StutterType == ASSUME TypeOK, UNCHANGED vars PROVE TypeOK'
BY DEF TypeOK, vars


-----------------------------------------------------------------------------
(* The mutex                                                               *)

Distinct(s) == \A i, j \in 1..Len(s) : s[i] = s[j] => i = j

Listed(s, c) == \E i \in 1..Len(s) : s[i] = c

Blocked(c) == pc[c] = "waiting" \/ InSection(c)

LEMMA AppendListed ==
  ASSUME NEW s \in Seq(Calls), NEW c \in Calls, Distinct(s), ~Listed(s, c)
  PROVE  /\ Distinct(Append(s, c))
         /\ \A d \in Calls : Listed(Append(s, c), d) <=> Listed(s, d) \/ d = c
         /\ s # <<>> => Append(s, c) # <<>> /\ Head(Append(s, c)) = Head(s)
<1> DEFINE t == Append(s, c)
<1>1. /\ Len(t) = Len(s) + 1 /\ Len(s) \in Nat
      /\ \A i \in 1..Len(s) : t[i] = s[i]
      /\ t[Len(s) + 1] = c /\ t \in Seq(Calls)
  OBVIOUS
<1>2. s # <<>> => Len(s) > 0 /\ Head(s) = s[1]
  OBVIOUS
<1>3. t # <<>> /\ Head(t) = t[1]
  BY <1>1
<1> HIDE DEF t
<1>4. Distinct(t)
  <2> SUFFICES ASSUME NEW i \in 1..Len(t), NEW j \in 1..Len(t), t[i] = t[j]
               PROVE  i = j
    BY DEF Distinct
  <2>1. CASE i \in 1..Len(s) /\ j \in 1..Len(s)
    BY <1>1, <2>1 DEF Distinct
  <2>2. CASE i = Len(s) + 1 /\ j \in 1..Len(s)
    BY <1>1, <2>2 DEF Listed
  <2>3. CASE i \in 1..Len(s) /\ j = Len(s) + 1
    BY <1>1, <2>3 DEF Listed
  <2>4. CASE i = Len(s) + 1 /\ j = Len(s) + 1
    BY <2>4
  <2> QED
    BY <1>1, <2>1, <2>2, <2>3, <2>4
<1>5. ASSUME NEW d \in Calls PROVE Listed(t, d) <=> Listed(s, d) \/ d = c
  <2>1. ASSUME Listed(t, d) PROVE Listed(s, d) \/ d = c
    <3>1. PICK i \in 1..Len(t) : t[i] = d
      BY <2>1 DEF Listed
    <3>2. i \in 1..Len(s) \/ i = Len(s) + 1
      BY <1>1
    <3> QED
      BY <1>1, <3>1, <3>2 DEF Listed
  <2>2. ASSUME Listed(s, d) PROVE Listed(t, d)
    <3>1. PICK i \in 1..Len(s) : s[i] = d
      BY <2>2 DEF Listed
    <3>2. i \in 1..Len(t) /\ t[i] = d
      BY <1>1, <3>1
    <3> QED
      BY <3>2 DEF Listed
  <2>3. Listed(t, c)
    <3>1. Len(s) + 1 \in 1..Len(t)
      BY <1>1
    <3> QED
      BY <1>1, <3>1 DEF Listed
  <2> QED
    BY <2>1, <2>2, <2>3
<1>6. s # <<>> => Head(t) = Head(s)
  <2>1. ASSUME s # <<>> PROVE 1 \in 1..Len(s)
    BY <1>1, <1>2, <2>1
  <2> QED
    BY <1>1, <1>2, <1>3, <2>1
<1> QED
  BY <1>3, <1>4, <1>5, <1>6 DEF t

LEMMA TailListed ==
  ASSUME NEW s \in Seq(Calls), Distinct(s), s # <<>>
  PROVE  /\ Distinct(Tail(s))
         /\ \A d \in Calls : Listed(Tail(s), d) <=> Listed(s, d) /\ d # Head(s)
<1> DEFINE t == Tail(s)
<1>1. /\ Len(s) \in Nat /\ Len(s) > 0 /\ Len(t) = Len(s) - 1
      /\ \A i \in 1..Len(t) : t[i] = s[i + 1]
      /\ Head(s) = s[1]
  OBVIOUS
<1> HIDE DEF t
<1>2. Distinct(t)
  <2> SUFFICES ASSUME NEW i \in 1..Len(t), NEW j \in 1..Len(t), t[i] = t[j]
               PROVE  i = j
    BY DEF Distinct
  <2>1. i + 1 \in 1..Len(s) /\ j + 1 \in 1..Len(s) /\ s[i + 1] = s[j + 1]
    BY <1>1
  <2>2. i + 1 = j + 1
    BY <2>1 DEF Distinct
  <2> QED
    BY <1>1, <2>2
<1>3. ASSUME NEW d \in Calls PROVE Listed(t, d) <=> Listed(s, d) /\ d # Head(s)
  <2>1. ASSUME Listed(t, d) PROVE Listed(s, d) /\ d # Head(s)
    <3>1. PICK i \in 1..Len(t) : t[i] = d
      BY <2>1 DEF Listed
    <3>2. i + 1 \in 1..Len(s) /\ s[i + 1] = d /\ i + 1 # 1 /\ 1 \in 1..Len(s)
      BY <1>1, <3>1
    <3> QED
      BY <1>1, <3>2 DEF Distinct, Listed
  <2>2. ASSUME Listed(s, d), d # Head(s) PROVE Listed(t, d)
    <3>1. PICK i \in 1..Len(s) : s[i] = d
      BY <2>2 DEF Listed
    <3>2. i # 1
      BY <1>1, <2>2, <3>1
    <3>3. i - 1 \in 1..Len(t) /\ (i - 1) + 1 = i
      BY <1>1, <3>2
    <3>4. t[i - 1] = d
      BY <1>1, <3>1, <3>3
    <3> QED
      BY <3>3, <3>4 DEF Listed
  <2> QED
    BY <2>1, <2>2
<1> QED
  BY <1>2, <1>3 DEF t

\* MutexIsKept in terms of Distinct, Listed and Blocked.
MutexInv ==
  \A g \in 0..MaxGen :
    /\ Distinct(mutex[g])
    /\ \A c \in Calls :
         /\ Listed(mutex[g], c) <=> held[c] = g /\ Blocked(c)
         /\ held[c] = g /\ InSection(c) => Holds(c)

LEMMA MutexIs == MutexIsKept <=> MutexInv
BY DEF MutexIsKept, MutexInv, Distinct, Listed, Blocked

\* A call moves without joining or leaving a queue.
LEMMA MutexStays ==
  ASSUME TypeOK, MutexInv, NEW c \in Calls, NEW where, Goes(c, where),
         UNCHANGED <<mutex, held>>,
         \/ pc[c] \notin {"waiting"} \cup Section /\ where \notin {"waiting"} \cup Section
         \/ Blocked(c) /\ Holds(c) /\ where \in Section
  PROVE  MutexInv'
<1>1. pc'[c] = where /\ \A d \in Calls : d # c => pc'[d] = pc[d]
  BY GoesAt
<1>2. \A d \in Calls : Blocked(d)' <=> Blocked(d)
  BY <1>1 DEF Blocked, InSection
<1>3. \A d \in Calls : InSection(d)' => InSection(d) \/ Holds(d)
  BY <1>1 DEF Blocked, InSection
<1>4. \A d \in Calls : Holds(d)' <=> Holds(d)
  BY DEF Holds
<1> QED
  BY <1>2, <1>3, <1>4 DEF MutexInv

LEMMA MutexUntouched ==
  ASSUME MutexInv, UNCHANGED <<pc, mutex, held>>
  PROVE  MutexInv'
BY DEF MutexInv, Blocked, InSection, Holds

\* A call asks for the mutex.
LEMMA MutexJoined ==
  ASSUME TypeOK, MutexInv, NEW c \in Calls, ~Blocked(c), Goes(c, "waiting"),
         held' = [held EXCEPT ![c] = gen],
         mutex' = [mutex EXCEPT ![gen] = Append(@, c)]
  PROVE  MutexInv'
<1>1. pc'[c] = "waiting" /\ \A d \in Calls : d # c => pc'[d] = pc[d]
  BY GoesAt
<1>2. gen \in 0..MaxGen /\ mutex[gen] \in Seq(Calls)
  BY DEF TypeOK
<1>3. mutex \in [0..MaxGen -> Seq(Calls)] /\ held \in [Calls -> 0..MaxGen]
  BY DEF TypeOK
<1>4. /\ mutex'[gen] = Append(mutex[gen], c)
      /\ \A g \in 0..MaxGen : g # gen => mutex'[g] = mutex[g]
      /\ held'[c] = gen /\ \A d \in Calls : d # c => held'[d] = held[d]
  BY <1>2, <1>3
<1>5. /\ \A d \in Calls : d # c => (Blocked(d)' <=> Blocked(d)) /\ (InSection(d)' <=> InSection(d))
      /\ Blocked(c)' /\ ~InSection(c)'
  BY <1>1 DEF Blocked, InSection, Section
<1>6. \A g \in 0..MaxGen : ~Listed(mutex[g], c)
  BY DEF MutexInv
<1>7. /\ Distinct(mutex'[gen])
      /\ \A d \in Calls : Listed(mutex'[gen], d) <=> Listed(mutex[gen], d) \/ d = c
      /\ mutex[gen] # <<>> => mutex'[gen] # <<>> /\ Head(mutex'[gen]) = Head(mutex[gen])
  <2>1. Distinct(mutex[gen]) /\ ~Listed(mutex[gen], c)
    BY <1>2, <1>6 DEF MutexInv
  <2> QED
    BY <1>2, <1>4, <2>1, AppendListed
<1> SUFFICES ASSUME NEW g \in 0..MaxGen
             PROVE  /\ Distinct(mutex'[g])
                    /\ \A d \in Calls :
                         /\ Listed(mutex'[g], d) <=> held'[d] = g /\ Blocked(d)'
                         /\ held'[d] = g /\ InSection(d)' => Holds(d)'
  BY DEF MutexInv, Distinct, Listed
<1>8. Distinct(mutex'[g])
  BY <1>4, <1>7 DEF MutexInv
<1> SUFFICES ASSUME NEW d \in Calls
             PROVE  /\ Listed(mutex'[g], d) <=> held'[d] = g /\ Blocked(d)'
                    /\ held'[d] = g /\ InSection(d)' => Holds(d)'
  BY <1>8
<1>9. Listed(mutex[g], d) <=> held[d] = g /\ Blocked(d)
  BY DEF MutexInv
<1>10. Listed(mutex'[g], d) <=> held'[d] = g /\ Blocked(d)'
  BY <1>2, <1>4, <1>5, <1>6, <1>7, <1>9
<1>11. ASSUME held'[d] = g, InSection(d)' PROVE Holds(d)'
  <2>1. d # c /\ held[d] = g /\ InSection(d)
    BY <1>4, <1>5, <1>11
  <2>2. mutex[g] # <<>> /\ Head(mutex[g]) = d
    BY <2>1 DEF MutexInv, Holds
  <2>3. mutex'[g] # <<>> /\ Head(mutex'[g]) = d
    BY <1>4, <1>7, <2>2
  <2> QED
    BY <1>11, <2>3 DEF Holds
<1> QED
  BY <1>10, <1>11

\* A call gives the mutex back.
LEMMA MutexLeft ==
  ASSUME TypeOK, MutexInv, NEW c \in Calls, InSection(c),
         NEW where \in Finished, Goes(c, where), Release(c), held' = held
  PROVE  MutexInv'
<1> DEFINE h == held[c]
<1>1. pc'[c] = where /\ \A d \in Calls : d # c => pc'[d] = pc[d]
  BY GoesAt
<1>2. h \in 0..MaxGen /\ mutex[h] \in Seq(Calls) /\ mutex \in [0..MaxGen -> Seq(Calls)]
  BY DEF TypeOK
<1>3. mutex[h] # <<>> /\ Head(mutex[h]) = c
  BY <1>2 DEF MutexInv, Holds
<1>4. /\ mutex'[h] = Tail(mutex[h])
      /\ \A g \in 0..MaxGen : g # h => mutex'[g] = mutex[g]
  BY <1>2 DEF Release
<1>5. /\ \A d \in Calls : d # c => (Blocked(d)' <=> Blocked(d)) /\ (InSection(d)' <=> InSection(d))
      /\ ~Blocked(c)' /\ ~InSection(c)'
  BY <1>1 DEF Blocked, InSection, Section, Finished
<1>6. /\ Distinct(mutex'[h])
      /\ \A d \in Calls : Listed(mutex'[h], d) <=> Listed(mutex[h], d) /\ d # c
  <2>1. Distinct(mutex[h])
    BY <1>2 DEF MutexInv
  <2> QED
    BY <1>2, <1>3, <1>4, <2>1, TailListed
<1>7. Blocked(c)
  BY DEF Blocked
<1> HIDE DEF h
<1> SUFFICES ASSUME NEW g \in 0..MaxGen
             PROVE  /\ Distinct(mutex'[g])
                    /\ \A d \in Calls :
                         /\ Listed(mutex'[g], d) <=> held[d] = g /\ Blocked(d)'
                         /\ held[d] = g /\ InSection(d)' => Holds(d)'
  BY DEF MutexInv, Distinct, Listed
<1>8. Distinct(mutex'[g])
  BY <1>4, <1>6 DEF MutexInv
<1> SUFFICES ASSUME NEW d \in Calls
             PROVE  /\ Listed(mutex'[g], d) <=> held[d] = g /\ Blocked(d)'
                    /\ held[d] = g /\ InSection(d)' => Holds(d)'
  BY <1>8
<1>9. Listed(mutex[g], d) <=> held[d] = g /\ Blocked(d)
  BY DEF MutexInv
<1>10. Listed(mutex[g], c) <=> h = g
  BY <1>7 DEF MutexInv, h
<1>11. Listed(mutex'[g], d) <=> held[d] = g /\ Blocked(d)'
  BY <1>4, <1>5, <1>6, <1>9, <1>10 DEF h
<1>12. ASSUME held[d] = g, InSection(d)' PROVE Holds(d)'
  <2>1. d # c /\ InSection(d)
    BY <1>5, <1>12
  <2>2. mutex[g] # <<>> /\ Head(mutex[g]) = d
    BY <1>12, <2>1 DEF MutexInv, Holds
  <2>3. g # h
    BY <1>3, <2>1, <2>2
  <2>4. mutex'[g] = mutex[g]
    BY <1>4, <2>3
  <2> QED
    BY <1>12, <2>2, <2>4 DEF Holds
<1> QED
  BY <1>11, <1>12


LEMMA EnterMutex ==
  ASSUME TypeOK, MutexInv, NEW c \in Calls, NEW snap, ~Blocked(c), Enter(c, snap)
  PROVE  MutexInv'
<1>1. CASE op[c] = "get"
  <2>1. Goes(c, "acked") /\ UNCHANGED <<mutex, held>>
    BY <1>1 DEF Enter
  <2> QED
    BY <2>1, MutexStays DEF Blocked, InSection, Section
<1>2. CASE op[c] # "get"
  BY <1>2, MutexJoined DEF Enter
<1> QED
  BY <1>1, <1>2

LEMMA CallMutex ==
  ASSUME TypeOK, MutexInv, NEW c \in Calls, CallStep(c)
  PROVE  MutexInv'
<1>1. InSection(c) => Holds(c)
  BY DEF MutexInv, TypeOK
<1>2. CASE ReadMeta(c)
  <2>1. PICK where \in {"fields", "mongo"} : Goes(c, where)
    BY <1>2 DEF ReadMeta
  <2>2. pc[c] = "meta" /\ UNCHANGED <<mutex, held>>
    BY <1>2 DEF ReadMeta, locks
  <2> QED
    BY <2>1, <2>2, MutexStays DEF Section
<1>3. CASE ReadFields(c)
  <2>1. pc[c] = "fields" /\ ~Blocked(c)
    BY <1>3 DEF ReadFields, Blocked, InSection, Section
  <2>2. (Goes(c, "mongo") /\ UNCHANGED <<mutex, held>>) \/ \E snap : Enter(c, snap)
    BY <1>3 DEF ReadFields, locks
  <2> QED
    BY <2>1, <2>2, MutexStays, EnterMutex DEF Section
<1>4. CASE ReadMongo(c)
  <2>1. pc[c] = "mongo" /\ ~Blocked(c)
    BY <1>4 DEF ReadMongo, Blocked, InSection, Section
  <2>2. \E snap : Enter(c, snap)
    BY <1>4 DEF ReadMongo
  <2> QED
    BY <2>1, <2>2, EnterMutex
<1>5. CASE Acquire(c)
  <2>1. Goes(c, IF SetsCreds(c) THEN "write" ELSE "merge") /\ UNCHANGED <<mutex, held>>
    BY <1>5 DEF Acquire, locks
  <2>2. Holds(c) /\ Blocked(c)
    BY <1>5 DEF Acquire, Blocked
  <2> QED
    BY <2>1, <2>2, MutexStays DEF Section
<1>6. CASE MergeRead(c)
  <2>1. Goes(c, "write") /\ UNCHANGED <<mutex, held>> /\ InSection(c)
    BY <1>6 DEF MergeRead, locks, InSection, Section
  <2> QED
    BY <1>1, <2>1, MutexStays DEF Blocked, Section
<1>7. CASE RedisWrite(c)
  <2>1. InSection(c) /\ held' = held
    BY <1>7 DEF RedisWrite, InSection, Section
  <2>2. \/ Goes(c, "persist") /\ UNCHANGED mutex
        \/ Goes(c, "rejected") /\ Release(c)
    <3>1. (Goes(c, "persist") /\ UNCHANGED <<mutex, level>>) \/ Reject(c)
      BY <1>7 DEF RedisWrite
    <3> QED
      BY <3>1 DEF Reject
  <2> QED
    BY <1>1, <2>1, <2>2, MutexStays, MutexLeft DEF Blocked, Finished, Section
<1>8. CASE PersistDirect(c)
  <2>1. InSection(c) /\ held' = held
    BY <1>8 DEF PersistDirect, InSection, Section
  <2>2. \/ Goes(c, "mark") /\ UNCHANGED mutex
        \/ Goes(c, "acked") /\ Release(c)
        \/ Goes(c, "rejected") /\ Release(c)
    BY <1>8 DEF PersistDirect, Reject, Return
  <2> QED
    BY <1>1, <2>1, <2>2, MutexStays, MutexLeft DEF Blocked, Finished, Section
<1>9. CASE AddEntry(c)
  <2>1. InSection(c) /\ UNCHANGED <<mutex, held>>
    BY <1>9 DEF AddEntry, InSection, Section, locks
  <2>2. Goes(c, "publish") \/ Goes(c, "fallback")
    BY <1>9 DEF AddEntry
  <2> QED
    BY <1>1, <2>1, <2>2, MutexStays DEF Blocked, Section
<1>10. CASE Publish(c)
  <2>1. InSection(c) /\ held' = held
    BY <1>10 DEF Publish, InSection, Section
  <2>2. \/ Goes(c, "fallback") /\ UNCHANGED mutex
        \/ Goes(c, "acked") /\ Release(c)
    <3>1. (Goes(c, "fallback") /\ UNCHANGED <<mutex, level>>) \/ Return(c)
      BY <1>10 DEF Publish
    <3> QED
      BY <3>1 DEF Return
  <2> QED
    BY <1>1, <2>1, <2>2, MutexStays, MutexLeft DEF Blocked, Finished, Section
<1>11. CASE Mark(c)
  <2>1. InSection(c) /\ held' = held
    BY <1>11 DEF Mark, InSection, Section
  <2>2. \/ Goes(c, "acked") /\ Release(c)
        \/ Goes(c, "rejected") /\ Release(c)
    BY <1>11 DEF Mark, Return, Reject
  <2> QED
    BY <2>1, <2>2, MutexLeft DEF Finished
<1>12. CASE DeleteRedis(c)
  <2>1. pc[c] = "redisDelete" /\ UNCHANGED <<mutex, held>>
    BY <1>12 DEF DeleteRedis, locks
  <2>2. Goes(c, "mongoDelete") \/ Goes(c, "mongoOnly")
    BY <1>12 DEF DeleteRedis
  <2> QED
    BY <2>1, <2>2, MutexStays DEF Section
<1>13. CASE DeleteMongo(c)
  <2>1. pc[c] \in {"mongoDelete", "mongoOnly"} /\ UNCHANGED <<mutex, held>>
    BY <1>13 DEF DeleteMongo, locks
  <2>2. Goes(c, "acked") \/ Goes(c, "rejected")
    BY <1>13 DEF DeleteMongo
  <2> QED
    BY <2>1, <2>2, MutexStays DEF Section
<1> QED
  BY <1>2, <1>3, <1>4, <1>5, <1>6, <1>7, <1>8, <1>9, <1>10, <1>11, <1>12, <1>13
     DEF CallStep, SetStep

LEMMA OtherMutex ==
  ASSUME MutexInv,
         Around \/ UNCHANGED vars \/ \E c \in Calls : WarmStep(c)
  PROVE  MutexInv'
<1>1. UNCHANGED <<pc, mutex, held>>
  <2>1. CASE Around
    BY <2>1 DEF Around, Drain, Forget, Deliver, CacheExpires, Evict, RedisExpires, control, locks
  <2>2. CASE UNCHANGED vars
    BY <2>2 DEF vars
  <2>3. ASSUME NEW c \in Calls, WarmStep(c) PROVE UNCHANGED <<pc, mutex, held>>
    BY <2>3 DEF WarmStep, WarmCheck, WarmMerge, WarmWrite, control, locks
  <2> QED
    BY <2>1, <2>2, <2>3
<1> QED
  BY <1>1, MutexUntouched

\* The types and the mutex need each other: the queue a call leaves is not
\* empty because the call is at its head.
BaseInv == TypeOK /\ MutexInv

LEMMA BaseInit == Init => BaseInv
<1> SUFFICES ASSUME Init PROVE BaseInv
  OBVIOUS
<1>1. TypeOK
  BY InitType
<1>2. \A g \in 0..MaxGen : mutex[g] = <<>>
  BY DEF Init
<1>3. \A c \in Calls : pc[c] = "idle"
  BY DEF Init
<1>4. MutexInv
  BY <1>2, <1>3 DEF MutexInv, Distinct, Listed, Blocked, InSection, Section
<1> QED
  BY <1>1, <1>4 DEF BaseInv

LEMMA BaseStep == BaseInv /\ [Next]_vars => BaseInv'
<1> SUFFICES ASSUME TypeOK, MutexInv, [Next]_vars
             PROVE  TypeOK' /\ MutexInv'
  BY DEF BaseInv
<1>1. ASSUME NEW c \in Calls, NEW o \in Ops, NEW k \in KeyIds, Begin(c, o, k)
      PROVE  TypeOK' /\ MutexInv'
  <2>1. pc[c] = "idle" /\ UNCHANGED <<mutex, held>>
    BY <1>1 DEF Begin, locks
  <2>2. Goes(c, "redisDelete") \/ Goes(c, "meta")
    BY <1>1 DEF Begin
  <2>3. MutexInv'
    BY <2>1, <2>2, MutexStays DEF Section
  <2> QED
    BY <1>1, <2>3, BeginType
<1>2. ASSUME NEW c \in Calls, CallStep(c)
      PROVE  TypeOK' /\ MutexInv'
  <2>1. CASE SetStep(c)
    <3>1. Holds(c)
      <4>1. InSection(c) \/ Holds(c)
        BY <2>1 DEF SetStep, Acquire, MergeRead, RedisWrite, PersistDirect, AddEntry,
                    Publish, Mark, InSection, Section
      <4> QED
        BY <4>1 DEF MutexInv, TypeOK
    <3> QED
      BY <1>2, <2>1, <3>1, SetType, CallMutex
  <2>2. CASE ~SetStep(c)
    BY <1>2, <2>2, ReadType, DeleteType, CallMutex DEF CallStep
  <2> QED
    BY <2>1, <2>2
<1>3. ASSUME NEW c \in Calls, WarmStep(c)
      PROVE  TypeOK' /\ MutexInv'
  BY <1>3, WarmType, OtherMutex
<1>4. CASE Around
  BY <1>4, AroundType, OtherMutex
<1>5. CASE UNCHANGED vars
  BY <1>5, StutterType, OtherMutex
<1> QED
  BY <1>1, <1>2, <1>3, <1>4, <1>5 DEF Next

LEMMA BaseTheorem == Spec => []BaseInv
BY BaseInit, BaseStep, PTL DEF Spec

\* Every state of a session, with every fault, has its type: what Redis and
\* MongoDB hold are creds, keys and a version of the session, whatever the
\* hook and the worker have written to them.
THEOREM TypeCorrect == Spec => []TypeOK
<1>1. BaseInv => TypeOK
  BY DEF BaseInv
<1> QED
  BY <1>1, BaseTheorem, PTL

\* The mutex of a session is held by one call at a time and every way out of
\* set gives it back, whatever fails and however often the LRU cache drops it
\* (store.ts:356-444, 868-875).
THEOREM MutexTheorem == Spec => []MutexIsKept
<1>1. BaseInv => MutexIsKept
  BY MutexIs DEF BaseInv
<1> QED
  BY <1>1, BaseTheorem, PTL

-----------------------------------------------------------------------------
(* One mutex: nothing drops it from the LRU cache                          *)

OneMutex == gen = 0 /\ \A c \in Calls : held[c] = 0

LEMMA OneMutexStep ==
  ASSUME "evict" \notin Faults, BaseInv, OneMutex, [Next]_vars
  PROVE  OneMutex'
<1>1. held \in [Calls -> 0..MaxGen]
  BY DEF BaseInv, TypeOK
<1> DEFINE Kept == gen' = gen /\ (held' = held \/ \E c \in Calls : held' = [held EXCEPT ![c] = gen])
<1>2. ASSUME NEW c \in Calls, NEW o \in Ops, NEW k \in KeyIds, Begin(c, o, k) PROVE Kept
  BY <1>2 DEF Begin, locks
<1>3. ASSUME NEW c \in Calls, CallStep(c) PROVE Kept
  <2>1. CASE ReadMeta(c) \/ DeleteRedis(c) \/ DeleteMongo(c)
    BY <2>1 DEF ReadMeta, DeleteRedis, DeleteMongo, locks
  <2>2. CASE ReadFields(c)
    BY <2>2 DEF ReadFields, Enter, locks
  <2>3. CASE ReadMongo(c)
    <3>1. \E snap : Enter(c, snap)
      BY <2>3 DEF ReadMongo
    <3> QED
      BY <3>1 DEF Enter
  <2>4. CASE Acquire(c) \/ MergeRead(c)
    BY <2>4 DEF Acquire, MergeRead, locks
  <2>5. CASE RedisWrite(c)
    BY <2>5 DEF RedisWrite
  <2>6. CASE PersistDirect(c)
    BY <2>6 DEF PersistDirect
  <2>7. CASE AddEntry(c)
    BY <2>7 DEF AddEntry, locks
  <2>8. CASE Publish(c)
    BY <2>8 DEF Publish
  <2>9. CASE Mark(c)
    BY <2>9 DEF Mark
  <2> QED
    BY <1>3, <2>1, <2>2, <2>3, <2>4, <2>5, <2>6, <2>7, <2>8, <2>9 DEF CallStep, SetStep
<1>4. ASSUME NEW c \in Calls, WarmStep(c) PROVE Kept
  BY <1>4 DEF WarmStep, WarmCheck, WarmMerge, WarmWrite, control, locks
<1>5. ASSUME Around PROVE Kept
  BY <1>5 DEF Around, Drain, Forget, Deliver, CacheExpires, Evict, RedisExpires, control, locks
<1>6. ASSUME UNCHANGED vars PROVE Kept
  BY <1>6 DEF vars
<1>7. Kept
  BY <1>2, <1>3, <1>4, <1>5, <1>6 DEF Next
<1> QED
  BY <1>1, <1>7 DEF OneMutex

LEMMA OneMutexTheorem == "evict" \notin Faults => (Spec => []OneMutex)
<1> SUFFICES ASSUME "evict" \notin Faults PROVE Spec => []OneMutex
  OBVIOUS
<1>1. Init => OneMutex
  BY DEF Init, OneMutex
<1>2. BaseInv /\ OneMutex /\ [Next]_vars => OneMutex'
  BY OneMutexStep
<1> QED
  BY <1>1, <1>2, BaseTheorem, PTL DEF Spec

LEMMA OneInSection ==
  ASSUME MutexInv, TypeOK, OneMutex, NEW c \in Calls, NEW d \in Calls,
         InSection(c), InSection(d)
  PROVE  c = d
<1>1. Holds(c) /\ Holds(d)
  BY DEF MutexInv, TypeOK
<1> QED
  BY <1>1 DEF Holds, OneMutex

\* As long as nothing drops the mutex from the LRU cache, the writes of a
\* session are serialized, whatever else fails (store.ts:866).
THEOREM ExclusionTheorem == "evict" \notin Faults => (Spec => []MutualExclusion)
<1> SUFFICES ASSUME "evict" \notin Faults PROVE Spec => []MutualExclusion
  OBVIOUS
<1>1. BaseInv /\ OneMutex => MutualExclusion
  BY OneInSection DEF BaseInv, MutualExclusion
<1> QED
  BY <1>1, BaseTheorem, OneMutexTheorem, PTL


-----------------------------------------------------------------------------
(* Without the queue, MongoDB has what was acknowledged                    *)

\* Where a call may be, and what MongoDB has taken when it is told of success.
AckedAt(c) ==
  /\ pc[c] \in {"redisDelete", "mongoDelete", "mongoOnly"} => op[c] = "delete"
  /\ pc[c] \notin {"publish", "fallback", "mark"}
  /\ IsSet(c) /\ pc[c] = "acked" => c \in took

AckedInv == \A c \in Calls : AckedAt(c)

LEMMA AckedStays ==
  ASSUME TypeOK, AckedInv, NEW c \in Calls, NEW where, Goes(c, where), op' = op,
         took \subseteq took', AckedAt(c)'
  PROVE  AckedInv'
BY GoesAt DEF AckedInv, AckedAt, IsSet

LEMMA AckedUntouched ==
  ASSUME AckedInv, UNCHANGED <<pc, op>>, took \subseteq took'
  PROVE  AckedInv'
BY DEF AckedInv, AckedAt, IsSet

LEMMA EnterAcked ==
  ASSUME TypeOK, AckedInv, NEW c \in Calls, NEW snap, Enter(c, snap),
         op' = op, took' = took
  PROVE  AckedInv'
<1>1. CASE op[c] = "get"
  <2>1. Goes(c, "acked") /\ ~IsSet(c)'
    BY <1>1 DEF Enter, IsSet
  <2>2. AckedAt(c)'
    BY <2>1, GoesAt DEF AckedAt
  <2> QED
    BY <2>1, <2>2, AckedStays
<1>2. CASE op[c] # "get"
  <2>1. Goes(c, "waiting")
    BY <1>2 DEF Enter
  <2>2. AckedAt(c)'
    BY <2>1, GoesAt DEF AckedAt
  <2> QED
    BY <2>1, <2>2, AckedStays
<1> QED
  BY <1>1, <1>2

LEMMA AckedStep ==
  ASSUME ~WriteBehind, BaseInv, AckedInv, [Next]_vars
  PROVE  AckedInv'
<1>0. TypeOK
  BY DEF BaseInv
<1>1. ASSUME NEW c \in Calls, NEW o \in Ops, NEW k \in KeyIds, Begin(c, o, k)
      PROVE  AckedInv'
  <2>1. PICK where \in {"redisDelete", "meta"} :
          Goes(c, where) /\ (where = "redisDelete" => o = "delete")
    BY <1>1 DEF Begin
  <2>2. op'[c] = o /\ (\A d \in Calls : d # c => op'[d] = op[d]) /\ took' = took
    BY <1>0, <1>1 DEF Begin, TypeOK
  <2>3. pc'[c] = where /\ \A d \in Calls : d # c => pc'[d] = pc[d]
    BY <1>0, <2>1, GoesAt
  <2> QED
    BY <2>1, <2>2, <2>3 DEF AckedInv, AckedAt, IsSet
<1>2. ASSUME NEW c \in Calls, CallStep(c)
      PROVE  AckedInv'
  <2>1. CASE ReadMeta(c)
    <3>1. PICK where \in {"fields", "mongo"} : Goes(c, where)
      BY <2>1 DEF ReadMeta
    <3>2. op' = op /\ took' = took
      BY <2>1 DEF ReadMeta
    <3> QED
      BY <1>0, <3>1, <3>2, AckedStays, GoesAt DEF AckedAt
  <2>2. CASE ReadFields(c)
    <3>1. Goes(c, "mongo") \/ \E snap : Enter(c, snap)
      BY <2>2 DEF ReadFields
    <3>2. op' = op /\ took' = took
      BY <2>2 DEF ReadFields
    <3>3. Goes(c, "mongo") => AckedAt(c)'
      BY <1>0, GoesAt DEF AckedAt
    <3> QED
      BY <1>0, <3>1, <3>2, <3>3, AckedStays, EnterAcked
  <2>3. CASE ReadMongo(c)
    <3>1. \E snap : Enter(c, snap)
      BY <2>3 DEF ReadMongo
    <3>2. op' = op /\ took' = took
      BY <2>3 DEF ReadMongo
    <3> QED
      BY <1>0, <3>1, <3>2, EnterAcked
  <2>4. CASE Acquire(c) \/ MergeRead(c)
    <3>1. PICK where \in {"write", "merge"} : Goes(c, where)
      BY <2>4 DEF Acquire, MergeRead
    <3>2. op' = op /\ took' = took
      BY <2>4 DEF Acquire, MergeRead
    <3> QED
      BY <1>0, <3>1, <3>2, AckedStays, GoesAt DEF AckedAt
  <2>5. CASE RedisWrite(c)
    <3>1. PICK where \in {"persist", "rejected"} : Goes(c, where)
      BY <2>5 DEF RedisWrite, Reject
    <3>2. op' = op /\ took' = took
      BY <2>5 DEF RedisWrite
    <3> QED
      BY <1>0, <3>1, <3>2, AckedStays, GoesAt DEF AckedAt
  <2>6. CASE PersistDirect(c)
    <3>1. \/ Goes(c, "acked") /\ took' = took \cup {c}
          \/ Goes(c, "rejected") /\ took' \in {took, took \cup {c}}
      BY <2>6 DEF PersistDirect, MongoPut, Return, Reject
    <3>2. op' = op /\ took \subseteq took'
      BY <2>6, <3>1 DEF PersistDirect
    <3> QED
      BY <1>0, <3>1, <3>2, AckedStays, GoesAt DEF AckedAt
  <2>7. CASE AddEntry(c) \/ Publish(c) \/ Mark(c)
    BY <2>7 DEF AddEntry, Publish, Mark, AckedInv, AckedAt
  <2>8. CASE DeleteRedis(c)
    <3>1. PICK where \in {"mongoDelete", "mongoOnly"} : Goes(c, where)
      BY <2>8 DEF DeleteRedis
    <3>2. op' = op /\ took' = took /\ op[c] = "delete"
      BY <2>8 DEF DeleteRedis, control, AckedInv, AckedAt
    <3> QED
      BY <1>0, <3>1, <3>2, AckedStays, GoesAt DEF AckedAt
  <2>9. CASE DeleteMongo(c)
    <3>1. PICK where \in {"acked", "rejected"} : Goes(c, where)
      BY <2>9 DEF DeleteMongo
    <3>2. op' = op /\ took' = took /\ op[c] = "delete"
      BY <2>9 DEF DeleteMongo, AckedInv, AckedAt
    <3>3. ~IsSet(c)'
      BY <3>2 DEF IsSet
    <3> QED
      BY <1>0, <3>1, <3>2, <3>3, AckedStays, GoesAt DEF AckedAt
  <2> QED
    BY <1>2, <2>1, <2>2, <2>3, <2>4, <2>5, <2>6, <2>7, <2>8, <2>9 DEF CallStep, SetStep
<1>3. ASSUME NEW c \in Calls, WarmStep(c)
      PROVE  AckedInv'
  BY <1>3, AckedUntouched DEF WarmStep, WarmCheck, WarmMerge, WarmWrite, control
<1>4. CASE Around
  BY <1>4, AckedUntouched
     DEF Around, Drain, Forget, Deliver, CacheExpires, Evict, RedisExpires, MongoPut, control
<1>5. CASE UNCHANGED vars
  BY <1>5, AckedUntouched DEF vars
<1> QED
  BY <1>1, <1>2, <1>3, <1>4, <1>5 DEF Next

\* Without the queue, a set that succeeded is in MongoDB, whatever fails and
\* however the calls overlap (store.ts:354-444).
THEOREM AckedTheorem == ~WriteBehind => (Spec => []AckedIsLogged)
<1> SUFFICES ASSUME ~WriteBehind PROVE Spec => []AckedIsLogged
  OBVIOUS
<1>1. Init => AckedInv
  BY DEF Init, AckedInv, AckedAt
<1>2. BaseInv /\ AckedInv /\ [Next]_vars => AckedInv'
  BY AckedStep
<1>3. AckedInv => AckedIsLogged
  BY DEF AckedInv, AckedAt, AckedIsLogged
<1> QED
  BY <1>1, <1>2, <1>3, BaseTheorem, PTL DEF Spec


-----------------------------------------------------------------------------
(* A session that is in Redis                                              *)

\* Redis answers, keeps what it was given and holds the session when the
\* process starts; MongoDB and the queue may fail, and the queue may be used
\* or not.
HotSession ==
  /\ Faults \cap {"redis", "expiry", "evict"} = {}
  /\ "delete" \notin Ops
  /\ Starts \subseteq {"both"}

\* Calls find the session in Redis, so none of them asks MongoDB for it; a
\* get takes no mutex.
PathAt(c) ==
  /\ pc[c] \notin {"mongo", "redisDelete", "mongoDelete", "mongoOnly"}
  /\ Blocked(c) => op[c] # "get"
  /\ warm[c].pc = "none"

Written == {"persist", "publish", "fallback", "mark", "acked", "rejected"}

\* The creds a save carries are the newest when it writes them, the ones in
\* Redis until it ends, and no newer than those afterwards.
CredsAt(c) ==
  SetsCreds(c) =>
    /\ pc[c] # "merge"
    /\ pc[c] = "write" => redis.creds <= patch[c].creds /\ patch[c].creds <= memory
    /\ pc[c] \in {"persist", "publish", "fallback", "mark"} => patch[c].creds = redis.creds
    /\ pc[c] \in Finished => patch[c].creds <= redis.creds

\* A save that will bring the newest creds to Redis.
Pending(c) ==
  /\ SetsCreds(c)
  /\ \/ pc[c] \in {"meta", "fields", "waiting"}
     \/ pc[c] = "write" /\ patch[c].creds = memory

ReadAt(c) ==
  /\ floor[c] <= level
  /\ op[c] = "get" /\ pc[c] = "acked" => seen[c] >= floor[c]

BehindInv ==
  /\ \A e \in outbox : pc[e.call] \in Written
  /\ \A c \in queue : pc[c] \in Written

StoresInv ==
  /\ redis.creds > 0 /\ redis.creds <= memory
  /\ mongo.creds <= redis.creds
  /\ level <= redis.creds

HotInv ==
  /\ \A c \in Calls : PathAt(c) /\ CredsAt(c) /\ ReadAt(c)
  /\ BehindInv
  /\ StoresInv
  /\ redis.creds = memory \/ \E c \in Calls : Pending(c)

LEMMA Numbers ==
  ASSUME TypeOK
  PROVE  /\ redis.creds \in Nat /\ mongo.creds \in Nat /\ memory \in Nat /\ level \in Nat
         /\ \A c \in Calls : patch[c].creds \in Nat /\ floor[c] \in Nat /\ seen[c] \in Nat
<1>1. redis \in Snapshots /\ mongo \in Snapshots /\ memory \in Nat /\ level \in Nat
  BY DEF TypeOK
<1>2. \A c \in Calls : patch[c] \in Patches /\ floor[c] \in Nat /\ seen[c] \in Nat
  BY DEF TypeOK
<1> QED
  BY <1>1, <1>2 DEF Snapshots, Patches

LEMMA HotInit == HotSession /\ Init => HotInv
<1> SUFFICES ASSUME HotSession, Init PROVE HotInv
  OBVIOUS
<1>1. redis.creds = 1 /\ mongo.creds = 1 /\ memory = 1
  <2>1. PICK start \in Starts :
          /\ redis = IF start = "both" THEN Stored ELSE Empty
          /\ mongo = IF start = "empty" THEN Empty
                     ELSE IF WriteBehind THEN [Stored EXCEPT !.ver = 3]
                     ELSE Stored
    BY DEF Init
  <2>2. start = "both"
    BY <2>1 DEF HotSession
  <2>3. redis = Stored /\ mongo \in {Stored, [Stored EXCEPT !.ver = 3]}
    BY <2>1, <2>2
  <2>4. Stored.creds = 1 /\ [Stored EXCEPT !.ver = 3].creds = 1
    BY DEF Stored
  <2> QED
    BY <2>3, <2>4 DEF Init
<1>2. \A c \in Calls : pc[c] = "idle" /\ warm[c].pc = "none" /\ floor[c] = 0
  BY DEF Init, NoWarm
<1>3. outbox = {} /\ queue = {} /\ level = 0
  BY DEF Init
<1> QED
  BY <1>1, <1>2, <1>3 DEF HotInv, PathAt, CredsAt, ReadAt, BehindInv, StoresInv, Finished,
     Blocked, InSection, Section

\* A step of a call that leaves the creds in Redis as they are.
LEMMA HotCall ==
  ASSUME TypeOK, TypeOK', HotInv, NEW c \in Calls, NEW where, Goes(c, where),
         UNCHANGED <<op, memory, floor, warm>>,
         redis'.creds = redis.creds, mongo'.creds <= redis.creds,
         \A d \in Calls : d # c => patch'[d].creds = patch[d].creds /\ seen'[d] = seen[d],
         level <= level', level' <= redis.creds,
         pc[c] \in Written => where \in Written,
         \A e \in outbox' : (e.call = c /\ where \in Written) \/ \E f \in outbox : f.call = e.call,
         \A d \in queue' : (d = c /\ where \in Written) \/ d \in queue,
         where \notin {"mongo", "redisDelete", "mongoDelete", "mongoOnly"},
         CredsAt(c)', Pending(c) => Pending(c)',
         where \in {"waiting"} \cup Section => op[c] # "get",
         op[c] = "get" /\ where = "acked" => seen'[c] >= floor[c]
  PROVE  HotInv'
<1>1. pc'[c] = where /\ \A d \in Calls : d # c => pc'[d] = pc[d]
  BY GoesAt
<1>2. /\ redis.creds \in Nat /\ level \in Nat /\ level' \in Nat
      /\ \A d \in Calls : floor[d] \in Nat /\ seen[d] \in Nat /\ patch[d].creds \in Nat
  <2>1. level' \in Nat
    BY DEF TypeOK
  <2> QED
    BY <2>1, Numbers
<1>3. ASSUME NEW d \in Calls PROVE PathAt(d)' /\ CredsAt(d)' /\ ReadAt(d)'
  <2>1. PathAt(d) /\ CredsAt(d) /\ ReadAt(d)
    BY DEF HotInv
  <2>2. PathAt(d)'
    BY <1>1, <2>1 DEF PathAt, Blocked, InSection
  <2>3. CredsAt(d)'
    BY <1>1, <2>1 DEF CredsAt, SetsCreds
  <2>4. ReadAt(d)'
    BY <1>1, <1>2, <2>1 DEF ReadAt
  <2> QED
    BY <2>2, <2>3, <2>4
<1>4. BehindInv'
  <2>1. \A d \in Calls : pc[d] \in Written => pc'[d] \in Written
    BY <1>1
  <2>2. \A e \in outbox' : e.call \in Calls
    BY DEF TypeOK
  <2>3. \A d \in queue' : d \in Calls
    BY DEF TypeOK
  <2> QED
    BY <1>1, <2>1, <2>2, <2>3 DEF HotInv, BehindInv
<1>5. StoresInv'
  BY DEF HotInv, StoresInv
<1>6. redis'.creds = memory' \/ \E d \in Calls : Pending(d)'
  <2>1. \A d \in Calls : Pending(d) => Pending(d)'
    BY <1>1 DEF Pending, SetsCreds
  <2> QED
    BY <2>1 DEF HotInv
<1> QED
  BY <1>3, <1>4, <1>5, <1>6 DEF HotInv

LEMMA HotBegin ==
  ASSUME HotSession, TypeOK, HotInv,
         NEW c \in Calls, NEW o \in Ops, NEW k \in KeyIds, Begin(c, o, k)
  PROVE  HotInv'
<1>1. /\ pc[c] = "idle" /\ Goes(c, "meta")
      /\ memory' = (IF o = "saveCreds" THEN memory + 1 ELSE memory)
      /\ op' = [op EXCEPT ![c] = o] /\ floor' = [floor EXCEPT ![c] = level]
      /\ UNCHANGED <<redis, mongo, warm, patch, outbox, queue, level, seen>>
  BY DEF Begin, HotSession, locals, behind
<1>2. pc'[c] = "meta" /\ \A d \in Calls : d # c => pc'[d] = pc[d]
  BY <1>1, GoesAt
<1>3. /\ op'[c] = o /\ \A d \in Calls : d # c => op'[d] = op[d]
      /\ floor'[c] = level /\ \A d \in Calls : d # c => floor'[d] = floor[d]
  BY <1>1 DEF TypeOK
<1>4. /\ redis.creds \in Nat /\ level \in Nat /\ memory \in Nat /\ mongo.creds \in Nat
      /\ \A d \in Calls : floor[d] \in Nat /\ seen[d] \in Nat /\ patch[d].creds \in Nat
  BY Numbers
<1>5. memory <= memory' /\ memory' \in Nat /\ (o # "saveCreds" => memory' = memory)
  BY <1>1, <1>4
<1>6. ASSUME NEW d \in Calls PROVE PathAt(d)' /\ CredsAt(d)' /\ ReadAt(d)'
  <2>1. PathAt(d) /\ CredsAt(d) /\ ReadAt(d)
    BY DEF HotInv
  <2>2. PathAt(d)'
    BY <1>1, <1>2, <1>3, <2>1 DEF PathAt, Blocked, InSection, Section
  <2>3. CredsAt(d)'
    <3>1. CASE d = c
      BY <1>2, <3>1 DEF CredsAt, Finished
    <3>2. CASE d # c
      BY <1>1, <1>2, <1>3, <1>4, <1>5, <2>1, <3>2 DEF CredsAt, SetsCreds
    <3> QED
      BY <3>1, <3>2
  <2>4. ReadAt(d)'
    <3>1. CASE d = c
      BY <1>1, <1>2, <1>3, <1>4, <3>1 DEF ReadAt
    <3>2. CASE d # c
      BY <1>1, <1>2, <1>3, <2>1, <3>2 DEF ReadAt
    <3> QED
      BY <3>1, <3>2
  <2> QED
    BY <2>2, <2>3, <2>4
<1>7. BehindInv'
  <2>1. \A d \in Calls : pc[d] \in Written => pc'[d] \in Written
    BY <1>1, <1>2 DEF Written
  <2>2. (\A e \in outbox : e.call \in Calls) /\ queue \subseteq Calls
    BY DEF TypeOK
  <2> QED
    BY <1>1, <2>1, <2>2 DEF HotInv, BehindInv
<1>8. StoresInv'
  BY <1>1, <1>4, <1>5 DEF HotInv, StoresInv
<1>9. redis'.creds = memory' \/ \E d \in Calls : Pending(d)'
  <2>1. CASE o = "saveCreds"
    BY <1>2, <1>3, <2>1 DEF Pending, SetsCreds
  <2>2. CASE o # "saveCreds"
    <3>1. \A d \in Calls : Pending(d) => Pending(d)'
      BY <1>1, <1>2, <1>3, <1>5, <2>2 DEF Pending, SetsCreds
    <3> QED
      BY <1>1, <1>5, <2>2, <3>1 DEF HotInv
  <2> QED
    BY <2>1, <2>2
<1> QED
  BY <1>6, <1>7, <1>8, <1>9 DEF HotInv


LEMMA HotRead ==
  ASSUME HotSession, TypeOK, TypeOK', HotInv, NEW c \in Calls,
         ReadMeta(c) \/ ReadFields(c)
  PROVE  HotInv'
<1>0. PathAt(c) /\ CredsAt(c) /\ ReadAt(c) /\ StoresInv
  BY DEF HotInv
<1>1. /\ redis.creds \in Nat /\ level \in Nat /\ mongo.creds <= redis.creds
      /\ redis.creds > 0 /\ level <= redis.creds /\ floor[c] \in Nat /\ floor[c] <= level
      /\ level <= level
  BY <1>0, Numbers DEF StoresInv, ReadAt
<1>2. CASE ReadMeta(c)
  <2>1. /\ Goes(c, "fields") /\ pc[c] = "meta"
        /\ UNCHANGED <<redis, mongo, memory, op, floor, warm, patch, seen, level, outbox, queue>>
    BY <1>2 DEF ReadMeta, HotSession, behind, observed
  <2>2. CredsAt(c)' /\ (Pending(c) => Pending(c)')
    BY <2>1, GoesAt DEF CredsAt, Pending, SetsCreds, Finished
  <2> QED
    BY <1>1, <2>1, <2>2, HotCall DEF Written, Section
<1>3. CASE ReadFields(c)
  <2> DEFINE snap == [creds |-> redis.creds, keys |-> redis.keys, ver |-> expect[c]]
  <2>1. Enter(c, snap)
    BY <1>1, <1>3 DEF ReadFields, HotSession
  <2>2. /\ pc[c] = "fields"
        /\ UNCHANGED <<redis, mongo, memory, op, floor, warm, outbox, queue>>
    BY <1>3 DEF ReadFields, behind
  <2>3. snap.creds = redis.creds
    OBVIOUS
  <2> HIDE DEF snap
  <2>4. CASE op[c] = "get"
    <3>1. /\ Goes(c, "acked") /\ seen' = [seen EXCEPT ![c] = redis.creds]
          /\ level' = Newer(redis.creds) /\ patch' = patch
      BY <2>1, <2>3, <2>4 DEF Enter
    <3>2. seen'[c] = redis.creds /\ \A d \in Calls : d # c => seen'[d] = seen[d]
      BY <3>1 DEF TypeOK
    <3>3. level' = redis.creds
      BY <1>1, <3>1 DEF Newer
    <3>4. CredsAt(c)' /\ ~Pending(c) /\ seen'[c] >= floor[c] /\ level <= level' /\ level' <= redis.creds
      BY <1>1, <2>2, <2>4, <3>2, <3>3 DEF CredsAt, Pending, SetsCreds
    <3> QED
      BY <1>1, <2>2, <3>1, <3>2, <3>4, HotCall DEF Written, Section
  <2>5. CASE op[c] # "get"
    <3>1. /\ Goes(c, "waiting") /\ UNCHANGED <<seen, level>>
          /\ patch' = [patch EXCEPT ![c] = [creds |-> 0, keys |-> Patched(c, snap)]]
      BY <2>1, <2>5 DEF Enter
    <3>2. \A d \in Calls : d # c => patch'[d] = patch[d]
      BY <3>1 DEF TypeOK
    <3>3. CredsAt(c)' /\ (Pending(c) => Pending(c)')
      BY <2>2, <3>1, GoesAt DEF CredsAt, Pending, SetsCreds, Finished
    <3> QED
      BY <1>1, <2>2, <2>5, <3>1, <3>2, <3>3, HotCall DEF Written, Section
  <2> QED
    BY <2>4, <2>5
<1> QED
  BY <1>2, <1>3

LEMMA HotAcquire ==
  ASSUME HotSession, TypeOK, TypeOK', HotInv, NEW c \in Calls,
         Acquire(c) \/ MergeRead(c)
  PROVE  HotInv'
<1>0. PathAt(c) /\ CredsAt(c) /\ ReadAt(c) /\ StoresInv
  BY DEF HotInv
<1>1. /\ redis.creds \in Nat /\ level \in Nat /\ mongo.creds <= redis.creds
      /\ redis.creds <= memory /\ level <= redis.creds /\ memory \in Nat /\ level <= level
      /\ memory <= memory
  BY <1>0, Numbers DEF StoresInv
<1>2. op[c] # "get"
  BY <1>0 DEF PathAt, Blocked, InSection, Section, Acquire, MergeRead
<1>3. CASE Acquire(c)
  <2>1. /\ pc[c] = "waiting"
        /\ Goes(c, IF SetsCreds(c) THEN "write" ELSE "merge")
        /\ patch' = [patch EXCEPT ![c].creds = IF SetsCreds(c) THEN memory ELSE 0]
        /\ UNCHANGED <<redis, mongo, memory, op, floor, warm, seen, level, outbox, queue>>
    BY <1>3 DEF Acquire, behind, observed
  <2>2. /\ SetsCreds(c) => patch'[c].creds = memory
        /\ \A d \in Calls : d # c => patch'[d] = patch[d]
    BY <2>1 DEF TypeOK, Patches
  <2>3. pc'[c] = (IF SetsCreds(c) THEN "write" ELSE "merge")
    BY <2>1, GoesAt
  <2>4. CredsAt(c)'
    BY <1>1, <2>1, <2>2, <2>3 DEF CredsAt, SetsCreds, Finished
  <2>5. Pending(c) => Pending(c)'
    BY <2>1, <2>2, <2>3 DEF Pending, SetsCreds
  <2>6. CASE SetsCreds(c)
    BY <1>1, <1>2, <2>1, <2>2, <2>4, <2>5, <2>6, HotCall DEF Written, Section
  <2>7. CASE ~SetsCreds(c)
    BY <1>1, <1>2, <2>1, <2>2, <2>4, <2>5, <2>7, HotCall DEF Written, Section
  <2> QED
    BY <2>6, <2>7
<1>4. CASE MergeRead(c)
  <2>1. /\ pc[c] = "merge" /\ Goes(c, "write")
        /\ UNCHANGED <<redis, mongo, memory, op, floor, warm, patch, seen, level, outbox, queue>>
    BY <1>4 DEF MergeRead, behind, observed
  <2>2. pc'[c] = "write"
    BY <2>1, GoesAt
  <2>3. CredsAt(c)' /\ (Pending(c) => Pending(c)')
    BY <1>0, <2>1, <2>2 DEF CredsAt, Pending, SetsCreds
  <2> QED
    BY <1>1, <1>2, <2>1, <2>3, HotCall DEF Written, Section
<1> QED
  BY <1>3, <1>4


\* The creds in Redis change only here, and never to older ones.
LEMMA HotRedisWrite ==
  ASSUME HotSession, BaseInv, OneMutex, HotInv, NEW c \in Calls, RedisWrite(c)
  PROVE  HotInv'
<1>0. PathAt(c) /\ CredsAt(c) /\ ReadAt(c) /\ StoresInv /\ TypeOK /\ MutexInv
  BY DEF HotInv, BaseInv
<1>1. /\ pc[c] = "write" /\ Goes(c, "persist")
      /\ redis' = [RedisField(c) EXCEPT !.ver = expect[c] + 1]
      /\ UNCHANGED <<mongo, memory, op, floor, warm, patch, seen, level, outbox, queue>>
  BY DEF RedisWrite, HotSession, locals, behind
<1>2. /\ redis.creds \in Nat /\ level \in Nat /\ memory \in Nat /\ mongo.creds \in Nat
      /\ \A d \in Calls : patch[d].creds \in Nat
  BY <1>0, Numbers
<1>3. /\ SetsCreds(c) => redis'.creds = patch[c].creds
      /\ ~SetsCreds(c) => redis'.creds = redis.creds
  <2>1. redis \in Snapshots
    BY <1>0 DEF TypeOK
  <2> QED
    BY <1>1, <2>1 DEF RedisField, Snapshots
<1>4. /\ redis'.creds \in Nat /\ redis.creds <= redis'.creds /\ redis'.creds <= memory
      /\ 0 < redis.creds /\ mongo.creds <= redis.creds /\ level <= redis.creds
  BY <1>0, <1>1, <1>2, <1>3 DEF CredsAt, StoresInv
<1>5. pc'[c] = "persist" /\ \A d \in Calls : d # c => pc'[d] = pc[d]
  BY <1>0, <1>1, GoesAt
<1>6. \A d \in Calls : d # c => ~InSection(d)
  <2>1. InSection(c)
    BY <1>1 DEF InSection, Section
  <2> QED
    BY <1>0, <2>1, OneInSection
<1>7. ASSUME NEW d \in Calls PROVE PathAt(d)' /\ CredsAt(d)' /\ ReadAt(d)'
  <2>1. PathAt(d) /\ CredsAt(d) /\ ReadAt(d)
    BY DEF HotInv
  <2>2. CASE d = c
    BY <1>1, <1>3, <1>5, <2>1, <2>2
       DEF PathAt, CredsAt, ReadAt, SetsCreds, Finished, Blocked, InSection, Section
  <2>3. CASE d # c
    <3>1. pc[d] \notin {"merge", "write", "persist", "publish", "fallback", "mark"}
      BY <1>6, <2>3 DEF InSection, Section
    <3>2. CredsAt(d)'
      BY <1>1, <1>2, <1>4, <1>5, <2>1, <2>3, <3>1 DEF CredsAt, SetsCreds
    <3> QED
      BY <1>1, <1>5, <2>1, <2>3, <3>2 DEF PathAt, ReadAt, Blocked, InSection
  <2> QED
    BY <2>2, <2>3
<1>8. BehindInv'
  <2>1. \A d \in Calls : pc[d] \in Written => pc'[d] \in Written
    BY <1>1, <1>5 DEF Written
  <2>2. (\A e \in outbox : e.call \in Calls) /\ queue \subseteq Calls
    BY <1>0 DEF TypeOK
  <2> QED
    BY <1>1, <2>1, <2>2 DEF HotInv, BehindInv
<1>9. StoresInv'
  BY <1>1, <1>2, <1>4 DEF StoresInv
<1>10. redis'.creds = memory' \/ \E d \in Calls : Pending(d)'
  <2>1. CASE redis.creds = memory
    BY <1>1, <1>2, <1>4, <2>1
  <2>2. CASE Pending(c)
    BY <1>1, <1>3, <2>2 DEF Pending
  <2>3. ASSUME NEW d \in Calls, d # c, Pending(d) PROVE Pending(d)'
    BY <1>1, <1>5, <2>3 DEF Pending, SetsCreds
  <2> QED
    BY <2>1, <2>2, <2>3 DEF HotInv
<1> QED
  BY <1>7, <1>8, <1>9, <1>10 DEF HotInv

\* What MongoDB takes is no newer than what Redis holds.
LEMMA HotPut ==
  ASSUME TypeOK, StoresInv, NEW c \in Calls, CredsAt(c), pc[c] \in Written,
         NEW ver, MongoPut(c, ver)
  PROVE  /\ mongo'.creds <= redis.creds
         /\ SetsCreds(c) => mongo'.creds = patch[c].creds
         /\ ~SetsCreds(c) => mongo'.creds = mongo.creds
<1>1. mongo \in Snapshots /\ redis.creds \in Nat /\ patch[c].creds \in Nat
  BY Numbers DEF TypeOK
<1>2. /\ SetsCreds(c) => mongo'.creds = patch[c].creds
      /\ ~SetsCreds(c) => mongo'.creds = mongo.creds
  BY <1>1 DEF MongoPut, Snapshots
<1>3. SetsCreds(c) => patch[c].creds <= redis.creds
  BY <1>1 DEF CredsAt, Written, Finished
<1> QED
  BY <1>2, <1>3 DEF StoresInv

\* The rest of set, after Redis has been written.
LEMMA HotPersist ==
  ASSUME HotSession, TypeOK, TypeOK', HotInv, NEW c \in Calls,
         PersistDirect(c) \/ AddEntry(c) \/ Publish(c) \/ Mark(c)
  PROVE  HotInv'
<1>0. PathAt(c) /\ CredsAt(c) /\ ReadAt(c) /\ StoresInv
  BY DEF HotInv
<1>1. /\ redis.creds \in Nat /\ level \in Nat /\ patch[c].creds \in Nat
      /\ mongo.creds <= redis.creds /\ level <= redis.creds
  BY <1>0, Numbers DEF StoresInv
<1>2. pc[c] \in {"persist", "publish", "fallback", "mark"} /\ pc[c] \in Written
  BY DEF PersistDirect, AddEntry, Publish, Mark, Written
<1>3. SetsCreds(c) => patch[c].creds = redis.creds
  BY <1>0, <1>2 DEF CredsAt
<1>4. UNCHANGED <<redis, memory, op, floor, warm, patch, seen>>
  BY DEF PersistDirect, AddEntry, Publish, Mark, locals, observed
<1>5. ~Pending(c)
  BY <1>2 DEF Pending
<1>6. ASSUME NEW where \in {"publish", "fallback", "mark", "acked", "rejected"}, Goes(c, where)
      PROVE  CredsAt(c)'
  <2>1. pc'[c] = where
    BY <1>6, GoesAt
  <2>2. SetsCreds(c) => patch[c].creds <= redis.creds
    BY <1>1, <1>3
  <2> QED
    BY <1>3, <1>4, <2>1, <2>2 DEF CredsAt, SetsCreds
<1>7. \/ /\ \E where \in {"publish", "fallback", "mark", "rejected"} : Goes(c, where)
         /\ level' = level
      \/ Return(c)
  BY DEF PersistDirect, AddEntry, Publish, Mark, Reject, observed
<1>8. PICK where \in {"publish", "fallback", "mark", "acked", "rejected"} : Goes(c, where)
  BY <1>7 DEF Return
<1>9. level <= level' /\ level' <= redis.creds
  <2>1. CASE level' = level
    BY <1>1, <2>1
  <2>2. CASE Return(c)
    BY <1>1, <1>3, <2>2 DEF Return, Newer
  <2> QED
    BY <1>7, <2>1, <2>2
<1>10. mongo'.creds <= redis.creds
  <2>1. mongo' = mongo \/ \E ver : MongoPut(c, ver)
    BY DEF PersistDirect, AddEntry, Publish, Mark
  <2> QED
    BY <1>0, <1>1, <1>2, <2>1, HotPut
<1>11. \A e \in outbox' : e.call = c \/ \E f \in outbox : f.call = e.call
  <2>1. CASE PersistDirect(c) \/ Publish(c)
    BY <2>1 DEF PersistDirect, Publish, behind
  <2>2. CASE AddEntry(c)
    BY <2>2 DEF AddEntry, EntryOf
  <2>3. CASE Mark(c)
    <3>1. outbox \subseteq [ver : Nat, call : Calls, done : BOOLEAN]
      BY DEF TypeOK
    <3>2. \A e \in [ver : Nat, call : Calls, done : BOOLEAN] :
            [e EXCEPT !.done = TRUE].call = e.call
      OBVIOUS
    <3> QED
      BY <2>3, <3>1, <3>2 DEF Mark
  <2> QED
    BY <2>1, <2>2, <2>3
<1>12. \A d \in queue' : d = c \/ d \in queue
  BY DEF PersistDirect, AddEntry, Publish, Mark, behind
<1>13. op[c] # "get"
  BY <1>0, <1>2 DEF PathAt, Blocked, InSection, Section
<1> QED
  BY <1>4, <1>5, <1>6, <1>8, <1>9, <1>10, <1>11, <1>12, <1>13, HotCall DEF Written, Section


\* A step that touches no call and nothing of Redis.
LEMMA HotOutside ==
  ASSUME TypeOK, HotInv,
         UNCHANGED <<redis, memory, pc, op, floor, warm, patch, seen, level>>,
         mongo'.creds <= redis.creds,
         \A e \in outbox' : \E f \in outbox : f.call = e.call,
         queue' \subseteq queue
  PROVE  HotInv'
<1>1. \A d \in Calls : (PathAt(d)' <=> PathAt(d)) /\ (CredsAt(d)' <=> CredsAt(d))
                         /\ (ReadAt(d)' <=> ReadAt(d)) /\ (Pending(d)' <=> Pending(d))
  BY DEF PathAt, CredsAt, ReadAt, Pending, SetsCreds, Blocked, InSection
<1>2. BehindInv'
  BY DEF HotInv, BehindInv
<1>3. StoresInv'
  BY DEF HotInv, StoresInv
<1> QED
  BY <1>1, <1>2, <1>3 DEF HotInv

LEMMA HotAround ==
  ASSUME HotSession, TypeOK, HotInv, Around
  PROVE  HotInv'
<1>0. StoresInv /\ BehindInv /\ mongo.creds <= redis.creds
  BY DEF HotInv, StoresInv
<1>1. ASSUME NEW e \in outbox, Drain(e) PROVE HotInv'
  <2>1. e.call \in Calls /\ CredsAt(e.call) /\ pc[e.call] \in Written
    BY DEF TypeOK, HotInv, BehindInv
  <2>2. mongo'.creds <= redis.creds
    BY <1>0, <1>1, <2>1, HotPut DEF Drain
  <2>3. outbox \subseteq [ver : Nat, call : Calls, done : BOOLEAN]
    BY DEF TypeOK
  <2>4. [e EXCEPT !.done = TRUE].call = e.call
    <3>1. \A f \in [ver : Nat, call : Calls, done : BOOLEAN] :
            [f EXCEPT !.done = TRUE].call = f.call
      OBVIOUS
    <3> QED
      BY <2>3, <3>1
  <2>5. \A g \in outbox' : \E f \in outbox : f.call = g.call
    BY <1>1, <2>4 DEF Drain
  <2>6. /\ UNCHANGED <<redis, memory, pc, op, floor, warm, patch, seen, level>>
        /\ queue' \subseteq queue
    BY <1>1 DEF Drain, control, locals, observed
  <2> QED
    BY <2>2, <2>5, <2>6, HotOutside
<1>2. ASSUME NEW e \in outbox, Forget(e) PROVE HotInv'
  <2>1. /\ UNCHANGED <<redis, mongo, memory, pc, op, floor, warm, patch, seen, level, queue>>
        /\ outbox' \subseteq outbox
    BY <1>2 DEF Forget, control, locals, observed
  <2> QED
    BY <1>0, <2>1, HotOutside
<1>3. ASSUME NEW c \in Calls, Deliver(c) PROVE HotInv'
  <2>1. CredsAt(c) /\ pc[c] \in Written
    BY <1>3 DEF Deliver, HotInv, BehindInv
  <2>2. mongo'.creds <= redis.creds
    <3>1. MongoPut(c, expect[c] + 2) \/ mongo' = mongo
      BY <1>3 DEF Deliver
    <3> QED
      BY <1>0, <2>1, <3>1, HotPut
  <2>3. /\ UNCHANGED <<redis, memory, pc, op, floor, warm, patch, seen, level, outbox>>
        /\ queue' \subseteq queue
    BY <1>3 DEF Deliver, control, locals, observed
  <2> QED
    BY <2>2, <2>3, HotOutside
<1>4. CASE CacheExpires
  <2>1. UNCHANGED <<redis, mongo, memory, pc, op, floor, warm, patch, seen, level, outbox, queue>>
    BY <1>4 DEF CacheExpires, control, locals, behind, observed
  <2> QED
    BY <1>0, <2>1, HotOutside
<1>5. CASE Evict \/ RedisExpires
  BY <1>5 DEF Evict, RedisExpires, HotSession
<1> QED
  BY <1>1, <1>2, <1>3, <1>4, <1>5 DEF Around

LEMMA HotStep ==
  ASSUME HotSession, BaseInv, BaseInv', OneMutex, HotInv, [Next]_vars
  PROVE  HotInv'
<1>0. TypeOK /\ TypeOK'
  BY DEF BaseInv
<1>1. ASSUME NEW c \in Calls, NEW o \in Ops, NEW k \in KeyIds, Begin(c, o, k)
      PROVE  HotInv'
  BY <1>0, <1>1, HotBegin
<1>2. ASSUME NEW c \in Calls, CallStep(c) PROVE HotInv'
  <2>1. PathAt(c)
    BY DEF HotInv
  <2>2. CASE ReadMongo(c) \/ DeleteRedis(c) \/ DeleteMongo(c)
    BY <2>1, <2>2 DEF PathAt, ReadMongo, DeleteRedis, DeleteMongo
  <2>3. CASE ReadMeta(c) \/ ReadFields(c)
    BY <1>0, <2>3, HotRead
  <2>4. CASE Acquire(c) \/ MergeRead(c)
    BY <1>0, <2>4, HotAcquire
  <2>5. CASE RedisWrite(c)
    BY <2>5, HotRedisWrite
  <2>6. CASE PersistDirect(c) \/ AddEntry(c) \/ Publish(c) \/ Mark(c)
    BY <1>0, <2>6, HotPersist
  <2> QED
    BY <1>2, <2>2, <2>3, <2>4, <2>5, <2>6 DEF CallStep, SetStep
<1>3. ASSUME NEW c \in Calls, WarmStep(c) PROVE HotInv'
  BY <1>3 DEF HotInv, PathAt, WarmStep, WarmCheck, WarmMerge, WarmWrite
<1>4. CASE Around
  BY <1>0, <1>4, HotAround
<1>5. CASE UNCHANGED vars
  <2>1. UNCHANGED <<redis, mongo, memory, pc, op, floor, warm, patch, seen, level, outbox, queue>>
    BY <1>5 DEF vars
  <2> QED
    BY <1>0, <2>1, HotOutside DEF HotInv, StoresInv
<1> QED
  BY <1>1, <1>2, <1>3, <1>4, <1>5 DEF Next

LEMMA HotTheorem == HotSession => (Spec => [](BaseInv /\ OneMutex /\ HotInv))
<1> SUFFICES ASSUME HotSession PROVE Spec => [](BaseInv /\ OneMutex /\ HotInv)
  OBVIOUS
<1>1. Spec => []OneMutex
  BY OneMutexTheorem DEF HotSession
<1>2. Init => HotInv
  BY HotInit
<1>3. BaseInv /\ BaseInv' /\ OneMutex /\ HotInv /\ [Next]_vars => HotInv'
  BY HotStep
<1> QED
  BY <1>1, <1>2, <1>3, BaseTheorem, PTL DEF Spec

\* While the session is in Redis, and however many saves of creds overlap with
\* one another and with sets of keys: once they have ended, Redis holds the
\* newest creds (store.ts:367-375).
THEOREM NewestTheorem == HotSession => (Spec => []NewestCredsInRedis)
<1> SUFFICES ASSUME HotSession PROVE Spec => []NewestCredsInRedis
  OBVIOUS
<1>1. HotInv => NewestCredsInRedis
  BY DEF HotInv, Pending, NewestCredsInRedis, Quiet, Working, Finished
<1> QED
  BY <1>1, HotTheorem, PTL

\* While the session is in Redis, with the queue or without it, MongoDB is
\* never ahead of Redis (store.ts:377-430).
THEOREM NeverAheadTheorem == HotSession => (Spec => []MongoNeverAhead)
<1> SUFFICES ASSUME HotSession PROVE Spec => []MongoNeverAhead
  OBVIOUS
<1>1. HotInv => MongoNeverAhead
  BY DEF HotInv, StoresInv, MongoNeverAhead
<1> QED
  BY <1>1, HotTheorem, PTL

\* While the session is in Redis, no caller is given creds older than those it
\* was given, or was told were saved, before
\* (docs/diagrams/data-consistency.md:58-63).
THEOREM MonotonicTheorem == HotSession => (Spec => []MonotonicReads)
<1> SUFFICES ASSUME HotSession PROVE Spec => []MonotonicReads
  OBVIOUS
<1>1. HotInv => MonotonicReads
  BY DEF HotInv, ReadAt, MonotonicReads
<1> QED
  BY <1>1, HotTheorem, PTL


-----------------------------------------------------------------------------
(* Redis and MongoDB agree, without the queue                              *)

\* A key that MongoDB holds is in Redis with the same value.
KeysIn(keys) == \A k \in KeyIds : keys[k] \in {None, redis.keys[k]}

\* A call that has written to Redis what MongoDB is about to be given.
Owes(c) == pc[c] = "persist"

AgreeInv ==
  /\ outbox = {} /\ queue = {}
  /\ NoneRejected =>
       /\ mongo.creds = redis.creds \/ \E c \in Calls : Owes(c) /\ SetsCreds(c)
       /\ KeysIn(mongo.keys) \/ \E c \in Calls : Owes(c) /\ ~SetsCreds(c)
  /\ \A c \in Calls : Owes(c) /\ ~SetsCreds(c) => KeysIn(patch[c].keys)

LEMMA AgreeFrame ==
  ASSUME AgreeInv, UNCHANGED <<redis, mongo, outbox, queue>>,
         \A c \in Calls : Owes(c)' <=> Owes(c),
         \A c \in Calls : pc[c] = "rejected" => pc'[c] = "rejected",
         \A c \in Calls : Owes(c) => op'[c] = op[c] /\ patch'[c] = patch[c]
  PROVE  AgreeInv'
<1>1. NoneRejected' => NoneRejected
  BY DEF NoneRejected
<1>2. \A c \in Calls : Owes(c) => (SetsCreds(c)' <=> SetsCreds(c))
  BY DEF SetsCreds
<1> QED
  BY <1>1, <1>2 DEF AgreeInv, KeysIn

\* A call moves, and neither before nor after owes MongoDB anything.
LEMMA AgreeMoves ==
  ASSUME TypeOK, AgreeInv, UNCHANGED <<redis, mongo, outbox, queue>>,
         NEW c \in Calls, NEW where, Goes(c, where), where # "persist",
         pc[c] \notin {"persist", "rejected"},
         \A d \in Calls : d # c => op'[d] = op[d] /\ patch'[d] = patch[d]
  PROVE  AgreeInv'
BY GoesAt, AgreeFrame DEF Owes

LEMMA AgreeInit ==
  ASSUME HotSession, ~WriteBehind, Init
  PROVE  AgreeInv
<1>1. redis = Stored /\ mongo = Stored
  BY DEF Init, HotSession
<1>2. KeysIn(mongo.keys)
  BY <1>1 DEF KeysIn
<1>3. outbox = {} /\ queue = {} /\ \A c \in Calls : pc[c] = "idle"
  BY DEF Init
<1> QED
  BY <1>1, <1>2, <1>3 DEF AgreeInv, Owes

LEMMA AgreeRead ==
  ASSUME HotSession, TypeOK, HotInv, AgreeInv, NEW c \in Calls,
         ReadMeta(c) \/ ReadFields(c) \/ Acquire(c) \/ MergeRead(c)
  PROVE  AgreeInv'
<1>1. /\ pc[c] \in {"meta", "fields", "waiting", "merge"}
      /\ UNCHANGED <<redis, mongo, outbox, queue, op>>
  BY DEF ReadMeta, ReadFields, Acquire, MergeRead, behind
<1>2. \E where \in {"fields", "mongo", "acked", "waiting", "write", "merge"} : Goes(c, where)
  BY DEF ReadMeta, ReadFields, Enter, Acquire, MergeRead
<1>3. \A d \in Calls : d # c => patch'[d] = patch[d]
  <2>1. patch' = patch \/ \E p : patch' = [patch EXCEPT ![c] = p]
    <3>1. CASE ReadMeta(c) \/ MergeRead(c)
      BY <3>1 DEF ReadMeta, MergeRead
    <3>2. CASE ReadFields(c)
      BY <3>2 DEF ReadFields, Enter
    <3>3. CASE Acquire(c)
      BY <3>3 DEF Acquire
    <3> QED
      BY <3>1, <3>2, <3>3
  <2> QED
    BY <2>1 DEF TypeOK
<1> QED
  BY <1>1, <1>2, <1>3, AgreeMoves

LEMMA AgreeWrite ==
  ASSUME HotSession, BaseInv, OneMutex, AgreeInv, NEW c \in Calls, RedisWrite(c)
  PROVE  AgreeInv'
<1>0. TypeOK /\ MutexInv
  BY DEF BaseInv
<1>1. /\ pc[c] = "write" /\ Goes(c, "persist")
      /\ redis' = [RedisField(c) EXCEPT !.ver = expect[c] + 1]
      /\ UNCHANGED <<mongo, op, patch, outbox, queue>>
  BY DEF RedisWrite, HotSession, locals, behind
<1>2. pc'[c] = "persist" /\ \A d \in Calls : d # c => pc'[d] = pc[d]
  BY <1>0, <1>1, GoesAt
<1>3. \A d \in Calls : ~Owes(d)
  <2>1. InSection(c)
    BY <1>1 DEF InSection, Section
  <2>2. \A d \in Calls : Owes(d) => d = c
    BY <1>0, <2>1, OneInSection DEF Owes, InSection, Section
  <2> QED
    BY <1>1, <2>2 DEF Owes
<1>4. NoneRejected' => NoneRejected
  BY <1>1, <1>2 DEF NoneRejected
<1>5. redis \in Snapshots
  BY <1>0 DEF TypeOK
<1>6. CASE SetsCreds(c)
  <2>1. redis'.keys = redis.keys
    BY <1>1, <1>5, <1>6 DEF RedisField, Snapshots
  <2>2. Owes(c)' /\ SetsCreds(c)' /\ \A d \in Calls : d # c => ~Owes(d)'
    BY <1>1, <1>2, <1>3, <1>6 DEF Owes, SetsCreds
  <2> QED
    BY <1>1, <1>3, <1>4, <2>1, <2>2 DEF AgreeInv, KeysIn
<1>7. CASE ~SetsCreds(c)
  <2>1. redis'.creds = redis.creds /\ redis'.keys = Merge(current[c], patch[c].keys)
    BY <1>1, <1>5, <1>7 DEF RedisField, Snapshots
  <2>2. Owes(c)' /\ ~SetsCreds(c)' /\ \A d \in Calls : d # c => ~Owes(d)'
    BY <1>1, <1>2, <1>3, <1>7 DEF Owes, SetsCreds
  <2>3. KeysIn(patch[c].keys)'
    BY <1>1, <2>1 DEF KeysIn, Merge
  <2> QED
    BY <1>1, <1>3, <1>4, <2>1, <2>2, <2>3 DEF AgreeInv
<1> QED
  BY <1>6, <1>7

LEMMA AgreePersist ==
  ASSUME ~WriteBehind, BaseInv, OneMutex, AckedInv, HotInv, AgreeInv,
         NEW c \in Calls, PersistDirect(c)
  PROVE  AgreeInv'
<1>0. TypeOK /\ MutexInv
  BY DEF BaseInv
<1>1. pc[c] = "persist" /\ UNCHANGED <<redis, op, patch, outbox, queue>>
  BY DEF PersistDirect, AckedInv, AckedAt, locals, behind
<1>2. \/ Goes(c, "acked") /\ MongoPut(c, expect[c] + 1)
      \/ Goes(c, "rejected")
  BY DEF PersistDirect, Return, Reject
<1>3. \A d \in Calls : Owes(d) => d = c
  <2>1. InSection(c)
    BY <1>1 DEF InSection, Section
  <2> QED
    BY <1>0, <2>1, OneInSection DEF Owes, InSection, Section
<1>4. \A d \in Calls : ~Owes(d)'
  BY <1>0, <1>2, <1>3, GoesAt DEF Owes
<1>5. CASE Goes(c, "rejected")
  <2>1. ~NoneRejected'
    BY <1>0, <1>5, GoesAt DEF NoneRejected
  <2> QED
    BY <1>1, <1>4, <2>1 DEF AgreeInv
<1>6. CASE Goes(c, "acked") /\ MongoPut(c, expect[c] + 1)
  <2>1. NoneRejected' => NoneRejected
    BY <1>0, <1>1, <1>6, GoesAt DEF NoneRejected
  <2>2. mongo \in Snapshots
    BY <1>0 DEF TypeOK
  <2>3. CASE SetsCreds(c)
    <3>1. mongo'.creds = patch[c].creds /\ mongo'.keys = mongo.keys
      BY <1>6, <2>2, <2>3 DEF MongoPut, Snapshots
    <3>2. patch[c].creds = redis.creds
      BY <1>1, <2>3 DEF HotInv, CredsAt
    <3>3. NoneRejected => KeysIn(mongo.keys)
      BY <1>3, <2>3 DEF AgreeInv
    <3> QED
      BY <1>1, <1>4, <2>1, <3>1, <3>2, <3>3 DEF AgreeInv, KeysIn
  <2>4. CASE ~SetsCreds(c)
    <3>1. mongo'.creds = mongo.creds /\ mongo'.keys = patch[c].keys
      BY <1>6, <2>2, <2>4 DEF MongoPut, Snapshots
    <3>2. KeysIn(patch[c].keys)
      BY <1>1, <2>4 DEF AgreeInv, Owes
    <3>3. NoneRejected => mongo.creds = redis.creds
      BY <1>3, <2>4 DEF AgreeInv
    <3> QED
      BY <1>1, <1>4, <2>1, <3>1, <3>2, <3>3 DEF AgreeInv, KeysIn
  <2> QED
    BY <2>3, <2>4
<1> QED
  BY <1>2, <1>5, <1>6

LEMMA AgreeStep ==
  ASSUME HotSession, ~WriteBehind, BaseInv, OneMutex, AckedInv, HotInv, AgreeInv, [Next]_vars
  PROVE  AgreeInv'
<1>0. TypeOK
  BY DEF BaseInv
<1>1. ASSUME NEW c \in Calls, NEW o \in Ops, NEW k \in KeyIds, Begin(c, o, k)
      PROVE  AgreeInv'
  <2>1. /\ pc[c] = "idle" /\ Goes(c, "meta") /\ op' = [op EXCEPT ![c] = o]
        /\ UNCHANGED <<redis, mongo, patch, outbox, queue>>
    BY <1>1 DEF Begin, HotSession, locals, behind
  <2>2. \A d \in Calls : d # c => op'[d] = op[d]
    BY <1>0, <2>1 DEF TypeOK
  <2> QED
    BY <1>0, <2>1, <2>2, AgreeMoves
<1>2. ASSUME NEW c \in Calls, CallStep(c) PROVE AgreeInv'
  <2>1. PathAt(c) /\ AckedAt(c)
    BY DEF HotInv, AckedInv
  <2>2. CASE ReadMongo(c) \/ DeleteRedis(c) \/ DeleteMongo(c)
    BY <2>1, <2>2 DEF PathAt, ReadMongo, DeleteRedis, DeleteMongo
  <2>3. CASE ReadMeta(c) \/ ReadFields(c) \/ Acquire(c) \/ MergeRead(c)
    BY <1>0, <2>3, AgreeRead
  <2>4. CASE RedisWrite(c)
    BY <2>4, AgreeWrite
  <2>5. CASE PersistDirect(c)
    BY <2>5, AgreePersist
  <2>6. CASE AddEntry(c) \/ Publish(c) \/ Mark(c)
    BY <2>1, <2>6 DEF AckedAt, AddEntry, Publish, Mark
  <2> QED
    BY <1>2, <2>2, <2>3, <2>4, <2>5, <2>6 DEF CallStep, SetStep
<1>3. ASSUME NEW c \in Calls, WarmStep(c) PROVE AgreeInv'
  BY <1>3 DEF HotInv, PathAt, WarmStep, WarmCheck, WarmMerge, WarmWrite
<1>4. CASE Around
  <2>1. CASE CacheExpires
    <3>1. UNCHANGED <<redis, mongo, outbox, queue, pc, op, patch>>
      BY <2>1 DEF CacheExpires, control, locals, behind
    <3> QED
      BY <3>1, AgreeFrame DEF Owes
  <2>2. CASE ~CacheExpires
    BY <1>4, <2>2 DEF Around, AgreeInv, Drain, Forget, Deliver, Evict, RedisExpires, HotSession
  <2> QED
    BY <2>1, <2>2
<1>5. CASE UNCHANGED vars
  <2>1. UNCHANGED <<redis, mongo, outbox, queue, pc, op, patch>>
    BY <1>5 DEF vars
  <2> QED
    BY <2>1, AgreeFrame DEF Owes
<1> QED
  BY <1>1, <1>2, <1>3, <1>4, <1>5 DEF Next

LEMMA AgreeTheorem == HotSession /\ ~WriteBehind => (Spec => []AgreeInv)
<1> SUFFICES ASSUME HotSession, ~WriteBehind PROVE Spec => []AgreeInv
  OBVIOUS
<1>1. Init => AgreeInv /\ AckedInv
  BY AgreeInit DEF Init, AckedInv, AckedAt
<1>2. BaseInv /\ AckedInv /\ [Next]_vars => AckedInv'
  BY AckedStep
<1>3. BaseInv /\ OneMutex /\ AckedInv /\ HotInv /\ AgreeInv /\ [Next]_vars => AgreeInv'
  BY AgreeStep
<1>4. Spec => [](BaseInv /\ OneMutex /\ HotInv)
  BY HotTheorem
<1> QED
  BY <1>1, <1>2, <1>3, <1>4, PTL DEF Spec

\* While the session is in Redis, and without the queue, the stores hold the
\* same creds when the calls have ended, unless a set was rejected
\* (store.ts:354-444).
THEOREM CredsAgreeTheorem == HotSession /\ ~WriteBehind => (Spec => []CredsAgree)
<1> SUFFICES ASSUME HotSession, ~WriteBehind PROVE Spec => []CredsAgree
  OBVIOUS
<1>1. AgreeInv => CredsAgree
  BY DEF AgreeInv, Owes, CredsAgree, Quiet, Working, Finished
<1> QED
  BY <1>1, AgreeTheorem, PTL

\* While the session is in Redis, and without the queue, every key MongoDB
\* holds between two sets is in Redis with the same value, unless a set was
\* rejected (store.ts:354-444).
THEOREM KeysTheorem == HotSession /\ ~WriteBehind => (Spec => []MongoKeysAreInRedis)
<1> SUFFICES ASSUME HotSession, ~WriteBehind PROVE Spec => []MongoKeysAreInRedis
  OBVIOUS
<1>1. AgreeInv => MongoKeysAreInRedis
  BY DEF AgreeInv, Owes, KeysIn, MongoKeysAreInRedis, InSection, Section
<1> QED
  BY <1>1, AgreeTheorem, PTL

-----------------------------------------------------------------------------
(* What is acknowledged with the queue, to a caller that awaits each call  *)

InLog(c) == c \in took \/ \E e \in outbox : e.call = c

\* A set finds the version it has read, and the place of its own in the outbox free;
\* from addEntry on that place holds no other call's entry.
LoggedAt(c) ==
  /\ pc[c] \in {"fields", "waiting", "merge", "write"} => expect[c] = redis.ver
  /\ pc[c] \in {"persist", "publish", "fallback", "mark"} => redis.ver = expect[c] + 1
  /\ pc[c] = "persist" => \A e \in outbox : e.ver < redis.ver
  /\ pc[c] \in {"publish", "fallback", "mark"} =>
       \A e \in outbox : e.ver = redis.ver => e.call = c
  /\ pc[c] = "publish" \/ (pc[c] = "acked" /\ IsSet(c)) => InLog(c)
  /\ pc[c] = "mark" => c \in took

\* Versions grow with Redis's, and what is marked completed has been persisted.
EntriesFit == \A e \in outbox : e.ver <= redis.ver /\ (e.done => e.call \in took)

LogInv ==
  /\ redis.ver > 0
  /\ \A c, d \in Calls : Busy(c) /\ Busy(d) => c = d
  /\ \A c \in Calls : LoggedAt(c)
  /\ EntriesFit

LEMMA VersionNumbers ==
  ASSUME TypeOK
  PROVE  /\ redis.ver \in Nat /\ \A c \in Calls : expect[c] \in Nat
         /\ \A e \in outbox : e.ver \in Nat /\ e.call \in Calls
<1>1. redis \in Snapshots /\ \A c \in Calls : expect[c] \in Nat
  BY DEF TypeOK
<1>2. \A e \in outbox : e.ver \in Nat /\ e.call \in Calls
  BY DEF TypeOK
<1> QED
  BY <1>1, <1>2 DEF Snapshots

LEMMA LogInit == HotSession /\ Init => LogInv
<1> SUFFICES ASSUME HotSession, Init PROVE LogInv
  OBVIOUS
<1>1. redis = Stored
  BY DEF Init, HotSession
<1>2. redis.ver = 2
  BY <1>1 DEF Stored
<1>3. (\A c \in Calls : pc[c] = "idle") /\ outbox = {}
  BY DEF Init
<1> QED
  BY <1>2, <1>3 DEF LogInv, LoggedAt, EntriesFit, Busy

\* While a call is under way no other is, so a step of it is to keep its own part.
LEMMA LogCall ==
  ASSUME TypeOK, LogInv, NEW c \in Calls, NEW where, Goes(c, where),
         \A d \in Calls : d # c => ~Busy(d) /\ op'[d] = op[d],
         \A d \in Calls : InLog(d) => InLog(d)',
         LoggedAt(c)', redis'.ver > 0, EntriesFit'
  PROVE  LogInv'
<1>1. pc'[c] = where /\ \A d \in Calls : d # c => pc'[d] = pc[d]
  BY GoesAt
<1>2. ASSUME NEW d \in Calls, d # c PROVE ~Busy(d)' /\ LoggedAt(d)'
  <2>1. pc'[d] \in {"idle"} \cup Finished /\ pc'[d] = pc[d] /\ LoggedAt(d)
    BY <1>1, <1>2 DEF Busy, LogInv
  <2> QED
    BY <1>2, <2>1 DEF Busy, LoggedAt, IsSet, Finished
<1> QED
  BY <1>2 DEF LogInv

\* The version of Redis stays, and so does the outbox.
LEMMA LogBefore ==
  ASSUME TypeOK, TypeOK', HotInv, LogInv, NEW c \in Calls, Busy(c),
         ReadMeta(c) \/ ReadFields(c) \/ Acquire(c) \/ MergeRead(c), HotSession
  PROVE  LogInv'
<1>1. redis.ver > 0 /\ redis.creds > 0 /\ LoggedAt(c) /\ EntriesFit
  BY DEF LogInv, HotInv, StoresInv
<1>2. redis.ver \in Nat /\ redis.creds \in Nat /\ expect[c] \in Nat
  BY VersionNumbers, Numbers
<1>3. UNCHANGED <<redis, outbox, took, op>>
  BY DEF ReadMeta, ReadFields, Acquire, MergeRead, behind
<1>4. \E where \in {"fields", "waiting", "merge", "write", "acked"} :
        /\ Goes(c, where)
        /\ expect'[c] = redis.ver
        /\ where = "acked" => op[c] = "get"
  <2>1. CASE ReadMeta(c)
    <3>1. Goes(c, "fields") /\ expect' = [expect EXCEPT ![c] = redis.ver]
      BY <1>1, <1>2, <2>1 DEF ReadMeta, HotSession
    <3> QED
      BY <3>1 DEF TypeOK
  <2>2. CASE ReadFields(c)
    <3> DEFINE snap == [creds |-> redis.creds, keys |-> redis.keys, ver |-> expect[c]]
    <3>1. Enter(c, snap) /\ expect[c] = redis.ver
      BY <1>1, <1>2, <2>2 DEF ReadFields, HotSession, LoggedAt
    <3>2. snap.ver = redis.ver
      BY <3>1
    <3> HIDE DEF snap
    <3>3. CASE op[c] = "get"
      <4>1. Goes(c, "acked") /\ expect' = expect
        BY <3>1, <3>3 DEF Enter
      <4> QED
        BY <3>1, <3>3, <4>1
    <3>4. CASE op[c] # "get"
      <4>1. Goes(c, "waiting") /\ expect' = [expect EXCEPT ![c] = redis.ver]
        BY <3>1, <3>2, <3>4 DEF Enter
      <4> QED
        BY <4>1 DEF TypeOK
    <3> QED
      BY <3>3, <3>4
  <2>3. CASE Acquire(c)
    BY <1>1, <2>3 DEF Acquire, LoggedAt
  <2>4. CASE MergeRead(c)
    BY <1>1, <2>4 DEF MergeRead, LoggedAt
  <2> QED
    BY <2>1, <2>2, <2>3, <2>4
<1>5. PICK where \in {"fields", "waiting", "merge", "write", "acked"} :
        /\ Goes(c, where)
        /\ expect'[c] = redis.ver
        /\ where = "acked" => op[c] = "get"
  BY <1>4
<1>6. pc'[c] = where
  BY <1>5, GoesAt
<1>7. LoggedAt(c)'
  BY <1>3, <1>5, <1>6 DEF LoggedAt, IsSet
<1>8. \A d \in Calls : d # c => ~Busy(d)
  BY DEF LogInv
<1> QED
  BY <1>1, <1>3, <1>5, <1>7, <1>8, LogCall DEF InLog, EntriesFit

\* The version grows, and nothing of the new one is in the outbox yet.
LEMMA LogWrite ==
  ASSUME TypeOK, LogInv, NEW c \in Calls, Busy(c), RedisWrite(c), HotSession
  PROVE  LogInv'
<1>1. /\ pc[c] = "write" /\ Goes(c, "persist")
      /\ redis' = [RedisField(c) EXCEPT !.ver = expect[c] + 1]
      /\ UNCHANGED <<op, expect, outbox, took>>
  BY DEF RedisWrite, HotSession, locals, behind
<1>2. expect[c] \in Nat /\ redis.ver \in Nat /\ \A e \in outbox : e.ver \in Nat
  BY VersionNumbers
<1>3. redis'.ver = expect[c] + 1
  <2>1. RedisField(c) \in Snapshots
    BY RedisFieldType
  <2>2. \A s \in Snapshots, n \in Nat : [s EXCEPT !.ver = n].ver = n
    BY DEF Snapshots
  <2> QED
    BY <1>1, <1>2, <2>1, <2>2
<1>4. expect[c] = redis.ver /\ EntriesFit
  BY <1>1 DEF LogInv, LoggedAt
<1>5. pc'[c] = "persist"
  BY <1>1, GoesAt
<1>6. \A e \in outbox' : e.ver < redis'.ver
  BY <1>1, <1>2, <1>3, <1>4 DEF EntriesFit
<1>7. LoggedAt(c)'
  BY <1>1, <1>3, <1>5, <1>6 DEF LoggedAt
<1>8. EntriesFit'
  BY <1>1, <1>2, <1>3, <1>4 DEF EntriesFit
<1>9. \A d \in Calls : d # c => ~Busy(d)
  BY DEF LogInv
<1> QED
  BY <1>1, <1>2, <1>3, <1>7, <1>8, <1>9, LogCall DEF InLog

LEMMA LogPersist ==
  ASSUME TypeOK, LogInv, NEW c \in Calls, Busy(c), PersistDirect(c)
  PROVE  LogInv'
<1>1. UNCHANGED <<redis, op, expect, outbox>> /\ took \subseteq took'
  BY DEF PersistDirect, MongoPut, locals, behind
<1>2. \/ Goes(c, "mark") /\ pc[c] = "fallback" /\ c \in took'
      \/ Goes(c, "acked") /\ c \in took'
      \/ Goes(c, "rejected")
  BY DEF PersistDirect, MongoPut, Return, Reject
<1>3. PICK where \in {"mark", "acked", "rejected"} :
        /\ Goes(c, where)
        /\ where = "mark" => pc[c] = "fallback"
        /\ where # "rejected" => c \in took'
  BY <1>2
<1>4. pc'[c] = where
  BY <1>3, GoesAt
<1>5. LoggedAt(c) /\ EntriesFit /\ redis.ver > 0 /\ \A d \in Calls : d # c => ~Busy(d)
  BY DEF LogInv
<1>6. LoggedAt(c)'
  BY <1>1, <1>3, <1>4, <1>5 DEF LoggedAt, InLog
<1>7. EntriesFit'
  BY <1>1, <1>5 DEF EntriesFit
<1>8. \A d \in Calls : InLog(d) => InLog(d)'
  BY <1>1 DEF InLog
<1> QED
  BY <1>1, <1>3, <1>5, <1>6, <1>7, <1>8, LogCall

Managed == "unmanaged" \notin Faults

\* HSETNX finds its field free.
LEMMA LogAdd ==
  ASSUME TypeOK, LogInv, NEW c \in Calls, Busy(c), AddEntry(c), HotSession, Managed
  PROVE  LogInv'
<1>1. /\ Goes(c, "publish") /\ pc[c] = "persist"
      /\ outbox' = IF Logged(expect[c] + 1) THEN outbox ELSE outbox \cup {EntryOf(c)}
      /\ UNCHANGED <<redis, op, expect, took>>
  BY DEF AddEntry, HotSession, Managed, locals
<1>2. expect[c] \in Nat /\ redis.ver \in Nat /\ \A e \in outbox : e.ver \in Nat
  BY VersionNumbers
<1>3. LoggedAt(c) /\ EntriesFit /\ redis.ver > 0 /\ \A d \in Calls : d # c => ~Busy(d)
  BY DEF LogInv
<1>4. redis.ver = expect[c] + 1 /\ \A e \in outbox : e.ver < redis.ver
  BY <1>1, <1>3 DEF LoggedAt
<1>5. outbox' = outbox \cup {EntryOf(c)}
  BY <1>1, <1>2, <1>4 DEF Logged
<1>6. EntryOf(c).ver = redis.ver /\ EntryOf(c).call = c /\ ~EntryOf(c).done
  BY <1>4 DEF EntryOf
<1>7. pc'[c] = "publish"
  BY <1>1, GoesAt
<1>8. \A e \in outbox' : e.ver = redis.ver => e.call = c
  BY <1>2, <1>4, <1>5, <1>6
<1>9. InLog(c)'
  BY <1>5, <1>6 DEF InLog
<1>10. LoggedAt(c)'
  BY <1>1, <1>4, <1>7, <1>8, <1>9 DEF LoggedAt
<1>11. EntriesFit'
  <2>1. redis.ver <= redis.ver
    BY <1>2
  <2> QED
    BY <1>1, <1>3, <1>5, <1>6, <2>1 DEF EntriesFit
<1>12. \A d \in Calls : InLog(d) => InLog(d)'
  BY <1>1, <1>5 DEF InLog
<1> QED
  BY <1>1, <1>3, <1>10, <1>11, <1>12, LogCall

LEMMA LogPublish ==
  ASSUME TypeOK, LogInv, NEW c \in Calls, Busy(c), Publish(c)
  PROVE  LogInv'
<1>1. /\ pc[c] = "publish"
      /\ UNCHANGED <<redis, op, expect, outbox, took>>
  BY DEF Publish, locals
<1>2. PICK where \in {"acked", "fallback"} : Goes(c, where)
  BY DEF Publish, Return
<1>3. pc'[c] = where
  BY <1>2, GoesAt
<1>4. LoggedAt(c) /\ EntriesFit /\ redis.ver > 0 /\ \A d \in Calls : d # c => ~Busy(d)
  BY DEF LogInv
<1>5. LoggedAt(c)'
  BY <1>1, <1>3, <1>4 DEF LoggedAt, InLog
<1> QED
  BY <1>1, <1>2, <1>4, <1>5, LogCall DEF EntriesFit, InLog

\* markCompleted finds the entry of its own call, or none.
LEMMA LogMark ==
  ASSUME TypeOK, LogInv, NEW c \in Calls, Busy(c), Mark(c), HotSession
  PROVE  LogInv'
<1> DEFINE Marked(e) == IF e.ver = expect[c] + 1 THEN [e EXCEPT !.done = TRUE] ELSE e
<1>1. /\ pc[c] = "mark" /\ Goes(c, "acked")
      /\ outbox' = {Marked(e) : e \in outbox}
      /\ UNCHANGED <<redis, op, expect, took>>
  BY DEF Mark, Return, HotSession, locals
<1>2. LoggedAt(c) /\ EntriesFit /\ redis.ver > 0 /\ \A d \in Calls : d # c => ~Busy(d)
  BY DEF LogInv
<1>3. /\ redis.ver = expect[c] + 1 /\ c \in took
      /\ \A e \in outbox : e.ver = redis.ver => e.call = c
  BY <1>1, <1>2 DEF LoggedAt
<1>4. \A e \in outbox : /\ Marked(e).ver = e.ver /\ Marked(e).call = e.call
                        /\ Marked(e).done => e.done \/ e.ver = redis.ver
  <2>1. outbox \subseteq [ver : Nat, call : Calls, done : BOOLEAN]
    BY DEF TypeOK
  <2>2. \A e \in [ver : Nat, call : Calls, done : BOOLEAN] :
          [e EXCEPT !.done = TRUE].ver = e.ver /\ [e EXCEPT !.done = TRUE].call = e.call
    OBVIOUS
  <2> QED
    BY <1>3, <2>1, <2>2
<1> HIDE DEF Marked
<1>5. EntriesFit'
  BY <1>1, <1>2, <1>3, <1>4 DEF EntriesFit
<1>6. \A d \in Calls : InLog(d) => InLog(d)'
  BY <1>1, <1>4 DEF InLog
<1>7. pc'[c] = "acked"
  BY <1>1, GoesAt
<1>8. LoggedAt(c)'
  BY <1>1, <1>3, <1>7 DEF LoggedAt, InLog
<1> QED
  BY <1>1, <1>2, <1>5, <1>6, <1>8, LogCall

\* A step outside the calls: an entry keeps its version and its call, and only one that
\* was persisted leaves the outbox.
LEMMA LogOutside ==
  ASSUME LogInv, UNCHANGED <<redis, pc, op, expect>>, took \subseteq took',
         \A e \in outbox' : \E f \in outbox : f.ver = e.ver /\ f.call = e.call
                                             /\ (e.done => f.done \/ e.call \in took'),
         \A e \in outbox : e.call \in took' \/ \E f \in outbox' : f.call = e.call
  PROVE  LogInv'
<1>1. \A d \in Calls : InLog(d) => InLog(d)'
  BY DEF InLog
<1>2. EntriesFit'
  BY DEF LogInv, EntriesFit
<1>3. \A d \in Calls : LoggedAt(d)'
  BY <1>1 DEF LogInv, LoggedAt, IsSet
<1> QED
  BY <1>2, <1>3 DEF LogInv, Busy

LEMMA LogAround ==
  ASSUME TypeOK, LogInv, Around, HotSession
  PROVE  LogInv'
<1>1. ASSUME NEW e \in outbox, Drain(e) PROVE LogInv'
  <2>1. /\ UNCHANGED <<redis, pc, op, expect>>
        /\ took' = took \cup {e.call}
        /\ outbox' = (outbox \ {e}) \cup {[e EXCEPT !.done = TRUE]}
    BY <1>1 DEF Drain, MongoPut, control, locals
  <2>2. PICK g : g = [e EXCEPT !.done = TRUE]
    OBVIOUS
  <2>3. g.ver = e.ver /\ g.call = e.call
    <3>1. e \in [ver : Nat, call : Calls, done : BOOLEAN]
      BY DEF TypeOK
    <3> QED
      BY <2>2, <3>1
  <2>4. outbox' = (outbox \ {e}) \cup {g}
    BY <2>1, <2>2
  <2> QED
    BY <2>1, <2>3, <2>4, LogOutside
<1>2. ASSUME NEW e \in outbox, Forget(e) PROVE LogInv'
  BY <1>2, LogOutside DEF Forget, control, locals, LogInv, EntriesFit
<1>3. ASSUME NEW c \in Calls, Deliver(c) PROVE LogInv'
  BY <1>3, LogOutside DEF Deliver, MongoPut, control, locals
<1>4. CASE CacheExpires \/ Evict
  BY <1>4, LogOutside DEF CacheExpires, Evict, control, locals, behind
<1>5. CASE RedisExpires
  BY <1>5 DEF RedisExpires, HotSession
<1> QED
  BY <1>1, <1>2, <1>3, <1>4, <1>5 DEF Around

LEMMA LogStep ==
  ASSUME HotSession, Managed, TypeOK, TypeOK', HotInv, LogInv, [Next]_vars, [OneAtATime]_vars
  PROVE  LogInv'
<1>1. ASSUME NEW c \in Calls, NEW o \in Ops, NEW k \in KeyIds, Begin(c, o, k)
      PROVE  LogInv'
  <2>1. /\ pc[c] = "idle" /\ Goes(c, "meta") /\ op' = [op EXCEPT ![c] = o]
        /\ UNCHANGED <<redis, expect, outbox, took>>
    BY <1>1 DEF Begin, HotSession, locals, behind
  <2>2. pc'[c] = "meta"
    BY <2>1, GoesAt
  <2>3. \A d \in Calls : ~Busy(d)
    <3>1. OneAtATime
      BY <2>1, <2>2 DEF vars
    <3> QED
      BY <2>1, <2>2, <3>1 DEF OneAtATime
  <2>4. \A d \in Calls : d # c => op'[d] = op[d]
    BY <2>1 DEF TypeOK
  <2>5. LoggedAt(c)'
    BY <2>2 DEF LoggedAt
  <2>6. redis'.ver > 0 /\ EntriesFit' /\ \A d \in Calls : InLog(d) => InLog(d)'
    BY <2>1 DEF LogInv, EntriesFit, InLog
  <2> QED
    BY <2>1, <2>3, <2>4, <2>5, <2>6, LogCall
<1>2. ASSUME NEW c \in Calls, CallStep(c) PROVE LogInv'
  <2>1. PathAt(c)
    BY DEF HotInv
  <2>2. CASE ReadMongo(c) \/ DeleteRedis(c) \/ DeleteMongo(c)
    BY <2>1, <2>2 DEF PathAt, ReadMongo, DeleteRedis, DeleteMongo
  <2>3. Busy(c)
    BY <1>2 DEF CallStep, SetStep, ReadMeta, ReadFields, ReadMongo, Acquire, MergeRead,
       RedisWrite, PersistDirect, AddEntry, Publish, Mark, DeleteRedis, DeleteMongo,
       Busy, Finished
  <2>4. CASE ReadMeta(c) \/ ReadFields(c) \/ Acquire(c) \/ MergeRead(c)
    BY <2>3, <2>4, LogBefore
  <2>5. CASE RedisWrite(c) \/ PersistDirect(c)
    BY <2>3, <2>5, LogWrite, LogPersist
  <2>6. CASE AddEntry(c) \/ Publish(c) \/ Mark(c)
    BY <2>3, <2>6, LogAdd, LogPublish, LogMark
  <2> QED
    BY <1>2, <2>2, <2>4, <2>5, <2>6 DEF CallStep, SetStep
<1>3. ASSUME NEW c \in Calls, WarmStep(c) PROVE LogInv'
  BY <1>3 DEF HotInv, PathAt, WarmStep, WarmCheck, WarmMerge, WarmWrite
<1>4. CASE Around
  BY <1>4, LogAround
<1>5. CASE UNCHANGED vars
  BY <1>5, LogOutside DEF vars, LogInv, EntriesFit
<1> QED
  BY <1>1, <1>2, <1>3, <1>4, <1>5 DEF Next

\* While the session is in Redis, there is an outboxManager and the caller awaits each
\* call: whatever MongoDB, the queue and its worker do, a set that was acknowledged is in
\* MongoDB, or in the outbox under a version of its own. Two sets that read the same
\* version would share one (store.ts:380-430, outbox.ts:71-102).
THEOREM LoggedTheorem ==
  HotSession /\ Managed => (Spec /\ [][OneAtATime]_vars => []AckedIsLogged)
<1> SUFFICES ASSUME HotSession, Managed
             PROVE  Spec /\ [][OneAtATime]_vars => []AckedIsLogged
  OBVIOUS
<1>1. Init => LogInv
  BY LogInit
<1>2. TypeOK /\ TypeOK' /\ HotInv /\ LogInv /\ [Next]_vars /\ [OneAtATime]_vars => LogInv'
  BY LogStep
<1>3. LogInv => AckedIsLogged
  BY DEF LogInv, LoggedAt, InLog, AckedIsLogged
<1>4. Spec => [](BaseInv /\ OneMutex /\ HotInv)
  BY HotTheorem
<1>5. BaseInv => TypeOK
  BY DEF BaseInv
<1> QED
  BY <1>1, <1>2, <1>3, <1>4, <1>5, PTL DEF Spec
=============================================================================
