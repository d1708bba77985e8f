----------------------------- MODULE HybridStore -----------------------------
(***************************************************************************)
(* One session of HybridAuthStore (src/hybrid/store.ts) in one process,    *)
(* with the hook that calls it (src/hybrid/use-hybrid-auth-state.ts) and   *)
(* the Redis half of each operation (src/redis/store.ts).                  *)
(*                                                                         *)
(* Every command sent to Redis or MongoDB is one step; what the code       *)
(* computes between two awaits belongs to the step before it.  A pipeline  *)
(* is one step, since its commands follow one another on one connection.   *)
(* Two things are taken from other modules: a MongoDB write overwrites     *)
(* whatever the document held (MongoStore), and an outbox entry is         *)
(* persisted at some later time, possibly out of order (Outbox).           *)
(***************************************************************************)
EXTENDS Integers, Sequences, FiniteSets

CONSTANTS
  Calls,         \* calls of the hook's and the store's operations
  KeyIds,        \* ids of Signal keys, all of one type
  Ops,           \* the operations the calls may be
  Starts,        \* where the session may be stored when the process starts
  WriteBehind,   \* config.queue && config.enableWriteBehind
  MaxGen,        \* bound: how often the LRU cache may drop the mutex
  Faults         \* what the environment may do

None == "none"   \* no value under a key id
Old == "old"     \* the value an earlier process stored

ASSUME HybridAssumption ==
  /\ Calls \cap {None, Old} = {}
  /\ Ops \subseteq {"saveCreds", "keysSet", "keysDelete", "get", "delete"}
  /\ Starts \subseteq {"empty", "both", "cold"}
  /\ WriteBehind \in BOOLEAN
  /\ MaxGen \in Nat
  /\ Faults \subseteq {"redis", "mongo", "queue", "expiry", "evict", "unmanaged"}

VARIABLES
  redis, mongo,  \* the session in each store
  cache,         \* the document cache of this process's MongoAuthStore
  memory,        \* authState.creds, numbered by the changes Baileys made to it
  gen,           \* the mutex writeMutexes holds for the session
  mutex,         \* per mutex, the calls queued on it, its holder first
  pc, op, key,   \* where each call is, its operation and the key id it is for
  held,          \* the mutex getMutex gave the call
  expect,        \* the version the call has read, its expectedVersion
  patch,         \* the patch the call writes
  current,       \* the keys redis.set has read to merge the patch into
  warm,          \* the warmCache a call has left behind
  outbox,        \* entries of the outbox hash, one per version
  queue,         \* calls whose patch is in the queue
  took,          \* the calls whose patch MongoDB has taken
  level,         \* the newest creds a caller was given or told were saved
  floor,         \* level when the call began
  seen           \* the creds a get has returned

control == <<pc, op, key, held>>
locks == <<gen, mutex>>
locals == <<expect, patch, current>>
behind == <<outbox, queue>>
observed == <<level, floor, seen>>

vars == <<redis, mongo, cache, memory, gen, mutex, pc, op, key, held, expect,
          patch, current, warm, outbox, queue, took, level, floor, seen>>

Values == Calls \cup {None, Old}
Keys == [KeyIds -> Values]
NoKeys == [k \in KeyIds |-> None]

Snapshots == [creds : Nat, keys : Keys, ver : Nat]

\* creds 0 and keys NoKeys stand for a field that is not stored, version 0
\* for a missing :meta key or document.
Empty == [creds |-> 0, keys |-> NoKeys, ver |-> 0]

Patches == [creds : Nat, keys : Keys]
NoPatch == [creds |-> 0, keys |-> NoKeys]

WarmPcs == {"none", "check", "merge", "write"}
Warms == [pc : WarmPcs, data : Snapshots, keys : Keys]
NoWarm == [pc |-> "none", data |-> Empty, keys |-> NoKeys]

Section == {"merge", "write", "persist", "publish", "fallback", "mark"}
Finished == {"acked", "rejected"}
Pcs == {"idle", "meta", "fields", "mongo", "waiting", "redisDelete",
        "mongoDelete", "mongoOnly"} \cup Section \cup Finished

AllOps == {"saveCreds", "keysSet", "keysDelete", "get", "delete"}

TypeOK ==
  /\ redis \in Snapshots
  /\ mongo \in Snapshots
  /\ cache \in Snapshots
  /\ memory \in Nat
  /\ gen \in 0..MaxGen
  /\ mutex \in [0..MaxGen -> Seq(Calls)]
  /\ pc \in [Calls -> Pcs]
  /\ op \in [Calls -> AllOps]
  /\ key \in [Calls -> KeyIds]
  /\ held \in [Calls -> 0..MaxGen]
  /\ expect \in [Calls -> Nat]
  /\ patch \in [Calls -> Patches]
  /\ current \in [Calls -> Keys]
  /\ warm \in [Calls -> Warms]
  /\ outbox \subseteq [ver : Nat, call : Calls, done : BOOLEAN]
  /\ queue \subseteq Calls
  /\ took \subseteq Calls
  /\ level \in Nat
  /\ floor \in [Calls -> Nat]
  /\ seen \in [Calls -> Nat]

\* The first process of a session finds nothing; a later one finds it in both
\* stores, or in MongoDB only when Redis was flushed or its keys have expired.
\* The queue's worker leaves the document one version ahead of Redis.
Stored == [creds |-> 1, keys |-> [k \in KeyIds |-> Old], ver |-> 2]

Init ==
  /\ \E start \in Starts :
       /\ redis = IF start = "both" THEN Stored ELSE Empty
       /\ mongo = IF start = "empty" THEN Empty
                  ELSE IF WriteBehind THEN [Stored EXCEPT !.ver = 3]
                  ELSE Stored
  /\ cache = Empty
  /\ memory = 1
  /\ gen = 0
  /\ mutex = [g \in 0..MaxGen |-> <<>>]
  /\ pc = [c \in Calls |-> "idle"]
  /\ op = [c \in Calls |-> "get"]
  /\ \E k \in KeyIds : key = [c \in Calls |-> k]
  /\ held = [c \in Calls |-> 0]
  /\ expect = [c \in Calls |-> 0]
  /\ patch = [c \in Calls |-> NoPatch]
  /\ current = [c \in Calls |-> NoKeys]
  /\ warm = [c \in Calls |-> NoWarm]
  /\ outbox = {}
  /\ queue = {}
  /\ took = {}
  /\ level = 0
  /\ floor = [c \in Calls |-> 0]
  /\ seen = [c \in Calls |-> 0]

-----------------------------------------------------------------------------
(* What the stores do with a patch.                                        *)

\* Mutant: the stored keys are spread over those of the patch.
MergeSwapped(stored, given) ==
  [k \in KeyIds |-> IF stored[k] # None THEN stored[k] ELSE given[k]]

\* redis.set merges key by key: a key that the patch lacks stays.
Merge(stored, given) ==
  [k \in KeyIds |-> IF given[k] # None THEN given[k] ELSE stored[k]]

SetsCreds(c) == op[c] = "saveCreds"

\* MongoDB's $set replaces the whole field.
MongoPut(c, ver) ==
  /\ mongo' = IF SetsCreds(c)
                THEN [mongo EXCEPT !.creds = patch[c].creds, !.ver = ver]
                ELSE [mongo EXCEPT !.keys = patch[c].keys, !.ver = ver]
  /\ took' = took \cup {c}

Goes(c, where) == pc' = [pc EXCEPT ![c] = where]

Newer(n) == IF n > level THEN n ELSE level

-----------------------------------------------------------------------------
(* The hook: read a snapshot, then set.                                    *)

\* saveCreds follows a change Baileys made to authState.creds in place.
Begin(c, o, k) ==
  /\ pc[c] = "idle"
  /\ op' = [op EXCEPT ![c] = o]
  /\ key' = [key EXCEPT ![c] = k]
  /\ memory' = IF o = "saveCreds" THEN memory + 1 ELSE memory
  /\ floor' = [floor EXCEPT ![c] = level]
  /\ Goes(c, IF o = "delete" THEN "redisDelete" ELSE "meta")
  /\ UNCHANGED <<redis, mongo, cache, locks, held, locals, warm, behind, took,
                 level, seen>>

\* The keys of the patch: the snapshot's, with the call's own change.
Patched(c, snap) ==
  CASE op[c] = "keysSet"    -> [snap.keys EXCEPT ![key[c]] = c]
    [] op[c] = "keysDelete" -> [snap.keys EXCEPT ![key[c]] = None]
    [] OTHER                -> NoKeys

\* What follows the read of a snapshot, Empty when get returned null: get
\* returns it; the hook builds its patch, and set asks for the mutex.
Enter(c, snap) ==
  IF op[c] = "get"
    THEN /\ Goes(c, "acked")
         /\ seen' = [seen EXCEPT ![c] = snap.creds]
         /\ level' = Newer(snap.creds)
         /\ UNCHANGED <<mutex, gen, held, expect, patch>>
    ELSE /\ Goes(c, "waiting")
         /\ held' = [held EXCEPT ![c] = gen]
         /\ mutex' = [mutex EXCEPT ![gen] = Append(@, c)]
         /\ expect' = [expect EXCEPT ![c] = snap.ver]
         /\ patch' = [patch EXCEPT ![c] =
                        [creds |-> 0, keys |-> Patched(c, snap)]]
         /\ UNCHANGED <<gen, level, seen>>

\* Mutant: get asks MongoDB first.
ReadMongoFirst(c) ==
  /\ pc[c] = "meta"
  /\ Goes(c, "mongo")
  /\ UNCHANGED <<redis, mongo, cache, memory, locks, op, key, held, locals,
                 warm, behind, took, observed>>

\* redis.get, first command.  A missing :meta counts as version 1.
ReadMeta(c) ==
  /\ pc[c] = "meta"
  /\ \/ /\ expect' = [expect EXCEPT ![c] = IF redis.ver = 0 THEN 1 ELSE redis.ver]
        /\ Goes(c, "fields")
     \/ "redis" \in Faults /\ Goes(c, "mongo") /\ UNCHANGED expect
  /\ UNCHANGED <<redis, mongo, cache, memory, locks, op, key, held, patch,
                 current, warm, behind, took, observed>>

\* redis.get, creds and keys.  getField answers null when a read fails, and
\* keys that are null count as no keys.
ReadFields(c) ==
  /\ pc[c] = "fields"
  /\ \E creds \in {redis.creds} \cup (IF "redis" \in Faults THEN {0} ELSE {}),
        keys \in {redis.keys} \cup (IF "redis" \in Faults THEN {NoKeys} ELSE {}) :
       IF creds = 0
         THEN Goes(c, "mongo")
                /\ UNCHANGED <<locks, held, expect, patch, level, seen>>
         ELSE Enter(c, [creds |-> creds, keys |-> keys, ver |-> expect[c]])
  /\ UNCHANGED <<redis, mongo, cache, memory, op, key, current, warm, behind,
                 took, floor>>

\* The data warmCache was given is the object the hook then merges into: a
\* key set in place under a type that exists is warmed too.
Shared(c, data) ==
  IF op[c] = "keysSet" /\ data.keys # NoKeys
    THEN [data EXCEPT !.keys = Patched(c, data)]
    ELSE data

\* The MongoDB fallback, behind the circuit breaker: its cached document or
\* the stored one.  A document without creds cannot be deserialized; that, a
\* timeout and an open breaker all make get return null.
ReadMongo(c) ==
  /\ pc[c] = "mongo"
  /\ LET doc == IF cache.ver # 0 THEN cache ELSE mongo IN
       \/ /\ doc.creds # 0
          /\ cache' = doc
          /\ warm' = [warm EXCEPT ![c] =
                        [pc |-> "check", data |-> Shared(c, doc), keys |-> NoKeys]]
          /\ Enter(c, doc)
       \/ /\ doc.creds = 0
          /\ cache' = doc
          /\ Enter(c, Empty)
          /\ UNCHANGED warm
       \/ /\ "mongo" \in Faults
          /\ Enter(c, Empty)
          /\ UNCHANGED <<cache, warm>>
  /\ UNCHANGED <<redis, mongo, memory, op, key, current, behind, took, floor>>

-----------------------------------------------------------------------------
(* HybridAuthStore.set, inside the mutex.                                  *)

Holds(c) == mutex[held[c]] # <<>> /\ Head(mutex[held[c]]) = c

Release(c) == mutex' = [mutex EXCEPT ![held[c]] = Tail(@)]

\* Mutant: the rejection of a store leaves the mutex locked.
RejectLocked(c) == Goes(c, "rejected") /\ UNCHANGED <<mutex, level>>

\* runExclusive releases the mutex whether set returns or throws.
Reject(c) == Goes(c, "rejected") /\ Release(c) /\ UNCHANGED level

Return(c) ==
  /\ Goes(c, "acked")
  /\ Release(c)
  /\ level' = IF SetsCreds(c) THEN Newer(patch[c].creds) ELSE level

\* Mutant: set goes on without waiting for its turn.
AcquireAtOnce(c) ==
  /\ pc[c] = "waiting"
  /\ patch' = [patch EXCEPT ![c].creds = IF SetsCreds(c) THEN memory ELSE 0]
  /\ Goes(c, IF SetsCreds(c) THEN "write" ELSE "merge")
  /\ UNCHANGED <<redis, mongo, cache, memory, locks, op, key, held, expect,
                 current, warm, behind, took, observed>>

\* The mutex is granted in the order of the calls; the deep copy of the patch
\* is taken then, so it holds the creds as they are now.
Acquire(c) ==
  /\ pc[c] = "waiting"
  /\ Holds(c)
  /\ patch' = [patch EXCEPT ![c].creds = IF SetsCreds(c) THEN memory ELSE 0]
  /\ Goes(c, IF SetsCreds(c) THEN "write" ELSE "merge")
  /\ UNCHANGED <<redis, mongo, cache, memory, locks, op, key, held, expect,
                 current, warm, behind, took, observed>>

\* redis.set reads the keys it merges into; a failed read is taken for none.
MergeRead(c) ==
  /\ pc[c] = "merge"
  /\ \E keys \in {redis.keys} \cup (IF "redis" \in Faults THEN {NoKeys} ELSE {}) :
       current' = [current EXCEPT ![c] = keys]
  /\ Goes(c, "write")
  /\ UNCHANGED <<redis, mongo, cache, memory, locks, op, key, held, expect,
                 patch, warm, behind, took, observed>>

\* The field the pipeline writes before :meta.
RedisField(c) ==
  IF SetsCreds(c)
    THEN [redis EXCEPT !.creds = patch[c].creds]
    ELSE [redis EXCEPT !.keys = Merge(current[c], patch[c].keys)]

\* redis.set: the field, then :meta, whatever version is stored.  A broken
\* connection leaves nothing, the field only, or both.
RedisWrite(c) ==
  /\ pc[c] = "write"
  /\ \/ /\ redis' = [RedisField(c) EXCEPT !.ver = expect[c] + 1]
        /\ Goes(c, "persist")
        /\ UNCHANGED <<mutex, level>>
     \/ /\ "redis" \in Faults
        /\ redis' \in {redis, RedisField(c), [RedisField(c) EXCEPT !.ver = expect[c] + 1]}
        /\ Reject(c)
  /\ UNCHANGED <<mongo, cache, memory, gen, op, key, held, locals, warm,
                 behind, took, floor, seen>>

\* Mutant: the mutex is released before MongoDB has answered.
PersistDirectUnlocked(c) ==
  \/ /\ pc[c] = "persist"
     /\ ~WriteBehind
     /\ Goes(c, "fallback")
     /\ Release(c)
     /\ UNCHANGED <<redis, mongo, cache, memory, gen, op, key, held, locals,
                    warm, behind, took, observed>>
  \/ /\ pc[c] = "fallback"
     /\ MongoPut(c, expect[c] + 1)
     /\ cache' = Empty
     /\ Goes(c, "acked")
     /\ level' = IF SetsCreds(c) THEN Newer(patch[c].creds) ELSE level
     /\ UNCHANGED <<redis, memory, locks, op, key, held, locals, warm, behind,
                    floor, seen>>

\* Without a queue, and after the queue has failed: mongo.set.
PersistDirect(c) ==
  /\ \/ pc[c] = "persist" /\ ~WriteBehind
     \/ pc[c] = "fallback"
  /\ \/ /\ MongoPut(c, expect[c] + 1)
        /\ cache' = Empty
        /\ IF WriteBehind
             THEN Goes(c, "mark") /\ UNCHANGED <<mutex, level>>
             ELSE Return(c)
     \/ /\ "mongo" \in Faults
        /\ MongoPut(c, expect[c] + 1) \/ UNCHANGED <<mongo, took>>
        /\ Reject(c)
        /\ UNCHANGED cache
  /\ UNCHANGED <<redis, memory, gen, op, key, held, locals, warm, behind,
                 floor, seen>>

\* addEntry's HSETNX: an entry of the same version, of another call or of the
\* session's earlier life, keeps its place.
Logged(ver) == \E e \in outbox : e.ver = ver

EntryOf(c) == [ver |-> expect[c] + 1, call |-> c, done |-> FALSE]

\* Mutant: the patch is queued without an outbox entry.
AddEntryNot(c) ==
  /\ pc[c] = "persist"
  /\ WriteBehind
  /\ Goes(c, "publish")
  /\ UNCHANGED <<redis, mongo, cache, memory, locks, op, key, held, locals,
                 warm, behind, took, observed>>

\* There may be no outboxManager: connect leaves it out where Redis was away.
AddEntry(c) ==
  /\ pc[c] = "persist"
  /\ WriteBehind
  /\ \/ /\ outbox' = IF Logged(expect[c] + 1) THEN outbox ELSE outbox \cup {EntryOf(c)}
        /\ \/ Goes(c, "publish")
           \/ "redis" \in Faults /\ Goes(c, "fallback")
     \/ "redis" \in Faults /\ Goes(c, "fallback") /\ UNCHANGED outbox
     \/ "unmanaged" \in Faults /\ Goes(c, "publish") /\ UNCHANGED outbox
  /\ UNCHANGED <<redis, mongo, cache, memory, locks, op, key, held, locals,
                 warm, queue, took, observed>>

Publish(c) ==
  /\ pc[c] = "publish"
  /\ \/ queue' = queue \cup {c} /\ Return(c)
     \/ "queue" \in Faults /\ Goes(c, "fallback") /\ UNCHANGED <<queue, mutex, level>>
  /\ UNCHANGED <<redis, mongo, cache, memory, gen, op, key, held, locals,
                 warm, outbox, took, floor, seen>>

\* After the fallback: markCompleted of whatever entry has the version, if one has.
Mark(c) ==
  /\ pc[c] = "mark"
  /\ \/ /\ outbox' = {IF e.ver = expect[c] + 1 THEN [e EXCEPT !.done = TRUE] ELSE e :
                        e \in outbox}
        /\ Return(c)
     \/ "redis" \in Faults /\ Reject(c) /\ UNCHANGED outbox
  /\ UNCHANGED <<redis, mongo, cache, memory, gen, op, key, held, locals,
                 warm, queue, took, floor, seen>>

-----------------------------------------------------------------------------
(* HybridAuthStore.delete, which takes no mutex.                           *)

DeleteRedis(c) ==
  /\ pc[c] = "redisDelete"
  /\ \/ redis' = Empty /\ Goes(c, "mongoDelete")
     \/ "redis" \in Faults /\ redis' \in {redis, Empty} /\ Goes(c, "mongoOnly")
  /\ UNCHANGED <<mongo, cache, memory, locks, op, key, held, locals, warm,
                 behind, took, observed>>

\* One store failing is a success, both failing an error.
DeleteMongo(c) ==
  /\ pc[c] \in {"mongoDelete", "mongoOnly"}
  /\ \/ mongo' = Empty /\ cache' = Empty /\ Goes(c, "acked")
     \/ /\ "mongo" \in Faults
        /\ mongo' \in {mongo, Empty}
        /\ Goes(c, IF pc[c] = "mongoOnly" THEN "rejected" ELSE "acked")
        /\ UNCHANGED cache
  /\ UNCHANGED <<redis, memory, locks, op, key, held, locals, warm, behind,
                 took, observed>>

-----------------------------------------------------------------------------
(* warmCache, which takes no mutex and gives up its WATCH before it writes. *)

WarmGoes(c, where) == warm' = [warm EXCEPT ![c].pc = where]

WarmEnds(c) == warm' = [warm EXCEPT ![c] = NoWarm]

WarmCheck(c) ==
  /\ warm[c].pc = "check"
  /\ \/ redis.ver # 0 /\ redis.ver >= warm[c].data.ver /\ WarmEnds(c)
     \/ ~(redis.ver # 0 /\ redis.ver >= warm[c].data.ver) /\ WarmGoes(c, "merge")
     \/ "redis" \in Faults /\ WarmEnds(c)
  /\ UNCHANGED <<redis, mongo, cache, memory, locks, control, locals, behind,
                 took, observed>>

WarmMerge(c) ==
  /\ warm[c].pc = "merge"
  /\ \E keys \in {redis.keys} \cup (IF "redis" \in Faults THEN {NoKeys} ELSE {}) :
       warm' = [warm EXCEPT ![c].pc = "write", ![c].keys = keys]
  /\ UNCHANGED <<redis, mongo, cache, memory, locks, control, locals, behind,
                 took, observed>>

WarmWrite(c) ==
  /\ warm[c].pc = "write"
  /\ LET creds == [redis EXCEPT !.creds = warm[c].data.creds]
         keys == [creds EXCEPT !.keys = Merge(warm[c].keys, warm[c].data.keys)]
         all == [keys EXCEPT !.ver = warm[c].data.ver + 1]
     IN \/ redis' = all
        \/ "redis" \in Faults /\ redis' \in {redis, creds, keys}
  /\ WarmEnds(c)
  /\ UNCHANGED <<mongo, cache, memory, locks, control, locals, behind, took,
                 observed>>

-----------------------------------------------------------------------------
(* What goes on around the calls.                                          *)

\* The reconciler persists an entry, with the entry's version as the expected
\* one, through this process's MongoAuthStore or another's.
Drain(e) ==
  /\ e \in outbox
  /\ ~e.done
  /\ MongoPut(e.call, e.ver + 1)
  /\ cache' \in {cache, Empty}
  /\ outbox' = (outbox \ {e}) \cup {[e EXCEPT !.done = TRUE]}
  /\ UNCHANGED <<redis, memory, locks, control, locals, warm, queue, observed>>

\* The entry is deleted one hour after it was completed.
Forget(e) ==
  /\ e \in outbox
  /\ e.done
  /\ outbox' = outbox \ {e}
  /\ UNCHANGED <<redis, mongo, cache, memory, locks, control, locals, warm,
                 queue, took, observed>>

\* The queue's worker, with a MongoAuthStore of its own, persists the patch,
\* perhaps again later; a job that fails is gone.
Deliver(c) ==
  /\ c \in queue
  /\ \/ MongoPut(c, expect[c] + 2) /\ queue' \in {queue, queue \ {c}}
     \/ "mongo" \in Faults /\ queue' = queue \ {c} /\ UNCHANGED <<mongo, took>>
  /\ UNCHANGED <<redis, cache, memory, locks, control, locals, warm, outbox,
                 observed>>

\* The 5 s of the document cache are over.
CacheExpires ==
  /\ cache # Empty
  /\ cache' = Empty
  /\ UNCHANGED <<redis, mongo, memory, locks, control, locals, warm, behind,
                 took, observed>>

\* The mutex is dropped from writeMutexes: 30 min after it was put there, for
\* has and get do not renew the TTL, or by 10000 other sessions.
Evict ==
  /\ "evict" \in Faults
  /\ gen < MaxGen
  /\ gen' = gen + 1
  /\ UNCHANGED <<redis, mongo, cache, memory, mutex, control, locals, warm,
                 behind, took, observed>>

Working(c) == pc[c] \notin {"idle"} \cup Finished \/ warm[c].pc # "none"

Quiet == \A c \in Calls : ~Working(c)

\* A Redis key expires defaultTtl seconds after the last set that wrote it:
\* every set writes :meta, but only creds or only keys.
RedisExpires ==
  /\ "expiry" \in Faults
  /\ Quiet
  /\ \/ redis.creds # 0 /\ redis' = [redis EXCEPT !.creds = 0]
     \/ redis.keys # NoKeys /\ redis' = [redis EXCEPT !.keys = NoKeys]
     \/ /\ redis.creds = 0 /\ redis.keys = NoKeys /\ redis.ver # 0
        /\ redis' = Empty
  /\ UNCHANGED <<mongo, cache, memory, locks, control, locals, warm, behind,
                 took, observed>>

-----------------------------------------------------------------------------

SetStep(c) ==
  \/ Acquire(c)
  \/ MergeRead(c)
  \/ RedisWrite(c)
  \/ PersistDirect(c)
  \/ AddEntry(c)
  \/ Publish(c)
  \/ Mark(c)

CallStep(c) ==
  \/ ReadMeta(c)
  \/ ReadFields(c)
  \/ ReadMongo(c)
  \/ SetStep(c)
  \/ DeleteRedis(c)
  \/ DeleteMongo(c)

WarmStep(c) == WarmCheck(c) \/ WarmMerge(c) \/ WarmWrite(c)

Around ==
  \/ \E e \in outbox : Drain(e) \/ Forget(e)
  \/ \E c \in Calls : Deliver(c)
  \/ CacheExpires
  \/ Evict
  \/ RedisExpires

Next ==
  \/ \E c \in Calls, o \in Ops, k \in KeyIds : Begin(c, o, k)
  \/ \E c \in Calls : CallStep(c) \/ WarmStep(c)
  \/ Around

Spec == Init /\ [][Next]_vars

\* What a call awaits is answered or rejected.
Fairness == \A c \in Calls : WF_vars(CallStep(c))

FairSpec == Spec /\ Fairness

\* One call at a time, as from a single awaiting caller.
Busy(c) == pc[c] \notin {"idle"} \cup Finished

OneAtATime ==
  \A c \in Calls : (pc[c] = "idle" /\ pc'[c] # "idle") =>
    \A d \in Calls : ~Busy(d)

-----------------------------------------------------------------------------
(* Properties                                                              *)

InSection(c) == pc[c] \in Section

\* A mutex is held by one call at a time, is queued for once by each call that
\* waits or runs, and by no other: every way out of set, a store's rejection
\* included, gives it back once (store.ts:356-444, 868-875).
MutexIsKept ==
  \A g \in 0..MaxGen :
    /\ \A i, j \in 1..Len(mutex[g]) : mutex[g][i] = mutex[g][j] => i = j
    /\ \A c \in Calls :
         (\E i \in 1..Len(mutex[g]) : mutex[g][i] = c)
           <=> held[c] = g /\ (pc[c] = "waiting" \/ InSection(c))
    /\ \A c \in Calls : held[c] = g /\ InSection(c) => Holds(c)

\* The writes of a session are serialized, whatever fails, as long as the
\* mutex stays in the LRU cache ("Ensures exclusive write access per session",
\* store.ts:866).
MutualExclusion ==
  \A c, d \in Calls : InSection(c) /\ InSection(d) => c = d

Saved(c) == SetsCreds(c) /\ pc[c] \in Finished

\* While the session is in Redis: however many saves of creds overlap, and
\* although Baileys changes the creds while they are under way, once they have
\* ended Redis holds the newest: each save copies the creds when its turn comes
\* (store.ts:367-375).
NewestCredsInRedis ==
  Quiet /\ (\E c \in Calls : Saved(c)) => redis.creds = memory

NoneRejected == \A c \in Calls : pc[c] # "rejected"

\* While the session is in Redis, without the queue, and as long as no set was
\* rejected, both stores end up with the same creds: MongoDB is written under
\* the same mutex as Redis, and every failure of one of them reaches the caller
\* (store.ts:354-444).
CredsAgree == Quiet /\ NoneRejected => mongo.creds = redis.creds

\* While the session is in Redis, creds reach MongoDB only through a set that
\* has given them to Redis first, so MongoDB is never ahead (store.ts:377-430).
MongoNeverAhead == mongo.creds <= redis.creds

\* A caller that was given creds, or was told that its save succeeded, is never
\* given older ones by a later get (docs/diagrams/data-consistency.md:58-63).
\* The code keeps this while the session is in Redis.
MonotonicReads ==
  \A c \in Calls :
    (op[c] = "get" /\ pc[c] = "acked") => seen[c] >= floor[c]

\* While the session is in Redis, without the queue, and as long as no set was
\* rejected: between sets, a key that MongoDB holds is in Redis with the same
\* value, although one store replaces the keys and the other merges them
\* (store.ts:377-430).
MongoKeysAreInRedis ==
  NoneRejected /\ (\A c \in Calls : ~InSection(c)) =>
    \A k \in KeyIds : mongo.keys[k] \in {None, redis.keys[k]}

\* No other call has touched the key id.
Alone(c) ==
  \A d \in Calls \ {c} :
    (op[d] \in {"keysSet", "keysDelete"} /\ key[d] = key[c]) => pc[d] = "idle"

\* A key that one call has stored, and that no other call was for, is what
\* Redis holds, whatever other keys are set at the same time
\* (use-hybrid-auth-state.ts:106, "CRITICAL for preventing data loss").
StoredKeyStays ==
  \A c \in Calls :
    (op[c] = "keysSet" /\ pc[c] = "acked" /\ Alone(c)) => redis.keys[key[c]] = c

\* A key that was deleted and not set again is gone.
DeletedKeyIsGone ==
  \A c \in Calls :
    (op[c] = "keysDelete" /\ pc[c] = "acked" /\ Alone(c))
      => redis.keys[key[c]] = None

IsSet(c) == op[c] \in {"saveCreds", "keysSet", "keysDelete"}

\* A set that succeeded is in MongoDB, or in the outbox from where it will get
\* there: with or without the queue, whatever fails, nothing is acknowledged
\* on the strength of Redis alone (store.ts:380-430).
AckedIsLogged ==
  \A c \in Calls :
    IsSet(c) /\ pc[c] = "acked" =>
      c \in took \/ \E e \in outbox : e.call = c

\* A key of the session is in one of the stores as long as no call deletes it.
KeysAreKept ==
  \A k \in KeyIds : redis.keys[k] # None \/ mongo.keys[k] # None

\* A session deleted from both stores, with no call under way, stays deleted.
DeletedStaysDeleted ==
  \A c \in Calls :
    (op[c] = "delete" /\ pc[c] = "acked" /\ \A d \in Calls \ {c} : ~Working(d))
      => redis.creds = 0 /\ mongo.creds = 0

\* Every operation the hook or an application starts is answered: no failure
\* of a store leaves the mutex locked.
EveryCallAnswers ==
  \A c \in Calls : (pc[c] # "idle") ~> (pc[c] \in Finished)

=============================================================================
