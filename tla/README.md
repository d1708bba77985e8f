# A TLA+ model of baileys-store-core

baileys-store-core keeps the authentication state of WhatsApp sessions (the
credentials and the Signal keys that Baileys works with) in Redis, in MongoDB,
or in both, and watches over the sessions' connections. This directory holds TLA+
models of its stores, the outbox between them, the crypto and codec services,
the lifecycle with its circuit breaker, the LID mapping cache, the rate limiter
and the monitors with the diagnostic engine. TLC checks them on small instances;
TLAPS proves the theorems of the `*Proofs` modules for all values of the constants.
Paths are those of the repository.

## Inventory

| Component | State | Operations | Where it is hard |
|---|---|---|---|
| Outbox, `src/hybrid/outbox.ts` | Redis hashes `outbox:{session}` (one entry per version), list `outbox:dlq`, deletion timers, interval | addEntry, markCompleted, markFailed, reconcile, moveToDeadLetter, cleanup | read-modify-write of entries without transactions by overlapping reconciliations, crashes between commands, concurrency inside one reconciliation |
| HybridAuthStore, `src/hybrid/store.ts` | one mutex per session in an LRU cache, circuit breaker, the two stores | get, set, delete, touch, exists, batchGet, batchDelete, warmCache, connect, disconnect, isHealthy | two stores and a queue that fail independently; a read path that writes (warmCache) outside the mutex; a reconciler that must start and stop with the connection |
| useHybridAuthState, `src/hybrid/use-hybrid-auth-state.ts` | `authState.creds`, mutated in place by Baileys | keys.get, keys.set, saveCreds, clear | read-merge-write with the read outside the mutex |
| RedisAuthStore, `src/redis/store.ts` | per session `:creds`, `:keys`, `:meta`, each with a TTL; the client and the flag `connected` | get, set, delete, touch, exists, connect, disconnect | several commands per operation, failures turned into null, TTL per field, commands waiting while the client reconnects |
| useRedisAuthState, `src/redis/use-redis-auth-state.ts` | creds in memory | start, keys.get, keys.set, saveCreds, clear | several processes on one session, no mutex |
| MongoAuthStore, `src/mongodb/store.ts` | one document per session, a 5 s document cache per instance | get, set, delete, touch, exists | version filter, upsert, E11000 retry, lost answers, cache filled by late answers |
| useMongoAuthState, `src/mongodb/use-mongo-auth-state.ts` | creds in memory | as above | merges a snapshot without a mutex |
| Queue and worker, `src/types/queue.ts`, `src/examples/hybrid-bullmq.ts`, `src/examples/hybrid-kafka.ts` | messages | add; the consumer calls MongoAuthStore.set | at-least-once, unordered, does not know the outbox |
| Circuit breaker (opossum), used at `src/hybrid/store.ts:105` | closed, open, half open, rolling window | fire | recovery |
| KeyManager, CryptoService, `src/crypto/index.ts`; CodecService, `src/crypto/codec.ts` | keys, the active key; none | addKey, rotateKey, cleanupExpiredKeys, encrypt, decrypt; encode, decode | stored data outlives its key; processes configured differently |
| TokenBucket, RateLimiter, `src/rate-limit/` | tokens, last refill, per-session metadata | tryAcquire, acquire, canAcquire, reset | fractions of tokens, waiting, entries dropped by a cache |
| ConnectionTracker, `src/monitoring/connection-tracker.ts` | per session state and counters | recordActivity, recordReconnectAttempt, recordDisconnect, checkHealth, getStats | state stored versus state computed from silence |
| RotationMonitor, `src/monitoring/rotation-monitor.ts` | window of timestamps, anomaly flag | recordRotation, getStatus, getAggregateStats | timestamps dropped while recording |
| DiagnosticEngine, `src/diagnostics/diagnostic-engine.ts` | none of its own | diagnose, quickCheck, getSessionsRequiringAttention | its questions change the components it asks |
| LidCache, `src/identity/lid-cache.ts` | two Redis keys per mapping | storeMappings, deleteMapping, clear, lookups, getStats | the two directions; SCAN while others store |
| HealthCheck, `src/health/health-check.ts` and the `/health` route of `src/examples/production-setup/` | none | performHealthCheck, isReady, isLive | what is called healthy against what is served |
| retryWithBackoff, `src/storage/index.ts` | none | exported; nothing in the library calls it | |
| Configuration, validation, types, errors, logger, metrics, context | none that decides anything | | |

Interactions. Baileys calls the hook; the hook reads a snapshot with
`HybridAuthStore.get` and writes a patch with `set`. `set` takes the session's
mutex, writes Redis, and then either writes MongoDB or adds an outbox entry and
hands the patch to the queue, falling back to MongoDB when the queue fails.
`get` asks Redis, then MongoDB behind the breaker, and in that case starts
`warmCache`, which writes Redis on its own. The reconciler of every process and
the queue's worker write to MongoDB, the worker with an instance (and a cache)
of its own. `connect` opens Redis, MongoDB and the queue and starts the
reconciler; `disconnect` stops it and closes the three together. Fields in
Redis are encoded, encrypted and put into an envelope that names the key. The
engine asks tracker, monitor and limiter, and its questions store states and
create metadata there.

What makes each part correct: nothing acknowledged is lost (outbox, hybrid
store); the two stores end up equal, Redis never behind (hybrid store); writes
of a session exclude each other and none waits for ever (mutex); a reader never
goes back (hybrid store, MongoDB cache); a retried write takes effect once
(MongoDB store); a version is never ahead of its data, no key or identity
is overwritten by mistake, and what is stored can be read (Redis store, crypto, codec);
nothing is hidden by a failing store, every call ends, one
reconciler runs (lifecycle, breaker); the monitors invent and forget
nothing and what is concluded from them agrees (tracker, monitor, engine); an
acquire ends and is never refused (limiter); mappings lead to newer ones
only (LID cache). The hazards of the code, each at its line, are in
`PROJECT.json`.

## Modules

| Module | Models | Checked by | Proofs |
|---|---|---|---|
| `WriteBehind` | abstract: what the outbox promises the callers of set | refined by Outbox | |
| `Outbox` | `src/hybrid/outbox.ts`, with the end of set and the worker around it | `outbox_*` | `OutboxProofs` |
| `HybridStore` | get, set, delete, warmCache and the mutex cache of `src/hybrid/store.ts`, the hook, and the Redis commands they cause | `hybrid_*` | `HybridStoreProofs` |
| `DocumentRegister` | abstract: what a MongoAuthStore promises about one document | refined by MongoStore | |
| `MongoStore` | get, set, delete, touch and the cache of `src/mongodb/store.ts` | `mongo`, `mongo_stale` | `MongoStoreProofs` |
| `Crypto`, `Codec` | operators: which process can open what which process has sealed; what a value is written as and read back as | `redis` | `RedisStoreProofs` |
| `RedisStore` | several processes with the hook of `src/redis/` on one session, over Crypto and Codec | `redis` | `RedisStoreProofs` |
| `RedisConnection`, `Lifecycle`, `CircuitBreaker`, `HealthCheck` | the Redis client and its flag; connect, disconnect and the reconciler; the breaker; the health functions | through Service | |
| `Service` | composes the four: the reads, removals, touches and batches of `src/hybrid/store.ts` while servers fail | `service` | `ServiceProofs` |
| `SessionIds`, `ConnectionTracker`, `RotationMonitor`, `TokenBucket`, `RateLimiter` | the monitors and the limiter, an operation a step | through DiagnosticEngine | `MonitoringProofs` |
| `DiagnosticEngine` | composes them: diagnose, quickCheck, the list of sessions, and the application that feeds them | `monitoring` | `DiagnosticEngineProofs` |
| `LidCache` | `src/identity/lid-cache.ts` | `lid` | `LidCacheProofs` |
| `MC*` | instances for TLC: sets of model values, symmetry, settings, callers that take turns | | |

One command to Redis or MongoDB is one step. JavaScript runs to the next
`await` undisturbed, so what the code computes between two commands belongs to
the step of the first. A command that
fails may or may not have been carried out: in Outbox, HybridStore and MongoStore, and,
for removals, in Service (`CarriedOut`). `PROJECT.json` maps each definition
to its lines.

### Outbox

`entries[w]` is the field of the hash for write `w = <<session, version>>`;
`job[r][w]` is the task that reconciliation `r` has given to p-limit for `w`,
with the copy of the entry it was created with. The steps of a task are the
awaits of `reconcile`: HSET processing (`MarkProcessing`), mongo.set
(`PersistEntry`), HGET and HSET of markCompleted (`CompleteRead`,
`CompleteWrite`), or of markFailed (`FailRead`, `FailWrite`), LPUSH and HDEL of
moveToDeadLetter (`PushDeadLetter`, `RemoveDead`). `client[w]` is the call of
`HybridAuthStore.set` from addEntry on. `Crash(r)` stops a process with all its
tasks and timers. `HashExpires` is the 7 day TTL.

The write-behind promise is `WriteBehind`: each write's fate goes from none to
logged to dead-lettered or durable and never back, and a caller is answered only
when there is a trace. `Outbox` implements it with `fate` read off the entries,
the dead letter queue and what MongoDB has taken.

### HybridStore

One session, one process. A call (`Calls`) is an operation of the hook, a get or a delete;
its `pc` is the await it is in. `mutex[g]` is the queue of calls on the g-th mutex the LRU
cache has held for the session and `gen` the one it holds now, so eviction is `gen' = gen +
1` with old holders still in the old mutex. A store is `[creds, keys, ver]`; creds are
numbered by the changes Baileys makes to them, a key holds the call that set it. `Merge` is
the merge `redis.set` does, while MongoDB's `$set` replaces the field: `RedisField` and
`MongoPut` differ in that. `warm[c]` is the warmCache a call has left behind. The
outboxManager may be missing (`"unmanaged"`): connect leaves it out where Redis was away
when MongoDB had answered, and a patch is then in the queue only. MongoDB writes overwrite,
and outbox entries are persisted at some later time: these two are what `MongoStore` and
`Outbox` are about.

### MongoStore

One document, several `Instances`. An upsert that finds nothing to update
inserts in a second step (`Update`, `Insert`), which is where E11000 comes from,
and `DuplicateKey` drops the version condition for the retry. The TTL index removes the
document at any time (`Expire`), between the two steps of a set too. `Find` is the read
at the server and `Found` its answer, which fills the cache. `Tick` counts time
for the cache's TTL. `own` and `floor` are history: which write of its own an instance's
cache, or a read under way, goes back to. `DocumentRegister` is the abstract specification: each set
or delete takes effect at one point, at most once, and the last one wins;
`ImplementsRegister` is the refinement. It is the reason why the other
modules may treat a MongoDB write as an unconditional overwrite.

### RedisStore, Crypto, Codec

Several `Processes`, each with its services and its creds in memory, call the
hook on one session. A call reads `:meta`, the two fields (one step each, since
another process may write in between), merges, and writes its pipeline command
by command; `touch` and `delete` are pipelines of their own. Each field carries
its TTL in ticks and the `Seal` it was written with: the id of the key and the
compressor, and `OpensRedis` and `OpensMongo` say what a process's services can
open. A field that cannot be read, for whatever reason, is null to `getField`;
`blind` remembers that this happened to a stored one, `mishaps` that a write
was rejected, the session deleted, or its creds expired. `expected` is, per key, what a correct
merge has left. `Codec` models what the serialiser and `reviveBuffers` turn each
kind of value into, and `RewritingKeeps` says that reading and writing again changes
nothing any more.

### Service

The sessions are stored or not; the stores' contents are HybridStore's matter. A request is
an operation with the ids it has still to ask Redis (`todo`) and MongoDB (`late`) for, the
id it waits for (`at`) and what each store has done for each (`layers`). `opener[c]` is a
call of connect or disconnect. A command sent to Redis while the client reconnects waits in
its queue and is rejected when `retryStrategy` gives up. The breaker is opossum's: rolling
window, one trial when half open, a rejected call counted too. A server may have carried out
a removal whose answer never arrives (`CarriedOut`, then a command that fails); a read whose
answer is lost changes nothing but what it answers, which is the failure itself. The
client's events connect and ready are two steps, and the flag is set by either. `there` and
`excused` are history: which sessions MongoDB has held throughout, and which it was not able
to answer for.

### Monitoring and rate limiting

Time is kept as ages in ticks which stop counting when nothing depends on them any more.
`ConnectionTracker` has the state stored per session, the silence, the counters, and the
alarms the listeners got; `RotationMonitor` numbers the rotations of a session and keeps,
next to the timestamps the code keeps, the age of every one; `TokenBucket` counts in
fractions of a token so that refill and consumption stay integers; `RateLimiter` has the
session's bucket and metadata, both of which their caches may drop, and the calls of acquire
with the bucket each makes for itself, as the code does. A signal that is aborted before a
wait for tokens ends the call at the top of the loop (`token-bucket.ts:119`), one aborted
during either wait ends the sleep. Limiting is taken to be switched on: with `enabled:
false` acquire returns and canAcquire allows at once (`rate-limiter.ts:190`, `:241`), which
changes nothing. `DiagnosticEngine` has no state but which components it was given, and the
history `found`, the sessions a check has found DISCONNECTED since they were last active or
reconnecting; its questions are the handlers of the others. `TrackerSpec` of
ConnectionTracker is the abstract specification the composition implements (`EngineTracks`).

### LidCache

`lidKeys` and `pnKeys` are the keys of either prefix with the time they were stored and what
is left of their TTL. storeMappings is one pipeline, deleteMapping a read and a pipeline,
clear and getStats go through SCAN page by page (`Scan`, any page that is not empty), while
others store. Pipelines are whole: one process, one connection, and none fails half way.
(storeMappings and deleteMapping await exec and do not look at the answers of its commands,
`lid-cache.ts:121`, so a mapping of which one half was written or deleted is possible where
Redis fails in the middle; nothing is claimed of that case.)

## Runs

Passing runs; every action of the next-state relations fires in one of them.

| Run | Instance | Shows |
|---|---|---|
| `outbox_single` | 1 session, 2 versions, 1 reconciliation at a time, MongoDB and queue failing, hash expiring, fairness | `NothingStranded`, `EverySetSettles`: entries are picked up until they are persisted or dead-lettered |
| `outbox_overlap` | 1 write, 2 overlapping reconciliations, MaxAttempts 3, crashes and every failure | `CompletedIsPersisted`, `AckedIsTraced`, `DeadLettersAreExhausted`, and that Outbox implements `WriteBehind` |
| `hybrid_direct` | 3 overlapping calls on a session that is in Redis, 2 keys, no queue, MongoDB failing | `MutualExclusion`, `NewestCredsInRedis`, `CredsAgree`, `MongoKeysAreInRedis`, `MonotonicReads` |
| `hybrid_faults` | 2 overlapping calls (also delete), Redis cold and failing, MongoDB failing, fields expiring, mutex evicted, fairness | `MutexIsKept`, `EveryCallAnswers` |
| `hybrid_behind` | 3 calls in turn, write-behind, queue and MongoDB failing | `AckedIsLogged` |
| `mongo` | 3 overlapping calls (sets, gets, deletes, touches) on 2 instances, answers lost, document expiring at any time, cache TTL 1 tick, latency 1 tick | `TakesEffectOnce`, `ServedIsRecent`, `OwnWritesAreCached`, `ImplementsRegister` |
| `redis` | 3 calls, 2 keys; two processes, or one whose commands fail, or one with time, rotation and clean-up, or with time, touch and delete; writers in turn | `VersionNotAhead`, `KeysMergeKeeps`, `MetaOutlivesFields`, `IdentityIsKept`, and `RedisInv`: what is stored can be read and rewritten |
| `service` | 2 requests, 2 sessions, 3 calls of connect and disconnect in turn or at once, an outage, answers of removals lost, a setting for each combination of operations that share state | `ServiceInv` (the flag follows the client, one reconciler), `NothingIsHidden`, `HealthyIsServed`, `EveryCallEnds`, `BreakerCloses` |
| `monitoring` | 1 session under tracker and monitor, or under the limiter with 2 overlapping calls and limits below and above one message a minute; entries evicted | `TrackerInv`, `OneAlarmPerSilence`, `AnomalyIsExact`, `EngineInv`, `LimitsOnlyGrow`, `EveryAcquireEnds` |
| `lid` | 2 LIDs, 2 numbers, 2 callers, mappings expiring | `FollowingLeadsToNewer`, `NoHalfExpires`, `ScansAreComplete` |

Two runs that TLC must find violated, where a document says of the program what
the code does not do; the quotations are in `PROJECT.json`, "findings".

| Run | Counterexample |
|---|---|
| `hybrid_merge` (`StoredKeyStays`) | two keys.set read the same snapshot before either has the mutex; the second writes the other's key back to its old value |
| `mongo_stale` (`StaleSetIsRejected`) | two sets with the same expectedVersion; the second matches no document, meets E11000, goes again without the version condition (`mongodb/store.ts:395`) and replaces the newer document, where `src/docs/ERROR_CODES.md:123` and `src/docs/diagrams/versioning.md:144` have it end in VersionMismatchError. (`src/src/__tests__/contracts/auth-store.contract.test.ts:122` asks for that error with a version ahead of the stored one, which the filter `<=` lets through as well.) |

### Known not to hold

Statements one might expect of the code and that its model violates. Those with a
definition stand next to the properties; a .cfg like the ones above with the
definition as INVARIANT shows the counterexample.

Outbox and hybrid store:

- `Outbox!NothingStranded` with crashes: the process stops after HSET processing,
  and getPendingEntries (`outbox.ts:165`) only returns pending and failed entries, though
  `src/docs/ARCHITECTURE.md:68` promises recovery.
- `Outbox!FailedIsRetriedOrDead`: overlapping reconciliations judge by old copies
  of attempts, so an entry reaches the limit without a dead letter.
- `Outbox!DrainedIsNewest`: one reconciliation persists two versions of a session
  concurrently, and the older may arrive last.
- `HybridStore!MonotonicReads` with a cold Redis: warmCache checks the version
  (`hybrid/store.ts:911`), a save completes, and warmCache's write puts the old creds
  back, in spite of the "TOCTOU protection" of line 878.
- `HybridStore!DeletedKeyIsGone`: keys.set takes the deleted id out of its patch
  (`use-hybrid-auth-state.ts:114`) and redis.set merges the patch into what is stored.
- `HybridStore!DeletedStaysDeleted` with write-behind: pending outbox entries recreate
  a deleted document.
- `HybridStore!KeysAreKept` with expiry: creds outlive the keys in Redis, and the
  next keys.set replaces MongoDB's keys.
- `HybridStore!MutualExclusion` when the LRU cache drops a mutex that is held;
  `HybridStore!AckedIsLogged` with write-behind where two sets have read the same version, for
  HSETNX keeps the first one's entry, and on an empty session: keys stored before
  any creds leave the version at 1, and addEntry's HSETNX drops the next patch.
- MongoStore: that a get of an instance sees what that instance has written before it,
  when its calls overlap: a late answer fills the cache after a write has invalidated it.
  `OwnWritesAreCached` says that nothing else makes it fall behind.

Redis store, crypto, codec (in RedisStore unless said otherwise):

- `KeysMergeKeeps` with overlapping writers, and `VersionNotAhead` with two
  writers, a delete, or a pipeline that fails half way: set is no transaction.
- `VersionNotAhead` where the creds expire before the keys (it takes four calls): get
  is null however much of the keys is left, so the next set begins again with
  version 1, below the one the keys were written with.
- `MetaOutlivesFields` with an overlapping touch of a shorter TTL.
- `IdentityIsKept` where two processes start on an empty session, or after a blind
  read: the start falls back to new creds, and the next saveCreds stores them.
- Reads are blind wherever another process has rotated, a process restarts with another
  master key (keys are in memory only), or one lacks snappy or has toggled
  compression. Rotating a key that has already expired, then cleaning up, makes stored
  fields unreadable, and touch renews what is encrypted with an old key beyond
  that key's life.
- After rotateKey no document in MongoDB can be read: there the key id is not
  stored (`'auto'`) and only the active key is tried. And with encryption
  disabled the MongoDB store cuts a nonce that was not written
  (`mongodb/store.ts:551-600`), so that get always rejects.
- The first rewrite of a value does change it: the Buffer and Date branches of
  `stableReplacer` are never reached, since toJSON runs first; a Uint8Array
  comes back as a Buffer, a Date as a string.

Lifecycle and breaker (in Service): two connects at once leave a reconciler that nothing
stops; connect after disconnect never succeeds for the Redis store, whose client has ended;
performHealthCheck never reports an open breaker, as it compares opossum's status object
with strings, so that isReady is true with both stores down; exists rejects when Redis fails
without asking MongoDB. No property says that what was deleted is gone: a warmCache or a set
under way, an outbox entry or a job in the queue brings it back, and a delete that is
reported as failed may have been carried out. A Kafka job that fails is lost, and neither
worker calls markCompleted.

Monitoring and limiting: acquire draws on a bucket made for the call, so calls
together are not limited; metadata that its cache drops restarts the warm-up; a
signal that is aborted before the jitter's wait begins is not noticed by it; a session that keeps
reconnecting never becomes DISCONNECTED. getSessionsRequiringAttention, described as the
sessions with "critical issues" (`diagnostic-engine.ts:198`), is not the list of those that
quickCheck calls CRITICAL: it holds DEGRADED sessions too, and leaves out sessions the tracker
does not know (never heard of, or dropped by its cache), those nobody has checked yet, and
rotation anomalies. DEGRADED notices are repeated by every check.

LidCache: `LidCache!DeleteIsExact` (deleting a LID takes the way back of another that has
its number now, and leaves the number it had before resolving); clear deletes what is stored
meanwhile; two processes' pipelines interleave, which one connection's do not.

### Bounds

Two overlapping reconciliations, two or three overlapping calls and two
instances or processes are the least with which the races above exist, and the races involve
pairs. MaxAttempts of the outbox is 3 so that an entry fails, is retried and fails for good.
`retried` counts to MaxAttempts because the property compares it with
MaxAttempts - 1. `MaxGen` is how often the LRU cache may drop the mutex.
`Latency` bounds the ticks a read's answer may take, without which no bound on
the age of a cached document holds. `stale` counts one tick past the bound it is
compared with. Calls happen once; every value that grows grows with calls.

RedisStore: Ttl 2 lets one field expire before another, KeyLife 3 lets a key expire after
what it has encrypted. Its settings (`EachHazard`) separate what does not interact: a second
process, failing commands, time with rotation, time with touch and delete. LidCache: TTL 2
and MaxClock 4, so that a mapping expires, is stored again, and scans begin before and
after. Monitoring: SilenceThreshold 1, DisconnectThreshold 2, Window 2, three rotations:
below, at and above each threshold; `MaxReconnects`, `MaxRotations` cap the counters. Limits
1 and 8 with a minute of 4 ticks and a warm-up of 2 days are below and above a token per
tick. Service: MaxRetries 1, MaxOutages 1 and MaxFires 2 let the client reconnect and give
up and the breaker open by its percentage and by its trial; the settings (`EachSetting`)
give each combination of operations that share state.

Where a property is about callers that await each call, an action constraint of the MC
module lets a call begin only when the previous one has ended: `OneAtATime`
(`hybrid_behind`) and `WritersTakeTurns` (`redis`: in whichever process; starts and reads
overlap). They stand in the specifications, beside `NoOverlap` of Outbox, since theorems
assume them too. What a call has left behind (warmCache, outbox entries, queued jobs) still
overlaps with the next.

### Fairness

Outbox: the interval keeps firing (`StartRun`) and what a reconciliation awaits
is answered or rejected, which the drivers' timeouts give. Nothing is assumed of
callers, of the queue's worker or of timers. HybridStore: what a call awaits is
answered or rejected; nothing is assumed of warmCache, evictions or expiry, and
the mutex gives no more than its queue. DiagnosticEngine: time passes, and the
timer each acquire sleeps on fires (`SenderTimers`), which leaves aborts out; the application
owes nothing. A bucket makes a call wait only when its limit is below one message a minute, which is
where `EveryAcquireEnds` says something. Service: the
client's events and timers, the breaker's timer, and whatever a request or a
call awaits (weak fairness of `Client`, `HalfOpen`, `Resolve` and, for each request,
`Proceed`, not `CarriedOut`); servers need not return, nobody need ask, nothing need expire. A
command waiting in the client's queue is not assumed to be answered: that it
ends is what `EveryCallEnds` shows from the counted retries.

## Proofs

`OutboxProofs` proves about Outbox, for any sets of sessions, versions and
reconciliations and any MaxAttempts and Concurrency:

- `TypeCorrect`: Spec => []TypeOK.
- `CompletedTheorem`, `AckedTheorem`, `DeadLetterTheorem`: the invariants of
  `outbox_overlap`. `AckedTheorem` and the refinement assume
  `"expiry" \notin Faults`: an expiring hash forgets entries by design.
- `RefinementTheorem`: Outbox implements `WriteBehind`.
- `StrandedTheorem` (`NothingStranded`): where no process crashes and Redis answers
  (`"crash"`, `"redis"` not among the `Faults`), reconciliations that do not overlap
  (`[]NoOverlap`) leave no entry behind that the next one would not find.

The inductive invariant is `OutboxInv`. None of the properties is inductive by itself: each
task, and the fallback of set, holds a copy of an entry read some steps ago and writes it
back later, so what holds of the stored entry must be known of every copy
(`AttemptsAreCounted`), what is about to be marked completed must be known to have been
persisted (`ConfirmedIsPersisted`), what is about to be removed must be in the dead letter
queue (`RemovedIsDead`), and whatever a task works on must leave a trace (`AddedIsTraced`).
Each part has a lemma per group of actions. For `StrandedTheorem` the invariant is
`StrandInv`: an entry in status processing is in the hands of a task (`Held`), and the
attempts counted by the copy of set's fallback, by the entry, by the copy of its task and by
the task itself never decrease in this order (`TaskFits`), so that no copy written back
makes a failed entry one that is given up without a dead letter. Both are false once another
reconciliation writes in between. The assumption is `OutboxAssumption`, on the constants'
types.

`MongoStoreProofs` proves about MongoStore, for any calls, instances, TTL and
latency:

- `TypeCorrect`.
- `OnceTheorem` (`TakesEffectOnce`): a set takes effect once, whatever its retry does.
- `RecentTheorem`: a cache never serves a document older than the TTL plus the
  latency.
- `OwnWritesTheorem` (`OwnWritesAreCached`): an instance's cache falls behind the
  instance's own writes only with the answer to a read that one of them overtook.
- `RegisterTheorem`: MongoStore implements `DocumentRegister`.

Its inductive invariant is `CallInv` with `AgeInv`, `SentInv` and `IdleInv`.
`CallInv` says, for each place a call can be at, whether it has taken effect yet:
a second attempt exists only where the first changed nothing. `AgeInv` bounds the
staleness of a cached document by its age and the latency, which needs the same
of an answer still under way. `SentInv`, for `OwnWritesTheorem`, bounds from below what an
answer under way can hold by the writes the instance had finished when it was asked.
`IdleInv` lets the abstract calls begin where the concrete ones do. None of them assumes anything of
expiry, deletes or the order of calls.

`HybridStoreProofs` proves about HybridStore, for any calls and keys:

- `TypeCorrect`, `MutexTheorem` (`MutexIsKept`): with every fault, with the queue
  or without.
- `ExclusionTheorem` (`MutualExclusion`): if the LRU cache drops no mutex
  (`"evict" \notin Faults`). Types and mutex need each other (`BaseInv`): the
  tail of a queue is a queue because the call that leaves is at its head.
- `AckedTheorem` (`AckedIsLogged`): without the queue, whatever fails.
- `LoggedTheorem` (`AckedIsLogged`): with the queue too, under `HotSession`, with an
  outboxManager (`Managed`) and while the caller awaits each call, `[][OneAtATime]_vars`.
- `NewestTheorem`, `NeverAheadTheorem`, `MonotonicTheorem`: under `HotSession`,
  with MongoDB and the queue failing, with the queue or without.
- `CredsAgreeTheorem`, `KeysTheorem`: under `HotSession` without the queue.

`HotSession` says that the session is in Redis, that Redis answers and keeps it,
that the LRU cache drops no mutex and that nothing deletes the session. Without
it these are false: `MonotonicReads` as said above, and after
a warmCache that goes back the others fail too, given enough calls. Under it
`HotInv` is inductive: no call leaves the Redis path (`PathAt`), the creds a
save carries are between Redis's and the memory's when it writes them and equal
to Redis's until it leaves the mutex (`CredsAt`), and as long as Redis lacks the
newest creds some save is on its way to bring them (`Pending`). Exclusion is
what makes `CredsAt` survive the write of another call. `AgreeInv` adds
that where the stores differ, the call in the section owes MongoDB the
difference (`Owes`). `LogInv`, for `LoggedTheorem`, says that a set under way has
read the version Redis has, so that HSETNX finds the field of the next one free
(`LoggedAt`), and that an entry marked completed was persisted (`EntriesFit`). Of two sets
that read the same version the second has no entry: its patch is only in the queue.

`MonitoringProofs` proves about the tracker's own specification
`TrackerSpec`, for any sessions and thresholds, `TrackerTheorem`
(`TrackerInv`) and `AlarmTheorem` (`OneAlarmPerSilence`). What is stored of a session
is sound (`SoundEntry`): where DEGRADED or DISCONNECTED is stored the silence exceeds
the threshold, or a disconnect was recorded, so that a stored state is stale only in
one direction, and successes never exceed attempts; `QuietEntry` counts the alarm
where DISCONNECTED came from silence. The module also has the lemmas about a step of the
limiter and of the rotation monitor that the engine's theorems rest on.

`DiagnosticEngineProofs` is about the specification the run checks. `EngineTracks` says that
it implements `TrackerSpec`, so the two theorems above carry over
(`EngineTrackerTheorem`, `EngineAlarmTheorem`) whatever the engine asks. Further:

- `RotationTheorem` (`AnomalyIsExact`), by `RotationInv`: the timestamps kept are rotations
  of the full history, with the same ages, and whatever of that is inside the window is
  among them; `worst` changes with a rotation only, because ages grow.
- `LostTheorem` (`LostStaysLost`): a session a check found DISCONNECTED is CRITICAL to
  quickCheck and to diagnose, whatever is asked, evicted or recorded as disconnected, until
  it is active or reconnecting; with autoCheck it is in the list while the tracker has it.
  By `FoundInv`: such a session is untracked, or DISCONNECTED is stored of it, or, without
  autoCheck, what a check recomputes is still that.
- `EngineTheorem` (`EngineInv`), which puts together `LostTheorem`, `ListedTheorem`,
  `LimiterTypeTheorem` and `NoRefusalTheorem`. For `ListedTheorem` the sessions are a finite
  set, since the statistics count them: the three classes are disjoint and make up what is
  tracked.
- `LimitTheorem` (`LimitsOnlyGrow`). For this and the last two, `LimiterInv` says that
  metadata and buckets are typed, that a bucket a call waits on can hold a token, and that
  the effective limit is monotone in the age of the session. The warm-up factor is one line
  in the age (3W + 7 age over 10W, rounded down), which meets the full limit at its end; the
  arithmetic is in lemmas about products and quotients.

`RedisStoreProofs` proves about RedisStore, for any processes, calls, keys, TTL, key
life and `Settings`:

- `TypeTheorem` (`TypeOK`), by `Shape`: the services of a process have one active
  key and it is among theirs; what a call holds fits the place it is at.
- `MetaTheorem` (`MetaOutlivesFields`), whoever overlaps: `MetaInv` says that where a
  field outlives `:meta`, a call is on its way to renew `:meta` with as long a
  life (`Renews`), since pipelines end with it.
- `MergeTheorem` (`KeysMergeKeeps`) and `VersionTheorem` (`VersionNotAhead`), while
  writers take turns, `[][WritersTakeTurns]_vars`. `OneWriter` is what taking turns
  gives: at most one writer is under way. `FieldsInv` says that a field that is not
  stored has no value and no version. `KeysInv` says that the writer's patch was merged
  into what is stored (`SetFits`), and that each key in Redis is the expected one unless
  the writer has just written it (`Expects`). `VersionInv` says that the version in `:meta`
  is backed by a field which has at least that version and lives as long (`Backs`),
  that no field is ahead of `:meta` but for the writer's, between its two commands
  (`StoredFit`), and that what a reader has read so far can still be completed to something
  that is not ahead (`VersionsFit`). It needs `MetaInv`, as a writer that finds no
  `:meta` starts again at 1.
- `IdentityTheorem` (`IdentityIsKept`), where the session lasts: `[]SessionLasts`
  says that a setting with a second process has creds stored throughout, which the runs'
  settings and any that neither delete nor let time pass give. With one process
  nothing is assumed. `StartsAlone`: a start of the only process is alone; `IdentityInv`: the
  creds in a running process's memory are those stored, and a start has read these.
- `ReadableTheorem` (`FieldsAreReadable`), where `RotatesAlone`: a setting that rotates
  keys has one process and no touch. The two exceptions are real, see above.
  `ReadableInv`: each stored field, and each a call is about to write, was sealed with
  the active key or with one whose age leaves it at least as long as the field (`Outlasts`).
- `RedisTheorem` (`RedisInv`) puts these together. It assumes `RewritingKeeps`,
  which has no variables; TLC evaluates it with the run.

`LidCacheProofs` proves, for any LIDs, numbers, callers and TTL, `LidTypeTheorem`,
`NewerTheorem` (`FollowingLeadsToNewer`), `ExpiryTheorem` (`NoHalfExpires`) and
`ScanTheorem` (`ScansAreComplete`). `LidInv` says of both directions that the way back is at
least as new and lives at least as long, unless it was deleted; neither half is
inductive without the other, since a TTL decides what is there to compare. `ScanInv`
says for each place of a scan that what was stored before the call is still to be
scanned or has been found. In a batch the last mapping of a LID wins
(`LastOf` some position, which exists since the batch is finite).

`ServiceProofs` proves the three invariants of `service` for any calls, requests, sessions,
retries and settings: `ServiceTheorem`, `HiddenTheorem` and `HealthyTheorem`. `ServiceIInv`
has a part for each of what is composed. `LinksInv`: only a call that is under way holds the
turn to connect or to close, as long as calls do not overlap. `RequestsInv`: `RequestOK`
says what each request knows, by the place it is at; the sessions it still owes an answer
for (`Owed`) are the ones nothing needs to be known of yet. What a read has found missing,
while MongoDB has had it throughout, is excused or still owed, so the requests are tied to
MongoDB's contents. `TrialOut`: a half-open breaker whose trial is not due has a read under
way that decides it.

Model-checked only: liveness (`EverySetSettles`, `EveryCallAnswers`,
`EveryAcquireEnds`, `EveryCallEnds`, `BreakerCloses`), which is out of the prover's
reach; and `RewritingKeeps`, whose operators recurse over the values of `Codec`.

## Not modelled

Statistics, latencies, logging, metrics, tracing and the contents of snapshots are
left out, except where Codec says what values turn into; a snapshot that cannot be
deserialised is one because it lacks creds, the case the control flow meets.

- `useMongoAuthState`: MongoStore below it is modelled, and what its merge without a
  mutex loses is what `hybrid_merge` shows.
- retryWithBackoff: nothing in the library calls it.
- In HybridStore the runs have an outboxManager; a missing one is covered by the theorems
  only, which hold for any `Faults`.
- The execution context, configuration, validation, types, errors, logger and
  metrics keep no state that another part decides by.
- The ciphers, the compressors, Baileys' BufferJSON, ioredis, the MongoDB driver, opossum
  and the queues are modelled from their use only.
- Restarts of a process within a run, except as `Crash` in Outbox and as a start
  of another process in RedisStore.

What would come next: an abstract register per field for RedisStore to refine;
a second engine session with the limiter, whose state space the run's time does not
allow today.
