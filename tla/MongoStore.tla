------------------------------ MODULE MongoStore -----------------------------
(***************************************************************************)
(* MongoAuthStore (src/mongodb/store.ts) for one document: several         *)
(* instances (the process of HybridAuthStore, the queue's worker), each    *)
(* with its 5 s document cache, and their overlapping calls.               *)
(*                                                                         *)
(* Every command sent to MongoDB is one step, except that an upsert which  *)
(* finds no document to update inserts in a second step: that is how two   *)
(* of them come to E11000.  The answer to a read arrives in a step of its  *)
(* own, since the cache is filled only then.                               *)
(***************************************************************************)
EXTENDS Integers, FiniteSets

CONSTANTS
  Calls,
  Instances,     \* MongoAuthStore objects on the same collection
  Expected,      \* the expectedVersions a set may be given
  MaxRetries,    \* resilience.maxRetries
  CacheTtl,      \* CACHE_TTL, in ticks
  Latency,       \* bound: the ticks a read's answer may take
  Ops,           \* the operations the calls may be
  Faults         \* what the environment may do

None == "none"   \* no such field
Old == "old"     \* what an earlier process stored

AllOps == {"creds", "keys", "both", "get", "delete", "touch"}

ASSUME MongoAssumption ==
  /\ Calls \cap {None, Old} = {}
  /\ Calls \cap Instances = {}
  /\ Expected \subseteq Nat
  /\ MaxRetries \in Nat
  /\ CacheTtl \in Nat
  /\ Latency \in Nat
  /\ Ops \subseteq AllOps
  /\ Faults \subseteq {"network", "expiry"}

VARIABLES
  doc,           \* the stored document
  cache, age,    \* per instance, the cached document and its age in ticks
  pc, op, at,    \* where each call is, its operation and its instance
  expect,        \* expectedVersion; 0 also when it is undefined
  guarded,       \* whether the filter holds the $or on the version
  attempt,       \* the retries a set has made
  got, wait,     \* the document a read has found and the ticks since
  effects,       \* how often a call has changed the document
  changes,       \* the number of changes so far
  own,           \* per instance, the change its last finished write made
  floor,         \* own when a call's read was sent
  seen,          \* the change a call has made
  stale          \* per instance and per read, the ticks since the document
                 \* it holds was replaced

document == <<doc, effects, changes>>
caching == <<cache, age>>
call == <<op, at, expect>>
reading == <<got, wait, floor>>

vars == <<doc, cache, age, pc, op, at, expect, guarded, attempt, got, wait,
          effects, changes, own, floor, seen, stale>>

\* change numbers the writes; version 0 stands for no document.
Data == Calls \cup {None, Old}
Docs == [ver : Nat, creds : Data, keys : Data, change : Nat]
NoDoc == [ver |-> 0, creds |-> None, keys |-> None, change |-> 0]
OldDoc == [ver |-> 1, creds |-> Old, keys |-> Old, change |-> 1]

Sets == {"creds", "keys", "both"}
Finished == {"acked", "rejected"}
Pcs == {"idle", "cache", "find", "found", "update", "insert", "sleep",
        "delete", "touch", "written"} \cup Finished

TypeOK ==
  /\ doc \in Docs
  /\ cache \in [Instances -> Docs]
  /\ age \in [Instances -> 0..CacheTtl + 1]
  /\ pc \in [Calls -> Pcs]
  /\ op \in [Calls -> AllOps]
  /\ at \in [Calls -> Instances]
  /\ expect \in [Calls -> Nat]
  /\ guarded \in [Calls -> BOOLEAN]
  /\ attempt \in [Calls -> 0..MaxRetries + 1]
  /\ got \in [Calls -> Docs]
  /\ wait \in [Calls -> 0..Latency]
  /\ effects \in [Calls -> Nat]
  /\ changes \in Nat
  /\ own \in [Instances -> Nat]
  /\ floor \in [Calls -> Nat]
  /\ seen \in [Calls -> Nat]
  /\ stale \in [Instances \cup Calls -> Nat]

Init ==
  /\ doc \in {NoDoc, OldDoc}
  /\ cache = [i \in Instances |-> NoDoc]
  /\ age = [i \in Instances |-> 0]
  /\ pc = [c \in Calls |-> "idle"]
  /\ op = [c \in Calls |-> "get"]
  /\ \E i \in Instances : at = [c \in Calls |-> i]
  /\ expect = [c \in Calls |-> 0]
  /\ guarded = [c \in Calls |-> FALSE]
  /\ attempt = [c \in Calls |-> 0]
  /\ got = [c \in Calls |-> NoDoc]
  /\ wait = [c \in Calls |-> 0]
  /\ effects = [c \in Calls |-> 0]
  /\ changes = 1
  /\ own = [i \in Instances |-> 0]
  /\ floor = [c \in Calls |-> 0]
  /\ seen = [c \in Calls |-> 0]
  /\ stale = [x \in Instances \cup Calls |-> 0]

Goes(c, where) == pc' = [pc EXCEPT ![c] = where]

-----------------------------------------------------------------------------
(* get                                                                     *)

\* A call of an operation on an instance; a set may come without an
\* expectedVersion, which leaves the filter unguarded.
Begin(c, o, i, e) ==
  /\ pc[c] = "idle"
  /\ op' = [op EXCEPT ![c] = o]
  /\ at' = [at EXCEPT ![c] = i]
  /\ expect' = [expect EXCEPT ![c] = IF o \in Sets THEN e ELSE 0]
  /\ \E g \in BOOLEAN :
       /\ guarded' = [guarded EXCEPT ![c] = g]
       /\ g => o \in Sets
       /\ ~g => expect'[c] = 0
  /\ Goes(c, CASE o = "get" -> "cache"
               [] o \in Sets -> "update"
               [] OTHER -> o)
  /\ UNCHANGED <<document, caching, attempt, reading, own, seen, stale>>

\* deserializeDocument throws on a document without creds.
Answers(c, d) == Goes(c, IF d.ver # 0 /\ d.creds = None THEN "rejected" ELSE "acked")

\* Mutant: a hit renews the timestamp.
ReadCacheSliding(c) ==
  /\ pc[c] = "cache"
  /\ LET i == at[c] IN
       IF cache[i] # NoDoc /\ age[i] <= CacheTtl
         THEN Answers(c, cache[i]) /\ age' = [age EXCEPT ![i] = 0] /\ UNCHANGED cache
         ELSE /\ Goes(c, "find")
              /\ cache' = [cache EXCEPT ![i] = NoDoc]
              /\ UNCHANGED age
  /\ UNCHANGED <<document, call, guarded, attempt, reading, own, seen, stale>>

\* getFromCache: an entry older than the TTL is dropped.
ReadCache(c) ==
  /\ pc[c] = "cache"
  /\ LET i == at[c] IN
       IF cache[i] # NoDoc /\ age[i] <= CacheTtl
         THEN Answers(c, cache[i]) /\ UNCHANGED cache
         ELSE /\ Goes(c, "find")
              /\ cache' = [cache EXCEPT ![i] = NoDoc]
  /\ UNCHANGED <<document, age, call, guarded, attempt, reading, own, seen,
                 stale>>

\* findOne, at the server.
Find(c) ==
  /\ pc[c] = "find"
  /\ \/ Goes(c, "found") /\ got' = [got EXCEPT ![c] = doc]
     \/ "network" \in Faults /\ Goes(c, "rejected") /\ UNCHANGED got
  /\ wait' = [wait EXCEPT ![c] = 0]
  /\ floor' = [floor EXCEPT ![c] = own[at[c]]]
  /\ stale' = [stale EXCEPT ![c] = 0]
  /\ UNCHANGED <<document, caching, call, guarded, attempt, own, seen>>

\* Its answer: a document goes into the cache, whatever has happened since.
Found(c) ==
  /\ pc[c] = "found"
  /\ Answers(c, got[c])
  /\ IF got[c] = NoDoc
       THEN UNCHANGED <<caching, stale>>
       ELSE /\ cache' = [cache EXCEPT ![at[c]] = got[c]]
            /\ age' = [age EXCEPT ![at[c]] = 0]
            /\ stale' = [stale EXCEPT ![at[c]] = stale[c]]
  /\ got' = [got EXCEPT ![c] = NoDoc]
  /\ UNCHANGED <<document, call, guarded, attempt, wait, floor, own, seen>>

-----------------------------------------------------------------------------
(* set                                                                     *)

\* Mutant: the document is replaced, not its fields set.
WriteReplaces(c) ==
  /\ doc' = [ver    |-> expect[c] + 1,
             creds  |-> IF op[c] \in {"creds", "both"} THEN c ELSE None,
             keys   |-> IF op[c] \in {"keys", "both"} THEN c ELSE None,
             change |-> changes + 1]
  /\ effects' = [effects EXCEPT ![c] = @ + 1]
  /\ changes' = changes + 1
  /\ seen' = [seen EXCEPT ![c] = changes + 1]

\* $set and $setOnInsert, on the document or on none: the version becomes the
\* expected one plus one, a field given is replaced as a whole.
Write(c) ==
  /\ doc' = [ver    |-> expect[c] + 1,
             creds  |-> IF op[c] \in {"creds", "both"} THEN c ELSE doc.creds,
             keys   |-> IF op[c] \in {"keys", "both"} THEN c ELSE doc.keys,
             change |-> changes + 1]
  /\ effects' = [effects EXCEPT ![c] = @ + 1]
  /\ changes' = changes + 1
  /\ seen' = [seen EXCEPT ![c] = changes + 1]

\* The filter {_id, $or: [version <= expectedVersion, no version]}.
Matches(c) == doc.ver # 0 /\ (guarded[c] => doc.ver <= expect[c])

\* Mutant: an error that may hide a success is retried like E11000.
FailRetried(c) ==
  /\ "network" \in Faults
  /\ Goes(c, IF attempt[c] <= MaxRetries THEN "sleep" ELSE "rejected")
  /\ attempt' = [attempt EXCEPT ![c] = IF @ <= MaxRetries THEN @ + 1 ELSE @]

\* Any other error than E11000 ends the loop.
Fail(c) ==
  /\ "network" \in Faults
  /\ Goes(c, "rejected")
  /\ UNCHANGED attempt

\* findOneAndUpdate with upsert; a lost answer hides whether it took effect.
Update(c) ==
  /\ pc[c] = "update"
  /\ \/ /\ Matches(c)
        /\ Write(c)
        /\ ((Goes(c, "written") /\ UNCHANGED attempt) \/ Fail(c))
     \/ /\ ~Matches(c)
        /\ Goes(c, "insert")
        /\ UNCHANGED <<document, seen, attempt>>
     \/ Fail(c) /\ UNCHANGED <<document, seen>>
  /\ UNCHANGED <<caching, call, guarded, reading, own, stale>>

\* E11000: the retry, after a delay, goes without the condition on the version.
DuplicateKey(c) ==
  IF attempt[c] <= MaxRetries
    THEN /\ Goes(c, "sleep")
         /\ attempt' = [attempt EXCEPT ![c] = @ + 1]
         /\ guarded' = [guarded EXCEPT ![c] = FALSE]
    ELSE Goes(c, "rejected") /\ UNCHANGED <<attempt, guarded>>

\* The upsert inserts, unless a document has the _id: one that the filter did
\* not match, or one that another upsert has inserted meanwhile.
Insert(c) ==
  /\ pc[c] = "insert"
  /\ \/ /\ doc.ver = 0
        /\ Write(c)
        /\ ((Goes(c, "written") /\ UNCHANGED attempt) \/ Fail(c))
        /\ UNCHANGED guarded
     \/ /\ doc.ver # 0
        /\ DuplicateKey(c)
        /\ UNCHANGED <<document, seen>>
  /\ UNCHANGED <<caching, call, reading, own, stale>>

Retry(c) ==
  /\ pc[c] = "sleep"
  /\ Goes(c, "update")
  /\ UNCHANGED <<document, caching, call, guarded, attempt, reading, own, seen,
                 stale>>

-----------------------------------------------------------------------------
(* delete, touch, and the end of every write                               *)

Remove(c) ==
  /\ doc' = NoDoc
  /\ effects' = [effects EXCEPT ![c] = @ + 1]
  /\ changes' = changes + 1
  /\ seen' = [seen EXCEPT ![c] = changes + 1]

Delete(c) ==
  /\ pc[c] = "delete"
  /\ \/ Remove(c) /\ ((Goes(c, "written") /\ UNCHANGED attempt) \/ Fail(c))
     \/ Fail(c) /\ UNCHANGED <<document, seen>>
  /\ UNCHANGED <<caching, call, guarded, reading, own, stale>>

\* touch changes expiresAt only, which no caller sees.
Touch(c) ==
  /\ pc[c] = "touch"
  /\ Goes(c, "written") \/ ("network" \in Faults /\ Goes(c, "rejected"))
  /\ UNCHANGED <<document, caching, call, guarded, attempt, reading, own, seen,
                 stale>>

Newest(c) == IF seen[c] > own[at[c]] THEN seen[c] ELSE own[at[c]]

\* Mutant: a write leaves the cache alone.
FinishKeepingCache(c) ==
  /\ pc[c] = "written"
  /\ Goes(c, "acked")
  /\ own' = [own EXCEPT ![at[c]] = Newest(c)]
  /\ UNCHANGED <<document, caching, call, guarded, attempt, reading, seen,
                 stale>>

\* The answer to the write arrives.  The version it carries is the one just
\* written, so VersionMismatchError is not thrown; the cache is invalidated.
Finish(c) ==
  /\ pc[c] = "written"
  /\ Goes(c, "acked")
  /\ cache' = [cache EXCEPT ![at[c]] = NoDoc]
  /\ own' = [own EXCEPT ![at[c]] = Newest(c)]
  /\ UNCHANGED <<document, age, call, guarded, attempt, reading, seen, stale>>

-----------------------------------------------------------------------------
(* Time                                                                    *)

\* cleanupCache, which nothing calls on its own.
CleanupCache(i) ==
  /\ cache[i] # NoDoc
  /\ age[i] > CacheTtl
  /\ cache' = [cache EXCEPT ![i] = NoDoc]
  /\ UNCHANGED <<document, age, pc, call, guarded, attempt, reading, own, seen,
                 stale>>

\* What instance or read x holds.
Holding(x) == IF x \in Instances THEN cache[x] ELSE got[x]

\* A tick passes; no answer to a read takes longer than Latency.
Tick ==
  /\ \A c \in Calls : pc[c] = "found" => wait[c] < Latency
  /\ age' = [i \in Instances |->
       IF cache[i] = NoDoc THEN 0
       ELSE IF age[i] <= CacheTtl THEN age[i] + 1 ELSE age[i]]
  /\ wait' = [c \in Calls |-> IF pc[c] = "found" THEN wait[c] + 1 ELSE wait[c]]
  /\ stale' = [x \in Instances \cup Calls |->
       IF Holding(x) = NoDoc \/ Holding(x) = doc THEN 0
       ELSE IF stale[x] <= CacheTtl + Latency THEN stale[x] + 1
       ELSE stale[x]]
  /\ UNCHANGED <<document, cache, pc, call, guarded, attempt, got, floor, own,
                 seen>>

\* The TTL index removes the document defaultTtl seconds after its last set
\* or touch, which may be in the middle of any call.
Expire ==
  /\ "expiry" \in Faults
  /\ doc # NoDoc
  /\ doc' = NoDoc
  /\ UNCHANGED <<effects, changes, caching, pc, call, guarded, attempt,
                 reading, own, seen, stale>>

-----------------------------------------------------------------------------

CallStep(c) ==
  \/ ReadCache(c) \/ Find(c) \/ Found(c)
  \/ Update(c) \/ Insert(c) \/ Retry(c)
  \/ Delete(c) \/ Touch(c)
  \/ Finish(c)

Next ==
  \/ \E c \in Calls, o \in Ops, i \in Instances, e \in Expected : Begin(c, o, i, e)
  \/ \E c \in Calls : CallStep(c)
  \/ \E i \in Instances : CleanupCache(i)
  \/ Tick
  \/ Expire

Spec == Init /\ [][Next]_vars

-----------------------------------------------------------------------------
(* Properties                                                              *)

IsWrite(c) == op[c] \in Sets \cup {"delete"}

\* However often it is retried, a set or a delete changes the document at most
\* once, and it has done so when it returns a result (store.ts:369-442).
TakesEffectOnce ==
  \A c \in Calls :
    /\ effects[c] <= 1
    /\ IsWrite(c) /\ pc[c] \in {"written", "acked"} => effects[c] = 1

\* What the cache may still serve was the stored document no longer ago than
\* its TTL and the time an answer takes (store.ts:81, 106-131).
ServedIsRecent ==
  \A i \in Instances :
    (cache[i] # NoDoc /\ age[i] <= CacheTtl) => stale[i] <= CacheTtl + Latency

\* The cached document is older than what the instance itself has written.
Lags(i) == cache[i] # NoDoc /\ cache[i].change < own[i]

\* An instance's cache falls behind the instance's own writes in one way only:
\* the answer to a read fills it that a write of the same instance has
\* overtaken, invalidation included (store.ts:274-282, 422-423).  Then
\* ServedIsRecent bounds for how long; without such a read every get finds what
\* its own instance has written.
OwnWritesAreCached ==
  [][\A i \in Instances :
       Lags(i)' /\ ~Lags(i) =>
         \E c \in Calls : at[c] = i /\ Found(c) /\ floor[c] # own[i]]_vars

\* "Tentativa de write com versão desatualizada" is to end in a
\* VersionMismatchError (docs/ERROR_CODES.md:123-125; the same sequence in
\* docs/diagrams/versioning.md:133-146): no set that is given an expectedVersion
\* replaces a document of a newer version.  A set without one is 0 here.
StaleSetIsRejected ==
  [][\A c \in Calls :
       (op[c] \in Sets /\ expect[c] > 0 /\ effects'[c] # effects[c])
         => doc.ver <= expect[c]]_vars

\* The abstract register: what is stored, what each write is to do, and how
\* far it is.
Fields == {"creds", "keys"}

Stored == [f \in Fields |-> IF f = "creds" THEN doc.creds ELSE doc.keys]

Target(c) ==
  CASE op[c] \in Sets -> IF op[c] = "both" THEN Fields ELSE {op[c]}
    [] OTHER -> {}

Progress(c) ==
  IF pc[c] = "idle" \/ ~IsWrite(c) THEN "idle"
  ELSE CASE pc[c] = "written"  -> "applied"
         [] pc[c] = "acked"    -> "answered"
         [] pc[c] = "rejected" -> "failed"
         [] OTHER              -> "open"

DR == INSTANCE DocumentRegister
        WITH value <- Stored,
             writes <- [c \in Calls |-> Target(c)],
             status <- [c \in Calls |-> Progress(c)]

\* The store implements its abstract specification: filters, upserts and
\* retries come to one atomic overwrite per call.
ImplementsRegister == DR!DRSpec

=============================================================================
