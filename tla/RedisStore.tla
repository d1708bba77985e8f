----------------------------- MODULE RedisStore -----------------------------
(***************************************************************************)
(* RedisAuthStore (src/redis/store.ts) under useRedisAuthState             *)
(* (src/redis/use-redis-auth-state.ts): one session whose :creds, :keys    *)
(* and :meta several processes read and write on one Redis, each with its  *)
(* own CryptoService.  One Redis command is one step; what a set encrypts  *)
(* is encrypted in the step before its pipeline is sent.                   *)
(*                                                                         *)
(* The creds are known by their identity: the process that created them    *)
(* with initAuthCreds, or Old for those stored before.                     *)
(***************************************************************************)
EXTENDS Crypto, Codec, FiniteSets

CONSTANTS
  Processes, Calls,
  KeyIds,       \* ids of Signal keys
  Encryption, Compression,  \* enableEncryption, enableCompression
  Ttl,          \* ttl.defaultTtl, in ticks
  Settings,     \* sets of what may happen besides calls; a run has one of them
  None, Old, Unknown

ASSUME RedisAssumption ==
  /\ Ttl \in Nat \ {0}
  /\ Processes # {} /\ KeyIds # {} /\ None \notin Processes \cup {Old}
  /\ Encryption \in BOOLEAN /\ Compression \in BOOLEAN
  /\ Settings \subseteq SUBSET {"processes", "failures", "time", "rotation", "touch", "delete"}

VARIABLES
  setting,   \* the member of Settings of this run
  redis,     \* the fields creds, keys and meta
  services,  \* the crypto and codec services of each process
  memory,    \* state.creds of each process
  call,      \* the calls of the hooks
  expected,  \* per key, the call whose value is stored if no set has gone wrong
  blind,     \* whether a stored field has been taken for a missing one
  mishaps    \* whether a write was rejected, the session deleted, or its creds expired

vars == <<setting, redis, services, memory, call, expected, blind, mishaps>>

Names == {"creds", "keys", "meta"}
NoKeys == [k \in KeyIds |-> None]
NoSeal == [key |-> NoKey, compressor |-> "none"]

\* What SETEX stores; a field with ttl 0 is not stored.
Field(val, ver, seal) == [val |-> val, ver |-> ver, seal |-> seal, ttl |-> Ttl]
Absent(f) ==
  [val |-> IF f = "keys" THEN NoKeys ELSE None, ver |-> 0, seal |-> NoSeal, ttl |-> 0]

\* The process that runs, and rotates, where there is only one.
Home == CHOOSE p \in Processes : TRUE

NoRead == [ver |-> 0, creds |-> None, credsVer |-> 0, keys |-> NoKeys, keysVer |-> 0]

Finished == {"done", "rejected"}
Ops == {"start", "keysGet", "saveCreds", "keysSet", "keysDelete", "delete", "touch"}
Writing == {"saveCreds", "keysSet", "keysDelete", "delete"}
Mishaps == {"rejected", "deleted", "expired"}

AnyKey == CHOOSE k \in KeyIds : TRUE

NoCall(p) ==
  [pc |-> "idle", op |-> "keysGet", at |-> p, key |-> AnyKey,
   read |-> NoRead, merged |-> NoKeys, seal |-> NoSeal, failed |-> FALSE]

\* The session was written by a process with the same master key, and has no keys
\* yet or all of them.
Init ==
  /\ setting \in Settings
  /\ LET master == CHOOSE k \in MasterKeys : TRUE
         codec == SelectCompressor(Compression, "snappy", TRUE) IN
     services = [p \in Processes |-> CreateServices(Encryption, master, codec)]
  /\ \E keys \in {NoKeys, [k \in KeyIds |-> Old]} :
       /\ expected = keys
       /\ redis = [creds |-> Field(Old, 1, Seal(services[Home])),
                   keys |-> IF keys = NoKeys THEN Absent("keys")
                            ELSE Field(keys, 2, Seal(services[Home])),
                   meta |-> Field(None, IF keys = NoKeys THEN 1 ELSE 2, NoSeal)]
  /\ call \in [Calls -> {NoCall(p) : p \in
                 IF "processes" \in setting THEN Processes ELSE {Home}}]
  /\ memory = [p \in Processes |-> Old]
  /\ blind = FALSE
  /\ mishaps = {}

-----------------------------------------------------------------------------
Stored(f) == redis[f].ttl > 0
Readable(p, f) == Stored(f) /\ OpensRedis(services[p], redis[f].seal)

\* What getField may return: the field, or nothing, because it is not stored,
\* cannot be opened, or the command failed.
FieldAnswers(p, f) ==
  (IF Readable(p, f) THEN {redis[f]} ELSE {Absent(f)})
    \cup (IF "failures" \in setting THEN {Absent(f)} ELSE {})

Sees(f, answer) == blind' = (blind \/ (Stored(f) /\ answer.ttl = 0))

Goes(c, where) == call' = [call EXCEPT ![c].pc = where]

Running(c) == call[c].pc \notin {"idle"} \cup Finished

\* Each hook function begins with a get, except that the store's own delete and
\* touch are called by the application.  There is no hook to call before the
\* start of the process has returned it.
Begin(c, o, k) ==
  /\ call[c].pc = "idle"
  /\ \A d \in Calls : Running(d) /\ call[d].at = call[c].at =>
       o # "start" /\ call[d].op # "start"
  /\ o \in {"delete", "touch"} => o \in setting
  /\ o \notin {"keysSet", "keysDelete"} => k = AnyKey
  /\ call' = [call EXCEPT ![c].pc = CASE o = "delete" -> "del"
                                      [] o = "touch" -> "expireCreds"
                                      [] OTHER -> "meta",
                          ![c].op = o, ![c].key = k]
  /\ UNCHANGED <<setting, redis, services, memory, expected, blind, mishaps>>

\* get: :meta first; a missing one counts as version 1.
ReadMeta(c) ==
  /\ call[c].pc = "meta"
  /\ call' = [call EXCEPT ![c].pc = "creds",
       ![c].read.ver = IF Stored("meta") THEN redis["meta"].ver ELSE 1]
  /\ UNCHANGED <<setting, redis, services, memory, expected, blind, mishaps>>

\* The command fails: keys.get answers nothing, the others reject.
FailMeta(c) ==
  /\ call[c].pc = "meta" /\ "failures" \in setting
  /\ Goes(c, IF call[c].op = "keysGet" THEN "done" ELSE "rejected")
  /\ UNCHANGED <<setting, redis, services, memory, expected, blind, mishaps>>

\* The two fields are asked for in this order, on one connection.
ReadCreds(c) ==
  /\ call[c].pc = "creds"
  /\ \E answer \in FieldAnswers(call[c].at, "creds") :
       /\ Sees("creds", answer)
       /\ call' = [call EXCEPT ![c].pc = "keys", ![c].read.creds = answer.val,
                               ![c].read.credsVer = answer.ver]
  /\ UNCHANGED <<setting, redis, services, memory, expected, mishaps>>

\* Mutant: both fields are required.
NullGetStrict(r) == r.creds = None \/ r.keys = NoKeys

\* get is null without creds; keys may be missing.
NullGet(r) == r.creds = None

\* What the hook does with the snapshot: saveCreds and keys.set go on to store.set,
\* which reads :keys again if the patch has any.
GoesOn(o) ==
  CASE o \in {"start", "keysGet"} -> "done" [] o = "saveCreds" -> "field" [] OTHER -> "merge"

\* Mutant: :meta is read with the fields, not before them.
ReadKeysAndMeta(c) ==
  LET p == call[c].at IN
  /\ call[c].pc = "keys"
  /\ \E answer \in FieldAnswers(p, "keys") :
       LET r == [call[c].read EXCEPT !.keys = answer.val, !.keysVer = answer.ver,
                                     !.ver = redis["meta"].ver] IN
       /\ Sees("keys", answer)
       /\ call' = [call EXCEPT
            ![c].pc = GoesOn(call[c].op),
            ![c].read = IF NullGet(r) THEN NoRead ELSE r,
            ![c].seal = IF call[c].op = "saveCreds" THEN Seal(services[p]) ELSE NoSeal]
       /\ memory' = IF call[c].op # "start" THEN memory
                    ELSE [memory EXCEPT ![p] = IF NullGet(r) THEN p ELSE r.creds]
  /\ UNCHANGED <<setting, redis, services, expected, mishaps>>

\* A start takes over the creds of the snapshot or makes new ones.
ReadKeys(c) ==
  LET p == call[c].at IN
  /\ call[c].pc = "keys"
  /\ \E answer \in FieldAnswers(p, "keys") :
       LET r == [call[c].read EXCEPT !.keys = answer.val, !.keysVer = answer.ver] IN
       /\ Sees("keys", answer)
       /\ call' = [call EXCEPT
            ![c].pc = GoesOn(call[c].op),
            ![c].read = IF NullGet(r) THEN NoRead ELSE r,
            ![c].seal = IF call[c].op = "saveCreds" THEN Seal(services[p]) ELSE NoSeal]
       /\ memory' = IF call[c].op # "start" THEN memory
                    ELSE [memory EXCEPT ![p] = IF NullGet(r) THEN p ELSE r.creds]
  /\ UNCHANGED <<setting, redis, services, expected, mishaps>>

\* Mutant: the patch replaces the stored keys.
MergeReplacing(c) ==
  /\ call[c].pc = "merge"
  /\ call' = [call EXCEPT ![c].pc = "field",
       ![c].merged = [NoKeys EXCEPT ![call[c].key] =
                        IF call[c].op = "keysDelete" THEN None ELSE c],
       ![c].seal = Seal(services[call[c].at])]
  /\ UNCHANGED <<setting, redis, services, memory, expected, blind, mishaps>>

\* set reads :keys again and merges the patch into them.
Merge(c) ==
  /\ call[c].pc = "merge"
  /\ \E answer \in FieldAnswers(call[c].at, "keys") :
       /\ Sees("keys", answer)
       /\ call' = [call EXCEPT ![c].pc = "field",
            ![c].merged = [answer.val EXCEPT ![call[c].key] =
                             IF call[c].op = "keysDelete" THEN None ELSE c],
            ![c].seal = Seal(services[call[c].at])]
  /\ UNCHANGED <<setting, redis, services, memory, expected, mishaps>>

\* (expectedVersion ?? 0) + 1.
NewVersion(c) == call[c].read.ver + 1

\* SETEX of the field; a command that fails leaves the rest of the pipeline to
\* be carried out.
WriteField(c) ==
  LET f == IF call[c].op = "saveCreds" THEN "creds" ELSE "keys"
      val == IF f = "creds" THEN memory[call[c].at] ELSE call[c].merged IN
  /\ call[c].pc = "field"
  /\ \/ /\ redis' = [redis EXCEPT ![f] = Field(val, NewVersion(c), call[c].seal)]
        /\ Goes(c, "version")
     \/ /\ "failures" \in setting
        /\ call' = [call EXCEPT ![c].pc = "version", ![c].failed = TRUE]
        /\ UNCHANGED redis
  /\ UNCHANGED <<setting, services, memory, expected, blind, mishaps>>

\* The call has ended: what it was to change is settled, or unknown.
Settle(c, failed) ==
  /\ call' = [call EXCEPT ![c] = [NoCall(@.at) EXCEPT !.pc =
                                    IF failed THEN "rejected" ELSE "done"]]
  /\ expected' = CASE call[c].op = "delete" ->
                        IF failed THEN [k \in KeyIds |-> Unknown] ELSE NoKeys
                   [] call[c].op \in {"keysSet", "keysDelete"} ->
                        [expected EXCEPT ![call[c].key] =
                           IF failed THEN Unknown ELSE call[c].merged[call[c].key]]
                   [] OTHER -> expected
  /\ mishaps' = mishaps \cup (IF failed THEN {"rejected"} ELSE {})
                         \cup (IF call[c].op = "delete" THEN {"deleted"} ELSE {})

WriteMeta(c) ==
  /\ call[c].pc = "version"
  /\ \/ /\ redis' = [redis EXCEPT !["meta"] = Field(None, NewVersion(c), NoSeal)]
        /\ Settle(c, call[c].failed)
     \/ /\ "failures" \in setting
        /\ Settle(c, TRUE)
        /\ UNCHANGED redis
  /\ UNCHANGED <<setting, services, memory, blind>>

\* delete: one DEL of the three.
Delete(c) ==
  /\ call[c].pc = "del"
  /\ redis' = [f \in Names |-> Absent(f)]
  /\ Settle(c, FALSE)
  /\ UNCHANGED <<setting, services, memory, blind>>

\* Mutant: the data is kept alive, its version is not.
TouchFields(c) ==
  /\ \E f \in {"creds", "keys"} :
       /\ call[c].pc = CASE f = "creds" -> "expireCreds" [] f = "keys" -> "expireKeys"
       /\ redis' = [redis EXCEPT ![f].ttl = IF @ > 0 THEN Ttl ELSE 0]
       /\ Goes(c, CASE f = "creds" -> "expireKeys" [] f = "keys" -> "done")
  /\ UNCHANGED <<setting, services, memory, expected, blind, mishaps>>

\* touch: three EXPIREs sent together; EXPIRE does nothing to what is not stored.
Touch(c) ==
  /\ \E f \in Names :
       /\ call[c].pc = CASE f = "creds" -> "expireCreds" [] f = "keys" -> "expireKeys"
                         [] f = "meta" -> "expireMeta"
       /\ redis' = [redis EXCEPT ![f].ttl = IF @ > 0 THEN Ttl ELSE 0]
       /\ Goes(c, CASE f = "creds" -> "expireKeys" [] f = "keys" -> "expireMeta"
                    [] f = "meta" -> "done")
  /\ UNCHANGED <<setting, services, memory, expected, blind, mishaps>>

-----------------------------------------------------------------------------
Quiet == \A c \in Calls : ~Running(c)

\* Time passes, for Redis and for the keys.  Bound: no call lasts a tick.
Tick ==
  /\ "time" \in setting /\ Quiet
  /\ redis' = [f \in Names |-> IF redis[f].ttl <= 1 THEN Absent(f)
                               ELSE [redis[f] EXCEPT !.ttl = @ - 1]]
  /\ services' = [p \in Processes |-> AgeKeys(services[p])]
  /\ expected' = IF redis["keys"].ttl <= 1 THEN NoKeys ELSE expected
  /\ mishaps' = mishaps \cup (IF redis["creds"].ttl = 1 THEN {"expired"} ELSE {})
  /\ UNCHANGED <<setting, memory, call, blind>>

\* The application rotates: a key is replaced a TTL before it expires.
Rotate(k) ==
  /\ "rotation" \in setting
  /\ k # services[Home].active
  /\ services[Home].age[services[Home].active] + Ttl <= KeyLife
  /\ services' = [services EXCEPT ![Home] = RotateKey(@, k)]
  /\ UNCHANGED <<setting, redis, memory, call, expected, blind, mishaps>>

Cleanup ==
  /\ "rotation" \in setting
  /\ services' = [services EXCEPT ![Home] = CleanupExpiredKeys(@)]
  /\ UNCHANGED <<setting, redis, memory, call, expected, blind, mishaps>>

Step(c) ==
  \/ \E o \in Ops, k \in KeyIds : Begin(c, o, k)
  \/ ReadMeta(c) \/ FailMeta(c) \/ ReadCreds(c) \/ ReadKeys(c) \/ Merge(c)
  \/ WriteField(c) \/ WriteMeta(c) \/ Delete(c) \/ Touch(c)

Next ==
  \/ \E c \in Calls : Step(c)
  \/ Tick
  \/ \E k \in MasterKeys : Rotate(k)
  \/ Cleanup

Spec == Init /\ [][Next]_vars

\* The calls that change the session are made in turn, in whichever process; a
\* start may overlap with them.
WritersTakeTurns ==
  \A c \in Calls :
    call[c].pc = "idle" /\ call'[c].pc # "idle" /\ call'[c].op \in Writing =>
      \A d \in Calls \ {c} :
        call[d].op \in Writing => call[d].pc \in {"idle"} \cup Finished

-----------------------------------------------------------------------------
FieldOK(f) ==
  /\ redis[f].val \in IF f = "keys" THEN [KeyIds -> Calls \cup {None, Old}]
                      ELSE Processes \cup {None, Old}
  /\ redis[f].ver \in Nat
  /\ redis[f].ttl \in 0..Ttl

\* The state is well formed, and every process can encrypt.
TypeOK ==
  /\ setting \in Settings
  /\ \A f \in Names : FieldOK(f)
  /\ \A p \in Processes :
       /\ services[p] \in Services
       /\ OneActiveKey(services[p])
       /\ memory[p] \in Processes \cup {Old}
  /\ \A c \in Calls : call[c].op \in Ops /\ call[c].at \in Processes
  /\ blind \in BOOLEAN /\ mishaps \subseteq Mishaps

\* get reads :meta before the fields and set writes it after them, so that a
\* reader that meets a set half way is never given a version whose data it has
\* not seen.  Writers take turns, and the creds do not expire: without them get is
\* null whatever keys are left, and the next set begins again with version 1.
VersionNotAhead ==
  \A c \in Calls :
    call[c].pc \in Finished \cup {"merge", "field"} /\ ~blind /\ mishaps = {} =>
      LET r == call[c].read IN
      r.ver <= 1 \/ r.ver <= r.credsVer \/ r.ver <= r.keysVer

\* A set merges into what is stored: no key is lost, and no deleted one stays,
\* unless a read was blind.  Writers take turns.
KeysMergeKeeps ==
  Quiet /\ ~blind =>
    \A k \in KeyIds : expected[k] # Unknown => redis["keys"].val[k] = expected[k]

\* :meta does not expire before the data it is about, whichever field was
\* written last: the version is not started anew over data that is still there.
MetaOutlivesFields ==
  Quiet /\ mishaps \subseteq {"expired"} =>
    redis["creds"].ttl <= redis["meta"].ttl /\ redis["keys"].ttl <= redis["meta"].ttl

\* Rotating a TTL ahead of the expiry, whatever is cleaned up and when, leaves
\* every stored field readable: what a dropped key has encrypted has expired.
FieldsAreReadable ==
  \A f \in {"creds", "keys"} : Stored(f) =>
    Readable(Home, f)

\* A session is never readable in MongoDB alone: whatever keys were added,
\* rotated and dropped, and whoever wrote, what opens there opens in Redis.
MongoOpensNoMore ==
  \A p \in Processes, k \in MasterKeys \cup {NoKey}, c \in Compressors :
    LET e == [key |-> k, compressor |-> c] IN
    OpensMongo(services[p], e) => OpensRedis(services[p], e)

\* The store's state is well formed, and what it holds can be read, and rewritten.
RedisInv == TypeOK /\ FieldsAreReadable /\ MongoOpensNoMore /\ RewritingKeeps

\* The identity of a session is not replaced while it is stored: only a blind
\* read makes a starting process register anew over it.
IdentityIsKept ==
  [][redis["creds"].val # None /\ redis'["creds"].val # None /\ ~blind =>
       redis'["creds"].val = redis["creds"].val]_vars
=============================================================================
