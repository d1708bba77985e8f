--------------------------- MODULE RedisStoreProofs ---------------------------
(* Proofs about RedisStore and the services of Crypto, for any processes,     *)
(* calls, keys and master keys, and any TTL and key life.                     *)
EXTENDS RedisStore, TLAPS

-----------------------------------------------------------------------------
(* The services of a process                                               *)

\* A key that is added is the active one, and alone flagged.
LEMMA KeyAdded ==
  ASSUME NEW r \in Services, NEW k \in MasterKeys, NEW n, n = AddKey(r, k)
  PROVE  /\ n \in Services
         /\ n.enabled = r.enabled /\ n.compressor = r.compressor
         /\ n.active = k /\ n.known = r.known \cup {k}
         /\ n.flagged = (r.flagged \ {r.active}) \cup {k}
         /\ n.age[k] = 0
         /\ \A i \in MasterKeys : i # k => n.age[i] = r.age[i]
<1>1. 0 \in 0..(KeyLife + 1)
  BY CryptoAssumption
<1>2. [r.age EXCEPT ![k] = 0] \in [MasterKeys -> 0..(KeyLife + 1)]
  BY <1>1 DEF Services
<1>3. n = [enabled |-> r.enabled, known |-> r.known \cup {k},
           flagged |-> (r.flagged \ {r.active}) \cup {k}, active |-> k,
           age |-> [r.age EXCEPT ![k] = 0], compressor |-> r.compressor]
  BY DEF AddKey, Services
<1> QED
  BY <1>2, <1>3 DEF Services

\* One key stays active when another is added.
LEMMA AddedIsActive ==
  ASSUME NEW r \in Services, OneActiveKey(r), NEW k \in MasterKeys, NEW n, n = AddKey(r, k)
  PROVE  OneActiveKey(n)
<1>1. n.active = k /\ n.known = r.known \cup {k} /\ n.flagged = (r.flagged \ {r.active}) \cup {k}
  BY KeyAdded
<1> QED
  BY <1>1 DEF OneActiveKey

\* A process starts with one key, its master key.
LEMMA ServicesMade ==
  ASSUME NEW enabled \in BOOLEAN, NEW k \in MasterKeys, NEW compressor \in Compressors,
         NEW n, n = CreateServices(enabled, k, compressor)
  PROVE  /\ n \in Services /\ OneActiveKey(n)
         /\ n.enabled = enabled /\ n.compressor = compressor /\ n.active = k
<1> DEFINE r == [enabled |-> enabled, known |-> {}, flagged |-> {}, active |-> NoKey,
                 age |-> [i \in MasterKeys |-> 0], compressor |-> compressor]
<1>1. 0 \in 0..(KeyLife + 1)
  BY CryptoAssumption
<1>2. r \in Services
  BY <1>1 DEF Services
<1>3. n = AddKey(r, k)
  BY DEF CreateServices, Initialize
<1>4. r.enabled = enabled /\ r.compressor = compressor /\ r.known = {} /\ r.flagged = {}
  OBVIOUS
<1> HIDE DEF r
<1>5. n \in Services /\ n.enabled = enabled /\ n.compressor = compressor /\ n.active = k
  BY <1>2, <1>3, <1>4, KeyAdded
<1>6. n.known = {k} /\ n.flagged = {k}
  BY <1>2, <1>3, <1>4, KeyAdded
<1> QED
  BY <1>5, <1>6 DEF OneActiveKey

\* Cleaning up drops keys that have expired, and nothing else.
LEMMA KeysCleaned ==
  ASSUME NEW r \in Services, NEW n, n = CleanupExpiredKeys(r)
  PROVE  /\ n \in Services
         /\ n.enabled = r.enabled /\ n.compressor = r.compressor
         /\ n.active = r.active /\ n.flagged = r.flagged /\ n.age = r.age
         /\ n.known = {k \in r.known : ~KeyExpired(r, k) \/ k \in r.flagged}
<1>1. n = [enabled |-> r.enabled,
           known |-> {k \in r.known : ~KeyExpired(r, k) \/ k \in r.flagged},
           flagged |-> r.flagged, active |-> r.active, age |-> r.age,
           compressor |-> r.compressor]
  BY DEF CleanupExpiredKeys, Services
<1> QED
  BY <1>1 DEF Services

\* A key ages by a tick, until it has expired.
LEMMA KeysAged ==
  ASSUME NEW r \in Services, NEW n, n = AgeKeys(r)
  PROVE  /\ n \in Services
         /\ n.enabled = r.enabled /\ n.compressor = r.compressor
         /\ n.active = r.active /\ n.flagged = r.flagged /\ n.known = r.known
         /\ \A k \in MasterKeys : n.age[k] <= r.age[k] + 1
<1> DEFINE older == [k \in MasterKeys |-> IF r.age[k] > KeyLife THEN r.age[k] ELSE r.age[k] + 1]
<1>1. KeyLife \in Nat /\ \A k \in MasterKeys : r.age[k] \in 0..(KeyLife + 1)
  BY CryptoAssumption DEF Services
<1>2. older \in [MasterKeys -> 0..(KeyLife + 1)]
  BY <1>1
<1>3. ASSUME NEW k \in MasterKeys PROVE older[k] <= r.age[k] + 1
  <2>1. r.age[k] \in Int
    BY <1>1
  <2>2. older[k] = r.age[k] \/ older[k] = r.age[k] + 1
    OBVIOUS
  <2> QED
    BY <2>1, <2>2
<1>4. n = [enabled |-> r.enabled, known |-> r.known, flagged |-> r.flagged,
           active |-> r.active, age |-> older, compressor |-> r.compressor]
  BY DEF AgeKeys, Services
<1> HIDE DEF older
<1> QED
  BY <1>2, <1>3, <1>4 DEF Services

-----------------------------------------------------------------------------
(* The types of everything                                                 *)

Seals == [key : MasterKeys \cup {NoKey}, compressor : Compressors]
KeyVals == [KeyIds -> Calls \cup {None, Old}]
CredVals == Processes \cup {None, Old}
Vals(f) == IF f = "keys" THEN KeyVals ELSE CredVals
Fields(vals) == [val : vals, ver : Nat, seal : Seals, ttl : 0..Ttl]
Reads == [ver : Nat, creds : CredVals, credsVer : Nat, keys : KeyVals, keysVer : Nat]
PCs == {"idle", "meta", "creds", "keys", "merge", "field", "version", "del",
        "expireCreds", "expireKeys", "expireMeta", "done", "rejected"}
CallRecs == [pc : PCs, op : Ops, at : Processes, key : KeyIds, read : Reads,
             merged : KeyVals, seal : Seals, failed : BOOLEAN]

Merging == {"keysSet", "keysDelete"}

\* Which calls reach which steps.
OpFits(r) ==
  /\ r.pc = "merge" => r.op \in Merging
  /\ r.pc \in {"field", "version"} => r.op \in Merging \cup {"saveCreds"}
  /\ r.pc \in {"meta", "creds", "keys"} => r.op \notin {"touch", "delete"}
  /\ r.pc = "del" => r.op = "delete"
  /\ r.pc \in {"expireCreds", "expireKeys", "expireMeta"} => r.op = "touch"
  /\ r.failed => r.pc = "version"

RedisShape ==
  /\ redis \in [Names -> Fields(KeyVals \cup CredVals)]
  /\ \A f \in Names : redis[f] \in Fields(Vals(f))

CallShape ==
  /\ call \in [Calls -> CallRecs]
  /\ \A c \in Calls : OpFits(call[c])

RestShape ==
  /\ setting \in Settings
  /\ services \in [Processes -> Services]
  /\ \A p \in Processes : OneActiveKey(services[p])
  /\ memory \in [Processes -> Processes \cup {Old}]
  /\ expected \in [KeyIds -> Calls \cup {None, Old, Unknown}]
  /\ blind \in BOOLEAN /\ mishaps \subseteq Mishaps

Shape == RedisShape /\ CallShape /\ RestShape

LEMMA ShapeIsType == Shape => TypeOK
<1> SUFFICES ASSUME Shape PROVE TypeOK
  OBVIOUS
<1>1. \A f \in Names : FieldOK(f)
  BY DEF Shape, RedisShape, Fields, Vals, KeyVals, CredVals, FieldOK
<1>2. \A c \in Calls : call[c].op \in Ops /\ call[c].at \in Processes
  BY DEF Shape, CallShape, CallRecs
<1> QED
  BY <1>1, <1>2 DEF Shape, RestShape, TypeOK

\* Setting a field to what it may hold.
LEMMA FieldSet ==
  ASSUME RedisShape, NEW f \in Names, NEW v \in Fields(Vals(f)),
         redis' = [redis EXCEPT ![f] = v]
  PROVE  /\ RedisShape'
         /\ redis'[f] = v
         /\ \A g \in Names : g # f => redis'[g] = redis[g]
<1>1. v \in Fields(KeyVals \cup CredVals)
  BY DEF Fields, Vals
<1>2. redis' \in [Names -> Fields(KeyVals \cup CredVals)]
  BY <1>1 DEF RedisShape
<1>3. redis'[f] = v /\ \A g \in Names : g # f => redis'[g] = redis[g]
  BY DEF RedisShape
<1> QED
  BY <1>2, <1>3 DEF RedisShape

LEMMA Homes == Home \in Processes /\ AnyKey \in KeyIds
BY RedisAssumption DEF Home, AnyKey

LEMMA NoKeysType == NoKeys \in KeyVals /\ \A k \in KeyIds : NoKeys[k] = None
BY DEF NoKeys, KeyVals

\* What is absent is of the type of its field.
LEMMA AbsentType ==
  ASSUME NEW f \in Names, NEW a, a = Absent(f)
  PROVE  /\ a \in Fields(Vals(f))
         /\ a.ttl = 0 /\ a.ver = 0
         /\ a.val = IF f = "keys" THEN NoKeys ELSE None
<1>1. NoSeal \in Seals /\ 0 \in 0..Ttl
  BY RedisAssumption DEF NoSeal, Seals, Compressors
<1> QED
  BY <1>1, NoKeysType DEF Absent, Fields, Vals, CredVals

\* So is what SETEX stores.
LEMMA FieldType ==
  ASSUME NEW f \in Names, NEW val \in Vals(f), NEW ver \in Nat, NEW seal \in Seals,
         NEW a, a = Field(val, ver, seal)
  PROVE  /\ a \in Fields(Vals(f))
         /\ a.val = val /\ a.ver = ver /\ a.seal = seal /\ a.ttl = Ttl /\ Ttl > 0
<1>1. Ttl \in 0..Ttl /\ Ttl > 0
  BY RedisAssumption
<1> QED
  BY <1>1 DEF Field, Fields

LEMMA SealType ==
  ASSUME NEW r \in Services, NEW s, s = Seal(r)
  PROVE  /\ s \in Seals
         /\ s.compressor = r.compressor
         /\ s.key = IF r.enabled THEN r.active ELSE NoKey
BY DEF Seal, Seals, Services

LEMMA NoCallType ==
  ASSUME NEW p \in Processes, NEW r, r = NoCall(p)
  PROVE  /\ r \in CallRecs /\ OpFits(r)
         /\ r.pc = "idle" /\ r.op = "keysGet" /\ r.at = p /\ r.read = NoRead
<1>1. NoSeal \in Seals
  BY DEF NoSeal, Seals, Compressors
<1>2. NoRead \in Reads
  BY NoKeysType DEF NoRead, Reads, CredVals
<1>3. NoKeys \in KeyVals /\ AnyKey \in KeyIds
  BY NoKeysType, Homes
<1>4. r \in CallRecs
  BY <1>1, <1>2, <1>3 DEF NoCall, CallRecs, PCs, Ops
<1> QED
  BY <1>4 DEF NoCall, OpFits

-----------------------------------------------------------------------------
(* What each step does to the calls and to the fields                      *)

\* The other calls stay, and the call its operation, process and key.
Moves(c, where) ==
  /\ call'[c].pc = where
  /\ call'[c].op = call[c].op /\ call'[c].at = call[c].at /\ call'[c].key = call[c].key
  /\ \A d \in Calls : d # c => call'[d] = call[d]

\* A call replaced by one that is well formed.
LEMMA CallSet ==
  ASSUME CallShape, NEW c \in Calls, NEW r \in CallRecs, OpFits(r),
         call' = [call EXCEPT ![c] = r]
  PROVE  /\ CallShape' /\ call'[c] = r
         /\ \A d \in Calls : d # c => call'[d] = call[d]
BY DEF CallShape

LEMMA GoesStep ==
  ASSUME CallShape, NEW c \in Calls, NEW where \in PCs, Goes(c, where),
         \A r : r.pc = where /\ r.op = call[c].op /\ r.failed = call[c].failed => OpFits(r)
  PROVE  /\ CallShape' /\ Moves(c, where)
         /\ call'[c].read = call[c].read /\ call'[c].merged = call[c].merged
         /\ call'[c].seal = call[c].seal /\ call'[c].failed = call[c].failed
<1> DEFINE r == [call[c] EXCEPT !.pc = where]
<1>1. call[c] \in CallRecs
  BY DEF CallShape
<1>2. r \in CallRecs
  BY <1>1 DEF CallRecs
<1>3. r.pc = where /\ r.op = call[c].op /\ r.at = call[c].at /\ r.key = call[c].key
      /\ r.read = call[c].read /\ r.merged = call[c].merged
      /\ r.seal = call[c].seal /\ r.failed = call[c].failed
  BY <1>1 DEF CallRecs
<1>4. call' = [call EXCEPT ![c] = r]
  BY DEF Goes
<1> HIDE DEF r
<1>5. OpFits(r)
  BY <1>3
<1>6. CallShape' /\ call'[c] = r /\ \A d \in Calls : d # c => call'[d] = call[d]
  BY <1>2, <1>4, <1>5, CallSet
<1> QED
  BY <1>3, <1>6 DEF Moves

LEMMA BeginStep ==
  ASSUME Shape, NEW c \in Calls, NEW o \in Ops, NEW k \in KeyIds, Begin(c, o, k)
  PROVE  /\ Shape'
         /\ call[c].pc = "idle" /\ call'[c].op = o /\ call'[c].at = call[c].at
         /\ call'[c].pc = CASE o = "delete" -> "del" [] o = "touch" -> "expireCreds"
                             [] OTHER -> "meta"
         /\ call'[c].read = call[c].read
         /\ \A d \in Calls : d # c => call'[d] = call[d]
<1> DEFINE where == CASE o = "delete" -> "del" [] o = "touch" -> "expireCreds"
                      [] OTHER -> "meta"
           r == [call[c] EXCEPT !.pc = where, !.op = o, !.key = k]
<1>1. call[c] \in CallRecs
  BY DEF Shape, CallShape
<1>2. where \in {"del", "expireCreds", "meta"}
      /\ (where = "del" => o = "delete") /\ (where = "expireCreds" => o = "touch")
      /\ (where = "meta" => o \notin {"touch", "delete"})
  OBVIOUS
<1> HIDE DEF where
<1>3. r \in CallRecs
  BY <1>1, <1>2 DEF CallRecs, PCs
<1>10. ~call[c].failed
  BY DEF Begin, Shape, CallShape, CallRecs, OpFits
<1>4. r.pc = where /\ r.op = o /\ r.at = call[c].at /\ r.read = call[c].read /\ ~r.failed
  BY <1>1, <1>10 DEF CallRecs
<1>5. call' = [call EXCEPT ![c] = r]
  BY DEF Begin, where
<1> HIDE DEF r
<1>6. OpFits(r)
  BY <1>2, <1>4 DEF OpFits
<1>7. CallShape' /\ call'[c] = r /\ \A d \in Calls : d # c => call'[d] = call[d]
  BY <1>3, <1>5, <1>6, CallSet DEF Shape
<1>8. RedisShape' /\ RestShape'
  BY DEF Begin, Shape, RedisShape, RestShape
<1>9. call[c].pc = "idle"
  BY DEF Begin
<1> QED
  BY <1>4, <1>7, <1>8, <1>9 DEF Shape, where

LEMMA ReadMetaStep ==
  ASSUME Shape, NEW c \in Calls, ReadMeta(c)
  PROVE  /\ Shape' /\ Moves(c, "creds")
         /\ call'[c].read.ver = IF Stored("meta") THEN redis["meta"].ver ELSE 1
<1> DEFINE ver == IF Stored("meta") THEN redis["meta"].ver ELSE 1
           read == [call[c].read EXCEPT !.ver = ver]
           r == [call[c] EXCEPT !.pc = "creds", !.read = read]
<1>1. call[c] \in CallRecs /\ call[c].read \in Reads /\ OpFits(call[c])
  BY DEF Shape, CallShape, CallRecs
<1>2. redis["meta"].ver \in Nat
  BY DEF Shape, RedisShape, Fields, Names
<1>3. ver \in Nat
  BY <1>2
<1>4. call' = [call EXCEPT ![c] = r]
  BY <1>1 DEF ReadMeta, CallRecs, Shape, CallShape
<1> HIDE DEF ver
<1>5. read \in Reads /\ read.ver = ver
  BY <1>1, <1>3 DEF Reads
<1> HIDE DEF read
<1>6. r \in CallRecs
  BY <1>1, <1>5 DEF CallRecs, PCs
<1>7. r.pc = "creds" /\ r.op = call[c].op /\ r.at = call[c].at /\ r.key = call[c].key
      /\ r.read = read /\ r.failed = call[c].failed
  BY <1>1 DEF CallRecs
<1> HIDE DEF r
<1>8. OpFits(r)
  BY <1>1, <1>7 DEF OpFits, ReadMeta
<1>9. CallShape' /\ call'[c] = r /\ \A d \in Calls : d # c => call'[d] = call[d]
  BY <1>4, <1>6, <1>8, CallSet DEF Shape
<1>10. RedisShape' /\ RestShape'
  BY DEF ReadMeta, Shape, RedisShape, RestShape
<1> QED
  BY <1>5, <1>7, <1>9, <1>10 DEF Shape, Moves, ver

LEMMA FailMetaStep ==
  ASSUME Shape, NEW c \in Calls, FailMeta(c)
  PROVE  /\ Shape' /\ Moves(c, IF call[c].op = "keysGet" THEN "done" ELSE "rejected")
         /\ call'[c].read = call[c].read
<1> DEFINE where == IF call[c].op = "keysGet" THEN "done" ELSE "rejected"
<1>1. where \in PCs /\ Goes(c, where)
  BY DEF FailMeta, PCs
<1>5. ~call[c].failed
  BY DEF FailMeta, Shape, CallShape, CallRecs, OpFits
<1>2. \A r : r.pc = where /\ r.op = call[c].op /\ r.failed = call[c].failed => OpFits(r)
  BY <1>5 DEF OpFits
<1> HIDE DEF where
<1>3. CallShape' /\ Moves(c, where) /\ call'[c].read = call[c].read
  BY <1>1, <1>2, GoesStep DEF Shape
<1>4. RedisShape' /\ RestShape'
  BY DEF FailMeta, Shape, RedisShape, RestShape
<1> QED
  BY <1>3, <1>4 DEF Shape, where

\* A field that is read is the stored one, or taken for missing.
LEMMA AnswerType ==
  ASSUME Shape, NEW p \in Processes, NEW f \in Names, NEW answer \in FieldAnswers(p, f)
  PROVE  /\ answer \in Fields(Vals(f))
         /\ answer = redis[f] \/ (answer.ttl = 0 /\ answer = Absent(f))
BY AbsentType DEF FieldAnswers, Shape, RedisShape

\* What was read without being taken for missing.
Saw(f, val, ver) ==
  IF Stored(f) THEN val = redis[f].val /\ ver = redis[f].ver
  ELSE val = Absent(f).val /\ ver = 0

LEMMA AnswerSeen ==
  ASSUME Shape, NEW p \in Processes, NEW f \in Names, NEW answer \in FieldAnswers(p, f),
         Sees(f, answer)
  PROVE  /\ blind' \in BOOLEAN
         /\ ~blind' => ~blind /\ Saw(f, answer.val, answer.ver)
<1> DEFINE a == Absent(f)
<1>1. a.ttl = 0 /\ a.ver = 0
  BY AbsentType
<1>2. answer = redis[f] \/ (answer.ttl = 0 /\ answer = a)
  BY AnswerType
<1>3. redis[f].ttl \in 0..Ttl
  BY DEF Shape, RedisShape, Fields
<1>4. blind' = (blind \/ (redis[f].ttl > 0 /\ answer.ttl = 0)) /\ blind \in BOOLEAN
  BY DEF Sees, Stored, Shape, RestShape
<1>5. (~(redis[f].ttl > 0) => answer = a) /\ (redis[f].ttl > 0 => answer = redis[f] \/ answer = a)
  BY <1>2 DEF FieldAnswers, Readable, Stored
<1> QED
  BY <1>1, <1>2, <1>3, <1>4, <1>5 DEF Saw, Stored

LEMMA ReadCredsStep ==
  ASSUME Shape, NEW c \in Calls, ReadCreds(c)
  PROVE  /\ Shape' /\ Moves(c, "keys")
         /\ call'[c].read.ver = call[c].read.ver
         /\ ~blind' => ~blind /\ Saw("creds", call'[c].read.creds, call'[c].read.credsVer)
<1> DEFINE p == call[c].at
<1>1. call[c] \in CallRecs /\ call[c].read \in Reads /\ OpFits(call[c]) /\ p \in Processes
  BY DEF Shape, CallShape, CallRecs
<1>2. PICK answer \in FieldAnswers(p, "creds") :
        /\ Sees("creds", answer)
        /\ call' = [call EXCEPT ![c].pc = "keys", ![c].read.creds = answer.val,
                                ![c].read.credsVer = answer.ver]
  BY DEF ReadCreds
<1> DEFINE read == [call[c].read EXCEPT !.creds = answer.val, !.credsVer = answer.ver]
           r == [call[c] EXCEPT !.pc = "keys", !.read = read]
<1>3. answer.val \in CredVals /\ answer.ver \in Nat
  BY <1>1, <1>2, AnswerType DEF Fields, Vals, Names
<1>4. call' = [call EXCEPT ![c] = r]
  BY <1>1, <1>2 DEF CallRecs, Reads, Shape, CallShape
<1>5. /\ read \in Reads /\ read.ver = call[c].read.ver
      /\ read.creds = answer.val /\ read.credsVer = answer.ver
  BY <1>1, <1>3 DEF Reads
<1> HIDE DEF read
<1>6. r \in CallRecs
  BY <1>1, <1>5 DEF CallRecs, PCs
<1>7. r.pc = "keys" /\ r.op = call[c].op /\ r.at = call[c].at /\ r.key = call[c].key
      /\ r.read = read /\ r.failed = call[c].failed
  BY <1>1 DEF CallRecs
<1> HIDE DEF r
<1>8. OpFits(r)
  BY <1>1, <1>7 DEF OpFits, ReadCreds
<1>9. CallShape' /\ call'[c] = r /\ \A d \in Calls : d # c => call'[d] = call[d]
  BY <1>4, <1>6, <1>8, CallSet DEF Shape
<1>10. blind' \in BOOLEAN /\ (~blind' => ~blind /\ Saw("creds", answer.val, answer.ver))
  BY <1>1, <1>2, AnswerSeen DEF Names
<1>11. RedisShape' /\ RestShape'
  BY <1>10 DEF ReadCreds, Shape, RedisShape, RestShape
<1> QED
  BY <1>5, <1>7, <1>9, <1>10, <1>11 DEF Shape, Moves

\* What ReadKeys makes of the read.
Snapshot(read, was) ==
  IF was.creds = None THEN read = NoRead
  ELSE read.ver = was.ver /\ read.creds = was.creds /\ read.credsVer = was.credsVer

LEMMA ReadKeysStep ==
  ASSUME Shape, NEW c \in Calls, ReadKeys(c)
  PROVE  /\ Shape' /\ Moves(c, GoesOn(call[c].op))
         /\ Snapshot(call'[c].read, call[c].read)
         /\ call'[c].seal = IF call[c].op = "saveCreds" THEN Seal(services[call[c].at]) ELSE NoSeal
         /\ ~blind' => ~blind /\ (call[c].read.creds # None =>
                                    Saw("keys", call'[c].read.keys, call'[c].read.keysVer))
<1> DEFINE p == call[c].at
           was == call[c].read
           where == GoesOn(call[c].op)
           seal == IF call[c].op = "saveCreds" THEN Seal(services[p]) ELSE NoSeal
<1>1. call[c] \in CallRecs /\ was \in Reads /\ OpFits(call[c]) /\ p \in Processes
      /\ call[c].op \in Ops
  BY DEF Shape, CallShape, CallRecs
<1>2. PICK answer \in FieldAnswers(p, "keys") :
        LET s == [was EXCEPT !.keys = answer.val, !.keysVer = answer.ver] IN
        /\ Sees("keys", answer)
        /\ call' = [call EXCEPT ![c].pc = where,
                                ![c].read = IF NullGet(s) THEN NoRead ELSE s, ![c].seal = seal]
        /\ memory' = IF call[c].op # "start" THEN memory
                     ELSE [memory EXCEPT ![p] = IF NullGet(s) THEN p ELSE s.creds]
  BY DEF ReadKeys
<1> DEFINE s == [was EXCEPT !.keys = answer.val, !.keysVer = answer.ver]
           read == IF NullGet(s) THEN NoRead ELSE s
           r == [call[c] EXCEPT !.pc = where, !.read = read, !.seal = seal]
<1>3. answer.val \in KeyVals /\ answer.ver \in Nat
  BY <1>1, <1>2, AnswerType DEF Fields, Vals, Names
<1>4. call' = [call EXCEPT ![c] = r]
  BY <1>1, <1>2 DEF CallRecs, Shape, CallShape
<1>5. /\ s \in Reads /\ s.ver = was.ver /\ s.creds = was.creds /\ s.credsVer = was.credsVer
      /\ s.keys = answer.val /\ s.keysVer = answer.ver
  BY <1>1, <1>3 DEF Reads
<1>20. memory' = IF call[c].op # "start" THEN memory
                 ELSE [memory EXCEPT ![p] = IF NullGet(s) THEN p ELSE s.creds]
  BY <1>2
<1>21. Sees("keys", answer)
  BY <1>2
<1> HIDE DEF s
<1>6. NoRead \in Reads
  BY NoKeysType DEF NoRead, Reads, CredVals
<1>7. read \in Reads /\ (was.creds = None => read = NoRead) /\ (was.creds # None => read = s)
  BY <1>5, <1>6 DEF NullGet
<1>8. services[p] \in Services
  BY <1>1 DEF Shape, RestShape
<1>9. NoSeal \in Seals /\ Seal(services[p]) \in Seals
  BY <1>8, SealType DEF NoSeal, Seals, Compressors
<1>10. seal \in Seals
  BY <1>9
<1>11. where \in {"done", "field", "merge"} /\ (where = "field" => call[c].op = "saveCreds")
       /\ (where = "merge" => call[c].op \notin {"start", "keysGet", "saveCreds"})
  BY DEF GoesOn
<1> HIDE DEF seal, where, read
<1>12. r \in CallRecs
  BY <1>1, <1>7, <1>10, <1>11 DEF CallRecs, PCs
<1>13. r.pc = where /\ r.op = call[c].op /\ r.at = call[c].at /\ r.key = call[c].key
       /\ r.read = read /\ r.seal = seal /\ r.failed = call[c].failed
  BY <1>1 DEF CallRecs
<1> HIDE DEF r
<1>14. OpFits(r)
  <2>1. call[c].pc = "keys"
    BY DEF ReadKeys
  <2> QED
    BY <1>1, <1>11, <1>13, <2>1 DEF OpFits, Ops, Merging
<1>15. CallShape' /\ call'[c] = r /\ \A d \in Calls : d # c => call'[d] = call[d]
  BY <1>4, <1>12, <1>14, CallSet DEF Shape
<1>16. blind' \in BOOLEAN /\ (~blind' => ~blind /\ Saw("keys", answer.val, answer.ver))
  BY <1>1, <1>21, AnswerSeen DEF Names
<1>17. memory' \in [Processes -> Processes \cup {Old}]
  <2>1. ~NullGet(s) => s.creds \in Processes \cup {Old}
    BY <1>5 DEF NullGet, Reads, CredVals
  <2> QED
    BY <1>1, <1>20, <2>1 DEF Shape, RestShape
<1>18. RedisShape' /\ RestShape'
  BY <1>16, <1>17 DEF ReadKeys, Shape, RedisShape, RestShape
<1>19. Snapshot(call'[c].read, was)
  BY <1>5, <1>7, <1>13, <1>15 DEF Snapshot
<1> QED
  BY <1>5, <1>7, <1>13, <1>15, <1>16, <1>18, <1>19 DEF Shape, Moves, where, seal

\* What a patch makes of the value of its key.
Patch(c) == IF call[c].op = "keysDelete" THEN None ELSE c

\* A call that is about to send its pipeline.
Sends(c, merged, seal) ==
  /\ Moves(c, "field") /\ call'[c].read = call[c].read
  /\ call'[c].merged = merged /\ call'[c].seal = seal

LEMMA MergeStep ==
  ASSUME Shape, NEW c \in Calls, Merge(c)
  PROVE  /\ Shape'
         /\ \E keys \in KeyVals, ver \in Nat :
              /\ Sends(c, [keys EXCEPT ![call[c].key] = Patch(c)], Seal(services[call[c].at]))
              /\ ~blind' => ~blind /\ Saw("keys", keys, ver)
<1> DEFINE p == call[c].at
           seal == Seal(services[p])
<1>1. call[c] \in CallRecs /\ OpFits(call[c]) /\ p \in Processes /\ call[c].key \in KeyIds
  BY DEF Shape, CallShape, CallRecs
<1>2. PICK answer \in FieldAnswers(p, "keys") :
        /\ Sees("keys", answer)
        /\ call' = [call EXCEPT ![c].pc = "field",
              ![c].merged = [answer.val EXCEPT ![call[c].key] = Patch(c)], ![c].seal = seal]
  BY DEF Merge, Patch
<1> DEFINE merged == [answer.val EXCEPT ![call[c].key] = Patch(c)]
           r == [call[c] EXCEPT !.pc = "field", !.merged = merged, !.seal = seal]
<1>3. answer.val \in KeyVals /\ answer.ver \in Nat
  BY <1>1, <1>2, AnswerType DEF Fields, Vals, Names
<1>4. merged \in KeyVals
  BY <1>1, <1>3 DEF KeyVals, Patch
<1>5. call' = [call EXCEPT ![c] = r]
  BY <1>1, <1>2 DEF CallRecs, Shape, CallShape
<1>6. services[p] \in Services
  BY <1>1 DEF Shape, RestShape
<1>7. seal \in Seals
  BY <1>6, SealType
<1> HIDE DEF merged, seal
<1>8. r \in CallRecs
  BY <1>1, <1>4, <1>7 DEF CallRecs, PCs
<1>9. r.pc = "field" /\ r.op = call[c].op /\ r.at = call[c].at /\ r.key = call[c].key
      /\ r.read = call[c].read /\ r.merged = merged /\ r.seal = seal
      /\ r.failed = call[c].failed
  BY <1>1 DEF CallRecs
<1> HIDE DEF r
<1>10. OpFits(r)
  BY <1>1, <1>9 DEF OpFits, Merge
<1>11. CallShape' /\ call'[c] = r /\ \A d \in Calls : d # c => call'[d] = call[d]
  BY <1>5, <1>8, <1>10, CallSet DEF Shape
<1>12. blind' \in BOOLEAN /\ (~blind' => ~blind /\ Saw("keys", answer.val, answer.ver))
  BY <1>1, <1>2, AnswerSeen DEF Names
<1>13. RedisShape' /\ RestShape'
  BY <1>12 DEF Merge, Shape, RedisShape, RestShape
<1>14. Sends(c, merged, seal)
  BY <1>9, <1>11 DEF Sends, Moves
<1> QED
  BY <1>3, <1>11, <1>12, <1>13, <1>14 DEF Shape, merged, seal

\* The field a call writes.
FieldOf(c) == IF call[c].op = "saveCreds" THEN "creds" ELSE "keys"
ValOf(c) == IF call[c].op = "saveCreds" THEN memory[call[c].at] ELSE call[c].merged

\* The field has been sent, and stored or not.
FieldSent(c) ==
  IF call'[c].failed THEN redis' = redis
  ELSE /\ redis'[FieldOf(c)].val = ValOf(c)
       /\ redis'[FieldOf(c)].ver = NewVersion(c)
       /\ redis'[FieldOf(c)].seal = call[c].seal
       /\ redis'[FieldOf(c)].ttl = Ttl /\ Ttl > 0
       /\ \A g \in Names : g # FieldOf(c) => redis'[g] = redis[g]

LEMMA WriteFieldStep ==
  ASSUME Shape, NEW c \in Calls, WriteField(c)
  PROVE  /\ Shape' /\ Moves(c, "version") /\ FieldSent(c)
         /\ call'[c].read = call[c].read /\ call'[c].merged = call[c].merged
<1> DEFINE f == FieldOf(c)
           val == ValOf(c)
           ver == NewVersion(c)
<1>1. call[c] \in CallRecs /\ OpFits(call[c]) /\ call[c].at \in Processes
      /\ call[c].read \in Reads /\ call[c].merged \in KeyVals /\ call[c].seal \in Seals
  BY DEF Shape, CallShape, CallRecs
<1>2. call[c].pc = "field" /\ ~call[c].failed
  BY <1>1 DEF WriteField, OpFits, CallRecs
<1>3. memory[call[c].at] \in Processes \cup {Old}
  BY <1>1 DEF Shape, RestShape
<1>4. f \in Names /\ val \in Vals(f)
  BY <1>1, <1>3 DEF FieldOf, ValOf, Vals, CredVals, Names
<1>5. ver \in Nat
  <2>1. call[c].read.ver \in Nat
    BY <1>1 DEF Reads
  <2> QED
    BY <2>1 DEF NewVersion
<1>6. RestShape'
  BY DEF WriteField, Shape, RestShape
<1>7. \/ redis' = [redis EXCEPT ![f] = Field(val, ver, call[c].seal)] /\ Goes(c, "version")
      \/ /\ call' = [call EXCEPT ![c].pc = "version", ![c].failed = TRUE]
         /\ redis' = redis
  BY DEF WriteField, FieldOf, ValOf
<1> HIDE DEF f, val, ver
<1>8. CASE redis' = [redis EXCEPT ![f] = Field(val, ver, call[c].seal)] /\ Goes(c, "version")
  <2> DEFINE a == Field(val, ver, call[c].seal)
  <2>1. a \in Fields(Vals(f)) /\ a.val = val /\ a.ver = ver /\ a.seal = call[c].seal
        /\ a.ttl = Ttl /\ Ttl > 0
    BY <1>1, <1>4, <1>5, FieldType
  <2> HIDE DEF a
  <2>2. redis' = [redis EXCEPT ![f] = a]
    BY <1>8 DEF a
  <2>3. RedisShape' /\ redis'[f] = a /\ \A g \in Names : g # f => redis'[g] = redis[g]
    BY <1>4, <2>1, <2>2, FieldSet DEF Shape
  <2>4. \A r : r.pc = "version" /\ r.op = call[c].op /\ r.failed = call[c].failed => OpFits(r)
    BY <1>1, <1>2 DEF OpFits
  <2>5. "version" \in PCs /\ CallShape
    BY DEF PCs, Shape
  <2>6. /\ CallShape' /\ Moves(c, "version")
        /\ call'[c].read = call[c].read /\ call'[c].merged = call[c].merged
        /\ call'[c].failed = call[c].failed
    BY <1>8, <2>4, <2>5, GoesStep
  <2>7. FieldSent(c)
    BY <1>2, <2>1, <2>3, <2>6 DEF FieldSent, f, val, ver
  <2> QED
    BY <1>6, <2>3, <2>6, <2>7 DEF Shape
<1>9. CASE /\ call' = [call EXCEPT ![c].pc = "version", ![c].failed = TRUE]
           /\ redis' = redis
  <2> DEFINE r == [call[c] EXCEPT !.pc = "version", !.failed = TRUE]
  <2>1. call' = [call EXCEPT ![c] = r]
    BY <1>1, <1>9 DEF CallRecs, Shape, CallShape
  <2>2. r \in CallRecs
    BY <1>1 DEF CallRecs, PCs
  <2>3. r.pc = "version" /\ r.op = call[c].op /\ r.at = call[c].at /\ r.key = call[c].key
        /\ r.read = call[c].read /\ r.merged = call[c].merged /\ r.failed
    BY <1>1 DEF CallRecs
  <2> HIDE DEF r
  <2>4. OpFits(r)
    BY <1>1, <1>2, <2>3 DEF OpFits
  <2>5. CallShape' /\ call'[c] = r /\ \A d \in Calls : d # c => call'[d] = call[d]
    BY <2>1, <2>2, <2>4, CallSet DEF Shape
  <2>6. RedisShape'
    BY <1>9 DEF Shape, RedisShape
  <2>7. FieldSent(c)
    BY <1>9, <2>3, <2>5 DEF FieldSent
  <2> QED
    BY <1>6, <2>3, <2>5, <2>6, <2>7 DEF Shape, Moves
<1> QED
  BY <1>7, <1>8, <1>9

\* A call has ended, and what it was about is forgotten.
Ends(c, where) ==
  /\ call'[c].pc = where /\ call'[c].op = "keysGet" /\ call'[c].at = call[c].at
  /\ call'[c].read = NoRead
  /\ \A d \in Calls : d # c => call'[d] = call[d]

LEMMA SettleStep ==
  ASSUME Shape, NEW c \in Calls, NEW failed \in BOOLEAN, Settle(c, failed),
         setting' = setting, services' = services, memory' = memory, blind' = blind
  PROVE  CallShape' /\ RestShape' /\ Ends(c, IF failed THEN "rejected" ELSE "done")
<1> DEFINE where == IF failed THEN "rejected" ELSE "done"
           none == NoCall(call[c].at)
           r == [none EXCEPT !.pc = where]
<1>1. call[c] \in CallRecs /\ call[c].at \in Processes /\ call[c].merged \in KeyVals
      /\ call[c].key \in KeyIds
  BY DEF Shape, CallShape, CallRecs
<1>2. none \in CallRecs /\ OpFits(none) /\ none.pc = "idle" /\ none.op = "keysGet"
      /\ none.at = call[c].at /\ none.read = NoRead
  BY <1>1, NoCallType
<1>3. call' = [call EXCEPT ![c] = r]
  BY DEF Settle, Shape, CallShape
<1> HIDE DEF none
<1>4. r \in CallRecs
  BY <1>2 DEF CallRecs, PCs
<1>5. r.pc = where /\ r.op = "keysGet" /\ r.at = call[c].at /\ r.read = NoRead
      /\ r.failed = none.failed
  BY <1>2 DEF CallRecs
<1> HIDE DEF r
<1>6. OpFits(r)
  BY <1>2, <1>5 DEF OpFits
<1>7. CallShape' /\ call'[c] = r /\ \A d \in Calls : d # c => call'[d] = call[d]
  BY <1>3, <1>4, <1>6, CallSet DEF Shape
<1>8. expected' \in [KeyIds -> Calls \cup {None, Old, Unknown}]
  <2>1. NoKeys \in [KeyIds -> Calls \cup {None, Old, Unknown}]
        /\ call[c].merged[call[c].key] \in Calls \cup {None, Old, Unknown}
    BY <1>1, NoKeysType DEF KeyVals
  <2> QED
    BY <1>1, <2>1 DEF Settle, Shape, RestShape
<1>9. mishaps' \subseteq Mishaps
  BY DEF Settle, Shape, RestShape, Mishaps
<1>10. RestShape'
  BY <1>8, <1>9 DEF Shape, RestShape
<1> QED
  BY <1>5, <1>7, <1>10 DEF Ends

LEMMA WriteMetaStep ==
  ASSUME Shape, NEW c \in Calls, WriteMeta(c)
  PROVE  /\ Shape'
         /\ \E failed \in BOOLEAN :
              /\ Settle(c, failed) /\ Ends(c, IF failed THEN "rejected" ELSE "done")
              /\ failed \/ (~call[c].failed /\ redis'["meta"].ver = NewVersion(c)
                            /\ redis'["meta"].ttl = Ttl)
              /\ redis'["creds"] = redis["creds"] /\ redis'["keys"] = redis["keys"]
<1>1. call[c] \in CallRecs /\ call[c].read \in Reads /\ call[c].failed \in BOOLEAN
  BY DEF Shape, CallShape, CallRecs
<1>2. NewVersion(c) \in Nat
  <2>1. call[c].read.ver \in Nat
    BY <1>1 DEF Reads
  <2> QED
    BY <2>1 DEF NewVersion
<1>3. CASE redis' = [redis EXCEPT !["meta"] = Field(None, NewVersion(c), NoSeal)]
           /\ Settle(c, call[c].failed)
  <2> DEFINE a == Field(None, NewVersion(c), NoSeal)
  <2>1. "meta" \in Names /\ None \in Vals("meta") /\ NoSeal \in Seals
    BY DEF Names, Vals, CredVals, NoSeal, Seals, Compressors
  <2>2. a \in Fields(Vals("meta")) /\ a.ver = NewVersion(c) /\ a.ttl = Ttl
    BY <1>2, <2>1, FieldType
  <2> HIDE DEF a
  <2>3. redis' = [redis EXCEPT !["meta"] = a]
    BY <1>3 DEF a
  <2>4. RedisShape' /\ redis'["meta"] = a /\ \A g \in Names : g # "meta" => redis'[g] = redis[g]
    BY <2>1, <2>2, <2>3, FieldSet DEF Shape
  <2>5. CallShape' /\ RestShape' /\ Ends(c, IF call[c].failed THEN "rejected" ELSE "done")
    BY <1>1, <1>3, SettleStep DEF WriteMeta
  <2> QED
    BY <1>1, <1>3, <2>2, <2>4, <2>5 DEF Shape, Names
<1>4. CASE redis' = redis /\ Settle(c, TRUE)
  <2>1. CallShape' /\ RestShape' /\ Ends(c, "rejected")
    BY <1>4, SettleStep DEF WriteMeta
  <2>2. RedisShape'
    BY <1>4 DEF Shape, RedisShape
  <2> QED
    BY <1>4, <2>1, <2>2 DEF Shape
<1> QED
  BY <1>3, <1>4 DEF WriteMeta

LEMMA DeleteStep ==
  ASSUME Shape, NEW c \in Calls, Delete(c)
  PROVE  /\ Shape' /\ Settle(c, FALSE) /\ Ends(c, "done")
         /\ redis'["creds"] = Absent("creds") /\ redis'["keys"] = Absent("keys")
         /\ redis'["meta"] = Absent("meta")
<1>1. redis' = [f \in Names |-> Absent(f)] /\ Settle(c, FALSE)
  BY DEF Delete
<1>2. CallShape' /\ RestShape' /\ Ends(c, "done")
  BY <1>1, SettleStep DEF Delete
<1>3. \A f \in Names : redis'[f] = Absent(f)
  BY <1>1
<1>4. \A f \in Names : Absent(f) \in Fields(Vals(f))
  BY AbsentType
<1>5. \A f \in Names : Vals(f) \subseteq KeyVals \cup CredVals
  BY DEF Vals
<1>6. \A f \in Names : Absent(f) \in Fields(KeyVals \cup CredVals)
  BY <1>4, <1>5 DEF Fields
<1>7. RedisShape'
  BY <1>1, <1>4, <1>6 DEF RedisShape
<1> QED
  BY <1>1, <1>2, <1>3, <1>7 DEF Shape, Names

\* EXPIRE: the field is as it was but for its time to live.
Expired(f, ttl) ==
  redis'[f].val = redis[f].val /\ redis'[f].ver = redis[f].ver
    /\ redis'[f].seal = redis[f].seal /\ redis'[f].ttl = ttl

ExpireStep(c) ==
  CASE call[c].pc = "expireCreds" -> "creds" [] call[c].pc = "expireKeys" -> "keys"
    [] call[c].pc = "expireMeta" -> "meta"
NextExpire(c) ==
  CASE call[c].pc = "expireCreds" -> "expireKeys" [] call[c].pc = "expireKeys" -> "expireMeta"
    [] call[c].pc = "expireMeta" -> "done"

LEMMA TouchStep ==
  ASSUME Shape, NEW c \in Calls, Touch(c)
  PROVE  /\ Shape' /\ Moves(c, NextExpire(c)) /\ call'[c].read = call[c].read
         /\ call[c].pc \in {"expireCreds", "expireKeys", "expireMeta"}
         /\ Expired(ExpireStep(c), IF redis[ExpireStep(c)].ttl > 0 THEN Ttl ELSE 0)
         /\ \A g \in Names : g # ExpireStep(c) => redis'[g] = redis[g]
<1>1. PICK f \in Names :
        /\ call[c].pc = CASE f = "creds" -> "expireCreds" [] f = "keys" -> "expireKeys"
                          [] f = "meta" -> "expireMeta"
        /\ redis' = [redis EXCEPT ![f].ttl = IF @ > 0 THEN Ttl ELSE 0]
        /\ Goes(c, CASE f = "creds" -> "expireKeys" [] f = "keys" -> "expireMeta"
                     [] f = "meta" -> "done")
  BY DEF Touch
<1>2. f = ExpireStep(c) /\ Goes(c, NextExpire(c))
      /\ call[c].pc \in {"expireCreds", "expireKeys", "expireMeta"}
      /\ NextExpire(c) \in {"expireKeys", "expireMeta", "done"}
  BY <1>1 DEF ExpireStep, NextExpire, Names
<1>3. call[c] \in CallRecs /\ OpFits(call[c])
  BY DEF Shape, CallShape
<1>4. call[c].op = "touch" /\ ~call[c].failed
  BY <1>2, <1>3 DEF OpFits, CallRecs
<1>5. \A r : r.pc = NextExpire(c) /\ r.op = call[c].op /\ r.failed = call[c].failed => OpFits(r)
  BY <1>2, <1>4 DEF OpFits
<1>6. CallShape' /\ Moves(c, NextExpire(c)) /\ call'[c].read = call[c].read
  BY <1>2, <1>5, GoesStep DEF Shape, PCs
<1>7. redis[f] \in Fields(Vals(f)) /\ RedisShape
  BY DEF Shape, RedisShape
<1> DEFINE ttl == IF redis[f].ttl > 0 THEN Ttl ELSE 0
           v == [redis[f] EXCEPT !.ttl = ttl]
<1>8. redis' = [redis EXCEPT ![f] = v]
  BY <1>1, <1>7 DEF RedisShape
<1>9. ttl \in 0..Ttl
  BY RedisAssumption
<1> HIDE DEF ttl
<1>10. v \in Fields(Vals(f)) /\ v.val = redis[f].val /\ v.ver = redis[f].ver
       /\ v.seal = redis[f].seal /\ v.ttl = ttl
  BY <1>7, <1>9 DEF Fields
<1> HIDE DEF v
<1>11. RedisShape' /\ redis'[f] = v /\ \A g \in Names : g # f => redis'[g] = redis[g]
  BY <1>7, <1>8, <1>10, FieldSet
<1>12. RestShape'
  BY DEF Touch, Shape, RestShape
<1> QED
  BY <1>2, <1>6, <1>10, <1>11, <1>12 DEF Shape, Expired, ttl

\* A tick: what had one tick left is absent.
Ticked(f) ==
  IF redis[f].ttl <= 1 THEN redis'[f] = Absent(f) ELSE Expired(f, redis[f].ttl - 1)

LEMMA TickStep ==
  ASSUME Shape, Tick
  PROVE  /\ Shape' /\ Quiet /\ call' = call /\ blind' = blind /\ memory' = memory
         /\ Ticked("creds") /\ Ticked("keys") /\ Ticked("meta")
<1> DEFINE next(f) == IF redis[f].ttl <= 1 THEN Absent(f) ELSE [redis[f] EXCEPT !.ttl = @ - 1]
<1>1. redis' = [f \in Names |-> next(f)]
  BY DEF Tick
<1>2. ASSUME NEW f \in Names
      PROVE  next(f) \in Fields(Vals(f)) /\ Ticked(f)
  <2>1. redis[f] \in Fields(Vals(f)) /\ redis'[f] = next(f) /\ redis[f].ttl \in 0..Ttl
    BY <1>1 DEF Shape, RedisShape, Fields
  <2>2. Absent(f) \in Fields(Vals(f))
    BY AbsentType
  <2>3. CASE redis[f].ttl <= 1
    BY <2>1, <2>2, <2>3 DEF Ticked
  <2>4. CASE ~(redis[f].ttl <= 1)
    <3> DEFINE v == [redis[f] EXCEPT !.ttl = redis[f].ttl - 1]
    <3>1. next(f) = v
      BY <2>4
    <3>2. redis[f].ttl - 1 \in 0..Ttl
      BY <2>1, <2>4, RedisAssumption
    <3>3. v \in Fields(Vals(f)) /\ v.val = redis[f].val /\ v.ver = redis[f].ver
          /\ v.seal = redis[f].seal /\ v.ttl = redis[f].ttl - 1
      BY <2>1, <3>2 DEF Fields
    <3> HIDE DEF v
    <3> QED
      BY <2>1, <2>4, <3>1, <3>3 DEF Ticked, Expired
  <2> QED
    BY <2>3, <2>4
<1> HIDE DEF next
<1>3. \A f \in Names : Vals(f) \subseteq KeyVals \cup CredVals
  BY DEF Vals
<1>4. \A f \in Names : next(f) \in Fields(KeyVals \cup CredVals)
  BY <1>2, <1>3 DEF Fields
<1>5. RedisShape'
  BY <1>1, <1>2, <1>4 DEF RedisShape
<1>6. CallShape'
  BY DEF Tick, Shape, CallShape
<1>7. services' \in [Processes -> Services] /\ \A p \in Processes : OneActiveKey(services'[p])
  <2>1. services' = [p \in Processes |-> AgeKeys(services[p])]
    BY DEF Tick
  <2>2. \A p \in Processes : services[p] \in Services /\ OneActiveKey(services[p])
    BY DEF Shape, RestShape
  <2>3. \A p \in Processes : AgeKeys(services[p]) \in Services
    BY <2>2, KeysAged
  <2>4. \A p \in Processes : OneActiveKey(AgeKeys(services[p]))
    BY <2>2, KeysAged DEF OneActiveKey
  <2> QED
    BY <2>1, <2>3, <2>4
<1>8. expected' \in [KeyIds -> Calls \cup {None, Old, Unknown}]
  BY DEF Tick, Shape, RestShape, NoKeys
<1>9. RestShape'
  BY <1>7, <1>8 DEF Tick, Shape, RestShape, Mishaps
<1> QED
  BY <1>2, <1>5, <1>6, <1>9 DEF Tick, Shape, Names

\* The keys of the process that rotates change, and nothing else does.
LEMMA HomeChanges ==
  ASSUME Shape, NEW r \in Services, OneActiveKey(r), services' = [services EXCEPT ![Home] = r],
         UNCHANGED <<setting, redis, memory, call, expected, blind, mishaps>>
  PROVE  Shape' /\ services'[Home] = r
<1>1. services' \in [Processes -> Services] /\ services'[Home] = r
      /\ \A p \in Processes : p # Home => services'[p] = services[p]
  BY Homes DEF Shape, RestShape
<1>2. \A p \in Processes : OneActiveKey(services'[p])
  BY <1>1 DEF Shape, RestShape
<1>3. RestShape'
  BY <1>1, <1>2 DEF Shape, RestShape
<1>4. RedisShape' /\ CallShape'
  BY DEF Shape, RedisShape, CallShape
<1> QED
  BY <1>1, <1>3, <1>4 DEF Shape

LEMMA RotateStep ==
  ASSUME Shape, NEW k \in MasterKeys, Rotate(k)
  PROVE  Shape' /\ services'[Home] = AddKey(services[Home], k)
<1> DEFINE r == AddKey(services[Home], k)
<1>1. services[Home] \in Services /\ OneActiveKey(services[Home])
  BY Homes DEF Shape, RestShape
<1>2. r \in Services /\ OneActiveKey(r)
  BY <1>1, KeyAdded, AddedIsActive
<1>3. services' = [services EXCEPT ![Home] = r]
  BY DEF Rotate, RotateKey, Shape, RestShape
<1> HIDE DEF r
<1>4. Shape' /\ services'[Home] = r
  BY <1>2, <1>3, HomeChanges DEF Rotate
<1> QED
  BY <1>4 DEF r

LEMMA CleanupStep ==
  ASSUME Shape, Cleanup
  PROVE  Shape' /\ services'[Home] = CleanupExpiredKeys(services[Home])
<1> DEFINE r == CleanupExpiredKeys(services[Home])
<1>1. services[Home] \in Services /\ OneActiveKey(services[Home])
  BY Homes DEF Shape, RestShape
<1>2. /\ r \in Services /\ r.active = services[Home].active
      /\ r.flagged = services[Home].flagged
      /\ r.known = {k \in services[Home].known :
                     ~KeyExpired(services[Home], k) \/ k \in services[Home].flagged}
  BY <1>1, KeysCleaned
<1>3. services' = [services EXCEPT ![Home] = r]
  BY DEF Cleanup, Shape, RestShape
<1> HIDE DEF r
<1>4. OneActiveKey(r)
  BY <1>1, <1>2 DEF OneActiveKey
<1>5. Shape' /\ services'[Home] = r
  BY <1>2, <1>3, <1>4, HomeChanges DEF Cleanup
<1> QED
  BY <1>5 DEF r

\* The steps of a call before its pipeline.
Prepares(c) ==
  \/ \E o \in Ops, k \in KeyIds : Begin(c, o, k)
  \/ ReadMeta(c) \/ FailMeta(c) \/ ReadCreds(c) \/ ReadKeys(c) \/ Merge(c)

\* They leave Redis as it is.
LEMMA PrepareStep ==
  ASSUME Shape, NEW c \in Calls, Prepares(c)
  PROVE  /\ redis' = redis /\ mishaps' = mishaps /\ expected' = expected
         /\ setting' = setting /\ services' = services
         /\ \A d \in Calls : d # c => call'[d] = call[d]
         /\ call[c].pc \in {"idle", "meta", "creds", "keys", "merge"}
         /\ call'[c].at = call[c].at
         /\ ~blind' => ~blind
<1>1. CASE \E o \in Ops, k \in KeyIds : Begin(c, o, k)
  <2>1. PICK o \in Ops, k \in KeyIds : Begin(c, o, k)
    BY <1>1
  <2> QED
    BY <2>1, BeginStep DEF Begin
<1>2. CASE ReadMeta(c)
  BY <1>2, ReadMetaStep DEF ReadMeta, Moves
<1>3. CASE FailMeta(c)
  BY <1>3, FailMetaStep DEF FailMeta, Moves
<1>4. CASE ReadCreds(c)
  BY <1>4, ReadCredsStep DEF ReadCreds, Moves
<1>5. CASE ReadKeys(c)
  BY <1>5, ReadKeysStep DEF ReadKeys, Moves
<1>6. CASE Merge(c)
  BY <1>6, MergeStep DEF Merge, Sends, Moves
<1> QED
  BY <1>1, <1>2, <1>3, <1>4, <1>5, <1>6 DEF Prepares

LEMMA ShapeStep == Shape /\ [Next]_vars => Shape'
<1> SUFFICES ASSUME Shape, [Next]_vars PROVE Shape'
  OBVIOUS
<1>1. ASSUME NEW c \in Calls, Step(c) PROVE Shape'
  BY <1>1, BeginStep, ReadMetaStep, FailMetaStep, ReadCredsStep, ReadKeysStep, MergeStep,
     WriteFieldStep, WriteMetaStep, DeleteStep, TouchStep DEF Step
<1>2. CASE Tick
  BY <1>2, TickStep
<1>3. ASSUME NEW k \in MasterKeys, Rotate(k) PROVE Shape'
  BY <1>3, RotateStep
<1>4. CASE Cleanup
  BY <1>4, CleanupStep
<1>5. CASE UNCHANGED vars
  BY <1>5 DEF vars, Shape, RedisShape, CallShape, RestShape
<1> QED
  BY <1>1, <1>2, <1>3, <1>4, <1>5 DEF Next

LEMMA InitCodec ==
  ASSUME NEW codec, codec = SelectCompressor(Compression, "snappy", TRUE)
  PROVE  codec \in Compressors
BY DEF SelectCompressor, Compressors

\* Every process starts with the same services.
LEMMA InitServices ==
  ASSUME Init
  PROVE  /\ services \in [Processes -> Services]
         /\ \A p \in Processes : OneActiveKey(services[p]) /\ services[p] = services[Home]
<1> DEFINE master == CHOOSE k \in MasterKeys : TRUE
           codec == SelectCompressor(Compression, "snappy", TRUE)
           s == CreateServices(Encryption, master, codec)
<1>1. services = [p \in Processes |-> s]
  BY DEF Init
<1>2. master \in MasterKeys /\ codec \in Compressors /\ Encryption \in BOOLEAN
  BY InitCodec, CryptoAssumption, RedisAssumption
<1>3. s \in Services /\ OneActiveKey(s)
  BY <1>2, ServicesMade
<1> HIDE DEF s
<1> QED
  BY <1>1, <1>3, Homes

LEMMA InitShape == Init => Shape
<1> SUFFICES ASSUME Init PROVE Shape
  OBVIOUS
<1>1. services \in [Processes -> Services] /\ \A p \in Processes : OneActiveKey(services[p])
  BY InitServices
<1>2. services[Home] \in Services
  BY <1>1, Homes
<1>3. Seal(services[Home]) \in Seals /\ NoSeal \in Seals
  BY <1>2, SealType DEF NoSeal, Seals, Compressors
<1>4. PICK keys \in {NoKeys, [k \in KeyIds |-> Old]} :
        /\ expected = keys
        /\ redis = [creds |-> Field(Old, 1, Seal(services[Home])),
                    keys |-> IF keys = NoKeys THEN Absent("keys")
                             ELSE Field(keys, 2, Seal(services[Home])),
                    meta |-> Field(None, IF keys = NoKeys THEN 1 ELSE 2, NoSeal)]
  BY DEF Init
<1>5. keys \in KeyVals /\ keys \in [KeyIds -> Calls \cup {None, Old, Unknown}]
  BY NoKeysType DEF KeyVals
<1>6. redis["creds"] \in Fields(Vals("creds"))
  BY <1>3, <1>4, FieldType DEF Names, Vals, CredVals
<1>7. redis["keys"] \in Fields(Vals("keys"))
  <2>1. CASE keys = NoKeys
    BY <1>4, <2>1, AbsentType DEF Names
  <2>2. CASE keys # NoKeys
    <3>1. redis["keys"] = Field(keys, 2, Seal(services[Home]))
      BY <1>4, <2>2
    <3>2. keys \in Vals("keys")
      BY <1>5 DEF Vals
    <3> QED
      BY <1>3, <3>1, <3>2, FieldType DEF Names
  <2> QED
    BY <2>1, <2>2
<1>8. redis["meta"] \in Fields(Vals("meta"))
  BY <1>3, <1>4, FieldType DEF Names, Vals, CredVals
<1>9. \A f \in Names : redis[f] \in Fields(Vals(f))
  BY <1>6, <1>7, <1>8 DEF Names
<1>10. \A f \in Names : Vals(f) \subseteq KeyVals \cup CredVals
  BY DEF Vals
<1>11. \A f \in Names : redis[f] \in Fields(KeyVals \cup CredVals)
  BY <1>9, <1>10 DEF Fields
<1>12. redis = [f \in Names |-> redis[f]]
  BY <1>4 DEF Names
<1>13. RedisShape
  BY <1>9, <1>11, <1>12 DEF RedisShape
<1>14. \A p \in Processes : NoCall(p) \in CallRecs /\ OpFits(NoCall(p))
  BY NoCallType
<1>15. CallShape
  <2>1. \A c \in Calls : \E p \in Processes : call[c] = NoCall(p)
    BY Homes DEF Init
  <2>2. \A c \in Calls : call[c] \in CallRecs /\ OpFits(call[c])
    BY <1>14, <2>1
  <2>3. call = [c \in Calls |-> call[c]]
    BY DEF Init
  <2> QED
    BY <2>2, <2>3 DEF CallShape
<1>16. RestShape
  BY <1>1, <1>4, <1>5 DEF Init, RestShape
<1> QED
  BY <1>13, <1>15, <1>16 DEF Shape

LEMMA ShapeHolds == Spec => []Shape
BY InitShape, ShapeStep, PTL DEF Spec

\* The state of the store is well formed, and every process can encrypt: the KeyManager
\* (src/crypto/index.ts:43-108) always has one active key, and knows it.
THEOREM TypeTheorem == Spec => []TypeOK
BY ShapeHolds, ShapeIsType, PTL

\* What MongoAuthStore could decrypt with its "auto" key (src/mongodb/store.ts:551-600), a
\* RedisAuthStore of the same process can, which reads the id back (src/redis/store.ts:490-522).
LEMMA MongoHolds == Spec => []MongoOpensNoMore
<1>1. MongoOpensNoMore
  BY DEF MongoOpensNoMore, OpensMongo, OpensRedis, Opens, Decrypts, NoKey
<1> QED
  BY <1>1, PTL

-----------------------------------------------------------------------------
(* :meta outlives the data                                                 *)

\* A call that is about to set :meta to its full time to live.
Renews(c) ==
  call[c].pc = "version" \/ (call[c].pc \in {"expireKeys", "expireMeta"} /\ Stored("meta"))

Outlived(f) == redis[f].ttl <= redis["meta"].ttl \/ \E c \in Calls : Renews(c)

MetaInv == mishaps \subseteq {"expired"} => Outlived("creds") /\ Outlived("keys")

\* The times to live are numbers.
LEMMA Lives ==
  ASSUME Shape
  PROVE  /\ redis["creds"].ttl \in 0..Ttl /\ redis["keys"].ttl \in 0..Ttl
         /\ redis["meta"].ttl \in 0..Ttl /\ Ttl \in Nat \ {0}
         /\ redis["creds"].ver \in Nat /\ redis["keys"].ver \in Nat
         /\ redis["meta"].ver \in Nat
BY RedisAssumption DEF Shape, RedisShape, Fields, Names

\* Steps that neither touch Redis nor take a call from where it renews :meta.
LEMMA MetaKept ==
  ASSUME MetaInv, redis' = redis, mishaps' = mishaps,
         \A d \in Calls : call[d].pc \in {"version", "expireKeys", "expireMeta"} => call'[d] = call[d]
  PROVE  MetaInv'
BY DEF MetaInv, Outlived, Renews, Stored

LEMMA MetaWriteField ==
  ASSUME Shape, MetaInv, NEW c \in Calls, WriteField(c)
  PROVE  MetaInv'
<1>1. call'[c].pc = "version"
  BY WriteFieldStep DEF Moves
<1>2. Renews(c)'
  BY <1>1 DEF Renews
<1> QED
  BY <1>2 DEF MetaInv, Outlived

LEMMA MetaWriteMeta ==
  ASSUME Shape, MetaInv, NEW c \in Calls, WriteMeta(c)
  PROVE  MetaInv'
<1>1. PICK failed \in BOOLEAN :
        /\ Settle(c, failed)
        /\ failed \/ redis'["meta"].ttl = Ttl
        /\ redis'["creds"] = redis["creds"] /\ redis'["keys"] = redis["keys"]
  BY WriteMetaStep
<1>2. CASE failed
  <2>1. "rejected" \in mishaps'
    BY <1>1, <1>2 DEF Settle
  <2> QED
    BY <2>1 DEF MetaInv
<1>3. CASE ~failed
  <2>1. redis'["creds"].ttl <= redis'["meta"].ttl /\ redis'["keys"].ttl <= redis'["meta"].ttl
    BY <1>1, <1>3, Lives
  <2> QED
    BY <2>1 DEF MetaInv, Outlived
<1> QED
  BY <1>2, <1>3

LEMMA MetaDelete ==
  ASSUME Shape, MetaInv, NEW c \in Calls, Delete(c)
  PROVE  MetaInv'
<1>1. "deleted" \in mishaps'
  BY DEF Delete, Settle, Shape, CallShape, OpFits
<1> QED
  BY <1>1 DEF MetaInv

LEMMA MetaTouch ==
  ASSUME Shape, MetaInv, NEW c \in Calls, Touch(c)
  PROVE  MetaInv'
<1> SUFFICES ASSUME mishaps' \subseteq {"expired"}, NEW f \in {"creds", "keys"}
             PROVE  Outlived(f)'
  BY DEF MetaInv
<1> DEFINE g == ExpireStep(c)
<1>1. /\ call'[c].pc = NextExpire(c) /\ \A d \in Calls : d # c => call'[d] = call[d]
      /\ call[c].pc \in {"expireCreds", "expireKeys", "expireMeta"}
      /\ redis'[g].ttl = IF redis[g].ttl > 0 THEN Ttl ELSE 0
      /\ \A h \in Names : h # g => redis'[h] = redis[h]
  BY TouchStep DEF Moves, Expired
<1>2. Outlived(f)
  BY DEF MetaInv, Touch
<1>3. (Stored("meta") <=> Stored("meta")') /\ redis["meta"].ttl <= redis'["meta"].ttl
  <2>1. CASE g = "meta"
    BY <1>1, <2>1, Lives DEF Stored
  <2>2. CASE g # "meta"
    BY <1>1, <2>2, Lives DEF Stored, Names
  <2> QED
    BY <2>1, <2>2
<1>4. CASE \E d \in Calls : d # c /\ Renews(d)
  <2>1. PICK d \in Calls : d # c /\ Renews(d)
    BY <1>4
  <2>2. Renews(d)'
    BY <1>1, <1>3, <2>1 DEF Renews
  <2> QED
    BY <2>2 DEF Outlived
<1>5. CASE ~\E d \in Calls : d # c /\ Renews(d)
  <2>1. redis[f].ttl <= redis["meta"].ttl \/ Stored("meta")
    BY <1>1, <1>2, <1>5 DEF Outlived, Renews
  <2>2. CASE call[c].pc \in {"expireCreds", "expireKeys"}
    <3>1. call'[c].pc \in {"expireKeys", "expireMeta"}
      BY <1>1, <2>2 DEF NextExpire
    <3>2. CASE Stored("meta")
      BY <1>3, <3>1, <3>2 DEF Outlived, Renews
    <3>3. CASE ~Stored("meta")
      <4>1. redis[f].ttl = 0 /\ redis["meta"].ttl = 0
        BY <2>1, <3>3, Lives DEF Stored
      <4>2. redis'[f].ttl = 0
        BY <1>1, <4>1 DEF Names
      <4>3. redis'["meta"].ttl = 0
        BY <1>1, <4>1 DEF Names
      <4> QED
        BY <4>2, <4>3 DEF Outlived
    <3> QED
      BY <3>2, <3>3
  <2>3. CASE call[c].pc = "expireMeta"
    <3>1. g = "meta" /\ redis'[f] = redis[f]
      BY <1>1, <2>3 DEF ExpireStep, Names
    <3>2. redis'[f].ttl <= redis'["meta"].ttl
      <4>1. CASE Stored("meta")
        BY <1>1, <3>1, <4>1, Lives DEF Stored
      <4>2. CASE ~Stored("meta")
        BY <1>1, <2>1, <3>1, <4>2, Lives DEF Stored
      <4> QED
        BY <4>1, <4>2
    <3> QED
      BY <3>2 DEF Outlived
  <2> QED
    BY <1>1, <2>2, <2>3
<1> QED
  BY <1>4, <1>5

LEMMA MetaTick ==
  ASSUME Shape, MetaInv, Tick
  PROVE  MetaInv'
<1> SUFFICES ASSUME mishaps' \subseteq {"expired"}, NEW f \in {"creds", "keys"}
             PROVE  redis'[f].ttl <= redis'["meta"].ttl
  BY DEF MetaInv, Outlived
<1>1. Quiet /\ Ticked(f) /\ Ticked("meta")
  BY TickStep
<1>2. mishaps \subseteq {"expired"}
  BY DEF Tick
<1>3. Outlived(f)
  BY <1>2 DEF MetaInv
<1>4. \A c \in Calls : ~Renews(c)
  BY <1>1 DEF Quiet, Running, Finished, Renews
<1>5. redis[f].ttl <= redis["meta"].ttl
  BY <1>3, <1>4 DEF Outlived
<1>6. Absent(f).ttl = 0 /\ Absent("meta").ttl = 0
  BY AbsentType DEF Names
<1>7. redis[f].ttl \in Nat /\ redis["meta"].ttl \in Nat
  BY Lives
<1>8. redis'[f].ttl = (IF redis[f].ttl <= 1 THEN 0 ELSE redis[f].ttl - 1)
      /\ redis'["meta"].ttl = (IF redis["meta"].ttl <= 1 THEN 0 ELSE redis["meta"].ttl - 1)
  BY <1>1, <1>6 DEF Ticked, Expired
<1> QED
  BY <1>5, <1>7, <1>8

LEMMA MetaStep == Shape /\ MetaInv /\ [Next]_vars => MetaInv'
<1> SUFFICES ASSUME Shape, MetaInv, [Next]_vars PROVE MetaInv'
  OBVIOUS
<1>1. ASSUME NEW c \in Calls, Step(c) PROVE MetaInv'
  <2>1. CASE Prepares(c)
    BY <2>1, PrepareStep, MetaKept
  <2> QED
    BY <1>1, <2>1, MetaWriteField, MetaWriteMeta, MetaDelete, MetaTouch DEF Step, Prepares
<1>2. CASE Tick
  BY <1>2, MetaTick
<1>3. CASE (\E k \in MasterKeys : Rotate(k)) \/ Cleanup \/ UNCHANGED vars
  BY <1>3, MetaKept DEF Rotate, Cleanup, vars
<1> QED
  BY <1>1, <1>2, <1>3 DEF Next

\* What SETEX has stored at the beginning.
LEMMA InitFields ==
  ASSUME Init
  PROVE  /\ redis["creds"] = Field(Old, 1, Seal(services[Home]))
         /\ expected \in {NoKeys, [k \in KeyIds |-> Old]}
         /\ redis["keys"] = IF expected = NoKeys THEN Absent("keys")
                             ELSE Field(expected, 2, Seal(services[Home]))
         /\ redis["meta"] = Field(None, IF expected = NoKeys THEN 1 ELSE 2, NoSeal)
<1>1. PICK keys \in {NoKeys, [k \in KeyIds |-> Old]} :
        /\ expected = keys
        /\ redis = [creds |-> Field(Old, 1, Seal(services[Home])),
                    keys |-> IF keys = NoKeys THEN Absent("keys")
                             ELSE Field(keys, 2, Seal(services[Home])),
                    meta |-> Field(None, IF keys = NoKeys THEN 1 ELSE 2, NoSeal)]
  BY DEF Init
<1> QED
  BY <1>1

LEMMA InitCalls ==
  ASSUME Init, NEW c \in Calls
  PROVE  /\ call[c].pc = "idle" /\ call[c].op = "keysGet" /\ call[c].read = NoRead
         /\ call[c].at \in (IF "processes" \in setting THEN Processes ELSE {Home})
<1>1. \E p \in (IF "processes" \in setting THEN Processes ELSE {Home}) : call[c] = NoCall(p)
  BY DEF Init
<1> QED
  BY <1>1, NoCallType, Homes

LEMMA InitMeta == Init => MetaInv
<1> SUFFICES ASSUME Init PROVE MetaInv
  OBVIOUS
<1>1. redis["creds"].ttl = Ttl /\ redis["meta"].ttl = Ttl
  BY InitFields DEF Field
<1>2. redis["keys"].ttl \in {0, Ttl}
  BY InitFields DEF Field, Absent
<1>3. redis["creds"].ttl <= redis["meta"].ttl /\ redis["keys"].ttl <= redis["meta"].ttl
  BY <1>1, <1>2, RedisAssumption
<1> QED
  BY <1>3 DEF MetaInv, Outlived

LEMMA MetaHolds == Spec => []MetaInv
BY InitMeta, MetaStep, ShapeHolds, PTL DEF Spec

LEMMA MetaShows == MetaInv => MetaOutlivesFields
BY DEF MetaInv, Outlived, Renews, MetaOutlivesFields, Quiet, Running, Finished

\* Whichever processes write, :creds and :keys never outlive :meta, so that the version does
\* not begin again over data that is still there: the pipeline of set ends with :meta, and
\* touch renews it last (src/redis/store.ts:343-372, 428-447).
THEOREM MetaTheorem == Spec => []MetaOutlivesFields
BY MetaHolds, MetaShows, PTL

-----------------------------------------------------------------------------
(* What is not stored, and what is being touched                           *)

\* A touch renews one field after the other, and no time passes between.
Renewed(c) ==
  /\ call[c].pc \in {"expireKeys", "expireMeta"} => redis["creds"].ttl \in {0, Ttl}
  /\ call[c].pc = "expireMeta" => redis["keys"].ttl \in {0, Ttl}

\* What is not stored has no value and no version; stored creds have an identity.
Empty(f) == ~Stored(f) => redis[f].val = Absent(f).val /\ redis[f].ver = 0

FieldsInv ==
  /\ Empty("creds") /\ Empty("keys") /\ Empty("meta")
  /\ Stored("creds") => redis["creds"].val # None
  /\ \A c \in Calls : Renewed(c)

LEMMA FieldsKept ==
  ASSUME FieldsInv, redis' = redis,
         \A d \in Calls : call'[d].pc \in {"expireKeys", "expireMeta"} => call'[d] = call[d]
  PROVE  FieldsInv'
BY DEF FieldsInv, Empty, Stored, Renewed

LEMMA FieldsPrepare ==
  ASSUME Shape, FieldsInv, NEW c \in Calls, Prepares(c)
  PROVE  FieldsInv'
<1>1. redis' = redis /\ \A d \in Calls : d # c => call'[d] = call[d]
  BY PrepareStep
<1>2. call'[c].pc \notin {"expireKeys", "expireMeta"}
  <2>1. CASE \E o \in Ops, k \in KeyIds : Begin(c, o, k)
    <3>1. PICK o \in Ops, k \in KeyIds : Begin(c, o, k)
      BY <2>1
    <3>2. call'[c].pc = CASE o = "delete" -> "del" [] o = "touch" -> "expireCreds"
                          [] OTHER -> "meta"
      BY <3>1, BeginStep
    <3> QED
      BY <3>2
  <2>2. CASE ReadMeta(c)
    BY <2>2, ReadMetaStep DEF Moves
  <2>3. CASE FailMeta(c)
    BY <2>3, FailMetaStep DEF Moves
  <2>4. CASE ReadCreds(c)
    BY <2>4, ReadCredsStep DEF Moves
  <2>5. CASE ReadKeys(c)
    BY <2>5, ReadKeysStep DEF Moves, GoesOn
  <2>6. CASE Merge(c)
    BY <2>6, MergeStep DEF Sends, Moves
  <2> QED
    BY <2>1, <2>2, <2>3, <2>4, <2>5, <2>6 DEF Prepares
<1> QED
  BY <1>1, <1>2, FieldsKept

LEMMA FieldsWriteField ==
  ASSUME Shape, FieldsInv, NEW c \in Calls, WriteField(c)
  PROVE  FieldsInv'
<1>1. /\ call'[c].pc = "version" /\ \A d \in Calls : d # c => call'[d] = call[d]
      /\ FieldSent(c)
  BY WriteFieldStep DEF Moves
<1>2. CASE call'[c].failed
  BY <1>1, <1>2, FieldsKept DEF FieldSent
<1>3. CASE ~call'[c].failed
  <2> DEFINE f == FieldOf(c)
  <2>1. /\ redis'[f].val = ValOf(c) /\ redis'[f].ttl = Ttl /\ Ttl > 0
        /\ \A g \in Names : g # f => redis'[g] = redis[g]
    BY <1>1, <1>3 DEF FieldSent
  <2>2. f = "creds" => redis'[f].val # None
    <3>1. call[c].at \in Processes
      BY DEF Shape, CallShape, CallRecs
    <3>2. memory[call[c].at] # None
      BY <3>1, RedisAssumption DEF Shape, RestShape
    <3> QED
      BY <2>1, <3>2 DEF FieldOf, ValOf
  <2>3. f \in {"creds", "keys"}
    BY DEF FieldOf
  <2> HIDE DEF f
  <2>4. Empty("creds")' /\ Empty("keys")' /\ Empty("meta")'
    BY <2>1, <2>3 DEF FieldsInv, Empty, Stored, Names, Absent
  <2>5. Stored("creds")' => redis'["creds"].val # None
    BY <2>1, <2>2, <2>3 DEF FieldsInv, Stored, Names
  <2>6. ASSUME NEW d \in Calls PROVE Renewed(d)'
    <3>1. CASE d = c
      BY <1>1, <3>1 DEF Renewed
    <3>2. CASE d # c
      <4>1. call'[d] = call[d] /\ Renewed(d)
        BY <1>1, <3>2 DEF FieldsInv
      <4>2. redis'["creds"].ttl \in {redis["creds"].ttl, Ttl}
            /\ redis'["keys"].ttl \in {redis["keys"].ttl, Ttl}
        BY <2>1, <2>3 DEF Names
      <4> QED
        BY <4>1, <4>2 DEF Renewed
    <3> QED
      BY <3>1, <3>2
  <2> QED
    BY <2>4, <2>5, <2>6 DEF FieldsInv
<1> QED
  BY <1>2, <1>3

LEMMA FieldsWriteMeta ==
  ASSUME Shape, FieldsInv, NEW c \in Calls, WriteMeta(c)
  PROVE  FieldsInv'
<1>1. /\ call'[c].pc \in Finished /\ \A d \in Calls : d # c => call'[d] = call[d]
      /\ redis'["creds"] = redis["creds"] /\ redis'["keys"] = redis["keys"]
  BY WriteMetaStep DEF Ends, Finished
<1>2. Empty("meta")'
  <2>1. CASE redis' = [redis EXCEPT !["meta"] = Field(None, NewVersion(c), NoSeal)]
    <3>1. redis'["meta"].ttl = Ttl /\ Ttl > 0
      BY <2>1, RedisAssumption DEF Shape, RedisShape, Names, Field
    <3> QED
      BY <3>1 DEF Empty, Stored
  <2>2. CASE redis' = redis
    BY <2>2 DEF FieldsInv, Empty, Stored
  <2> QED
    BY <2>1, <2>2 DEF WriteMeta
<1>3. \A d \in Calls : Renewed(d)'
  BY <1>1 DEF FieldsInv, Renewed, Finished
<1> QED
  BY <1>1, <1>2, <1>3 DEF FieldsInv, Empty, Stored

LEMMA FieldsDelete ==
  ASSUME Shape, FieldsInv, NEW c \in Calls, Delete(c)
  PROVE  FieldsInv'
<1>1. \A f \in Names : redis'[f] = Absent(f) /\ redis'[f].ttl = 0 /\ redis'[f].ver = 0
  BY DeleteStep, AbsentType DEF Names
<1>2. \A f \in Names : Empty(f)'
  BY <1>1 DEF Empty, Absent
<1> QED
  BY <1>1, <1>2 DEF FieldsInv, Renewed, Stored, Names

LEMMA FieldsTouch ==
  ASSUME Shape, FieldsInv, NEW c \in Calls, Touch(c)
  PROVE  FieldsInv'
<1> DEFINE g == ExpireStep(c)
<1>1. /\ call'[c].pc = NextExpire(c) /\ \A d \in Calls : d # c => call'[d] = call[d]
      /\ call[c].pc \in {"expireCreds", "expireKeys", "expireMeta"}
      /\ redis'[g].val = redis[g].val /\ redis'[g].ver = redis[g].ver
      /\ redis'[g].ttl = IF redis[g].ttl > 0 THEN Ttl ELSE 0
      /\ \A h \in Names : h # g => redis'[h] = redis[h]
  BY TouchStep DEF Moves, Expired
<1>2. Ttl > 0
  BY RedisAssumption
<1>3. \A f \in Names : /\ redis'[f].val = redis[f].val /\ redis'[f].ver = redis[f].ver
                       /\ Stored(f)' <=> Stored(f)
                       /\ redis'[f].ttl \in {redis[f].ttl, 0, Ttl}
  BY <1>1, <1>2 DEF Stored
<1>4. \A f \in Names : Empty(f) => Empty(f)'
  BY <1>3 DEF Empty, Absent
<1>5. ASSUME NEW d \in Calls PROVE Renewed(d)'
  <2>1. Renewed(d)
    BY DEF FieldsInv
  <2>2. CASE d # c
    BY <1>1, <1>3, <2>1, <2>2 DEF Renewed, Names
  <2>3. CASE d = c /\ call[c].pc = "expireCreds"
    <3>1. g = "creds" /\ call'[c].pc = "expireKeys"
      BY <1>1, <2>3 DEF ExpireStep, NextExpire
    <3> QED
      BY <1>1, <2>3, <3>1 DEF Renewed
  <2>4. CASE d = c /\ call[c].pc = "expireKeys"
    <3>1. g = "keys" /\ call'[c].pc = "expireMeta"
      BY <1>1, <2>4 DEF ExpireStep, NextExpire
    <3> QED
      BY <1>1, <1>3, <2>1, <2>4, <3>1 DEF Renewed, Names
  <2>5. CASE d = c /\ call[c].pc = "expireMeta"
    <3>1. call'[c].pc = "done"
      BY <1>1, <2>5 DEF NextExpire
    <3> QED
      BY <2>5, <3>1 DEF Renewed
  <2> QED
    BY <1>1, <2>2, <2>3, <2>4, <2>5
<1> QED
  BY <1>3, <1>4, <1>5 DEF FieldsInv, Names

LEMMA FieldsTick ==
  ASSUME Shape, FieldsInv, Tick
  PROVE  FieldsInv'
<1>1. Quiet /\ call' = call /\ Ticked("creds") /\ Ticked("keys") /\ Ticked("meta")
  BY TickStep
<1>2. \A c \in Calls : Renewed(c)'
  BY <1>1 DEF Quiet, Running, Finished, Renewed
<1>3. \A f \in Names : Absent(f).ttl = 0 /\ Absent(f).ver = 0 /\ redis[f].ttl \in Nat
  BY AbsentType, Lives DEF Names
<1>4. ASSUME NEW f \in Names, Ticked(f)
      PROVE  /\ Empty(f)'
             /\ Stored(f)' => Stored(f) /\ redis'[f].val = redis[f].val
  <2>1. CASE redis[f].ttl <= 1
    BY <1>3, <1>4, <2>1 DEF Ticked, Empty, Stored, Absent
  <2>2. CASE ~(redis[f].ttl <= 1)
    BY <1>3, <1>4, <2>2 DEF Ticked, Expired, Empty, Stored
  <2> QED
    BY <2>1, <2>2
<1>5. Empty("creds")' /\ Empty("keys")' /\ Empty("meta")'
      /\ (Stored("creds")' => Stored("creds") /\ redis'["creds"].val = redis["creds"].val)
  BY <1>1, <1>4 DEF Names
<1> QED
  BY <1>2, <1>5 DEF FieldsInv

LEMMA FieldsStep == Shape /\ FieldsInv /\ [Next]_vars => FieldsInv'
<1> SUFFICES ASSUME Shape, FieldsInv, [Next]_vars PROVE FieldsInv'
  OBVIOUS
<1>1. ASSUME NEW c \in Calls, Step(c) PROVE FieldsInv'
  BY <1>1, FieldsPrepare, FieldsWriteField, FieldsWriteMeta, FieldsDelete, FieldsTouch
     DEF Step, Prepares
<1>2. CASE Tick
  BY <1>2, FieldsTick
<1>3. CASE (\E k \in MasterKeys : Rotate(k)) \/ Cleanup \/ UNCHANGED vars
  BY <1>3, FieldsKept DEF Rotate, Cleanup, vars
<1> QED
  BY <1>1, <1>2, <1>3 DEF Next

LEMMA InitFieldsInv == Init => FieldsInv
<1> SUFFICES ASSUME Init PROVE FieldsInv
  OBVIOUS
<1>1. redis["creds"].ttl = Ttl /\ redis["meta"].ttl = Ttl /\ redis["creds"].val = Old
  BY InitFields DEF Field
<1>2. Ttl > 0 /\ Old # None
  BY RedisAssumption
<1>3. Empty("keys")
  <2>1. CASE expected = NoKeys
    BY <2>1, InitFields DEF Empty, Absent
  <2>2. CASE expected # NoKeys
    <3>1. redis["keys"].ttl = Ttl
      BY <2>2, InitFields DEF Field
    <3> QED
      BY <1>2, <3>1 DEF Empty, Stored
  <2> QED
    BY <2>1, <2>2
<1>4. \A c \in Calls : Renewed(c)
  BY InitCalls DEF Renewed
<1> QED
  BY <1>1, <1>2, <1>3, <1>4 DEF FieldsInv, Empty, Stored

LEMMA FieldsHold == Spec => []FieldsInv
BY InitFieldsInv, FieldsStep, ShapeHolds, PTL DEF Spec

-----------------------------------------------------------------------------
(* Writers that take turns                                                 *)

Writer(c) == Running(c) /\ call[c].op \in Writing

OneWriter == \A c, d \in Calls : Writer(c) /\ Writer(d) => c = d

\* Where a call is, if it writes.
LEMMA WriterAt ==
  ASSUME Shape, NEW c \in Calls, call[c].pc \in {"merge", "field", "version", "del"}
  PROVE  Writer(c)
BY DEF Shape, CallShape, OpFits, Writer, Running, Finished, Writing, Merging

\* A call that was running writes after a step only if it wrote before.
LEMMA TurnKept ==
  ASSUME OneWriter, NEW c \in Calls, \A d \in Calls : d # c => call'[d] = call[d],
         Writer(c)' => Writer(c)
  PROVE  OneWriter'
<1>1. \A d \in Calls : Writer(d)' => Writer(d)
  BY DEF Writer, Running
<1> QED
  BY <1>1 DEF OneWriter

LEMMA MovesTurn ==
  ASSUME OneWriter, NEW c \in Calls, NEW where, Moves(c, where), Running(c)
  PROVE  OneWriter'
<1>1. call'[c].op = call[c].op /\ \A d \in Calls : d # c => call'[d] = call[d]
  BY DEF Moves
<1>2. Writer(c)' => Writer(c)
  BY <1>1 DEF Writer
<1> QED
  BY <1>1, <1>2, TurnKept

LEMMA EndsTurn ==
  ASSUME OneWriter, NEW c \in Calls, NEW where, Ends(c, where)
  PROVE  OneWriter'
<1>1. call'[c].op = "keysGet" /\ \A d \in Calls : d # c => call'[d] = call[d]
  BY DEF Ends
<1>2. ~Writer(c)'
  BY <1>1 DEF Writer, Writing
<1> QED
  BY <1>1, <1>2, TurnKept

LEMMA TurnBegin ==
  ASSUME Shape, OneWriter, WritersTakeTurns,
         NEW c \in Calls, NEW o \in Ops, NEW k \in KeyIds, Begin(c, o, k)
  PROVE  OneWriter'
<1>1. /\ call[c].pc = "idle" /\ call'[c].op = o
      /\ call'[c].pc = CASE o = "delete" -> "del" [] o = "touch" -> "expireCreds"
                         [] OTHER -> "meta"
      /\ \A d \in Calls : d # c => call'[d] = call[d]
  BY BeginStep
<1>2. call'[c].pc # "idle"
  BY <1>1
<1>3. CASE o \in Writing
  <2>1. \A d \in Calls : d # c => ~Writer(d)
    BY <1>1, <1>2, <1>3 DEF WritersTakeTurns, Writer, Running
  <2>2. \A d \in Calls : d # c => ~Writer(d)'
    BY <1>1, <2>1 DEF Writer, Running
  <2> QED
    BY <2>2 DEF OneWriter
<1>4. CASE o \notin Writing
  <2>1. ~Writer(c)'
    BY <1>1, <1>4 DEF Writer
  <2> QED
    BY <1>1, <2>1, TurnKept
<1> QED
  BY <1>3, <1>4

LEMMA TurnStep == Shape /\ OneWriter /\ [Next]_vars /\ [WritersTakeTurns]_vars => OneWriter'
<1> SUFFICES ASSUME Shape, OneWriter, [Next]_vars, [WritersTakeTurns]_vars PROVE OneWriter'
  OBVIOUS
<1>1. CASE UNCHANGED call
  BY <1>1 DEF OneWriter, Writer, Running
<1>2. ASSUME NEW c \in Calls, Step(c) PROVE OneWriter'
  <2>1. CASE \E o \in Ops, k \in KeyIds : Begin(c, o, k)
    <3>1. PICK o \in Ops, k \in KeyIds : Begin(c, o, k)
      BY <2>1
    <3>2. vars' # vars
      <4>1. call' # call
        BY <1>1, <3>1, BeginStep
      <4> QED
        BY <4>1 DEF vars
    <3> QED
      BY <3>1, <3>2, TurnBegin
  <2>2. CASE ReadMeta(c)
    BY <2>2, ReadMetaStep, MovesTurn DEF ReadMeta, Running, Finished
  <2>3. CASE FailMeta(c)
    BY <2>3, FailMetaStep, MovesTurn DEF FailMeta, Running, Finished
  <2>4. CASE ReadCreds(c)
    BY <2>4, ReadCredsStep, MovesTurn DEF ReadCreds, Running, Finished
  <2>5. CASE ReadKeys(c)
    BY <2>5, ReadKeysStep, MovesTurn DEF ReadKeys, Running, Finished
  <2>6. CASE Merge(c)
    BY <2>6, MergeStep, MovesTurn DEF Merge, Sends, Running, Finished
  <2>7. CASE WriteField(c)
    BY <2>7, WriteFieldStep, MovesTurn DEF WriteField, Running, Finished
  <2>8. CASE WriteMeta(c)
    BY <2>8, WriteMetaStep, EndsTurn
  <2>9. CASE Delete(c)
    BY <2>9, DeleteStep, EndsTurn
  <2>10. CASE Touch(c)
    BY <2>10, TouchStep, MovesTurn DEF Running, Finished
  <2> QED
    BY <1>2, <2>1, <2>2, <2>3, <2>4, <2>5, <2>6, <2>7, <2>8, <2>9, <2>10 DEF Step
<1>3. CASE Tick \/ (\E k \in MasterKeys : Rotate(k)) \/ Cleanup \/ UNCHANGED vars
  BY <1>1, <1>3 DEF Tick, Rotate, Cleanup, vars
<1> QED
  BY <1>2, <1>3 DEF Next

LEMMA InitTurn == Init => OneWriter
BY InitCalls DEF OneWriter, Writer, Running

LEMMA TurnHolds == Spec /\ [][WritersTakeTurns]_vars => []OneWriter
BY InitTurn, TurnStep, ShapeHolds, PTL DEF Spec

-----------------------------------------------------------------------------
(* A set merges into what is stored                                        *)

Patched(c) == [redis["keys"].val EXCEPT ![call[c].key] = Patch(c)]

\* What a set of keys is about to send, and has sent.
SetFits(c) ==
  /\ call[c].op \in Merging /\ call[c].pc = "field" => call[c].merged = Patched(c)
  /\ call[c].op \in Merging /\ call[c].pc = "version" /\ ~call[c].failed =>
       redis["keys"].val = call[c].merged

Expects(k) ==
  \/ expected[k] = Unknown \/ redis["keys"].val[k] = expected[k]
  \/ \E c \in Calls : call[c].op \in Merging /\ call[c].pc = "version" /\ call[c].key = k

KeysInv ==
  ~blind => /\ \A c \in Calls : SetFits(c)
            /\ \A k \in KeyIds : Expects(k)

LEMMA KeysKept ==
  ASSUME KeysInv, redis'["keys"].val = redis["keys"].val, expected' = expected, ~blind' => ~blind,
         \A d \in Calls : call'[d].op \in Merging /\ call'[d].pc \in {"field", "version"} =>
                            call'[d] = call[d],
         \A d \in Calls : call[d].op \in Merging /\ call[d].pc = "version" => call'[d] = call[d]
  PROVE  KeysInv'
<1> SUFFICES ASSUME ~blind' PROVE (\A d \in Calls : SetFits(d)') /\ \A k \in KeyIds : Expects(k)'
  BY DEF KeysInv
<1>1. ASSUME NEW d \in Calls PROVE SetFits(d)'
  <2>1. SetFits(d)
    BY <1>1 DEF KeysInv
  <2>2. CASE call'[d] = call[d]
    BY <2>1, <2>2 DEF SetFits, Patched, Patch
  <2>3. CASE call'[d] # call[d]
    <3>1. ~(call'[d].op \in Merging /\ call'[d].pc \in {"field", "version"})
      BY <1>1, <2>3
    <3> QED
      BY <3>1 DEF SetFits
  <2> QED
    BY <2>2, <2>3
<1>2. ASSUME NEW k \in KeyIds PROVE Expects(k)'
  <2>1. Expects(k)
    BY <1>2 DEF KeysInv
  <2> QED
    BY <2>1 DEF Expects
<1> QED
  BY <1>1, <1>2

LEMMA KeysMerge ==
  ASSUME Shape, FieldsInv, KeysInv, NEW c \in Calls, Merge(c)
  PROVE  KeysInv'
<1> SUFFICES ASSUME ~blind' PROVE (\A d \in Calls : SetFits(d)') /\ \A k \in KeyIds : Expects(k)'
  BY DEF KeysInv
<1>1. PICK keys \in KeyVals, ver \in Nat :
        /\ Sends(c, [keys EXCEPT ![call[c].key] = Patch(c)], Seal(services[call[c].at]))
        /\ ~blind /\ Saw("keys", keys, ver)
  BY MergeStep
<1>2. keys = redis["keys"].val
  BY <1>1 DEF Saw, FieldsInv, Empty
<1>3. redis' = redis /\ expected' = expected
  BY DEF Merge
<1>4. /\ call'[c].pc = "field" /\ call'[c].op = call[c].op /\ call'[c].key = call[c].key
      /\ call'[c].merged = [keys EXCEPT ![call[c].key] = Patch(c)]
      /\ \A d \in Calls : d # c => call'[d] = call[d]
  BY <1>1 DEF Sends, Moves
<1>5. Patch(c)' = Patch(c)
  BY <1>4 DEF Patch
<1>6. SetFits(c)'
  BY <1>2, <1>3, <1>4, <1>5 DEF SetFits, Patched
<1>7. ASSUME NEW d \in Calls, d # c PROVE SetFits(d)'
  BY <1>1, <1>3, <1>4, <1>7 DEF KeysInv, SetFits, Patched, Patch
<1>8. call[c].pc = "merge"
  BY DEF Merge
<1>9. ASSUME NEW k \in KeyIds PROVE Expects(k)'
  BY <1>1, <1>3, <1>4, <1>8 DEF KeysInv, Expects
<1> QED
  BY <1>6, <1>7, <1>9

LEMMA KeysPrepare ==
  ASSUME Shape, FieldsInv, KeysInv, NEW c \in Calls, Prepares(c)
  PROVE  KeysInv'
<1>1. /\ redis' = redis /\ expected' = expected /\ (~blind' => ~blind)
      /\ call[c].pc # "version" /\ \A d \in Calls : d # c => call'[d] = call[d]
  BY PrepareStep
<1>2. CASE Merge(c)
  BY <1>2, KeysMerge
<1>3. CASE ~Merge(c)
  <2>1. ~(call'[c].op \in Merging /\ call'[c].pc \in {"field", "version"})
    <3>1. CASE \E o \in Ops, k \in KeyIds : Begin(c, o, k)
      <4>1. PICK o \in Ops, k \in KeyIds : Begin(c, o, k)
        BY <3>1
      <4>2. call'[c].pc = CASE o = "delete" -> "del" [] o = "touch" -> "expireCreds"
                            [] OTHER -> "meta"
        BY <4>1, BeginStep
      <4> QED
        BY <4>2
    <3>2. CASE ReadMeta(c)
      BY <3>2, ReadMetaStep DEF Moves
    <3>3. CASE FailMeta(c)
      BY <3>3, FailMetaStep DEF Moves
    <3>4. CASE ReadCreds(c)
      BY <3>4, ReadCredsStep DEF Moves
    <3>5. CASE ReadKeys(c)
      BY <3>5, ReadKeysStep DEF Moves, GoesOn, Merging
    <3> QED
      BY <1>3, <3>1, <3>2, <3>3, <3>4, <3>5 DEF Prepares
  <2> QED
    BY <1>1, <2>1, KeysKept
<1> QED
  BY <1>2, <1>3

LEMMA KeysWriteField ==
  ASSUME Shape, OneWriter, KeysInv, NEW c \in Calls, WriteField(c)
  PROVE  KeysInv'
<1> SUFFICES ASSUME ~blind' PROVE (\A d \in Calls : SetFits(d)') /\ \A k \in KeyIds : Expects(k)'
  BY DEF KeysInv
<1>1. ~blind /\ expected' = expected /\ call[c].pc = "field"
  BY DEF WriteField
<1>2. /\ call'[c].pc = "version" /\ call'[c].op = call[c].op /\ call'[c].key = call[c].key
      /\ call'[c].merged = call[c].merged
      /\ FieldSent(c) /\ \A d \in Calls : d # c => call'[d] = call[d]
  BY WriteFieldStep DEF Moves
<1>3. Writer(c) /\ call[c].op \in Merging \cup {"saveCreds"}
  BY <1>1, WriterAt DEF Shape, CallShape, OpFits
<1>4. \A d \in Calls : d # c => call[d].pc \notin {"field", "version"}
  BY <1>3, WriterAt DEF OneWriter
<1>5. SetFits(c)'
  BY <1>2 DEF SetFits, FieldSent, FieldOf, ValOf, Merging
<1>6. ASSUME NEW d \in Calls, d # c PROVE SetFits(d)'
  BY <1>2, <1>4, <1>6 DEF SetFits
<1>7. ASSUME NEW k \in KeyIds PROVE Expects(k)'
  <2>1. expected[k] = Unknown \/ redis["keys"].val[k] = expected[k]
    BY <1>1, <1>4 DEF KeysInv, Expects
  <2>2. CASE call[c].op \in Merging /\ call[c].key = k
    BY <1>2, <2>2 DEF Expects
  <2>3. CASE call[c].op \in Merging /\ call[c].key # k
    <3>1. call[c].merged = Patched(c)
      BY <1>1, <2>3 DEF KeysInv, SetFits
    <3>2. redis["keys"].val \in KeyVals
      BY DEF Shape, RedisShape, Fields, Vals, Names
    <3>3. call[c].merged[k] = redis["keys"].val[k]
      BY <2>3, <3>1, <3>2 DEF Patched, KeyVals
    <3>4. redis'["keys"].val = call[c].merged \/ redis' = redis
      BY <1>2, <2>3 DEF FieldSent, FieldOf, ValOf, Merging
    <3>5. redis'["keys"].val[k] = redis["keys"].val[k]
      BY <3>3, <3>4
    <3> QED
      BY <1>1, <2>1, <3>5 DEF Expects
  <2>4. CASE call[c].op = "saveCreds"
    <3>1. redis'["keys"] = redis["keys"]
      BY <1>2, <2>4 DEF FieldSent, FieldOf, Names
    <3> QED
      BY <1>1, <2>1, <3>1 DEF Expects
  <2> QED
    BY <1>3, <2>2, <2>3, <2>4
<1> QED
  BY <1>5, <1>6, <1>7

LEMMA KeysWriteMeta ==
  ASSUME Shape, OneWriter, KeysInv, NEW c \in Calls, WriteMeta(c)
  PROVE  KeysInv'
<1> SUFFICES ASSUME ~blind' PROVE (\A d \in Calls : SetFits(d)') /\ \A k \in KeyIds : Expects(k)'
  BY DEF KeysInv
<1>1. ~blind /\ call[c].pc = "version"
  BY DEF WriteMeta
<1>2. PICK failed \in BOOLEAN :
        /\ Settle(c, failed) /\ Ends(c, IF failed THEN "rejected" ELSE "done")
        /\ failed \/ ~call[c].failed
        /\ redis'["keys"] = redis["keys"]
  BY WriteMetaStep
<1>3. /\ call'[c].pc \in Finished /\ \A d \in Calls : d # c => call'[d] = call[d]
  BY <1>2 DEF Ends, Finished
<1>4. Writer(c) /\ call[c].op \in Merging \cup {"saveCreds"}
  BY <1>1, WriterAt DEF Shape, CallShape, OpFits
<1>5. \A d \in Calls : d # c => call[d].pc \notin {"field", "version"}
  BY <1>4, WriterAt DEF OneWriter
<1>6. \A d \in Calls : SetFits(d)'
  BY <1>3, <1>5 DEF SetFits, Finished
<1>7. ASSUME NEW k \in KeyIds PROVE Expects(k)'
  <2>1. Expects(k) /\ SetFits(c)
    BY <1>1 DEF KeysInv
  <2>2. CASE call[c].op \in Merging /\ call[c].key = k
    <3>1. expected' = [expected EXCEPT ![k] = IF failed THEN Unknown ELSE call[c].merged[k]]
      BY <1>2, <2>2 DEF Settle, Merging
    <3>2. expected'[k] = IF failed THEN Unknown ELSE call[c].merged[k]
      BY <3>1 DEF Shape, RestShape
    <3>3. failed \/ redis["keys"].val[k] = call[c].merged[k]
      BY <1>1, <1>2, <2>1, <2>2 DEF SetFits
    <3> QED
      BY <1>2, <3>2, <3>3 DEF Expects
  <2>3. CASE ~(call[c].op \in Merging /\ call[c].key = k)
    <3>1. expected[k] = Unknown \/ redis["keys"].val[k] = expected[k]
      BY <1>5, <2>1, <2>3 DEF Expects
    <3>2. expected'[k] = expected[k]
      BY <1>2, <1>4, <2>3 DEF Settle, Merging, Shape, RestShape
    <3> QED
      BY <1>2, <3>1, <3>2 DEF Expects
  <2> QED
    BY <2>2, <2>3
<1> QED
  BY <1>6, <1>7

LEMMA KeysDelete ==
  ASSUME Shape, OneWriter, KeysInv, NEW c \in Calls, Delete(c)
  PROVE  KeysInv'
<1>1. /\ call'[c].pc = "done" /\ \A d \in Calls : d # c => call'[d] = call[d]
      /\ redis'["keys"] = Absent("keys") /\ Settle(c, FALSE)
  BY DeleteStep DEF Ends
<1>2. call[c].pc = "del"
  BY DEF Delete
<1>3. Writer(c) /\ call[c].op = "delete"
  BY <1>2, WriterAt DEF Shape, CallShape, OpFits
<1>4. \A d \in Calls : d # c => call[d].pc \notin {"field", "version"}
  BY <1>3, WriterAt DEF OneWriter
<1>5. \A d \in Calls : SetFits(d)'
  BY <1>1, <1>4 DEF SetFits
<1>6. expected' = NoKeys
  BY <1>1, <1>3 DEF Settle
<1>7. redis'["keys"].val = NoKeys
  BY <1>1, AbsentType DEF Names
<1> QED
  BY <1>5, <1>6, <1>7 DEF KeysInv, Expects

LEMMA KeysTouch ==
  ASSUME Shape, KeysInv, NEW c \in Calls, Touch(c)
  PROVE  KeysInv'
<1>1. /\ call'[c].pc = NextExpire(c) /\ \A d \in Calls : d # c => call'[d] = call[d]
      /\ call[c].pc \in {"expireCreds", "expireKeys", "expireMeta"}
      /\ Expired(ExpireStep(c), IF redis[ExpireStep(c)].ttl > 0 THEN Ttl ELSE 0)
      /\ \A g \in Names : g # ExpireStep(c) => redis'[g] = redis[g]
  BY TouchStep DEF Moves
<1>2. redis'["keys"].val = redis["keys"].val
  BY <1>1 DEF Expired, Names
<1>3. call'[c].pc \notin {"field", "version"}
  BY <1>1 DEF NextExpire
<1> QED
  BY <1>1, <1>2, <1>3, KeysKept DEF Touch

LEMMA KeysTick ==
  ASSUME Shape, KeysInv, Tick
  PROVE  KeysInv'
<1> SUFFICES ASSUME ~blind' PROVE (\A d \in Calls : SetFits(d)') /\ \A k \in KeyIds : Expects(k)'
  BY DEF KeysInv
<1>1. Quiet /\ call' = call /\ Ticked("keys") /\ ~blind
  BY TickStep
<1>2. \A d \in Calls : call[d].pc \notin {"field", "version"}
  BY <1>1 DEF Quiet, Running, Finished
<1>3. \A d \in Calls : SetFits(d)'
  BY <1>1, <1>2 DEF SetFits
<1>4. expected' = IF redis["keys"].ttl <= 1 THEN NoKeys ELSE expected
  BY DEF Tick
<1>5. ASSUME NEW k \in KeyIds PROVE Expects(k)'
  <2>1. expected[k] = Unknown \/ redis["keys"].val[k] = expected[k]
    BY <1>1, <1>2 DEF KeysInv, Expects
  <2>2. CASE redis["keys"].ttl <= 1
    <3>1. redis'["keys"].val = NoKeys
      BY <1>1, <2>2, AbsentType DEF Ticked, Names
    <3> QED
      BY <1>4, <2>2, <3>1 DEF Expects
  <2>3. CASE ~(redis["keys"].ttl <= 1)
    BY <1>1, <1>4, <2>1, <2>3 DEF Ticked, Expired, Expects
  <2> QED
    BY <2>2, <2>3
<1> QED
  BY <1>3, <1>5

LEMMA KeysStep ==
  Shape /\ FieldsInv /\ OneWriter /\ KeysInv /\ [Next]_vars => KeysInv'
<1> SUFFICES ASSUME Shape, FieldsInv, OneWriter, KeysInv, [Next]_vars PROVE KeysInv'
  OBVIOUS
<1>1. ASSUME NEW c \in Calls, Step(c) PROVE KeysInv'
  BY <1>1, KeysPrepare, KeysWriteField, KeysWriteMeta, KeysDelete, KeysTouch DEF Step, Prepares
<1>2. CASE Tick
  BY <1>2, KeysTick
<1>3. CASE (\E k \in MasterKeys : Rotate(k)) \/ Cleanup \/ UNCHANGED vars
  BY <1>3, KeysKept DEF Rotate, Cleanup, vars
<1> QED
  BY <1>1, <1>2, <1>3 DEF Next

LEMMA InitKeys == Init => KeysInv
<1> SUFFICES ASSUME Init PROVE KeysInv
  OBVIOUS
<1>1. redis["keys"].val = expected
  BY InitFields, AbsentType DEF Field, Names
<1>2. \A c \in Calls : SetFits(c)
  BY InitCalls DEF SetFits, Merging
<1> QED
  BY <1>1, <1>2 DEF KeysInv, Expects

LEMMA KeysHold == Spec /\ [][WritersTakeTurns]_vars => []KeysInv
BY InitKeys, KeysStep, ShapeHolds, FieldsHold, TurnHolds, PTL DEF Spec

LEMMA KeysShow == KeysInv => KeysMergeKeeps
BY DEF KeysInv, Expects, KeysMergeKeeps, Quiet, Running, Finished

\* Where writers take turns, a set that merges into what it has just read loses no key and
\* keeps none that was deleted (src/redis/store.ts:296-342), whatever fails, expires, is touched
\* or rotated in between, unless a stored field was taken for a missing one.
THEOREM MergeTheorem == Spec /\ [][WritersTakeTurns]_vars => []KeysMergeKeeps
BY KeysHold, KeysShow, PTL

-----------------------------------------------------------------------------
(* A version comes with its data                                           *)

Within(v, a, b) == v <= 1 \/ v <= a \/ v <= b

\* The field that was written with the version, and lives as long.
Backs(f) == redis["meta"].ver <= redis[f].ver /\ redis["meta"].ttl <= redis[f].ttl

AtVersion == \E c \in Calls : call[c].pc = "version"

\* What a call has read, and written, against what is stored.
VersionsFit(c) ==
  LET r == call[c].read IN
  /\ Writer(c) /\ call[c].pc # "meta" => call[c].op = "delete" \/ r.ver = redis["meta"].ver
  /\ call[c].pc = "version" =>
       /\ redis["creds"].ver <= r.ver + 1 /\ redis["keys"].ver <= r.ver + 1
       /\ call[c].failed \/ (redis[FieldOf(c)].ver = r.ver + 1 /\ redis[FieldOf(c)].ttl = Ttl)
  /\ call[c].pc = "creds" => Within(r.ver, redis["creds"].ver, redis["keys"].ver)
  /\ call[c].pc = "keys" => Within(r.ver, r.credsVer, redis["keys"].ver) /\ r.creds # None
  /\ call[c].pc \notin {"creds", "keys", "version"} => Within(r.ver, r.credsVer, r.keysVer)

StoredFit ==
  /\ redis["meta"].ver <= 1 \/ Backs("creds") \/ Backs("keys")
  /\ AtVersion \/ (redis["creds"].ver <= redis["meta"].ver /\ redis["keys"].ver <= redis["meta"].ver)

VersionInv ==
  mishaps = {} =>
    /\ Stored("creds") /\ Stored("meta")
    /\ ~blind => StoredFit /\ \A c \in Calls : VersionsFit(c)

LEMMA ReadVersions ==
  ASSUME Shape, NEW c \in Calls
  PROVE  call[c].read.ver \in Nat /\ call[c].read.credsVer \in Nat /\ call[c].read.keysVer \in Nat
BY DEF Shape, CallShape, CallRecs, Reads

\* A call that does not move, over fields that do not change.
LEMMA VersionSame ==
  ASSUME NEW d \in Calls, call'[d] = call[d], redis' = redis, VersionsFit(d)
  PROVE  VersionsFit(d)'
BY DEF VersionsFit, Writer, Running, FieldOf, Within

\* Steps that leave the fields as they are, and change one call at most.
LEMMA VersionKept ==
  ASSUME VersionInv, redis' = redis, mishaps' = mishaps, ~blind' => ~blind,
         NEW c \in Calls, \A d \in Calls : d # c => call'[d] = call[d], call[c].pc # "version",
         mishaps = {} /\ ~blind' => VersionsFit(c)'
  PROVE  VersionInv'
<1> SUFFICES ASSUME mishaps = {} PROVE /\ Stored("creds")' /\ Stored("meta")'
                                       /\ ~blind' => StoredFit' /\ \A d \in Calls : VersionsFit(d)'
  BY DEF VersionInv
<1>1. Stored("creds")' /\ Stored("meta")'
  BY DEF VersionInv, Stored
<1>2. ASSUME ~blind' PROVE StoredFit'
  <2>1. StoredFit
    BY <1>2 DEF VersionInv
  <2>2. AtVersion => AtVersion'
    BY DEF AtVersion
  <2> QED
    BY <2>1, <2>2 DEF StoredFit, Backs
<1>3. ASSUME ~blind', NEW d \in Calls PROVE VersionsFit(d)'
  <2>1. VersionsFit(d)
    BY <1>3 DEF VersionInv
  <2> QED
    BY <1>3, <2>1, VersionSame
<1> QED
  BY <1>1, <1>2, <1>3

LEMMA VersionPrepare ==
  ASSUME Shape, FieldsInv, VersionInv, NEW c \in Calls, Prepares(c)
  PROVE  VersionInv'
<1>1. /\ redis' = redis /\ mishaps' = mishaps /\ (~blind' => ~blind)
      /\ call[c].pc # "version" /\ \A d \in Calls : d # c => call'[d] = call[d]
  BY PrepareStep
<1> SUFFICES ASSUME mishaps = {}, ~blind' PROVE VersionsFit(c)'
  BY <1>1, VersionKept
<1>2. Stored("creds") /\ Stored("meta") /\ StoredFit /\ VersionsFit(c)
  BY <1>1 DEF VersionInv
<1>3. CASE \E o \in Ops, k \in KeyIds : Begin(c, o, k)
  <2>1. PICK o \in Ops, k \in KeyIds : Begin(c, o, k)
    BY <1>3
  <2>2. /\ call[c].pc = "idle" /\ call'[c].op = o /\ call'[c].read = call[c].read
        /\ call'[c].pc = CASE o = "delete" -> "del" [] o = "touch" -> "expireCreds"
                           [] OTHER -> "meta"
    BY <2>1, BeginStep
  <2>3. call'[c].pc \in {"del", "expireCreds", "meta"}
        /\ (call'[c].pc = "del" => o = "delete") /\ (call'[c].pc = "expireCreds" => o = "touch")
    BY <2>2
  <2> QED
    BY <1>2, <2>2, <2>3 DEF VersionsFit, Writer, Writing
<1>4. CASE ReadMeta(c)
  <2>1. call'[c].pc = "creds" /\ call'[c].read.ver = redis["meta"].ver
    BY <1>2, <1>4, ReadMetaStep DEF Moves
  <2>2. Within(redis["meta"].ver, redis["creds"].ver, redis["keys"].ver)
    BY <1>2 DEF StoredFit, Backs, Within
  <2> QED
    BY <1>1, <2>1, <2>2 DEF VersionsFit
<1>5. CASE FailMeta(c)
  <2>1. call'[c].pc \in Finished /\ call'[c].read = call[c].read /\ call[c].pc = "meta"
    BY <1>5, FailMetaStep DEF Moves, Finished, FailMeta
  <2> QED
    BY <1>2, <2>1 DEF VersionsFit, Writer, Running, Finished
<1>6. CASE ReadCreds(c)
  <2>1. /\ call'[c].pc = "keys" /\ call'[c].op = call[c].op
        /\ call'[c].read.ver = call[c].read.ver
        /\ Saw("creds", call'[c].read.creds, call'[c].read.credsVer)
    BY <1>6, ReadCredsStep DEF Moves
  <2>2. call'[c].read.credsVer = redis["creds"].ver /\ call'[c].read.creds # None
    BY <1>2, <2>1 DEF Saw, FieldsInv
  <2>3. call[c].pc = "creds"
    BY <1>6 DEF ReadCreds
  <2> QED
    BY <1>1, <1>2, <2>1, <2>2, <2>3 DEF VersionsFit, Writer, Running, Finished
<1>7. CASE ReadKeys(c)
  <2>1. /\ call'[c].pc = GoesOn(call[c].op) /\ call'[c].op = call[c].op
        /\ Snapshot(call'[c].read, call[c].read)
        /\ call[c].read.creds # None =>
             Saw("keys", call'[c].read.keys, call'[c].read.keysVer)
    BY <1>7, ReadKeysStep DEF Moves
  <2>2. call[c].pc = "keys"
    BY <1>7 DEF ReadKeys
  <2>3. call[c].read.creds # None
    BY <1>2, <2>2 DEF VersionsFit
  <2>4. /\ call'[c].read.ver = call[c].read.ver /\ call'[c].read.credsVer = call[c].read.credsVer
        /\ call'[c].read.keysVer = redis["keys"].ver
    BY <2>1, <2>3 DEF Snapshot, Saw, FieldsInv, Empty
  <2>5. call'[c].pc \in {"done", "field", "merge"}
    BY <2>1 DEF GoesOn
  <2> QED
    BY <1>1, <1>2, <2>1, <2>2, <2>4, <2>5 DEF VersionsFit, Writer, Running, Finished
<1>8. CASE Merge(c)
  <2>1. call'[c].pc = "field" /\ call'[c].op = call[c].op /\ call'[c].read = call[c].read
    BY <1>8, MergeStep DEF Sends, Moves
  <2>2. call[c].pc = "merge"
    BY <1>8 DEF Merge
  <2> QED
    BY <1>1, <1>2, <2>1, <2>2 DEF VersionsFit, Writer, Running, Finished
<1> QED
  BY <1>3, <1>4, <1>5, <1>6, <1>7, <1>8 DEF Prepares

\* No other call is where it writes, or holds a version it is to raise.
LEMMA OnlyWriter ==
  ASSUME Shape, OneWriter, NEW c \in Calls, call[c].pc \in {"field", "version"},
         NEW d \in Calls, d # c
  PROVE  ~Writer(d) /\ call[d].pc \notin {"merge", "field", "version", "del"}
BY WriterAt DEF OneWriter

LEMMA VersionWriteField ==
  ASSUME Shape, OneWriter, VersionInv, NEW c \in Calls, WriteField(c)
  PROVE  VersionInv'
<1> SUFFICES ASSUME mishaps' = {} PROVE /\ Stored("creds")' /\ Stored("meta")'
                                        /\ ~blind' => StoredFit' /\ \A d \in Calls : VersionsFit(d)'
  BY DEF VersionInv
<1> DEFINE f == FieldOf(c)
           new == call[c].read.ver + 1
<1>1. mishaps = {} /\ blind' = blind /\ call[c].pc = "field" /\ Stored("creds") /\ Stored("meta")
  BY DEF WriteField, VersionInv
<1>2. /\ call'[c].pc = "version" /\ call'[c].op = call[c].op
      /\ call'[c].read = call[c].read
      /\ FieldSent(c) /\ \A d \in Calls : d # c => call'[d] = call[d]
  BY WriteFieldStep DEF Moves
<1>3. /\ redis'["meta"] = redis["meta"] /\ f \in {"creds", "keys"}
      /\ FieldOf(c)' = f
      /\ ~call'[c].failed => redis'[f].ver = new /\ redis'[f].ttl = Ttl /\ Ttl > 0
      /\ \A g \in {"creds", "keys"} : redis'[g] = redis[g] \/ (g = f /\ ~call'[c].failed)
  BY <1>2 DEF FieldSent, FieldOf, NewVersion, Names
<1>4. Stored("creds")' /\ Stored("meta")'
  BY <1>1, <1>3 DEF Stored
<1>5. ASSUME ~blind PROVE StoredFit' /\ \A d \in Calls : VersionsFit(d)'
  <2>1. StoredFit /\ VersionsFit(c)
    BY <1>1, <1>5 DEF VersionInv
  <2>2. Writer(c) /\ call[c].op # "delete"
    BY <1>1, WriterAt DEF Shape, CallShape, OpFits, Merging
  <2>3. call[c].read.ver = redis["meta"].ver /\ new = redis["meta"].ver + 1
    BY <1>1, <2>1, <2>2 DEF VersionsFit
  <2>4. ~AtVersion
    BY <1>1, OnlyWriter DEF AtVersion
  <2>5. redis["creds"].ver <= redis["meta"].ver /\ redis["keys"].ver <= redis["meta"].ver
    BY <2>1, <2>4 DEF StoredFit
  <2>6. /\ redis["creds"].ver \in Nat /\ redis["keys"].ver \in Nat /\ redis["meta"].ver \in Nat
        /\ redis["meta"].ttl \in 0..Ttl /\ Ttl \in Nat
        /\ redis["creds"].ttl \in 0..Ttl /\ redis["keys"].ttl \in 0..Ttl
    BY Lives
  <2> HIDE DEF f, new
  <2>7. \A g \in {"creds", "keys"} :
          /\ redis[g].ver <= redis'[g].ver /\ redis'[g].ver <= new
          /\ redis[g].ttl <= redis'[g].ttl /\ redis'[g].ver \in Nat
    BY <1>3, <2>3, <2>5, <2>6
  <2>8. StoredFit'
    <3>1. AtVersion'
      BY <1>2 DEF AtVersion
    <3>2. \A g \in {"creds", "keys"} : Backs(g) => Backs(g)'
      <4> SUFFICES ASSUME NEW g \in {"creds", "keys"}, Backs(g) PROVE Backs(g)'
        OBVIOUS
      <4>1. redis["meta"].ver <= redis[g].ver /\ redis["meta"].ttl <= redis[g].ttl
        BY DEF Backs
      <4>2. redis[g].ver \in Nat /\ redis[g].ttl \in Nat /\ redis'[g].ttl \in Nat
        BY <1>3, <2>6
      <4>3. redis["meta"].ver <= redis'[g].ver
        BY <2>6, <2>7, <4>1, <4>2
      <4>4. redis["meta"].ttl <= redis'[g].ttl
        BY <2>6, <2>7, <4>1, <4>2
      <4> QED
        BY <1>3, <4>3, <4>4 DEF Backs
    <3> QED
      BY <1>3, <2>1, <3>1, <3>2 DEF StoredFit
  <2>9. VersionsFit(c)'
    <3>1. redis'["creds"].ver <= new /\ redis'["keys"].ver <= new
      BY <2>7
    <3>2. call'[c].failed \/ (redis'[f].ver = new /\ redis'[f].ttl = Ttl)
      BY <1>3
    <3>3. Ttl' = Ttl
      OBVIOUS
    <3> QED
      BY <1>2, <1>3, <2>3, <3>1, <3>2, <3>3 DEF VersionsFit, f, new
  <2>10. ASSUME NEW d \in Calls, d # c PROVE VersionsFit(d)'
    <3>1. call'[d] = call[d] /\ ~Writer(d) /\ call[d].pc # "version" /\ VersionsFit(d)
      BY <1>1, <1>2, <1>5, <2>10, OnlyWriter DEF VersionInv
    <3>2. call[d].read.ver \in Nat /\ call[d].read.credsVer \in Nat
      BY ReadVersions
    <3>3. ~Writer(d)'
      BY <3>1 DEF Writer, Running
    <3>4. Within(call[d].read.ver, redis["creds"].ver, redis["keys"].ver) =>
            Within(call[d].read.ver, redis'["creds"].ver, redis'["keys"].ver)
      BY <2>6, <2>7, <3>2 DEF Within
    <3>5. Within(call[d].read.ver, call[d].read.credsVer, redis["keys"].ver) =>
            Within(call[d].read.ver, call[d].read.credsVer, redis'["keys"].ver)
      BY <2>6, <2>7, <3>2 DEF Within
    <3> QED
      BY <3>1, <3>3, <3>4, <3>5 DEF VersionsFit
  <2> QED
    BY <2>8, <2>9, <2>10
<1> QED
  BY <1>1, <1>4, <1>5

LEMMA VersionWriteMeta ==
  ASSUME Shape, OneWriter, VersionInv, NEW c \in Calls, WriteMeta(c)
  PROVE  VersionInv'
<1> SUFFICES ASSUME mishaps' = {} PROVE /\ Stored("creds")' /\ Stored("meta")'
                                        /\ ~blind' => StoredFit' /\ \A d \in Calls : VersionsFit(d)'
  BY DEF VersionInv
<1>1. PICK failed \in BOOLEAN :
        /\ Settle(c, failed) /\ Ends(c, IF failed THEN "rejected" ELSE "done")
        /\ failed \/ (~call[c].failed /\ redis'["meta"].ver = NewVersion(c)
                      /\ redis'["meta"].ttl = Ttl)
        /\ redis'["creds"] = redis["creds"] /\ redis'["keys"] = redis["keys"]
  BY WriteMetaStep
<1>2. ~failed /\ mishaps = {}
  BY <1>1 DEF Settle
<1>3. /\ call[c].pc = "version" /\ ~call[c].failed /\ blind' = blind
      /\ redis'["meta"].ver = call[c].read.ver + 1 /\ redis'["meta"].ttl = Ttl
      /\ call'[c].pc = "done" /\ call'[c].read = NoRead
      /\ \A d \in Calls : d # c => call'[d] = call[d]
  BY <1>1, <1>2 DEF WriteMeta, NewVersion, Ends
<1>4. Stored("creds")' /\ Stored("meta")'
  BY <1>1, <1>2, <1>3, RedisAssumption DEF VersionInv, Stored
<1>5. ASSUME ~blind PROVE StoredFit' /\ \A d \in Calls : VersionsFit(d)'
  <2>1. VersionsFit(c)
    BY <1>2, <1>5 DEF VersionInv
  <2>2. /\ redis["creds"].ver <= call[c].read.ver + 1 /\ redis["keys"].ver <= call[c].read.ver + 1
        /\ redis[FieldOf(c)].ver = call[c].read.ver + 1 /\ redis[FieldOf(c)].ttl = Ttl
    BY <1>3, <2>1 DEF VersionsFit
  <2>3. FieldOf(c) \in {"creds", "keys"}
    BY DEF FieldOf
  <2>4. call[c].read.ver + 1 \in Nat /\ Ttl \in Nat
    <3>1. call[c].read.ver \in Nat
      BY ReadVersions
    <3> QED
      BY <3>1, Lives
  <2>5. redis'["meta"].ver <= redis'[FieldOf(c)].ver /\ redis'["meta"].ttl <= redis'[FieldOf(c)].ttl
    BY <1>1, <1>3, <2>2, <2>3, <2>4
  <2>6. Backs("creds")' \/ Backs("keys")'
    BY <2>3, <2>5 DEF Backs
  <2>7. StoredFit'
    BY <1>1, <1>3, <2>2, <2>6 DEF StoredFit
  <2>8. VersionsFit(c)'
    <3>1. NoRead.ver = 0
      BY DEF NoRead
    <3> QED
      BY <1>3, <3>1 DEF VersionsFit, Writer, Running, Finished, Within
  <2>9. ASSUME NEW d \in Calls, d # c PROVE VersionsFit(d)'
    <3>1. call'[d] = call[d] /\ ~Writer(d) /\ call[d].pc # "version" /\ VersionsFit(d)
      BY <1>2, <1>3, <1>5, <2>9, OnlyWriter DEF VersionInv
    <3>2. ~Writer(d)'
      BY <3>1 DEF Writer, Running
    <3> QED
      BY <1>1, <3>1, <3>2 DEF VersionsFit, Within
  <2> QED
    BY <2>7, <2>8, <2>9
<1> QED
  BY <1>3, <1>4, <1>5

LEMMA VersionTouch ==
  ASSUME Shape, FieldsInv, VersionInv, NEW c \in Calls, Touch(c)
  PROVE  VersionInv'
<1> SUFFICES ASSUME mishaps' = {} PROVE /\ Stored("creds")' /\ Stored("meta")'
                                        /\ ~blind' => StoredFit' /\ \A d \in Calls : VersionsFit(d)'
  BY DEF VersionInv
<1> DEFINE g == ExpireStep(c)
<1>1. /\ call'[c].pc = NextExpire(c) /\ call'[c].op = call[c].op /\ call'[c].read = call[c].read
      /\ call[c].pc \in {"expireCreds", "expireKeys", "expireMeta"}
      /\ redis'[g].ver = redis[g].ver
      /\ redis'[g].ttl = IF redis[g].ttl > 0 THEN Ttl ELSE 0
      /\ \A h \in Names : h # g => redis'[h] = redis[h]
      /\ \A d \in Calls : d # c => call'[d] = call[d]
  BY TouchStep DEF Moves, Expired
<1>2. mishaps = {} /\ blind' = blind /\ Stored("creds") /\ Stored("meta")
  BY DEF Touch, VersionInv
<1>3. \A f \in Names : /\ redis[f].ttl \in 0..Ttl /\ redis'[f].ver = redis[f].ver
                       /\ redis'[f].ttl \in {redis[f].ttl, Ttl} /\ redis[f].ttl <= redis'[f].ttl
                       /\ redis'[f].ttl \in 0..Ttl
  BY <1>1, Lives DEF Names
<1>4. Ttl \in Nat \ {0}
  BY RedisAssumption
<1>5. Stored("creds")' /\ Stored("meta")'
  BY <1>2, <1>3, <1>4 DEF Stored, Names
<1>6. ASSUME ~blind PROVE StoredFit' /\ \A d \in Calls : VersionsFit(d)'
  <2>1. StoredFit
    BY <1>2, <1>6 DEF VersionInv
  <2>2. ASSUME NEW f \in {"creds", "keys"}, Backs(f) PROVE Backs(f)'
    <3>1. redis["meta"].ver <= redis[f].ver /\ redis["meta"].ttl <= redis[f].ttl
      BY <2>2 DEF Backs
    <3>2. redis'["meta"].ver <= redis'[f].ver
      BY <1>3, <3>1 DEF Names
    <3>3. CASE g = "meta"
      <4>1. call[c].pc = "expireMeta"
        BY <1>1, <3>3 DEF ExpireStep
      <4>2. redis["creds"].ttl \in {0, Ttl} /\ redis["keys"].ttl \in {0, Ttl}
        BY <4>1 DEF FieldsInv, Renewed
      <4>3. redis[f].ttl > 0
        BY <1>2, <1>3, <3>1 DEF Stored, Names
      <4>4. redis[f].ttl = Ttl
        BY <4>2, <4>3
      <4>5. redis'[f].ttl = Ttl
        BY <1>3, <4>4 DEF Names
      <4>6. redis'["meta"].ttl <= Ttl
        BY <1>3, <1>4 DEF Names
      <4> QED
        BY <3>2, <4>5, <4>6 DEF Backs
    <3>4. CASE g # "meta"
      <4>1. redis'["meta"].ttl = redis["meta"].ttl
        BY <1>1, <3>4 DEF Names
      <4>2. redis["meta"].ttl <= redis'[f].ttl
        <5> DEFINE a == redis["meta"].ttl
                   b == redis[f].ttl
                   e == redis'[f].ttl
        <5>1. a \in Int /\ b \in Int /\ e \in Int /\ a <= b /\ b <= e
          BY <1>3, <1>4, <3>1 DEF Names
        <5> HIDE DEF a, b, e
        <5>2. a <= e
          BY <5>1
        <5> QED
          BY <5>2 DEF a, e
      <4> QED
        BY <3>2, <4>1, <4>2 DEF Backs
    <3> QED
      BY <3>3, <3>4
  <2>3. AtVersion => AtVersion'
    <3>1. call[c].pc # "version"
      BY <1>1
    <3> QED
      BY <1>1, <3>1 DEF AtVersion
  <2>4. StoredFit'
    BY <1>3, <2>1, <2>2, <2>3 DEF StoredFit, Names
  <2>5. VersionsFit(c)'
    <3>1. VersionsFit(c) /\ call'[c].pc \in {"expireKeys", "expireMeta", "done"}
      BY <1>1, <1>2, <1>6 DEF VersionInv, NextExpire
    <3>2. call[c].op = "touch"
      BY <1>1 DEF Shape, CallShape, OpFits
    <3> QED
      BY <1>1, <3>1, <3>2 DEF VersionsFit, Writer, Writing, Within
  <2>6. ASSUME NEW d \in Calls, d # c PROVE VersionsFit(d)'
    <3>1. call'[d] = call[d] /\ VersionsFit(d)
      BY <1>1, <1>2, <1>6, <2>6 DEF VersionInv
    <3>2. Writer(d)' <=> Writer(d)
      BY <3>1 DEF Writer, Running
    <3>3. FieldOf(d)' = FieldOf(d) /\ FieldOf(d) \in {"creds", "keys"}
      BY <3>1 DEF FieldOf
    <3>4. redis[FieldOf(d)].ttl = Ttl => redis'[FieldOf(d)].ttl = Ttl
      BY <1>3, <3>3 DEF Names
    <3>5. redis'[FieldOf(d)].ver = redis[FieldOf(d)].ver
      BY <1>3, <3>3 DEF Names
    <3>6. /\ redis'["creds"].ver = redis["creds"].ver /\ redis'["keys"].ver = redis["keys"].ver
          /\ redis'["meta"].ver = redis["meta"].ver
      BY <1>3 DEF Names
    <3> QED
      BY <3>1, <3>2, <3>3, <3>4, <3>5, <3>6 DEF VersionsFit, Within
  <2> QED
    BY <2>4, <2>5, <2>6
<1> QED
  BY <1>2, <1>5, <1>6

LEMMA VersionTick ==
  ASSUME Shape, MetaInv, VersionInv, Tick
  PROVE  VersionInv'
<1> SUFFICES ASSUME mishaps' = {} PROVE /\ Stored("creds")' /\ Stored("meta")'
                                        /\ ~blind' => StoredFit' /\ \A d \in Calls : VersionsFit(d)'
  BY DEF VersionInv
<1>1. /\ Quiet /\ call' = call /\ blind' = blind
      /\ Ticked("creds") /\ Ticked("keys") /\ Ticked("meta")
  BY TickStep
<1>2. mishaps = {} /\ redis["creds"].ttl # 1
  BY DEF Tick
<1>3. Stored("creds") /\ Stored("meta") /\ Outlived("creds")
  BY <1>2 DEF VersionInv, MetaInv
<1>4. \A c \in Calls : ~Renews(c) /\ call[c].pc \in {"idle"} \cup Finished
  BY <1>1 DEF Quiet, Running, Finished, Renews
<1>5. /\ redis["creds"].ttl \in Nat /\ redis["keys"].ttl \in Nat /\ redis["meta"].ttl \in Nat
      /\ redis["creds"].ver \in Nat /\ redis["keys"].ver \in Nat /\ redis["meta"].ver \in Nat
  BY Lives
<1>6. redis["creds"].ttl > 1 /\ redis["meta"].ttl > 1
  BY <1>2, <1>3, <1>4, <1>5 DEF Outlived, Stored
<1>7. /\ redis'["creds"].ttl = redis["creds"].ttl - 1 /\ redis'["creds"].ver = redis["creds"].ver
      /\ redis'["meta"].ttl = redis["meta"].ttl - 1 /\ redis'["meta"].ver = redis["meta"].ver
  BY <1>1, <1>5, <1>6 DEF Ticked, Expired
<1>8. \/ redis'["keys"].ttl = redis["keys"].ttl - 1 /\ redis'["keys"].ver = redis["keys"].ver
      \/ redis["keys"].ttl <= 1 /\ redis'["keys"].ver = 0
  BY <1>1, AbsentType DEF Ticked, Expired, Names
<1>9. Stored("creds")' /\ Stored("meta")'
  BY <1>5, <1>6, <1>7 DEF Stored
<1>10. ASSUME ~blind PROVE StoredFit' /\ \A d \in Calls : VersionsFit(d)'
  <2>1. StoredFit /\ ~AtVersion
    BY <1>2, <1>4, <1>10 DEF VersionInv, AtVersion, Finished
  <2>2. Backs("creds") => Backs("creds")'
    BY <1>5, <1>7 DEF Backs
  <2>3. Backs("keys") => Backs("keys")'
    BY <1>5, <1>6, <1>7, <1>8 DEF Backs
  <2>4. redis'["creds"].ver <= redis'["meta"].ver /\ redis'["keys"].ver <= redis'["meta"].ver
    BY <1>5, <1>7, <1>8, <2>1 DEF StoredFit
  <2>5. StoredFit'
    BY <1>7, <2>1, <2>2, <2>3, <2>4 DEF StoredFit
  <2>6. ASSUME NEW d \in Calls PROVE VersionsFit(d)'
    <3>1. VersionsFit(d) /\ call[d].pc \in {"idle"} \cup Finished
      BY <1>2, <1>4, <1>10 DEF VersionInv
    <3> QED
      BY <1>1, <3>1 DEF VersionsFit, Writer, Running, Finished, Within
  <2> QED
    BY <2>5, <2>6
<1> QED
  BY <1>1, <1>9, <1>10

LEMMA VersionStep ==
  Shape /\ FieldsInv /\ MetaInv /\ OneWriter /\ VersionInv /\ [Next]_vars => VersionInv'
<1> SUFFICES ASSUME Shape, FieldsInv, MetaInv, OneWriter, VersionInv, [Next]_vars
             PROVE  VersionInv'
  OBVIOUS
<1>1. ASSUME NEW c \in Calls, Step(c) PROVE VersionInv'
  <2>1. CASE Delete(c)
    <3>1. "deleted" \in mishaps'
      BY <2>1 DEF Delete, Settle, Shape, CallShape, OpFits
    <3> QED
      BY <3>1 DEF VersionInv
  <2> QED
    BY <1>1, <2>1, VersionPrepare, VersionWriteField, VersionWriteMeta, VersionTouch
       DEF Step, Prepares
<1>2. CASE Tick
  BY <1>2, VersionTick
<1>3. CASE (\E k \in MasterKeys : Rotate(k)) \/ Cleanup \/ UNCHANGED vars
  <2>1. redis' = redis /\ mishaps' = mishaps /\ call' = call /\ blind' = blind
    BY <1>3 DEF Rotate, Cleanup, vars
  <2> QED
    BY <2>1 DEF VersionInv, StoredFit, Backs, AtVersion, VersionsFit, Writer, Running, FieldOf,
                Within, Stored
<1> QED
  BY <1>1, <1>2, <1>3 DEF Next

LEMMA InitVersion == Init => VersionInv
<1> SUFFICES ASSUME Init PROVE VersionInv
  OBVIOUS
<1>1. /\ redis["creds"].ttl = Ttl /\ redis["meta"].ttl = Ttl /\ Ttl > 0
      /\ redis["creds"].ver = 1
  BY InitFields, RedisAssumption DEF Field
<1>2. \A c \in Calls : VersionsFit(c)
  <2>1. NoRead.ver = 0
    BY DEF NoRead
  <2> QED
    BY <2>1, InitCalls DEF VersionsFit, Writer, Running, Within
<1>3. StoredFit
  <2>1. CASE expected = NoKeys
    <3>1. redis["meta"].ver = 1 /\ redis["keys"].ver = 0
      BY <2>1, InitFields DEF Field, Absent
    <3> QED
      BY <1>1, <3>1 DEF StoredFit
  <2>2. CASE expected # NoKeys
    <3>1. redis["meta"].ver = 2 /\ redis["keys"].ver = 2 /\ redis["keys"].ttl = Ttl
      BY <2>2, InitFields DEF Field
    <3>2. Ttl \in Nat
      BY RedisAssumption
    <3> QED
      BY <1>1, <3>1, <3>2 DEF StoredFit, Backs
  <2> QED
    BY <2>1, <2>2
<1> QED
  BY <1>1, <1>2, <1>3 DEF VersionInv, Stored

LEMMA VersionHolds == Spec /\ [][WritersTakeTurns]_vars => []VersionInv
BY InitVersion, VersionStep, ShapeHolds, FieldsHold, MetaHolds, TurnHolds, PTL DEF Spec

LEMMA VersionShows == VersionInv => VersionNotAhead
BY DEF VersionInv, VersionsFit, Within, VersionNotAhead, Finished

\* Where writers take turns and the creds do not expire, no reader is given a version whose
\* data it has not seen, at whichever command it meets a set: get reads :meta before the two
\* fields (src/redis/store.ts:212-239), and set writes it after them (344-352).
THEOREM VersionTheorem == Spec /\ [][WritersTakeTurns]_vars => []VersionNotAhead
BY VersionHolds, VersionShows, PTL

-----------------------------------------------------------------------------
(* What the setting allows, and a start                                    *)

\* The processes that run.
Runs(p) == "processes" \in setting \/ p = Home

SettingInv ==
  \A c \in Calls : Runs(call[c].at) /\ (call[c].op = "touch" => "touch" \in setting)

\* There is no hook to call before a start has returned it.
StartsAlone ==
  \A c, d \in Calls :
    Running(c) /\ Running(d) /\ call[c].at = call[d].at /\ call[c].op = "start" => c = d

LEMMA StartsKept ==
  ASSUME SettingInv, StartsAlone, setting' = setting, NEW c \in Calls,
         \A d \in Calls : d # c => call'[d] = call[d],
         call'[c].at = call[c].at, call'[c].op \in {call[c].op, "keysGet"}, Running(c)' => Running(c)
  PROVE  SettingInv' /\ StartsAlone'
<1>1. SettingInv'
  BY DEF SettingInv, Runs
<1>2. \A d \in Calls : /\ Running(d)' => Running(d)
                       /\ call'[d].at = call[d].at
                       /\ call'[d].op = "start" => call[d].op = "start"
  BY DEF Running
<1> QED
  BY <1>1, <1>2 DEF StartsAlone

LEMMA StartsMove ==
  ASSUME SettingInv, StartsAlone, setting' = setting, NEW c \in Calls, NEW where,
         Moves(c, where), Running(c)
  PROVE  SettingInv' /\ StartsAlone'
BY StartsKept DEF Moves

LEMMA StartsEnd ==
  ASSUME SettingInv, StartsAlone, setting' = setting, NEW c \in Calls, NEW where \in Finished,
         Ends(c, where)
  PROVE  SettingInv' /\ StartsAlone'
<1>1. ~Running(c)'
  BY DEF Ends, Running
<1> QED
  BY <1>1, StartsKept DEF Ends

LEMMA StartsBegin ==
  ASSUME Shape, SettingInv, StartsAlone, NEW c \in Calls, NEW o \in Ops, NEW k \in KeyIds,
         Begin(c, o, k)
  PROVE  SettingInv' /\ StartsAlone'
<1>1. /\ call'[c].op = o /\ call'[c].at = call[c].at
      /\ \A d \in Calls : d # c => call'[d] = call[d]
  BY BeginStep
<1>2. /\ setting' = setting /\ (o = "touch" => "touch" \in setting)
      /\ \A d \in Calls : Running(d) /\ call[d].at = call[c].at =>
           o # "start" /\ call[d].op # "start"
  BY DEF Begin
<1>3. SettingInv'
  BY <1>1, <1>2 DEF SettingInv, Runs
<1>4. \A d \in Calls : d # c => (Running(d)' <=> Running(d))
  BY <1>1 DEF Running
<1>5. StartsAlone'
  <2> SUFFICES ASSUME NEW d \in Calls, NEW e \in Calls, Running(d)', Running(e)',
                      call'[d].at = call'[e].at, call'[d].op = "start"
               PROVE  d = e
    BY DEF StartsAlone
  <2>1. CASE d # c /\ e # c
    BY <1>1, <1>4, <2>1 DEF StartsAlone
  <2>2. CASE d = c /\ e # c
    BY <1>1, <1>2, <1>4, <2>2
  <2>3. CASE d # c /\ e = c
    BY <1>1, <1>2, <1>4, <2>3
  <2> QED
    BY <2>1, <2>2, <2>3
<1> QED
  BY <1>3, <1>5

LEMMA StartsStep ==
  Shape /\ SettingInv /\ StartsAlone /\ [Next]_vars => SettingInv' /\ StartsAlone'
<1> SUFFICES ASSUME Shape, SettingInv, StartsAlone, [Next]_vars
             PROVE  SettingInv' /\ StartsAlone'
  OBVIOUS
<1>1. ASSUME NEW c \in Calls, Step(c) PROVE SettingInv' /\ StartsAlone'
  <2>1. CASE \E o \in Ops, k \in KeyIds : Begin(c, o, k)
    BY <2>1, StartsBegin
  <2>2. CASE ReadMeta(c)
    BY <2>2, ReadMetaStep, StartsMove DEF ReadMeta, Running, Finished
  <2>3. CASE FailMeta(c)
    BY <2>3, FailMetaStep, StartsMove DEF FailMeta, Running, Finished
  <2>4. CASE ReadCreds(c)
    BY <2>4, ReadCredsStep, StartsMove DEF ReadCreds, Running, Finished
  <2>5. CASE ReadKeys(c)
    BY <2>5, ReadKeysStep, StartsMove DEF ReadKeys, Running, Finished
  <2>6. CASE Merge(c)
    BY <2>6, MergeStep, StartsMove DEF Merge, Sends, Running, Finished
  <2>7. CASE WriteField(c)
    BY <2>7, WriteFieldStep, StartsMove DEF WriteField, Running, Finished
  <2>8. CASE WriteMeta(c)
    BY <2>8, WriteMetaStep, StartsEnd DEF WriteMeta, Finished
  <2>9. CASE Delete(c)
    BY <2>9, DeleteStep, StartsEnd DEF Delete, Finished
  <2>10. CASE Touch(c)
    BY <2>10, TouchStep, StartsMove DEF Touch, Running, Finished
  <2> QED
    BY <1>1, <2>1, <2>2, <2>3, <2>4, <2>5, <2>6, <2>7, <2>8, <2>9, <2>10 DEF Step
<1>2. CASE Tick \/ (\E k \in MasterKeys : Rotate(k)) \/ Cleanup \/ UNCHANGED vars
  <2>1. call' = call /\ setting' = setting
    BY <1>2 DEF Tick, Rotate, Cleanup, vars
  <2> QED
    BY <2>1 DEF SettingInv, Runs, StartsAlone, Running
<1> QED
  BY <1>1, <1>2 DEF Next

LEMMA InitStarts == Init => SettingInv /\ StartsAlone
BY InitCalls DEF SettingInv, Runs, StartsAlone, Running

LEMMA StartsHold == Spec => [](SettingInv /\ StartsAlone)
BY InitStarts, StartsStep, ShapeHolds, PTL DEF Spec

-----------------------------------------------------------------------------
(* The identity of a session                                               *)

\* Where several processes have the session, it does not expire, nor is it deleted.
SessionLasts == "processes" \in setting => Stored("creds")

\* Every process that runs has the stored identity, and a start has read it.
IdentityInv ==
  ~blind =>
    /\ Stored("creds") => \A p \in Processes : Runs(p) => memory[p] = redis["creds"].val
    /\ \A c \in Calls : call[c].op = "start" /\ call[c].pc = "keys" =>
                          call[c].read.creds = redis["creds"].val

LEMMA IdentityKept ==
  ASSUME IdentityInv, setting' = setting, memory' = memory, ~blind' => ~blind,
         redis'["creds"].val = redis["creds"].val, Stored("creds")' => Stored("creds"),
         \A d \in Calls : call'[d].op = "start" /\ call'[d].pc = "keys" => call'[d] = call[d]
  PROVE  IdentityInv'
<1> SUFFICES ASSUME ~blind'
             PROVE  /\ Stored("creds")' =>
                         \A p \in Processes : Runs(p)' => memory'[p] = redis'["creds"].val
                    /\ \A c \in Calls : call'[c].op = "start" /\ call'[c].pc = "keys" =>
                                          call'[c].read.creds = redis'["creds"].val
  BY DEF IdentityInv
<1> QED
  BY DEF IdentityInv, Runs

LEMMA IdentityReadKeys ==
  ASSUME Shape, FieldsInv, IdentityInv, NEW c \in Calls, ReadKeys(c)
  PROVE  IdentityInv'
<1> SUFFICES ASSUME ~blind'
             PROVE  /\ Stored("creds") =>
                         \A p \in Processes : Runs(p) => memory'[p] = redis["creds"].val
                    /\ \A d \in Calls : call'[d].op = "start" /\ call'[d].pc = "keys" =>
                                          call'[d].read.creds = redis["creds"].val
  BY DEF IdentityInv, Stored, Runs, ReadKeys
<1>1. /\ ~blind /\ call'[c].pc = GoesOn(call[c].op)
      /\ \A d \in Calls : d # c => call'[d] = call[d]
  BY ReadKeysStep DEF Moves
<1>2. \A d \in Calls : call'[d].op = "start" /\ call'[d].pc = "keys" =>
                         call'[d].read.creds = redis["creds"].val
  BY <1>1 DEF IdentityInv, GoesOn
<1>3. ASSUME Stored("creds"), NEW p \in Processes, Runs(p) PROVE memory'[p] = redis["creds"].val
  <2>1. memory[p] = redis["creds"].val /\ redis["creds"].val # None
    BY <1>1, <1>3 DEF IdentityInv, FieldsInv
  <2>2. CASE call[c].op # "start"
    BY <2>1, <2>2 DEF ReadKeys
  <2>3. CASE call[c].op = "start"
    <3>1. call[c].read.creds = redis["creds"].val
      BY <1>1, <2>3 DEF IdentityInv, ReadKeys
    <3>2. PICK answer \in FieldAnswers(call[c].at, "keys") :
            LET r == [call[c].read EXCEPT !.keys = answer.val, !.keysVer = answer.ver] IN
            memory' = [memory EXCEPT ![call[c].at] = IF NullGet(r) THEN call[c].at ELSE r.creds]
      BY <2>3 DEF ReadKeys
    <3> DEFINE r == [call[c].read EXCEPT !.keys = answer.val, !.keysVer = answer.ver]
    <3>3. r.creds = redis["creds"].val
      <4>1. call[c].read \in Reads
        BY DEF Shape, CallShape, CallRecs
      <4> QED
        BY <3>1, <4>1 DEF Reads
    <3>4. ~NullGet(r)
      BY <2>1, <3>3 DEF NullGet
    <3>5. memory' = [memory EXCEPT ![call[c].at] = redis["creds"].val]
      BY <3>2, <3>3, <3>4
    <3> QED
      BY <1>3, <2>1, <3>5 DEF Shape, RestShape
  <2> QED
    BY <2>2, <2>3
<1> QED
  BY <1>2, <1>3

LEMMA IdentityPrepare ==
  ASSUME Shape, FieldsInv, IdentityInv, NEW c \in Calls, Prepares(c)
  PROVE  IdentityInv'
<1>1. /\ redis' = redis /\ setting' = setting /\ (~blind' => ~blind)
      /\ \A d \in Calls : d # c => call'[d] = call[d]
  BY PrepareStep
<1>2. CASE ReadKeys(c)
  BY <1>2, IdentityReadKeys
<1>3. CASE ReadCreds(c)
  <2> SUFFICES ASSUME ~blind'
               PROVE  /\ Stored("creds") =>
                           \A p \in Processes : Runs(p) => memory[p] = redis["creds"].val
                      /\ \A d \in Calls : call'[d].op = "start" /\ call'[d].pc = "keys" =>
                                            call'[d].read.creds = redis["creds"].val
    BY <1>3 DEF IdentityInv, Stored, Runs, ReadCreds
  <2>1. Saw("creds", call'[c].read.creds, call'[c].read.credsVer)
    BY <1>3, ReadCredsStep
  <2>2. call'[c].read.creds = redis["creds"].val
    BY <2>1 DEF Saw, FieldsInv, Empty
  <2> QED
    BY <1>1, <2>2 DEF IdentityInv
<1>4. CASE ~ReadKeys(c) /\ ~ReadCreds(c)
  <2>1. memory' = memory /\ call'[c].pc # "keys"
    <3>1. CASE \E o \in Ops, k \in KeyIds : Begin(c, o, k)
      <4>1. PICK o \in Ops, k \in KeyIds : Begin(c, o, k)
        BY <3>1
      <4>2. call'[c].pc = CASE o = "delete" -> "del" [] o = "touch" -> "expireCreds"
                            [] OTHER -> "meta"
        BY <4>1, BeginStep
      <4> QED
        BY <4>1, <4>2 DEF Begin
    <3>2. CASE ReadMeta(c)
      BY <3>2, ReadMetaStep DEF Moves, ReadMeta
    <3>3. CASE FailMeta(c)
      BY <3>3, FailMetaStep DEF Moves, FailMeta
    <3>4. CASE Merge(c)
      BY <3>4, MergeStep DEF Sends, Moves, Merge
    <3> QED
      BY <1>4, <3>1, <3>2, <3>3, <3>4 DEF Prepares
  <2> QED
    BY <1>1, <2>1, IdentityKept DEF Stored
<1> QED
  BY <1>2, <1>3, <1>4

\* The creds are only ever replaced by themselves.
LEMMA SameCreds ==
  ASSUME Shape, SettingInv, StartsAlone, IdentityInv, SessionLasts,
         NEW c \in Calls, WriteField(c), ~blind
  PROVE  Stored("creds") => redis'["creds"].val = redis["creds"].val
<1>1. FieldSent(c)
  BY WriteFieldStep
<1>2. call[c].at \in Processes /\ Runs(call[c].at)
  BY DEF Shape, CallShape, CallRecs, SettingInv
<1>3. Stored("creds") => memory[call[c].at] = redis["creds"].val
  BY <1>2 DEF IdentityInv
<1> QED
  BY <1>1, <1>3 DEF FieldSent, FieldOf, ValOf, Names

LEMMA IdentityWriteField ==
  ASSUME Shape, FieldsInv, SettingInv, StartsAlone, IdentityInv, SessionLasts,
         NEW c \in Calls, WriteField(c)
  PROVE  IdentityInv'
<1>1. /\ call'[c].pc = "version" /\ \A d \in Calls : d # c => call'[d] = call[d]
      /\ FieldSent(c)
  BY WriteFieldStep DEF Moves
<1>2. blind' = blind /\ memory' = memory /\ setting' = setting /\ call[c].pc = "field"
  BY DEF WriteField
<1>3. CASE blind \/ redis'["creds"] = redis["creds"]
  <2>1. CASE blind
    BY <1>2, <2>1 DEF IdentityInv
  <2>2. CASE redis'["creds"] = redis["creds"]
    BY <1>1, <1>2, <2>2, IdentityKept DEF Stored
  <2> QED
    BY <1>3, <2>1, <2>2
<1>4. CASE ~blind /\ redis'["creds"] # redis["creds"]
  <2>1. /\ call[c].op = "saveCreds" /\ redis'["creds"].val = memory[call[c].at]
    BY <1>1, <1>4 DEF FieldSent, FieldOf, ValOf, Names
  <2>2. CASE Stored("creds")
    <3>1. redis'["creds"].val = redis["creds"].val
      BY <1>4, <2>2, SameCreds
    <3> QED
      BY <1>1, <1>2, <2>2, <3>1, IdentityKept
  <2>3. CASE ~Stored("creds")
    <3>1. "processes" \notin setting
      BY <2>3 DEF SessionLasts
    <3>2. \A d \in Calls : call[d].at = Home
      BY <3>1 DEF SettingInv, Runs
    <3>3. Running(c)
      BY <1>2 DEF Running, Finished
    <3>4. \A d \in Calls : ~(call'[d].op = "start" /\ call'[d].pc = "keys")
      <4> SUFFICES ASSUME NEW d \in Calls, call'[d].op = "start", call'[d].pc = "keys"
                   PROVE  FALSE
        OBVIOUS
      <4>1. d # c /\ call'[d] = call[d]
        BY <1>1
      <4>2. Running(d)
        BY <4>1 DEF Running, Finished
      <4> QED
        BY <3>2, <3>3, <4>1, <4>2 DEF StartsAlone
    <3>5. \A p \in Processes : Runs(p)' => memory'[p] = redis'["creds"].val
      BY <1>2, <2>1, <3>1, <3>2 DEF Runs
    <3> QED
      BY <3>4, <3>5 DEF IdentityInv
  <2> QED
    BY <2>2, <2>3
<1> QED
  BY <1>3, <1>4

LEMMA IdentityDelete ==
  ASSUME Shape, SettingInv, StartsAlone, IdentityInv, SessionLasts',
         NEW c \in Calls, Delete(c)
  PROVE  IdentityInv'
<1>1. /\ call'[c].op = "keysGet" /\ \A d \in Calls : d # c => call'[d] = call[d]
      /\ redis'["creds"] = Absent("creds")
  BY DeleteStep DEF Ends
<1>2. call[c].pc = "del" /\ setting' = setting
  BY DEF Delete
<1>3. ~Stored("creds")'
  BY <1>1, AbsentType DEF Stored, Names
<1>4. \A d \in Calls : call[d].at = Home
  BY <1>2, <1>3 DEF SessionLasts, SettingInv, Runs
<1>5. Running(c)
  BY <1>2 DEF Running, Finished
<1>6. ASSUME NEW d \in Calls, call'[d].op = "start", call'[d].pc = "keys" PROVE FALSE
  <2>1. d # c /\ call'[d] = call[d]
    BY <1>1, <1>6
  <2>2. Running(d)
    BY <1>6, <2>1 DEF Running, Finished
  <2> QED
    BY <1>4, <1>5, <1>6, <2>1, <2>2 DEF StartsAlone
<1> QED
  BY <1>3, <1>6 DEF IdentityInv

LEMMA IdentityTouch ==
  ASSUME Shape, IdentityInv, NEW c \in Calls, Touch(c)
  PROVE  IdentityInv'
<1>1. /\ call'[c].pc = NextExpire(c) /\ \A d \in Calls : d # c => call'[d] = call[d]
      /\ call[c].pc \in {"expireCreds", "expireKeys", "expireMeta"}
      /\ Expired(ExpireStep(c), IF redis[ExpireStep(c)].ttl > 0 THEN Ttl ELSE 0)
      /\ \A g \in Names : g # ExpireStep(c) => redis'[g] = redis[g]
  BY TouchStep DEF Moves
<1>2. redis'["creds"].val = redis["creds"].val /\ (Stored("creds")' => Stored("creds"))
  BY <1>1 DEF Expired, Names, Stored
<1>3. call'[c].pc # "keys"
  BY <1>1 DEF NextExpire
<1> QED
  BY <1>1, <1>2, <1>3, IdentityKept DEF Touch

\* After a tick the creds are the same, or gone.
LEMMA TickedCreds ==
  ASSUME Shape, Tick
  PROVE  \/ redis'["creds"].val = redis["creds"].val /\ (Stored("creds")' => Stored("creds"))
         \/ redis'["creds"].val = None /\ ~Stored("creds")'
<1>1. Ticked("creds")
  BY TickStep
<1>2. redis["creds"].ttl \in Nat
  BY Lives
<1> QED
  BY <1>1, <1>2, AbsentType DEF Ticked, Expired, Stored, Names

LEMMA IdentityTick ==
  ASSUME Shape, IdentityInv, Tick
  PROVE  IdentityInv'
<1>1. Quiet /\ call' = call /\ blind' = blind /\ memory' = memory /\ setting' = setting
  BY TickStep DEF Tick
<1>2. \A d \in Calls : call'[d].pc # "keys"
  BY <1>1 DEF Quiet, Running, Finished
<1> QED
  BY <1>1, <1>2, TickedCreds, IdentityKept DEF IdentityInv

LEMMA IdentityStep ==
  /\ Shape /\ FieldsInv /\ SettingInv /\ StartsAlone /\ IdentityInv
  /\ SessionLasts /\ SessionLasts' /\ [Next]_vars
  => IdentityInv'
<1> SUFFICES ASSUME Shape, FieldsInv, SettingInv, StartsAlone, IdentityInv,
                    SessionLasts, SessionLasts', [Next]_vars
             PROVE  IdentityInv'
  OBVIOUS
<1>1. ASSUME NEW c \in Calls, Step(c) PROVE IdentityInv'
  <2>1. CASE WriteMeta(c)
    <3>1. /\ call'[c].op = "keysGet" /\ \A d \in Calls : d # c => call'[d] = call[d]
          /\ redis'["creds"] = redis["creds"]
      BY <2>1, WriteMetaStep DEF Ends
    <3> QED
      BY <2>1, <3>1, IdentityKept DEF WriteMeta, Stored
  <2> QED
    BY <1>1, <2>1, IdentityPrepare, IdentityWriteField, IdentityDelete, IdentityTouch
       DEF Step, Prepares
<1>2. CASE Tick
  BY <1>2, IdentityTick
<1>3. CASE (\E k \in MasterKeys : Rotate(k)) \/ Cleanup \/ UNCHANGED vars
  <2>1. UNCHANGED <<setting, redis, memory, call, blind>>
    BY <1>3 DEF Rotate, Cleanup, vars
  <2> QED
    BY <2>1, IdentityKept DEF Stored
<1> QED
  BY <1>1, <1>2, <1>3 DEF Next

LEMMA InitIdentity == Init => IdentityInv
<1> SUFFICES ASSUME Init PROVE IdentityInv
  OBVIOUS
<1>1. redis["creds"].val = Old
  BY InitFields DEF Field
<1>2. \A p \in Processes : memory[p] = Old
  BY DEF Init
<1> QED
  BY <1>1, <1>2, InitCalls DEF IdentityInv

\* Whatever step is taken, the stored identity stays, or goes.
LEMMA IdentityAct ==
  ASSUME Shape, FieldsInv, SettingInv, StartsAlone, IdentityInv, SessionLasts, [Next]_vars
  PROVE  redis["creds"].val # None /\ redis'["creds"].val # None /\ ~blind =>
           redis'["creds"].val = redis["creds"].val
<1> SUFFICES ASSUME redis["creds"].val # None, redis'["creds"].val # None, ~blind
             PROVE  redis'["creds"].val = redis["creds"].val
  OBVIOUS
<1>1. Stored("creds")
  BY DEF FieldsInv, Empty, Absent
<1>2. ASSUME NEW c \in Calls, Step(c) PROVE redis'["creds"].val = redis["creds"].val
  <2>1. CASE Prepares(c)
    BY <2>1, PrepareStep
  <2>2. CASE WriteField(c)
    BY <1>1, <2>2, SameCreds
  <2>3. CASE WriteMeta(c)
    BY <2>3, WriteMetaStep
  <2>4. CASE Delete(c)
    BY <2>4, DeleteStep, AbsentType DEF Names
  <2>5. CASE Touch(c)
    BY <2>5, TouchStep DEF Expired, Names
  <2> QED
    BY <1>2, <2>1, <2>2, <2>3, <2>4, <2>5 DEF Step, Prepares
<1>3. CASE Tick
  BY <1>3, TickedCreds
<1>4. CASE (\E k \in MasterKeys : Rotate(k)) \/ Cleanup \/ UNCHANGED vars
  BY <1>4 DEF Rotate, Cleanup, vars
<1> QED
  BY <1>2, <1>3, <1>4 DEF Next

LEMMA IdentityHolds == Spec /\ []SessionLasts => []IdentityInv
<1>1. Spec /\ []SessionLasts =>
        [](Shape /\ FieldsInv /\ (SettingInv /\ StartsAlone) /\ SessionLasts)
  BY ShapeHolds, FieldsHold, StartsHold, PTL
<1> QED
  BY <1>1, InitIdentity, IdentityStep, PTL DEF Spec

\* No process registers a session anew over one that is stored: where one process has the
\* session, or it neither expires nor is deleted, a start takes over the identity it finds, and
\* saveCreds writes none but that, unless a stored field was taken for a missing one
\* (src/redis/use-redis-auth-state.ts:110-116, 231-274).
THEOREM IdentityTheorem == Spec /\ []SessionLasts => IdentityIsKept
<1>1. Spec /\ []SessionLasts => [](Shape /\ FieldsInv /\ (SettingInv /\ StartsAlone))
  BY ShapeHolds, FieldsHold, StartsHold, PTL
<1>2. /\ Shape /\ FieldsInv /\ (SettingInv /\ StartsAlone) /\ IdentityInv /\ SessionLasts
      /\ [Next]_vars
      => [redis["creds"].val # None /\ redis'["creds"].val # None /\ ~blind =>
            redis'["creds"].val = redis["creds"].val]_vars
  BY IdentityAct
<1> QED
  BY <1>1, <1>2, IdentityHolds, PTL DEF Spec, IdentityIsKept

-----------------------------------------------------------------------------
(* What is stored can be read                                              *)

\* Where keys are rotated there is one process, and nothing renews what an older key has
\* encrypted.
RotatesAlone == \A s \in Settings : "rotation" \in s => s \cap {"processes", "touch"} = {}

\* A key opens what lives for so long: it is in use, or expires after that.
Outlasts(r, k, ttl) ==
  k = r.active \/ ("rotation" \in setting /\ k \in r.known /\ r.age[k] + ttl <= KeyLife)

Opened(r, seal, ttl) ==
  /\ seal.compressor = r.compressor
  /\ IF r.enabled THEN Outlasts(r, seal.key, ttl) ELSE seal.key = NoKey

ReadableInv ==
  /\ "rotation" \in setting \/ \A p \in Processes : services[p] = services[Home]
  /\ Stored("creds") => Opened(services[Home], redis["creds"].seal, redis["creds"].ttl)
  /\ Stored("keys") => Opened(services[Home], redis["keys"].seal, redis["keys"].ttl)
  /\ \A c \in Calls : call[c].pc = "field" => Opened(services[Home], call[c].seal, Ttl)

\* The services of the process a call runs in, where they matter.
LEMMA SameServices ==
  ASSUME Shape, SettingInv, ReadableInv, RotatesAlone, NEW c \in Calls
  PROVE  services[call[c].at] = services[Home]
<1>1. call[c].at \in Processes /\ Runs(call[c].at) /\ setting \in Settings
  BY DEF Shape, CallShape, RestShape, CallRecs, SettingInv
<1> QED
  BY <1>1 DEF ReadableInv, RotatesAlone, Runs

\* What has just been sealed is opened.
LEMMA JustSealed ==
  ASSUME NEW r \in Services, NEW ttl, NEW seal, seal = Seal(r)
  PROVE  Opened(r, seal, ttl)
BY SealType DEF Opened, Outlasts

LEMMA ReadablePrepare ==
  ASSUME Shape, SettingInv, RotatesAlone, ReadableInv, NEW c \in Calls, Prepares(c)
  PROVE  ReadableInv'
<1>1. /\ redis' = redis /\ setting' = setting /\ services' = services
      /\ \A d \in Calls : d # c => call'[d] = call[d]
  BY PrepareStep
<1>2. services[call[c].at] = services[Home] /\ services[Home] \in Services
  BY SameServices, Homes DEF Shape, RestShape
<1>3. ASSUME call'[c].pc = "field"
      PROVE  call'[c].seal = Seal(services[call[c].at])
  <2>1. CASE \E o \in Ops, k \in KeyIds : Begin(c, o, k)
    <3>1. PICK o \in Ops, k \in KeyIds : Begin(c, o, k)
      BY <2>1
    <3>2. call'[c].pc = CASE o = "delete" -> "del" [] o = "touch" -> "expireCreds"
                          [] OTHER -> "meta"
      BY <3>1, BeginStep
    <3> QED
      BY <1>3, <3>2
  <2>2. CASE ReadMeta(c)
    BY <1>3, <2>2, ReadMetaStep DEF Moves
  <2>3. CASE FailMeta(c)
    BY <1>3, <2>3, FailMetaStep DEF Moves
  <2>4. CASE ReadCreds(c)
    BY <1>3, <2>4, ReadCredsStep DEF Moves
  <2>5. CASE ReadKeys(c)
    <3>1. GoesOn(call[c].op) = "field"
      BY <1>3, <2>5, ReadKeysStep DEF Moves
    <3>2. call[c].op = "saveCreds"
      BY <3>1 DEF GoesOn
    <3> QED
      BY <2>5, <3>2, ReadKeysStep
  <2>6. CASE Merge(c)
    BY <2>6, MergeStep DEF Sends
  <2> QED
    BY <2>1, <2>2, <2>3, <2>4, <2>5, <2>6 DEF Prepares
<1>4. call'[c].pc = "field" => Opened(services[Home], call'[c].seal, Ttl)
  BY <1>2, <1>3, JustSealed
<1> QED
  BY <1>1, <1>4 DEF ReadableInv, Opened, Outlasts, Stored

LEMMA ReadableWriteField ==
  ASSUME Shape, ReadableInv, NEW c \in Calls, WriteField(c)
  PROVE  ReadableInv'
<1>1. /\ call'[c].pc = "version" /\ \A d \in Calls : d # c => call'[d] = call[d]
      /\ FieldSent(c)
  BY WriteFieldStep DEF Moves
<1>2. services' = services /\ setting' = setting /\ call[c].pc = "field"
  BY DEF WriteField
<1>3. Opened(services[Home], call[c].seal, Ttl)
  BY <1>2 DEF ReadableInv
<1>4. ASSUME NEW f \in {"creds", "keys"}
      PROVE  redis'[f] = redis[f] \/ (redis'[f].seal = call[c].seal /\ redis'[f].ttl = Ttl)
  BY <1>1 DEF FieldSent, Names
<1>5. ASSUME NEW f \in {"creds", "keys"}, Stored(f)'
      PROVE  Opened(services[Home], redis'[f].seal, redis'[f].ttl)
  BY <1>3, <1>4, <1>5 DEF ReadableInv, Stored
<1> QED
  BY <1>1, <1>2, <1>5 DEF ReadableInv, Opened, Outlasts

LEMMA ReadableWriteMeta ==
  ASSUME Shape, ReadableInv, NEW c \in Calls, WriteMeta(c)
  PROVE  ReadableInv'
<1>1. /\ call'[c].pc \in Finished /\ \A d \in Calls : d # c => call'[d] = call[d]
      /\ redis'["creds"] = redis["creds"] /\ redis'["keys"] = redis["keys"]
  BY WriteMetaStep DEF Ends, Finished
<1>2. services' = services /\ setting' = setting
  BY DEF WriteMeta
<1> QED
  BY <1>1, <1>2 DEF ReadableInv, Opened, Outlasts, Stored, Finished

LEMMA ReadableDelete ==
  ASSUME Shape, ReadableInv, NEW c \in Calls, Delete(c)
  PROVE  ReadableInv'
<1>1. /\ call'[c].pc = "done" /\ \A d \in Calls : d # c => call'[d] = call[d]
      /\ redis'["creds"] = Absent("creds") /\ redis'["keys"] = Absent("keys")
  BY DeleteStep DEF Ends
<1>2. ~Stored("creds")' /\ ~Stored("keys")'
  BY <1>1, AbsentType DEF Stored, Names
<1>3. services' = services /\ setting' = setting
  BY DEF Delete
<1> QED
  BY <1>1, <1>2, <1>3 DEF ReadableInv, Opened, Outlasts

LEMMA ReadableTouch ==
  ASSUME Shape, SettingInv, RotatesAlone, ReadableInv, NEW c \in Calls, Touch(c)
  PROVE  ReadableInv'
<1>1. /\ call'[c].pc = NextExpire(c) /\ \A d \in Calls : d # c => call'[d] = call[d]
      /\ call[c].pc \in {"expireCreds", "expireKeys", "expireMeta"}
      /\ Expired(ExpireStep(c), IF redis[ExpireStep(c)].ttl > 0 THEN Ttl ELSE 0)
      /\ \A g \in Names : g # ExpireStep(c) => redis'[g] = redis[g]
  BY TouchStep DEF Moves
<1>2. services' = services /\ setting' = setting
  BY DEF Touch
<1>3. "rotation" \notin setting
  <2>1. call[c].op = "touch"
    BY <1>1 DEF Shape, CallShape, OpFits
  <2>2. "touch" \in setting /\ setting \in Settings
    BY <2>1 DEF SettingInv, Shape, RestShape
  <2> QED
    BY <2>2 DEF RotatesAlone
<1>4. ASSUME NEW f \in {"creds", "keys"}
      PROVE  redis'[f].seal = redis[f].seal /\ (Stored(f)' => Stored(f))
  BY <1>1 DEF Expired, Stored, Names
<1>5. call'[c].pc # "field"
  BY <1>1 DEF NextExpire
<1> QED
  BY <1>1, <1>2, <1>3, <1>4, <1>5 DEF ReadableInv, Opened, Outlasts

\* A key that opens a field opens it a tick later, when the field has a tick less to live.
LEMMA OpenedTick ==
  ASSUME NEW r \in Services, NEW n, n = AgeKeys(r), NEW seal \in Seals, NEW ttl \in Nat,
         Opened(r, seal, ttl), NEW left, left = ttl - 1
  PROVE  Opened(n, seal, left)
<1>1. /\ n \in Services /\ n.enabled = r.enabled /\ n.compressor = r.compressor
      /\ n.active = r.active /\ n.known = r.known
      /\ \A k \in MasterKeys : n.age[k] <= r.age[k] + 1
  BY KeysAged
<1>2. ASSUME Outlasts(r, seal.key, ttl) PROVE Outlasts(n, seal.key, left)
  <2>1. CASE seal.key = r.active
    BY <1>1, <2>1 DEF Outlasts
  <2>2. CASE "rotation" \in setting /\ seal.key \in r.known /\ r.age[seal.key] + ttl <= KeyLife
    <3>1. seal.key \in MasterKeys
      BY <2>2 DEF Services
    <3> DEFINE a == r.age[seal.key]
               b == n.age[seal.key]
    <3>2. a \in Int /\ b \in Int /\ b <= a + 1 /\ a + ttl <= KeyLife /\ KeyLife \in Int
      BY <1>1, <2>2, <3>1, CryptoAssumption DEF Services
    <3> HIDE DEF a, b
    <3>3. b + left <= KeyLife
      BY <3>2
    <3> QED
      BY <1>1, <2>2, <3>3 DEF Outlasts, b
  <2> QED
    BY <1>2, <2>1, <2>2 DEF Outlasts
<1> QED
  BY <1>1, <1>2 DEF Opened

LEMMA ReadableTick ==
  ASSUME Shape, ReadableInv, Tick
  PROVE  ReadableInv'
<1>1. Quiet /\ call' = call /\ Ticked("creds") /\ Ticked("keys") /\ setting' = setting
  BY TickStep DEF Tick
<1>2. \A p \in Processes : services'[p] = AgeKeys(services[p])
  BY DEF Tick
<1>3. "rotation" \in setting' \/ \A p \in Processes : services'[p] = services'[Home]
  BY <1>1, <1>2, Homes DEF ReadableInv
<1>4. \A c \in Calls : call'[c].pc # "field"
  BY <1>1 DEF Quiet, Running, Finished
<1>5. services[Home] \in Services /\ services'[Home] = AgeKeys(services[Home])
  BY <1>2, Homes DEF Shape, RestShape
<1>6. ASSUME NEW f \in {"creds", "keys"}, Stored(f)'
      PROVE  Opened(services'[Home], redis'[f].seal, redis'[f].ttl)
  <2>1. Ticked(f) /\ redis[f].ttl \in Nat /\ redis[f].seal \in Seals
    BY <1>1, Lives DEF Shape, RedisShape, Fields, Names
  <2>2. ~(redis[f].ttl <= 1)
    BY <1>6, <2>1, AbsentType DEF Ticked, Stored, Names
  <2>3. redis'[f].seal = redis[f].seal /\ redis'[f].ttl = redis[f].ttl - 1
    BY <2>1, <2>2 DEF Ticked, Expired
  <2>4. Opened(services[Home], redis[f].seal, redis[f].ttl)
    BY <2>1, <2>2 DEF ReadableInv, Stored
  <2> QED
    BY <1>5, <2>1, <2>3, <2>4, OpenedTick
<1> QED
  BY <1>1, <1>3, <1>4, <1>6 DEF ReadableInv, Opened, Outlasts

\* A rotation leaves what the key before it has encrypted open for a TTL.
LEMMA OpenedRotate ==
  ASSUME NEW r \in Services, OneActiveKey(r), NEW k \in MasterKeys, k # r.active,
         "rotation" \in setting, r.age[r.active] + Ttl <= KeyLife,
         NEW n, n = AddKey(r, k), NEW seal \in Seals, NEW ttl \in 0..Ttl, Opened(r, seal, ttl)
  PROVE  Opened(n, seal, ttl)
<1>1. /\ n \in Services /\ n.enabled = r.enabled /\ n.compressor = r.compressor
      /\ n.active = k /\ n.known = r.known \cup {k}
      /\ \A i \in MasterKeys : i # k => n.age[i] = r.age[i]
  BY KeyAdded
<1>2. r.active \in r.known /\ r.known \subseteq MasterKeys
  BY DEF OneActiveKey, Services
<1>3. ASSUME Outlasts(r, seal.key, ttl) PROVE Outlasts(n, seal.key, ttl)
  <2>1. CASE seal.key = k
    BY <1>1, <2>1 DEF Outlasts
  <2>2. CASE seal.key # k
    <3>1. seal.key \in r.known /\ r.age[seal.key] + ttl <= KeyLife
      <4>1. CASE seal.key = r.active
        <5> DEFINE a == r.age[r.active]
        <5>1. a \in Int /\ a + Ttl <= KeyLife /\ KeyLife \in Int /\ Ttl \in Int
          BY <1>2, CryptoAssumption, RedisAssumption DEF Services
        <5> HIDE DEF a
        <5>2. a + ttl <= KeyLife
          BY <5>1
        <5> QED
          BY <1>2, <4>1, <5>2 DEF a
      <4>2. CASE seal.key # r.active
        BY <1>3, <4>2 DEF Outlasts
      <4> QED
        BY <4>1, <4>2
    <3>2. n.age[seal.key] = r.age[seal.key]
      BY <1>1, <1>2, <2>2, <3>1
    <3> QED
      BY <1>1, <3>1, <3>2 DEF Outlasts
  <2> QED
    BY <2>1, <2>2
<1> QED
  BY <1>1, <1>3 DEF Opened

\* Cleaning up drops no key that opens a field.
LEMMA OpenedCleanup ==
  ASSUME NEW r \in Services, NEW n, n = CleanupExpiredKeys(r),
         NEW seal \in Seals, NEW ttl \in Nat, Opened(r, seal, ttl)
  PROVE  Opened(n, seal, ttl)
<1>1. /\ n.enabled = r.enabled /\ n.compressor = r.compressor
      /\ n.active = r.active /\ n.age = r.age
      /\ n.known = {k \in r.known : ~KeyExpired(r, k) \/ k \in r.flagged}
  BY KeysCleaned
<1>2. ASSUME seal.key \in r.known, r.age[seal.key] + ttl <= KeyLife PROVE seal.key \in n.known
  <2>1. r.age[seal.key] \in Int /\ KeyLife \in Int
    BY <1>2, CryptoAssumption DEF Services
  <2>2. r.age[seal.key] <= KeyLife
    BY <1>2, <2>1
  <2>3. ~KeyExpired(r, seal.key)
    BY <2>1, <2>2 DEF KeyExpired
  <2> QED
    BY <1>1, <1>2, <2>3
<1> QED
  BY <1>1, <1>2 DEF Opened, Outlasts

\* The services of the rotating process change, and still open what they opened.
LEMMA ReadableHome ==
  ASSUME Shape, ReadableInv, "rotation" \in setting,
         UNCHANGED <<setting, redis, call>>,
         \A seal \in Seals, ttl \in 0..Ttl :
           Opened(services[Home], seal, ttl) => Opened(services'[Home], seal, ttl)
  PROVE  ReadableInv'
<1>1. \A f \in {"creds", "keys"} : redis[f].seal \in Seals /\ redis[f].ttl \in 0..Ttl
  BY DEF Shape, RedisShape, Fields, Names
<1>2. \A c \in Calls : call[c].seal \in Seals
  BY DEF Shape, CallShape, CallRecs
<1>3. Ttl \in 0..Ttl
  BY RedisAssumption
<1>4. \A f \in {"creds", "keys"} :
        Stored(f) => Opened(services'[Home], redis[f].seal, redis[f].ttl)
  BY <1>1 DEF ReadableInv
<1>5. \A c \in Calls : call[c].pc = "field" => Opened(services'[Home], call[c].seal, Ttl)
  BY <1>2, <1>3 DEF ReadableInv
<1> QED
  BY <1>4, <1>5 DEF ReadableInv, Opened, Outlasts, Stored

LEMMA ReadableStep ==
  Shape /\ SettingInv /\ RotatesAlone /\ ReadableInv /\ [Next]_vars => ReadableInv'
<1> SUFFICES ASSUME Shape, SettingInv, RotatesAlone, ReadableInv, [Next]_vars
             PROVE  ReadableInv'
  OBVIOUS
<1>1. ASSUME NEW c \in Calls, Step(c) PROVE ReadableInv'
  BY <1>1, ReadablePrepare, ReadableWriteField, ReadableWriteMeta, ReadableDelete,
     ReadableTouch DEF Step, Prepares
<1>2. CASE Tick
  BY <1>2, ReadableTick
<1>3. services[Home] \in Services /\ OneActiveKey(services[Home])
  BY Homes DEF Shape, RestShape
<1>4. ASSUME NEW k \in MasterKeys, Rotate(k) PROVE ReadableInv'
  <2>1. services'[Home] = AddKey(services[Home], k)
    BY <1>4, RotateStep
  <2>2. \A seal \in Seals, ttl \in 0..Ttl :
          Opened(services[Home], seal, ttl) => Opened(services'[Home], seal, ttl)
    BY <1>3, <1>4, <2>1, OpenedRotate DEF Rotate
  <2> QED
    BY <1>4, <2>2, ReadableHome DEF Rotate
<1>5. CASE Cleanup
  <2>1. services'[Home] = CleanupExpiredKeys(services[Home])
    BY <1>5, CleanupStep
  <2>2. \A seal \in Seals, ttl \in 0..Ttl :
          Opened(services[Home], seal, ttl) => Opened(services'[Home], seal, ttl)
    BY <1>3, <2>1, OpenedCleanup
  <2> QED
    BY <1>5, <2>2, ReadableHome DEF Cleanup
<1>6. CASE UNCHANGED vars
  BY <1>6 DEF vars, ReadableInv, Opened, Outlasts, Stored
<1> QED
  BY <1>1, <1>2, <1>4, <1>5, <1>6 DEF Next

LEMMA InitReadable == Init => ReadableInv
<1> SUFFICES ASSUME Init PROVE ReadableInv
  OBVIOUS
<1>1. services[Home] \in Services /\ \A p \in Processes : services[p] = services[Home]
  BY InitServices, Homes
<1>2. redis["creds"].seal = Seal(services[Home])
  BY InitFields DEF Field
<1>3. redis["keys"].seal = Seal(services[Home]) \/ ~Stored("keys")
  BY InitFields, AbsentType DEF Field, Stored, Names
<1>4. \A c \in Calls : call[c].pc # "field"
  BY InitCalls
<1> QED
  BY <1>1, <1>2, <1>3, <1>4, JustSealed DEF ReadableInv

LEMMA ReadableHolds == RotatesAlone => (Spec => []ReadableInv)
<1> SUFFICES ASSUME RotatesAlone PROVE Spec => []ReadableInv
  OBVIOUS
<1>1. Shape /\ (SettingInv /\ StartsAlone) /\ ReadableInv /\ [Next]_vars => ReadableInv'
  BY ReadableStep
<1> QED
  BY <1>1, InitReadable, ShapeHolds, StartsHold, PTL DEF Spec

LEMMA ReadableShows == Shape /\ ReadableInv => FieldsAreReadable
<1> SUFFICES ASSUME Shape, ReadableInv, NEW f \in {"creds", "keys"}, Stored(f)
             PROVE  Readable(Home, f)
  BY DEF FieldsAreReadable
<1> DEFINE r == services[Home]
           seal == redis[f].seal
<1>1. r \in Services /\ OneActiveKey(r) /\ Opened(r, seal, redis[f].ttl)
  BY Homes DEF Shape, RestShape, ReadableInv
<1> HIDE DEF r, seal
<1>2. r.known \subseteq MasterKeys /\ r.active \in r.known /\ NoKey \notin MasterKeys
  BY <1>1, CryptoAssumption DEF Services, OneActiveKey
<1>3. OpensRedis(r, seal)
  BY <1>1, <1>2 DEF Opened, Outlasts, OpensRedis, Opens, Decodes, Decrypts
<1> QED
  BY <1>3 DEF Readable, r, seal

\* Where the application rotates its key a TTL before that expires, in the one process that has
\* it, and nothing is touched, every stored field can be decrypted: the key that
\* cleanupExpiredKeys drops (src/crypto/index.ts:99-107) has encrypted nothing that is left.
THEOREM ReadableTheorem == RotatesAlone => (Spec => []FieldsAreReadable)
<1> SUFFICES ASSUME RotatesAlone PROVE Spec => []FieldsAreReadable
  OBVIOUS
<1>1. Spec => []ReadableInv
  BY ReadableHolds
<1> QED
  BY <1>1, ReadableShows, ShapeHolds, PTL

\* The invariant of the run, where the codec rewrites what it has read as it was: that much is
\* evaluated, by TLC, on the values of Codec.
THEOREM RedisTheorem == RotatesAlone /\ RewritingKeeps => (Spec => []RedisInv)
<1> SUFFICES ASSUME RotatesAlone, RewritingKeeps PROVE Spec => []RedisInv
  OBVIOUS
<1>1. TypeOK /\ FieldsAreReadable /\ MongoOpensNoMore => RedisInv
  BY DEF RedisInv
<1>2. Spec => []FieldsAreReadable
  BY ReadableTheorem
<1> QED
  BY <1>1, <1>2, TypeTheorem, MongoHolds, PTL
=============================================================================
