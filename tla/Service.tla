------------------------------- MODULE Service -------------------------------
(***************************************************************************)
(* HybridAuthStore in service (src/hybrid/store.ts): the reads with their  *)
(* fallback and breaker, exists, touch, delete, the batches and the health *)
(* checks, while servers fail, the client reconnects and the application   *)
(* connects and disconnects.  Sessions are stored or not; what they hold   *)
(* is the matter of HybridStore, and so are the writes.                    *)
(*                                                                         *)
(* A command is carried out and answered in one step, or it fails.  A      *)
(* removal may also be carried out in a step of its own, and then fail     *)
(* because its answer is lost.                                             *)
(***************************************************************************)
EXTENDS Lifecycle, CircuitBreaker, HealthCheck

CONSTANTS
  Requests,      \* requests under way; each is followed by another
  Sessions,
  Settings       \* what a run is about: which operations, of which sessions, and
                 \* which of the requests

Ops == {"get", "exists", "touch", "delete", "batchGet", "batchDelete", "health"}
Reads == {"get", "exists", "batchGet"}
Removals == {"delete", "batchDelete"}
Results == {"hit", "null", "true", "false", "done", "failed"}

ASSUME ServiceAssumption ==
  /\ MaxFires \in Nat \ {0}
  /\ None \notin Sessions \cup Calls \cup Results
  /\ Settings \subseteq [ops : SUBSET (Ops \cup {"connect", "disconnect", "overlap"}),
                         ids : SUBSET Sessions, by : SUBSET Requests]

VARIABLES
  setting,
  stored,   \* the sessions in each store
  warming,  \* the sessions whose warmCache is under way
  request

vars == <<up, outages, redis, mongo, hybrid, opener, breaker, setting, stored,
          warming, request>>
links == <<up, outages, redis, mongo, hybrid, opener>>

\* todo are the ids that Redis, late those that MongoDB is yet to be asked for;
\* layers are the stores that have done what is asked.  There and excused are the
\* sessions that MongoDB has held throughout, and that it has failed for.
NoRequest ==
  [pc |-> "idle", op |-> "get", todo |-> {}, at |-> None, late |-> {},
   res |-> [s \in Sessions |-> None], layers |-> [s \in Sessions |-> {}],
   there |-> {}, excused |-> {}]

Init ==
  /\ setting \in Settings
  /\ IF "connect" \in setting.ops THEN ServerInit ELSE up = Servers /\ outages = 0
  /\ opener = [c \in Calls |-> "idle"]
  /\ IF "connect" \in setting.ops
     THEN redis = NewClient /\ mongo = NewMongo /\ hybrid = NewHybrid
     ELSE /\ redis = ReadyClient /\ mongo = [client |-> "open", connected |-> TRUE]
          /\ hybrid = [NewHybrid EXCEPT !.connected = TRUE]
  /\ breaker = NewBreaker
  /\ stored \in [Servers -> SUBSET IF "connect" \in setting.ops THEN {} ELSE setting.ids]
  /\ warming = {}
  /\ request = [q \in Requests |-> NoRequest]

-----------------------------------------------------------------------------
\* ensureConnected refuses a command, or it is sent to Redis.
SendRedis(r, s) ==
  [r EXCEPT !.at = s, !.pc = IF redis.connected THEN "redis" ELSE "refused"]

\* The loops over the ids of a batch: all ids in Redis, then the ones missed in
\* MongoDB.  A single operation is a batch of one.
NextId(r) ==
  IF r.todo # {}
  THEN LET s == CHOOSE x \in r.todo : TRUE IN
       SendRedis([r EXCEPT !.todo = @ \ {s}], s)
  ELSE IF r.late # {}
  THEN LET s == CHOOSE x \in r.late : TRUE IN
       [r EXCEPT !.late = @ \ {s}, !.at = s, !.pc = "fire"]
  ELSE [r EXCEPT !.pc = "done"]

Answered(r, result) == NextId([r EXCEPT !.res[r.at] = result])

Rejected(r) == [r EXCEPT !.pc = "rejected"]

\* Only batchGet does not ask whether the store is connected; batchDelete notes
\* that every one of its deletions is refused.
Ask(r) ==
  IF hybrid.connected \/ r.op = "batchGet" THEN NextId(r)
  ELSE CASE r.op = "health" -> [r EXCEPT !.pc = "done"]
         [] r.op = "batchDelete" ->
              [r EXCEPT !.pc = "done", !.todo = {},
                        !.res = [s \in Sessions |-> IF s \in r.todo THEN "failed" ELSE None]]
         [] OTHER -> Rejected(r)

Begin(q, o, S) ==
  /\ request[q].pc = "idle" /\ q \in setting.by /\ o \in setting.ops
  /\ S # {} /\ S \subseteq setting.ids
  /\ o \in {"batchGet", "batchDelete"} \/ \E s \in Sessions : S = {s}
  /\ request' = [request EXCEPT ![q] =
       Ask([NoRequest EXCEPT !.op = o, !.todo = S,
                             !.there = IF o \in Reads THEN S \cap stored["mongo"] ELSE {}])]
  /\ UNCHANGED <<links, breaker, setting, stored, warming>>

\* What Redis makes of the command: it is answered, or it fails.
Missed(r) == [r EXCEPT !.late = @ \cup {r.at}]

\* Mutant: a failing Redis is taken for one that has not got the session.
AfterRedisNull(r, ok) ==
  LET s == r.at
      has == ok /\ s \in stored["redis"] IN
  CASE r.op \in {"get", "batchGet"} ->
         IF has THEN Answered(r, "hit") ELSE IF ok THEN NextId(Missed(r)) ELSE Answered(r, "null")
    [] r.op = "exists" ->
         IF ~ok THEN Rejected(r) ELSE IF has THEN Answered(r, "true")
         ELSE [r EXCEPT !.pc = "mongo"]
    [] OTHER -> [r EXCEPT !.pc = "mongo", !.layers[s] = IF ok THEN {"redis"} ELSE {}]

AfterRedis(r, ok) ==
  LET s == r.at
      has == ok /\ s \in stored["redis"] IN
  CASE r.op \in {"get", "batchGet"} ->
         IF has THEN Answered(r, "hit")
         ELSE NextId(Missed([r EXCEPT !.res[s] = IF ok THEN "null" ELSE @]))
    [] r.op = "exists" ->
         IF ~ok THEN Rejected(r) ELSE IF has THEN Answered(r, "true")
         ELSE [r EXCEPT !.pc = "mongo"]
    [] OTHER -> [r EXCEPT !.pc = "mongo", !.layers[s] = IF ok THEN {"redis"} ELSE {}]

Removes(r) == r.op \in Removals

RedisCommand(q) ==
  LET r == request[q] IN
  /\ \/ /\ r.pc = "redis" /\ Answers
        /\ request' = [request EXCEPT ![q] = AfterRedis(r, TRUE)]
        /\ stored' = [stored EXCEPT !["redis"] = @ \ IF Removes(r) THEN {r.at} ELSE {}]
     \/ /\ r.pc = "refused" \/ (r.pc = "redis" /\ PingRejects)
        /\ request' = [request EXCEPT ![q] = AfterRedis(r, FALSE)]
        /\ UNCHANGED stored
  /\ UNCHANGED <<links, breaker, setting, warming>>

\* What a read is told that MongoDB, or the breaker, has failed: get gives null,
\* batchGet leaves the entry as Redis has left it.
Excused(r) ==
  LET e == [r EXCEPT !.excused = @ \cup {r.at}] IN
  IF r.op = "get" THEN Answered(e, "null") ELSE NextId(e)

\* Mutant: the breaker is only asked while it is closed.
FireIfClosed(q) ==
  LET r == request[q] IN
  /\ r.pc = "fire"
  /\ breaker' = IF breaker.state = "closed" THEN Fired(breaker) ELSE breaker
  /\ request' = [request EXCEPT ![q] = IF breaker.state = "closed"
                                       THEN [r EXCEPT !.pc = "mongo"] ELSE Excused(r)]
  /\ UNCHANGED <<links, setting, stored, warming>>

\* mongoCircuitBreaker.fire.
Fire(q) ==
  LET r == request[q] IN
  /\ r.pc = "fire"
  /\ breaker' = Fired(breaker)
  /\ request' = [request EXCEPT ![q] =
                   IF Rejects THEN Excused(r) ELSE [r EXCEPT !.pc = "mongo"]]
  /\ UNCHANGED <<links, setting, stored, warming>>

\* A removal or touch succeeds if one of the stores has done it.
Settled(r) ==
  IF r.layers[r.at] # {} THEN Answered(r, "done")
  ELSE IF r.op = "batchDelete" THEN Answered(r, "failed") ELSE Rejected(r)

AfterMongo(r, ok) ==
  LET has == r.at \in stored["mongo"] IN
  CASE r.op \in {"get", "batchGet"} ->
         IF ok THEN Answered(r, IF has THEN "hit" ELSE "null") ELSE Excused(r)
    [] r.op = "exists" ->
         IF ok THEN Answered(r, IF has THEN "true" ELSE "false") ELSE Rejected(r)
    [] r.op = "health" ->
         [r EXCEPT !.pc = "done", !.layers[r.at] = @ \cup IF ok THEN {"mongo"} ELSE {}]
    [] OTHER -> Settled([r EXCEPT !.layers[r.at] = @ \cup IF ok THEN {"mongo"} ELSE {}])

\* A session that is gone has not been there throughout.
Lost(r, s) == [r EXCEPT !.there = @ \ {s}]
Without(s, reqs) == [q \in Requests |-> Lost(reqs[q], s)]

MongoAnswers == mongo.connected /\ MongoUsable

MongoCommand(q) ==
  LET r == request[q]
      ok == MongoAnswers
      read == r.op \in {"get", "batchGet"}
      after == [request EXCEPT ![q] = AfterMongo(r, ok)] IN
  /\ r.pc = "mongo"
  /\ breaker' = IF ~read THEN breaker ELSE IF ok THEN Succeeded(breaker) ELSE Failed(breaker)
  /\ stored' = [stored EXCEPT !["mongo"] = @ \ IF Removes(r) /\ ok THEN {r.at} ELSE {}]
  /\ warming' = warming \cup IF read /\ ok /\ r.at \in stored["mongo"] THEN {r.at} ELSE {}
  /\ request' = IF Removes(r) /\ ok THEN Without(r.at, after) ELSE after
  /\ UNCHANGED <<links, setting>>

\* A server carries out a removal and the answer is yet to come: if the connection
\* is lost, it will not, and the removal is taken to have failed.
CarriedOut(q) ==
  LET r == request[q] IN
  /\ Removes(r)
  /\ (r.pc = "redis" /\ Answers) \/ (r.pc = "mongo" /\ MongoAnswers)
  /\ stored' = [stored EXCEPT ![r.pc] = @ \ {r.at}]
  /\ request' = IF r.pc = "mongo" THEN Without(r.at, request) ELSE request
  /\ UNCHANGED <<links, breaker, setting, warming>>

\* isHealthy of one store, as a probe has found it, and of the two together.
Healthy(r, store) == \E s \in Sessions : store \in r.layers[s]
IsHealthy(r) == \A store \in Servers : Healthy(r, store)
IsMongoCircuitBreakerOpen == breaker.state = "open"

\* The caller has its answer.
Return(q) ==
  /\ request[q].pc \in Ended
  /\ request' = [request EXCEPT ![q] = NoRequest]
  /\ UNCHANGED <<links, breaker, setting, stored, warming>>

\* warmCache ends: the session is stored in Redis, or it was found there, or
\* Redis failed.
Warm(s) ==
  /\ s \in warming
  /\ warming' = warming \ {s}
  /\ \/ Answers /\ stored' = [stored EXCEPT !["redis"] = @ \cup {s}]
     \/ UNCHANGED stored
  /\ UNCHANGED <<links, breaker, setting, request>>

\* A TTL is over.
Expire(s, store) ==
  /\ s \in stored[store]
  /\ stored' = [stored EXCEPT ![store] = @ \ {s}]
  /\ request' = IF store = "mongo" THEN Without(s, request) ELSE request
  /\ UNCHANGED <<links, breaker, setting, warming>>

-----------------------------------------------------------------------------
\* The request has the answer of Redis, of the breaker or of MongoDB.
Proceed(q) == RedisCommand(q) \/ Fire(q) \/ MongoCommand(q)

Server ==
  /\ \E s \in Servers : ServerFails(s) \/ ServerReturns(s)
  /\ UNCHANGED <<redis, mongo, hybrid, opener, breaker, setting, stored, warming, request>>

Client ==
  /\ ClientStep
  /\ UNCHANGED <<up, outages, mongo, hybrid, opener, breaker, setting, stored, warming, request>>

\* The application awaits one call before it makes the next, or it does not.
Alone == \A c \in Calls : opener[c] \in {"idle"} \cup Ended

Open(c) ==
  /\ Alone \/ "overlap" \in setting.ops
  /\ \/ "connect" \in setting.ops /\ Connect(c)
     \/ "disconnect" \in setting.ops /\ Disconnect(c)
  /\ UNCHANGED <<up, outages, breaker, setting, stored, warming, request>>

Resolve(c) ==
  /\ Opening(c)
  /\ UNCHANGED <<up, outages, breaker, setting, stored, warming, request>>

BreakerTimer ==
  /\ HalfOpen \/ Roll
  /\ UNCHANGED <<links, setting, stored, warming, request>>

Next ==
  \/ Server \/ Client \/ BreakerTimer
  \/ \E c \in Calls : Open(c) \/ Resolve(c)
  \/ \E q \in Requests :
       \/ \E o \in Ops, S \in SUBSET Sessions : Begin(q, o, S)
       \/ Proceed(q) \/ CarriedOut(q) \/ Return(q)
  \/ \E s \in Sessions : Warm(s) \/ \E store \in Servers : Expire(s, store)

Spec == Init /\ [][Next]_vars

\* The client's events and timers, the breaker's timer and whatever is awaited
\* come about.  Servers, the application and expiry owe nothing.
Fairness ==
  /\ WF_vars(Client) /\ WF_vars(HalfOpen /\ BreakerTimer)
  /\ WF_vars(\E c \in Calls : Resolve(c))
  /\ \A q \in Requests : WF_vars(Proceed(q))

FairSpec == Spec /\ Fairness

-----------------------------------------------------------------------------
\* The state of the connections, the breaker and the requests is well formed.
TypeOK ==
  /\ up \subseteq Servers /\ outages \in 0..MaxOutages
  /\ redis.status \in {"connecting", "connect", "ready", "waiting", "end"}
  /\ redis.tries \in 0..(MaxRetries + 1)
  /\ mongo.client \in {"new", "open", "closed"}
  /\ hybrid.manager \in Calls \cup {None} /\ hybrid.running \subseteq Calls
  /\ \A c \in Calls : opener[c] \in {"idle", "ping", "mongo", "indexes", "closing"} \cup Ended
  /\ breaker \in Breakers
  /\ stored \in [Servers -> SUBSET Sessions] /\ warming \subseteq Sessions
  /\ \A q \in Requests :
       /\ request[q].pc \in {"idle", "redis", "refused", "fire", "mongo"} \cup Ended
       /\ request[q].todo \cup request[q].late \subseteq Sessions

\* One interval reconciles, and none after disconnect: connecting again, after
\* a disconnect that has failed or that came while Redis was away, leaves no old
\* one running.  Calls that do not overlap: two calls of connect at once do.
OneReconciler ==
  "overlap" \notin setting.ops =>
    /\ hybrid.running \subseteq {hybrid.manager}
    /\ hybrid.running # {} => hybrid.connected

\* Whatever is called in whatever order, the state is well formed, the store's flag
\* follows the client, and one reconciler runs at most.
ServiceInv == TypeOK /\ FlagFollowsClient /\ OneReconciler

\* A read says that there is nothing only where MongoDB has nothing, or MongoDB
\* or its breaker has failed it: a Redis that fails, is empty, or is half way
\* through a batch hides no session.  exists is never excused.
NothingIsHidden ==
  \A q \in Requests :
    LET r == request[q] IN
    r.pc = "done" =>
      \A s \in r.there :
        /\ r.op \in {"get", "batchGet"} /\ r.res[s] \in {"null", None} => s \in r.excused
        /\ r.op = "exists" => r.res[s] # "false"

\* Where the route says healthy, performHealthCheck does, and a read that Redis has
\* not got is not turned away: the breaker lets it through, or has a trial out that
\* decides.  What is live is ready.
HealthyIsServed ==
  \A q \in Requests : request[q].op = "health" /\ request[q].pc = "done" =>
    LET on(store) == Healthy(request[q], store)
        route == RouteStatus(IsHealthy(request[q]), IsMongoCircuitBreakerOpen)
        trialOut == \E p \in Requests :
          request[p].pc = "mongo" /\ request[p].op \in {"get", "batchGet"} IN
    /\ route = "healthy" =>
         /\ OverallStatus(on("redis"), on("mongo")) = "healthy"
         /\ Rejects => trialOut
    /\ IsLive(on("redis"), on("mongo")) => IsReady(on("redis"), on("mongo"))

\* Every call ends, however the servers come and go: a command waits in the Redis
\* client for as long as it tries to reconnect, which retryStrategy counts
\* (redis/store.ts:104-126), and its queue is emptied when it gives up.
EveryCallEnds ==
  /\ []<>Alone
  /\ \A q \in Requests : request[q].pc # "idle" ~> request[q].pc \in Ended

\* When MongoDB is back for good and reads keep coming, the breaker closes.
BreakerCloses ==
  (<>[]MongoAnswers /\ []<>(\E q \in Requests : request[q].pc = "fire"))
    => []<>(breaker.state = "closed")
=============================================================================
