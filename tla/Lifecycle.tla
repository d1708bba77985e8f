------------------------------ MODULE Lifecycle ------------------------------
(***************************************************************************)
(* connect and disconnect of HybridAuthStore (src/hybrid/store.ts) and of  *)
(* the two stores below it, with the OutboxManager's reconciler.  A call   *)
(* is in one step from one await to the next.                              *)
(***************************************************************************)
EXTENDS RedisConnection

CONSTANTS Calls, None

VARIABLES
  mongo,   \* the MongoClient, and the store's connected
  hybrid,  \* connected, the outboxManager, and the managers whose interval runs
  opener   \* the calls of connect and disconnect

NewMongo == [client |-> "new", connected |-> FALSE]
NewHybrid == [connected |-> FALSE, manager |-> None, running |-> {}]

MongoUsable == mongo.client = "open" /\ "mongo" \in up

Ended == {"done", "rejected"}
Opens(c, where) == opener' = [opener EXCEPT ![c] = where]

-----------------------------------------------------------------------------
\* connect of the hybrid store and, with nothing awaited in between, of Redis.
Connect(c) ==
  /\ opener[c] = "idle"
  /\ Opens(c, IF hybrid.connected THEN "done" ELSE IF redis.connected THEN "mongo" ELSE "ping")
  /\ UNCHANGED <<redis, mongo, hybrid>>

Ping(c) ==
  /\ opener[c] = "ping"
  /\ \/ Answers /\ redis' = [redis EXCEPT !.connected = TRUE] /\ Opens(c, "mongo")
     \/ PingRejects /\ UNCHANGED redis /\ Opens(c, "rejected")
  /\ UNCHANGED <<mongo, hybrid>>

\* MongoAuthStore.connect; it returns early when the flag is set.
ConnectMongo(c) ==
  /\ opener[c] = "mongo" /\ ~mongo.connected
  /\ IF "mongo" \in up
     THEN mongo' = [mongo EXCEPT !.client = "open"] /\ Opens(c, "indexes")
     ELSE UNCHANGED mongo /\ Opens(c, "rejected")
  /\ UNCHANGED <<redis, hybrid>>

\* createIndexes tries them all and rejects nothing.
MongoOpened(c) ==
  \/ opener[c] = "indexes"
  \/ opener[c] = "mongo" /\ mongo.connected

\* The hybrid store is connected, and starts a reconciler of its own if Redis still
\* is: getClient throws otherwise, which is caught.
Opened(c) ==
  /\ MongoOpened(c)
  /\ mongo' = [mongo EXCEPT !.connected = TRUE]
  /\ hybrid' = IF redis.connected
               THEN [connected |-> TRUE, manager |-> c, running |-> hybrid.running \cup {c}]
               ELSE [hybrid EXCEPT !.connected = TRUE]
  /\ Opens(c, "done")
  /\ UNCHANGED redis

\* MongoAuthStore.disconnect leaves the flag to the client's event close, which
\* the driver may emit or not.
ClosedMongo(connected) ==
  IF mongo.connected THEN [client |-> "closed", connected |-> connected] ELSE mongo

\* Mutant: the reconciler is not stopped.
DisconnectKeepingReconciler(c) ==
  /\ opener[c] = "idle"
  /\ IF ~hybrid.connected
     THEN Opens(c, "done") /\ UNCHANGED <<redis, mongo, hybrid>>
     ELSE /\ redis' = Quit(redis)
          /\ \E connected \in {FALSE, mongo.connected} : mongo' = ClosedMongo(connected)
          /\ UNCHANGED hybrid
          /\ Opens(c, "closing")

\* disconnect stops the reconciler and has Redis, MongoDB and the queue closed
\* together; the two stores reject nothing.
Disconnect(c) ==
  /\ opener[c] = "idle"
  /\ IF ~hybrid.connected
     THEN Opens(c, "done") /\ UNCHANGED <<redis, mongo, hybrid>>
     ELSE /\ redis' = Quit(redis)
          /\ \E connected \in {FALSE, mongo.connected} : mongo' = ClosedMongo(connected)
          /\ hybrid' = [hybrid EXCEPT !.running = @ \ {hybrid.manager}]
          /\ Opens(c, "closing")

\* The queue closes, or rejects, which leaves connected as it is.
Closed(c) ==
  /\ opener[c] = "closing"
  /\ \E connected \in {FALSE, hybrid.connected} :
       hybrid' = [hybrid EXCEPT !.connected = connected]
  /\ Opens(c, "done")
  /\ UNCHANGED <<redis, mongo>>

\* What answers a call that waits.
Opening(c) == Ping(c) \/ ConnectMongo(c) \/ Opened(c) \/ Closed(c)

=============================================================================
