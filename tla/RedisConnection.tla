--------------------------- MODULE RedisConnection ---------------------------
(***************************************************************************)
(* The connection of one RedisAuthStore (src/redis/store.ts): the ioredis  *)
(* client with the store's retryStrategy, and the flag the store keeps     *)
(* from its events.  A command sent while the client is not ready waits in *)
(* its offline queue; once the client has ended, it is rejected.           *)
(***************************************************************************)
EXTENDS Integers

CONSTANTS
  MaxRetries,  \* resilience.maxRetries
  MaxOutages   \* bound: how often a server goes down

ASSUME ConnectionAssumption == MaxRetries \in Nat /\ MaxOutages \in Nat

VARIABLES
  up,       \* the servers that answer
  outages,
  redis     \* the client's status, its retryAttempts, and the store's connected

Servers == {"redis", "mongo"}

ServerInit == up \in {Servers, {"redis"}, {"mongo"}, {}} /\ outages = 0

ServerFails(s) ==
  /\ s \in up /\ outages < MaxOutages
  /\ up' = up \ {s}
  /\ outages' = outages + 1

ServerReturns(s) ==
  /\ s \notin up
  /\ up' = up \cup {s}
  /\ UNCHANGED outages

-----------------------------------------------------------------------------
\* lazyConnect is false: the constructor connects.
NewClient == [status |-> "connecting", tries |-> 0, connected |-> FALSE]
ReadyClient == [status |-> "ready", tries |-> 0, connected |-> TRUE]

\* The event connect: the flag is set, while commands wait for the client to be
\* ready.
ClientConnects ==
  /\ redis.status = "connecting" /\ "redis" \in up
  /\ redis' = [redis EXCEPT !.status = "connect", !.connected = TRUE]

\* The event ready; ioredis begins to count its attempts again.
ClientReady ==
  /\ redis.status = "connect" /\ "redis" \in up
  /\ redis' = ReadyClient

\* retryStrategy: null, and the client ends, after maxRetries attempts.
AfterClose(times) == IF times > MaxRetries THEN "end" ELSE "waiting"

\* Mutant: the attempts are not counted.
ClientClosedUncounted ==
  /\ redis.status \in {"connecting", "connect", "ready"} /\ "redis" \notin up
  /\ redis' = [redis EXCEPT !.status = "waiting", !.connected = FALSE]

\* The event close: the connection is refused, or lost.
ClientClosed ==
  /\ redis.status \in {"connecting", "connect", "ready"} /\ "redis" \notin up
  /\ redis' = [status |-> AfterClose(redis.tries + 1), tries |-> redis.tries + 1,
               connected |-> FALSE]

ClientRetries ==
  /\ redis.status = "waiting"
  /\ redis' = [redis EXCEPT !.status = "connecting"]

ClientStep == ClientConnects \/ ClientReady \/ ClientClosed \/ ClientRetries

\* disconnect: without the flag nothing; quit ends the client, whether it is
\* answered or the connection is lost.
Quit(r) == IF r.connected THEN [r EXCEPT !.status = "end", !.connected = FALSE] ELSE r

\* A command is answered, or rejected: at once by ensureConnected, or by the
\* client when it ends.  Otherwise it waits.
Answers == redis.status = "ready" /\ "redis" \in up
PingRejects == redis.status = "end"
CommandRejects == ~redis.connected \/ PingRejects

-----------------------------------------------------------------------------
\* The flag is never left behind by the client: no operation passes
\* ensureConnected on a connection that was closed, whatever the order of
\* connect, disconnect and the client's events.
FlagFollowsClient == redis.connected => redis.status \in {"connect", "ready"}
=============================================================================
