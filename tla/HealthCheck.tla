----------------------------- MODULE HealthCheck -----------------------------
(***************************************************************************)
(* What src/health/health-check.ts and the /health route of               *)
(* src/examples/production-setup make of two pings and a breaker.          *)
(***************************************************************************)

\* opossum's status is an object, which performHealthCheck looks for a string in:
\* the breaker is a component whose status is unknown and which is healthy.
BreakerStatus == "unknown"

ComponentsOf(redisHealthy, mongoHealthy) ==
  {[component |-> "redis", healthy |-> redisHealthy],
   [component |-> "mongodb", healthy |-> mongoHealthy],
   [component |-> "circuit-breaker", healthy |-> BreakerStatus # "open"]}

OverallStatus(redisHealthy, mongoHealthy) ==
  CASE BreakerStatus = "open" -> "degraded"
    [] redisHealthy /\ mongoHealthy -> "healthy"
    [] OTHER -> "unhealthy"

IsReady(redisHealthy, mongoHealthy) ==
  \E c \in ComponentsOf(redisHealthy, mongoHealthy) : c.healthy

IsLive(redisHealthy, mongoHealthy) ==
  OverallStatus(redisHealthy, mongoHealthy) # "unhealthy"

\* Mutant: the route does not ask for the breaker.
RouteStatusOfStores(healthy, breakerOpen) == IF healthy THEN "healthy" ELSE "degraded"

\* The route's own status.
RouteStatus(healthy, breakerOpen) ==
  IF healthy /\ ~breakerOpen THEN "healthy" ELSE "degraded"
=============================================================================
