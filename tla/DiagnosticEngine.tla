--------------------------- MODULE DiagnosticEngine ---------------------------
(***************************************************************************)
(* DiagnosticEngine (src/diagnostics/diagnostic-engine.ts) over the        *)
(* components it was given: what it says of a session while the            *)
(* application feeds the connection tracker and the rotation monitor and   *)
(* sends under the rate limiter.  Asking writes: checkHealth stores what   *)
(* it finds, canAcquire creates the session's bucket and metadata.         *)
(***************************************************************************)
EXTENDS ConnectionTracker, RotationMonitor, RateLimiter

CONSTANT
  Configurations  \* the sets of components a run may be configured with

\* The caches that hold the sessions' entries are bounded (maxSessions).
ASSUME EngineAssumption ==
  /\ IsFiniteSet(Sessions)
  /\ Configurations \subseteq SUBSET {"rotationMonitor", "connectionTracker", "rateLimiter"}

VARIABLES
  configured,  \* the components the engine was constructed with
  found        \* the sessions found disconnected, neither active nor reconnecting since

vars == <<trackerVars, rotationVars, limiterVars, configured, found>>

Init ==
  /\ TrackerInit
  /\ RotationInit
  /\ LimiterInit
  /\ configured \in Configurations
  /\ found = {}

-----------------------------------------------------------------------------
RotationCheck(s) ==
  CASE RotationStatus(s) = "ANOMALY" -> "CRITICAL"
    [] RotationStatus(s) = "WARNING" -> "WARNING"
    [] OTHER -> "OK"

\* diagnose warns of a session that is reconnecting, quickCheck does not.
ConnectionCheck(s, reconnecting) ==
  CASE HealthStatus(s) = "DISCONNECTED" -> "CRITICAL"
    [] HealthStatus(s) = "DEGRADED" -> "WARNING"
    [] HealthStatus(s) = "RECONNECTING" -> reconnecting
    [] OTHER -> "OK"

RateLimitCheck(s) ==
  IF MayAcquire(s) /\ TokensRemaining(s) >= 3 * OneToken THEN "OK" ELSE "WARNING"

Overall(statuses) ==
  IF "CRITICAL" \in statuses THEN "CRITICAL"
  ELSE IF "WARNING" \in statuses THEN "WARNING" ELSE "OK"

StatusOf(component, s, reconnecting) ==
  CASE component = "rotationMonitor" -> RotationCheck(s)
    [] component = "connectionTracker" -> ConnectionCheck(s, reconnecting)
    [] component = "rateLimiter" -> RateLimitCheck(s)

DiagnoseStatus(s) == Overall({StatusOf(k, s, "WARNING") : k \in configured})
QuickStatus(s) ==
  Overall({StatusOf(k, s, "OK") : k \in configured \ {"rateLimiter"}})

SessionsRequiringAttention ==
  IF "connectionTracker" \in configured
  THEN SessionsByState("DISCONNECTED") \cup SessionsByState("DEGRADED") ELSE {}

\* What the connection check leaves behind, where there is a tracker.
AskTracker(s) ==
  IF "connectionTracker" \in configured
  THEN /\ CheckHealth(s)
       /\ found' = IF HealthStatus(s) = "DISCONNECTED" THEN found \cup {s} ELSE found
  ELSE UNCHANGED <<trackerVars, found>>

AskLimiter(s) ==
  IF "rateLimiter" \in configured THEN CanAcquire(s) ELSE UNCHANGED limiterVars

Diagnose(s) ==
  /\ AskTracker(s)
  /\ AskLimiter(s)
  /\ UNCHANGED <<rotationVars, configured>>

QuickCheck(s) ==
  /\ AskTracker(s)
  /\ UNCHANGED <<limiterVars, rotationVars, configured>>

FeedTracker(s) ==
  /\ "connectionTracker" \in configured
  /\ \/ (RecordActivity(s) \/ RecordReconnectAttempt(s)) /\ found' = found \ {s}
     \/ (RecordDisconnect(s) \/ ForgetConnection(s)) /\ UNCHANGED found
  /\ UNCHANGED <<rotationVars, limiterVars, configured>>

FeedMonitor(s) ==
  /\ "rotationMonitor" \in configured
  /\ RecordRotation(s) \/ ForgetRotations(s)
  /\ UNCHANGED <<trackerVars, limiterVars, configured, found>>

Send(c) ==
  /\ "rateLimiter" \in configured
  /\ SenderStep(c)
  /\ UNCHANGED <<trackerVars, rotationVars, configured, found>>

Limit(s) ==
  /\ "rateLimiter" \in configured
  /\ LimiterStep(s)
  /\ UNCHANGED <<trackerVars, rotationVars, configured, found>>

Tick ==
  /\ TrackerTick
  /\ RotationTick
  /\ LimiterTick
  /\ UNCHANGED <<configured, found>>

Next ==
  \/ Tick
  \/ \E s \in Sessions :
       Diagnose(s) \/ QuickCheck(s) \/ FeedTracker(s) \/ FeedMonitor(s) \/ Limit(s)
  \/ \E c \in Senders : Send(c)

Spec == Init /\ [][Next]_vars

\* Time passes, and the timers of the calls that wait fire.
FairSpec ==
  /\ Spec
  /\ WF_vars(Tick)
  /\ \A c \in Senders :
       WF_vars(Send(c) /\ SenderTimers(c))

-----------------------------------------------------------------------------
TypeOK ==
  /\ TrackerTypeOK
  /\ RotationTypeOK
  /\ LimiterTypeOK
  /\ configured \in Configurations
  /\ found \subseteq Sessions

\* A session listed by getSessionsRequiringAttention, which reads the stored
\* states, is not found well when it is checked; the tracker's own statistics,
\* which go by the same states, count no other as unwell.
ListedAreUnhealthy ==
  /\ \A s \in SessionsRequiringAttention : QuickStatus(s) # "OK"
  /\ "connectionTracker" \in configured =>
       Cardinality(SessionsRequiringAttention) + TrackerStats.byState["HEALTHY"]
         + TrackerStats.byState["RECONNECTING"] = TrackerStats.total

\* A session that any check has found lost is critical to every check after it, of
\* quickCheck and of diagnose, until it is active or reconnecting: no verdict stored
\* meanwhile, no notice of a disconnect and no eviction from the tracker's cache makes
\* it look well.  With autoCheck the list has it too, as long as the cache does.
LostStaysLost ==
  \A s \in found :
    /\ QuickStatus(s) = "CRITICAL" /\ DiagnoseStatus(s) = "CRITICAL"
    /\ AutoCheck /\ Tracked(s) => s \in SessionsRequiringAttention

\* The engine's state is well formed; what it lists is not well, and what it has
\* found lost stays lost; and no acquire is refused.
EngineInv ==
  /\ TypeOK
  /\ ListedAreUnhealthy
  /\ LostStaysLost
  /\ NoAcquireIsRefused

\* LimitOnlyGrows as a property of the steps.
LimitsOnlyGrow == [][LimitOnlyGrows]_vars
=============================================================================
