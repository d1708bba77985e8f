----------------------- MODULE DiagnosticEngineProofs -----------------------
(***************************************************************************)
(* The engine and its components together.  Every step of the engine, and  *)
(* of the application that feeds its components, is a step of the tracker  *)
(* or leaves it alone, so what was proved of the tracker holds here; and   *)
(* what the engine has once found lost it keeps calling so.                *)
(***************************************************************************)
EXTENDS DiagnosticEngine, MonitoringProofs

LEMMA AsksAreTrackerSteps ==
  ASSUME NEW s \in Sessions, AskTracker(s)
  PROVE  [TrackerNext]_trackerVars
BY DEF AskTracker, TrackerNext

LEMMA StepsAreTrackerSteps == [Next]_vars => [TrackerNext]_trackerVars
<1> SUFFICES ASSUME [Next]_vars PROVE [TrackerNext]_trackerVars
  OBVIOUS
<1>1. CASE Tick
  BY <1>1 DEF Tick, TrackerNext
<1>2. ASSUME NEW s \in Sessions, Diagnose(s) \/ QuickCheck(s)
      PROVE  [TrackerNext]_trackerVars
  BY <1>2, AsksAreTrackerSteps DEF Diagnose, QuickCheck
<1>3. ASSUME NEW s \in Sessions, FeedTracker(s) PROVE [TrackerNext]_trackerVars
  BY <1>3 DEF FeedTracker, TrackerNext, TrackerStep
<1>4. ASSUME NEW s \in Sessions, FeedMonitor(s) \/ Limit(s) PROVE [TrackerNext]_trackerVars
  BY <1>4 DEF FeedMonitor, Limit
<1>5. ASSUME NEW c \in Senders, Send(c) PROVE [TrackerNext]_trackerVars
  BY <1>5 DEF Send
<1>6. CASE UNCHANGED vars
  BY <1>6 DEF vars
<1> QED BY <1>1, <1>2, <1>3, <1>4, <1>5, <1>6 DEF Next

\* The engine implements the tracker it was given: asking it questions is no
\* more than calling checkHealth (diagnostic-engine.ts:269-279).
THEOREM EngineTracks == Spec => TrackerSpec
<1>1. Init => TrackerInit
  BY DEF Init
<1> QED BY <1>1, StepsAreTrackerSteps, PTL DEF Spec, TrackerSpec

\* Whatever the engine is asked and whenever, no session is taken for worse
\* than its silence, and no success is counted without an attempt
\* (connection-tracker.ts:114-273).
THEOREM EngineTrackerTheorem == Spec => []TrackerInv
BY EngineTracks, TrackerTheorem, PTL

\* However many of its questions find a session lost, the listeners hear of it
\* once (connection-tracker.ts:242-273).
THEOREM EngineAlarmTheorem == Spec => []OneAlarmPerSilence
BY EngineTracks, AlarmTheorem, PTL

-----------------------------------------------------------------------------
(* The engine's answers *)

LEMMA CriticalOverall ==
  ASSUME NEW S
  PROVE  Overall(S) = "CRITICAL" <=> "CRITICAL" \in S
BY DEF Overall

LEMMA ConfiguredHolds == Spec => [](configured \in Configurations)
<1>1. Init => configured \in Configurations
  BY DEF Init
<1>2. configured \in Configurations /\ [Next]_vars => (configured \in Configurations)'
  <2> SUFFICES ASSUME [Next]_vars PROVE UNCHANGED configured
    OBVIOUS
  <2> QED
    BY DEF Next, vars, Diagnose, QuickCheck, FeedTracker, FeedMonitor, Send, Limit, Tick
<1> QED BY <1>1, <1>2, PTL DEF Spec

-----------------------------------------------------------------------------
(* The sessions found lost *)

Lost(s) ==
  \/ connections[s].state \in {"none", "DISCONNECTED"}
  \/ ~AutoCheck /\ Recomputed(s) /\ connections[s].silent > DisconnectThreshold

FoundInv ==
  /\ found \subseteq Sessions
  /\ found # {} => "connectionTracker" \in configured
  /\ \A s \in found : Lost(s)

LEMMA AskKeepsFound ==
  ASSUME TrackerTypeOK, FoundInv, NEW s \in Sessions, AskTracker(s), UNCHANGED configured
  PROVE  FoundInv'
<1>1. CASE "connectionTracker" \notin configured
  BY <1>1 DEF AskTracker, FoundInv, trackerVars, Lost, Recomputed
<1>2. CASE "connectionTracker" \in configured
  <2>1. /\ CheckHealth(s)
        /\ found' = IF HealthStatus(s) = "DISCONNECTED" THEN found \cup {s} ELSE found
    BY <1>2 DEF AskTracker
  <2>2. found' \subseteq Sessions
    BY <2>1 DEF FoundInv
  <2>3. ASSUME NEW x \in found' PROVE Lost(x)'
    <3>1. connections \in [Sessions -> ConnectionData] /\ x \in Sessions
      BY <2>2 DEF TrackerTypeOK
    <3>2. connections' = IF AutoCheck /\ Recomputed(s)
                         THEN [connections EXCEPT ![s].state = HealthStatus(s)] ELSE connections
      BY <2>1 DEF CheckHealth
    <3>3. CASE x \in found /\ connections'[x] = connections[x]
      BY <3>3 DEF FoundInv, Lost, Recomputed
    <3>4. CASE x \in found /\ connections'[x] # connections[x]
      <4>1. x = s /\ AutoCheck /\ Recomputed(s)
        BY <3>1, <3>2, <3>4
      <4> QED BY <3>4, <4>1 DEF FoundInv, Lost, Recomputed
    <3>5. CASE x \notin found
      <4>1. x = s /\ HealthStatus(s) = "DISCONNECTED"
        BY <2>1, <2>3, <3>5
      <4>2. CASE AutoCheck /\ Recomputed(s)
        <5>1. connections'[s].state = "DISCONNECTED"
          BY <3>1, <3>2, <4>1, <4>2 DEF ConnectionData
        <5> QED BY <4>1, <5>1 DEF Lost
      <4>3. CASE ~(AutoCheck /\ Recomputed(s))
        <5>1. connections' = connections
          BY <3>2, <4>3
        <5>2. connections[s].state \in {"none", "DISCONNECTED"} \/ Recomputed(s)
          BY <4>1 DEF HealthStatus, Tracked
        <5>3. Recomputed(s) => connections[s].silent > DisconnectThreshold
          BY <4>1 DEF HealthStatus, BySilence
        <5> QED BY <4>1, <4>3, <5>1, <5>2, <5>3 DEF Lost, Recomputed
      <4> QED BY <4>2, <4>3
    <3> QED BY <3>3, <3>4, <3>5
  <2> QED BY <1>2, <2>2, <2>3 DEF FoundInv
<1> QED BY <1>1, <1>2

LEMMA FeedKeepsFound ==
  ASSUME TrackerTypeOK, FoundInv, NEW s \in Sessions, FeedTracker(s)
  PROVE  FoundInv'
<1>1. connections \in [Sessions -> ConnectionData]
  BY DEF TrackerTypeOK
<1>2. \A x \in Sessions \ {s} : connections'[x] = connections[x]
  BY <1>1 DEF FeedTracker, RecordActivity, RecordReconnectAttempt, RecordDisconnect,
            ForgetConnection
<1>3. \/ found' = found \ {s}
      \/ found' = found /\ connections'[s].state \in {"none", "DISCONNECTED"}
  BY <1>1 DEF FeedTracker, RecordDisconnect, ForgetConnection, NoConnection, ConnectionData
<1>4. found' \subseteq found /\ configured' = configured
  BY <1>3 DEF FeedTracker
<1>5. ASSUME NEW x \in found' PROVE Lost(x)'
  <2>1. CASE x = s
    BY <1>3, <1>5, <2>1 DEF Lost
  <2>2. CASE x # s
    BY <1>2, <1>4, <2>2 DEF FoundInv, Lost, Recomputed
  <2> QED BY <2>1, <2>2
<1> QED BY <1>4, <1>5 DEF FoundInv

LEMMA TickKeepsFound ==
  ASSUME TrackerTypeOK, FoundInv, Tick
  PROVE  FoundInv'
<1>1. connections \in [Sessions -> ConnectionData]
  BY DEF TrackerTypeOK
<1>2. ASSUME NEW x \in Sessions
      PROVE  /\ connections'[x].state = connections[x].state
             /\ connections[x].silent > DisconnectThreshold =>
                  connections'[x].silent > DisconnectThreshold
  <2>1. connections[x].silent \in 0..LongSilence /\ LongSilence \in Nat
    BY <1>1, TrackerAssumption DEF ConnectionData, LongSilence
  <2>2. /\ connections'[x].state = connections[x].state
        /\ connections'[x].silent = IF connections[x].silent < LongSilence
                                    THEN connections[x].silent + 1 ELSE connections[x].silent
    BY <1>1 DEF Tick, TrackerTick, ConnectionData
  <2> QED BY <2>1, <2>2, TrackerAssumption
<1>3. found' = found /\ configured' = configured
  BY DEF Tick
<1>4. \A x \in found : Lost(x)'
  BY <1>2 DEF FoundInv, Lost, Recomputed
<1> QED BY <1>3, <1>4 DEF FoundInv

LEMMA FoundStays ==
  ASSUME FoundInv, UNCHANGED <<connections, configured, found>>
  PROVE  FoundInv'
BY DEF FoundInv, Lost, Recomputed

LEMMA FoundInvHolds == Spec => []FoundInv
<1>1. Init => FoundInv
  BY DEF Init, FoundInv
<1>2. TrackerInv /\ FoundInv /\ [Next]_vars => FoundInv'
  <2> SUFFICES ASSUME TrackerInv, FoundInv, [Next]_vars PROVE FoundInv'
    OBVIOUS
  <2>0. TrackerTypeOK
    BY DEF TrackerInv
  <2>1. CASE Tick
    BY <2>0, <2>1, TickKeepsFound
  <2>2. ASSUME NEW s \in Sessions, Diagnose(s) \/ QuickCheck(s) PROVE FoundInv'
    BY <2>0, <2>2, AskKeepsFound DEF Diagnose, QuickCheck
  <2>3. ASSUME NEW s \in Sessions, FeedTracker(s) PROVE FoundInv'
    BY <2>0, <2>3, FeedKeepsFound
  <2>4. ASSUME NEW s \in Sessions, FeedMonitor(s) \/ Limit(s) PROVE FoundInv'
    BY <2>4, FoundStays DEF FeedMonitor, Limit, trackerVars
  <2>5. ASSUME NEW c \in Senders, Send(c) PROVE FoundInv'
    BY <2>5, FoundStays DEF Send, trackerVars
  <2>6. CASE UNCHANGED vars
    BY <2>6, FoundStays DEF vars, trackerVars
  <2> QED BY <2>1, <2>2, <2>3, <2>4, <2>5, <2>6 DEF Next
<1> QED BY <1>1, <1>2, EngineTrackerTheorem, PTL DEF Spec

LEMMA LostIsCritical ==
  ASSUME FoundInv, NEW s \in found
  PROVE  QuickStatus(s) = "CRITICAL" /\ DiagnoseStatus(s) = "CRITICAL"
<1>1. "connectionTracker" \in configured /\ Lost(s)
  BY DEF FoundInv
<1>2. HealthStatus(s) = "DISCONNECTED"
  BY <1>1 DEF Lost, HealthStatus, Recomputed, BySilence, Tracked
<1>3. StatusOf("connectionTracker", s, "OK") = "CRITICAL"
      /\ StatusOf("connectionTracker", s, "WARNING") = "CRITICAL"
  BY <1>2 DEF StatusOf, ConnectionCheck
<1>4. /\ "CRITICAL" \in {StatusOf(k, s, "OK") : k \in configured \ {"rateLimiter"}}
      /\ "CRITICAL" \in {StatusOf(k, s, "WARNING") : k \in configured}
  BY <1>1, <1>3
<1> QED BY <1>4, CriticalOverall DEF QuickStatus, DiagnoseStatus

\* For all thresholds, and with autoCheck or without: a session that one check has
\* found lost is critical to every later one until it is active or reconnecting,
\* whatever is recorded, evicted and asked meanwhile; with autoCheck the list has it
\* as long as the tracker has (diagnostic-engine.ts:112-216,
\* connection-tracker.ts:114-273).
THEOREM LostTheorem == Spec => []LostStaysLost
<1>1. FoundInv => LostStaysLost
  <2> SUFFICES ASSUME FoundInv, NEW s \in found, AutoCheck, Tracked(s)
               PROVE  s \in SessionsRequiringAttention
    BY LostIsCritical DEF LostStaysLost
  <2>1. connections[s].state = "DISCONNECTED"
    BY DEF FoundInv, Lost, Tracked
  <2> QED BY <2>1 DEF FoundInv, SessionsRequiringAttention, SessionsByState
<1> QED BY <1>1, FoundInvHolds, PTL

-----------------------------------------------------------------------------
(* The rate limiter, asked and used *)

LEMMA NextKeepsLimiter == LimiterInv /\ [Next]_vars => LimiterInv'
<1> SUFFICES ASSUME LimiterInv, [Next]_vars PROVE LimiterInv'
  OBVIOUS
<1>1. ASSUME UNCHANGED limiterVars PROVE LimiterInv'
  BY <1>1 DEF limiterVars, LimiterInv
<1>2. CASE Tick
  BY <1>2, TickKeepsLimiter DEF Tick
<1>3. ASSUME NEW s \in Sessions, Diagnose(s) PROVE LimiterInv'
  BY <1>1, <1>3, SessionKeepsLimiter DEF Diagnose, AskLimiter
<1>4. ASSUME NEW s \in Sessions, QuickCheck(s) \/ FeedTracker(s) \/ FeedMonitor(s)
      PROVE  LimiterInv'
  BY <1>1, <1>4 DEF QuickCheck, FeedTracker, FeedMonitor
<1>5. ASSUME NEW s \in Sessions, Limit(s) PROVE LimiterInv'
  BY <1>5, SessionKeepsLimiter DEF Limit
<1>6. ASSUME NEW c \in Senders, Send(c) PROVE LimiterInv'
  BY <1>6, SenderKeepsLimiter DEF Send
<1>7. CASE UNCHANGED vars
  BY <1>1, <1>7 DEF vars
<1> QED BY <1>2, <1>3, <1>4, <1>5, <1>6, <1>7 DEF Next

LEMMA LimiterInvHolds == Spec => []LimiterInv
<1>1. Init => LimiterInv
  BY LimiterStarts DEF Init
<1> QED BY <1>1, NextKeepsLimiter, PTL DEF Spec

\* No bucket is ever overdrawn or overfull, the session's or a call's own,
\* whoever asks in between (token-bucket.ts:63-128).
THEOREM LimiterTypeTheorem == Spec => []LimiterTypeOK
BY LimiterInvHolds, InvIsTyped, PTL

\* Whatever the limit, the multiplier and the state of the warm-up, a call's
\* bucket can hold the token it waits for: no acquire is refused
\* (rate-limiter.ts:145-211).
THEOREM NoRefusalTheorem == Spec => []NoAcquireIsRefused
BY LimiterInvHolds, InvRefusesNone, PTL

\* For every limit and length of the warm-up, what a session may send only
\* grows while its metadata is kept, the step at the end of the warm-up and the
\* rounding included (rate-limiter.ts:145-169).
THEOREM LimitTheorem == Spec => LimitsOnlyGrow
BY LimiterInvHolds, InvGrows, PTL DEF Spec, LimitsOnlyGrow

-----------------------------------------------------------------------------
(* The rotation monitor, fed *)

LEMMA RotationInvHolds == Spec => []RotationInv
<1>1. Init => RotationInv
  BY RotationStarts DEF Init
<1>2. RotationInv /\ [Next]_vars => RotationInv'
  <2> SUFFICES ASSUME RotationInv, [Next]_vars PROVE RotationInv'
    OBVIOUS
  <2>1. ASSUME UNCHANGED rotationVars PROVE RotationInv'
    BY <2>1 DEF rotationVars, RotationInv
  <2>2. CASE Tick
    BY <2>2, TickKeepsRotation DEF Tick
  <2>3. ASSUME NEW s \in Sessions, FeedMonitor(s) PROVE RotationInv'
    BY <2>3, FeedKeepsRotation DEF FeedMonitor
  <2>4. ASSUME NEW s \in Sessions, Diagnose(s) \/ QuickCheck(s) \/ FeedTracker(s) \/ Limit(s)
        PROVE  RotationInv'
    BY <2>1, <2>4 DEF Diagnose, QuickCheck, FeedTracker, Limit
  <2>5. ASSUME NEW c \in Senders, Send(c) PROVE RotationInv'
    BY <2>1, <2>5 DEF Send
  <2>6. CASE UNCHANGED vars
    BY <2>1, <2>6 DEF vars
  <2> QED BY <2>2, <2>3, <2>4, <2>5, <2>6 DEF Next
<1> QED BY <1>1, <1>2, PTL DEF Spec

\* For every threshold, window and number of rotations, the timestamps dropped
\* while recording are never missed and no anomaly is forgotten or invented:
\* the rate is that of the full history, and anomalyDetected says whether some
\* window held more rotations than the threshold (rotation-monitor.ts:120-232).
THEOREM RotationTheorem == Spec => []AnomalyIsExact
BY RotationInvHolds, AnomaliesAreExact, PTL

-----------------------------------------------------------------------------
(* The sessions listed *)

LEMMA NotWell ==
  ASSUME NEW S, "CRITICAL" \in S \/ "WARNING" \in S
  PROVE  Overall(S) # "OK"
BY DEF Overall

LEMMA ListedNotWell ==
  ASSUME TrackerInv, configured \in Configurations, NEW s \in SessionsRequiringAttention
  PROVE  QuickStatus(s) # "OK"
<1>1. /\ "connectionTracker" \in configured /\ s \in Sessions
      /\ connections[s].state \in {"DISCONNECTED", "DEGRADED"}
  BY DEF SessionsRequiringAttention, SessionsByState
<1>2. HealthStatus(s) \in {"DISCONNECTED", "DEGRADED"}
  <2>1. CASE connections[s].state = "DISCONNECTED"
    BY <2>1 DEF HealthStatus, Recomputed, Tracked
  <2>2. CASE connections[s].state = "DEGRADED"
    <3>1. connections[s].silent > SilenceThreshold
      BY <1>1, <2>2 DEF TrackerInv, NoFalseAlarm, Tracked
    <3> QED BY <2>2, <3>1 DEF HealthStatus, Recomputed, BySilence
  <2> QED BY <1>1, <2>1, <2>2
<1>3. StatusOf("connectionTracker", s, "OK") \in {"CRITICAL", "WARNING"}
  <2>1. StatusOf("connectionTracker", s, "OK") = ConnectionCheck(s, "OK")
    BY DEF StatusOf
  <2> QED BY <1>2, <2>1 DEF ConnectionCheck
<1> DEFINE Statuses == {StatusOf(k, s, "OK") : k \in configured \ {"rateLimiter"}}
<1>4. StatusOf("connectionTracker", s, "OK") \in Statuses
  BY <1>1
<1>5. "CRITICAL" \in Statuses \/ "WARNING" \in Statuses
  BY <1>3, <1>4
<1>6. QuickStatus(s) = Overall(Statuses)
  BY DEF QuickStatus
<1> QED BY <1>5, <1>6, NotWell

LEMMA DisjointCount ==
  ASSUME NEW S, NEW T, IsFiniteSet(S), IsFiniteSet(T), S \cap T = {}
  PROVE  /\ IsFiniteSet(S \cup T) /\ Cardinality(S) \in Nat /\ Cardinality(T) \in Nat
         /\ Cardinality(S \cup T) = Cardinality(S) + Cardinality(T)
<1>1. Cardinality(S) \in Nat /\ Cardinality(T) \in Nat
  BY FS_CardinalityType
<1>2. Cardinality(S \cap T) = 0
  BY FS_EmptySet
<1>3. /\ IsFiniteSet(S \cup T)
      /\ Cardinality(S \cup T) = Cardinality(S) + Cardinality(T) - Cardinality(S \cap T)
  BY FS_Union
<1> QED BY <1>1, <1>2, <1>3

\* The sessions counted by state are those of the cache, each once.
LEMMA StatesPartition ==
  ASSUME TrackerTypeOK, "connectionTracker" \in configured
  PROVE  Cardinality(SessionsRequiringAttention) + TrackerStats.byState["HEALTHY"]
           + TrackerStats.byState["RECONNECTING"] = TrackerStats.total
<1> DEFINE A == SessionsRequiringAttention
           H == SessionsByState("HEALTHY")
           R == SessionsByState("RECONNECTING")
           All == {s \in Sessions : Tracked(s)}
<1>1. IsFiniteSet(A) /\ IsFiniteSet(H) /\ IsFiniteSet(R)
  <2>1. A \in SUBSET Sessions /\ H \in SUBSET Sessions /\ R \in SUBSET Sessions
    BY DEF SessionsRequiringAttention, SessionsByState
  <2> QED BY <2>1, FS_Subset, EngineAssumption
<1>2. A \cap H = {} /\ (A \cup H) \cap R = {}
  BY DEF SessionsRequiringAttention, SessionsByState
<1>3. (A \cup H) \cup R = All
  <2>1. \A s \in Sessions : connections[s].state \in ConnectionState \cup {"none"}
    BY DEF TrackerTypeOK, ConnectionData
  <2>2. \A s : s \in A <=> s \in Sessions /\ connections[s].state \in {"DISCONNECTED", "DEGRADED"}
    BY DEF SessionsRequiringAttention, SessionsByState
  <2>3. \A s : s \in H \cup R <=>
               s \in Sessions /\ connections[s].state \in {"HEALTHY", "RECONNECTING"}
    BY DEF SessionsByState
  <2>4. \A s : s \in All <=> s \in Sessions /\ connections[s].state \in ConnectionState
    BY <2>1 DEF Tracked, ConnectionState
  <2> HIDE DEF A, H, R, All
  <2>5. \A s : s \in (A \cup H) \cup R <=> s \in All
    BY <2>2, <2>3, <2>4 DEF ConnectionState
  <2> QED BY <2>5
<1>4. /\ TrackerStats.total = Cardinality(All)
      /\ TrackerStats.byState["HEALTHY"] = Cardinality(H)
      /\ TrackerStats.byState["RECONNECTING"] = Cardinality(R)
  BY DEF TrackerStats, CountOf, ConnectionState
<1> HIDE DEF A, H, R, All
<1>5. /\ IsFiniteSet(A \cup H) /\ Cardinality(A) \in Nat /\ Cardinality(H) \in Nat
      /\ Cardinality(A \cup H) = Cardinality(A) + Cardinality(H)
  BY <1>1, <1>2, DisjointCount
<1>6. /\ Cardinality(R) \in Nat
      /\ Cardinality((A \cup H) \cup R) = Cardinality(A \cup H) + Cardinality(R)
  BY <1>1, <1>2, <1>5, DisjointCount
<1>7. Cardinality(A) + TrackerStats.byState["HEALTHY"]
        + TrackerStats.byState["RECONNECTING"] = TrackerStats.total
  BY <1>3, <1>4, <1>5, <1>6
<1> QED BY <1>7 DEF A

\* A session listed without asking is not found well when it is asked about, and
\* the tracker's statistics count each session it knows once, listed, healthy
\* or reconnecting (diagnostic-engine.ts:195-216, connection-tracker.ts).
THEOREM ListedTheorem == Spec => []ListedAreUnhealthy
<1>1. TrackerInv /\ configured \in Configurations => ListedAreUnhealthy
  BY ListedNotWell, StatesPartition DEF TrackerInv, ListedAreUnhealthy
<1> QED BY <1>1, EngineTrackerTheorem, ConfiguredHolds, PTL

\* Whatever is configured, fed and asked, the engine's state is well formed, what it
\* lists is not well, what it has found lost stays lost, and no acquire is refused
\* (diagnostic-engine.ts, with the components it is given).
THEOREM EngineTheorem == Spec => []EngineInv
<1>1. TrackerInv /\ RotationInv /\ LimiterInv /\ configured \in Configurations /\ FoundInv
        => TypeOK
  BY InvIsTyped, RotationsAreTyped DEF TypeOK, TrackerInv, FoundInv
<1>2. TypeOK /\ ListedAreUnhealthy /\ LostStaysLost
        /\ NoAcquireIsRefused => EngineInv
  BY DEF EngineInv
<1> QED
  BY <1>1, <1>2, EngineTrackerTheorem, RotationInvHolds, LimiterInvHolds, ConfiguredHolds,
     FoundInvHolds, ListedTheorem, LostTheorem, NoRefusalTheorem, PTL
=============================================================================
