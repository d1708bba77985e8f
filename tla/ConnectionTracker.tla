-------------------------- MODULE ConnectionTracker --------------------------
(***************************************************************************)
(* ConnectionHealthTracker (src/monitoring/connection-tracker.ts): what it *)
(* keeps of each session, and what it finds when it is asked.              *)
(*                                                                         *)
(* Time is kept as the age of the last activity, in ticks, which stops     *)
(* counting above both thresholds; lastActivity 0 is such an age too.      *)
(***************************************************************************)
EXTENDS Integers, FiniteSets, SessionIds

CONSTANTS
  SilenceThreshold,     \* silenceThresholdMs, in ticks
  DisconnectThreshold,  \* disconnectThresholdMs, in ticks
  AutoCheck,            \* autoCheck
  MaxReconnects         \* bound: reconnectAttempts

ASSUME TrackerAssumption ==
  /\ SilenceThreshold \in Nat
  /\ DisconnectThreshold \in Nat
  /\ AutoCheck \in BOOLEAN
  /\ MaxReconnects \in Nat

VARIABLES
  connections,  \* the data of each session; state "none" is no entry
  alarms,       \* DISCONNECTED notices to the listeners since the last activity
  declared      \* whether recordDisconnect was called since the last activity

trackerVars == <<connections, alarms, declared>>

LongSilence ==
  1 + IF SilenceThreshold > DisconnectThreshold
      THEN SilenceThreshold ELSE DisconnectThreshold

ConnectionState == {"HEALTHY", "DEGRADED", "DISCONNECTED", "RECONNECTING"}

ConnectionData ==
  [state : ConnectionState \cup {"none"}, silent : 0..LongSilence,
   attempts : 0..MaxReconnects, successes : 0..MaxReconnects]

NoConnection ==
  [state |-> "none", silent |-> LongSilence, attempts |-> 0, successes |-> 0]

Tracked(s) == connections[s].state # "none"

TrackerInit ==
  /\ connections = [s \in Sessions |-> NoConnection]
  /\ alarms = [s \in Sessions |-> 0]
  /\ declared = [s \in Sessions |-> FALSE]

-----------------------------------------------------------------------------
Active(d) ==
  [d EXCEPT !.state = "HEALTHY", !.silent = 0,
            !.successes = IF d.state = "RECONNECTING" THEN @ + 1 ELSE @]

\* Mutant: a session is only taken for well again after a reconnection.
RecordActivityStateless(s) ==
  /\ connections' = [connections EXCEPT ![s] =
       IF @.state \in {"none", "RECONNECTING"} THEN Active(@)
       ELSE [@ EXCEPT !.silent = 0]]
  /\ alarms' = [alarms EXCEPT ![s] = 0]
  /\ declared' = [declared EXCEPT ![s] = FALSE]

\* An activity ends an outage, however it was noticed.
RecordActivity(s) ==
  /\ connections' = [connections EXCEPT ![s] = Active(@)]
  /\ alarms' = [alarms EXCEPT ![s] = 0]
  /\ declared' = [declared EXCEPT ![s] = FALSE]

RecordReconnectAttempt(s) ==
  /\ connections[s].attempts < MaxReconnects
  /\ connections' = [connections EXCEPT ![s].state = "RECONNECTING",
                                        ![s].attempts = @ + 1]
  /\ UNCHANGED <<alarms, declared>>

RecordDisconnect(s) ==
  /\ connections' = [connections EXCEPT ![s].state = "DISCONNECTED"]
  /\ declared' = [declared EXCEPT ![s] = TRUE]
  /\ UNCHANGED alarms

\* What the silence says of a session that is not known to be down.
BySilence(d) ==
  IF d.silent > DisconnectThreshold THEN "DISCONNECTED"
  ELSE IF d.silent > SilenceThreshold THEN "DEGRADED" ELSE "HEALTHY"

Recomputed(s) == connections[s].state \in {"HEALTHY", "DEGRADED"}

\* Mutant: nothing is known of the session, so nothing is wrong with it.
HealthStatusOfKnown(s) ==
  IF Recomputed(s) THEN BySilence(connections[s])
  ELSE IF Tracked(s) THEN connections[s].state ELSE "HEALTHY"

\* The status checkHealth returns; a session that is not in the cache is
\* disconnected.
HealthStatus(s) ==
  IF Recomputed(s) THEN BySilence(connections[s])
  ELSE IF Tracked(s) THEN connections[s].state ELSE "DISCONNECTED"

\* Mutant: the state found is not stored.
CheckHealthUnstored(s) ==
  /\ alarms' = IF Recomputed(s) /\ HealthStatus(s) = "DISCONNECTED"
               THEN [alarms EXCEPT ![s] = IF @ < 2 THEN @ + 1 ELSE @] ELSE alarms
  /\ UNCHANGED <<connections, declared>>

\* What checkHealth leaves behind.
CheckHealth(s) ==
  /\ connections' = IF AutoCheck /\ Recomputed(s)
                    THEN [connections EXCEPT ![s].state = HealthStatus(s)]
                    ELSE connections
  /\ alarms' = IF Recomputed(s) /\ HealthStatus(s) = "DISCONNECTED"
               THEN [alarms EXCEPT ![s] = IF @ < 2 THEN @ + 1 ELSE @] ELSE alarms
  /\ UNCHANGED declared

\* reset, an eviction by the LRU cache, or the end of its 24 h.
ForgetConnection(s) ==
  /\ Tracked(s)
  /\ connections' = [connections EXCEPT ![s] = NoConnection]
  /\ alarms' = [alarms EXCEPT ![s] = 0]
  /\ declared' = [declared EXCEPT ![s] = FALSE]

SessionsByState(state) == {s \in Sessions : connections[s].state = state}

\* getStats counts the sessions by state; the others are not in the cache.
CountOf(state) == Cardinality(SessionsByState(state))
TrackerStats ==
  [total |-> Cardinality({s \in Sessions : Tracked(s)}),
   byState |-> [state \in ConnectionState |-> CountOf(state)]]

TrackerTick ==
  /\ connections' = [s \in Sessions |->
       [connections[s] EXCEPT !.silent = IF @ < LongSilence THEN @ + 1 ELSE @]]
  /\ UNCHANGED <<alarms, declared>>

TrackerStep(s) ==
  \/ RecordActivity(s)
  \/ RecordReconnectAttempt(s)
  \/ RecordDisconnect(s)
  \/ ForgetConnection(s)

TrackerNext ==
  \/ TrackerTick
  \/ \E s \in Sessions : TrackerStep(s) \/ CheckHealth(s)

TrackerSpec == TrackerInit /\ [][TrackerNext]_trackerVars

-----------------------------------------------------------------------------
\* The tracker's data is well formed.
TrackerTypeOK ==
  /\ connections \in [Sessions -> ConnectionData]
  /\ alarms \in [Sessions -> 0..2]
  /\ declared \in [Sessions -> BOOLEAN]

\* A reconnection is only counted as successful after an attempt of its own
\* (recordActivity, recordReconnectAttempt), whatever comes in between.
SuccessesAreAttempts ==
  \A s \in Sessions :
    /\ connections[s].successes <= connections[s].attempts
    /\ connections[s].state = "RECONNECTING" =>
         connections[s].successes < connections[s].attempts

\* A state found from silence is never worse than the silence itself: an
\* activity clears it (recordActivity), and checkHealth writes no older verdict.
NoFalseAlarm ==
  \A s \in Sessions :
    \/ ~Tracked(s)
    \/ connections[s].state \in {"HEALTHY", "RECONNECTING"}
    \/ connections[s].state = "DEGRADED" /\ connections[s].silent > SilenceThreshold
    \/ connections[s].state = "DISCONNECTED" /\
         (declared[s] \/ connections[s].silent > DisconnectThreshold)

\* What holds of every session, whatever is recorded and checked.
TrackerInv == TrackerTypeOK /\ SuccessesAreAttempts /\ NoFalseAlarm

\* With autoCheck the listeners hear of a lost session exactly once: a session
\* found lost by its silence has been announced, and no later check announces
\* it again before it is active (checkHealth, notifyListeners).
OneAlarmPerSilence ==
  AutoCheck =>
    \A s \in Sessions :
      /\ alarms[s] <= 1
      /\ connections[s].state = "DISCONNECTED" /\ ~declared[s] => alarms[s] = 1
=============================================================================
