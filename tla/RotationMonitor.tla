--------------------------- MODULE RotationMonitor ---------------------------
(***************************************************************************)
(* RotationMonitor (src/monitoring/rotation-monitor.ts): the rotations of  *)
(* each session inside a sliding window.  The rotations of a session are   *)
(* numbered as totalRotations counts them; a timestamp is its age in       *)
(* ticks, which stops counting at the end of the window.                   *)
(***************************************************************************)
EXTENDS Integers, FiniteSets, SessionIds

CONSTANTS
  RotationThreshold,  \* thresholdPerMinute
  Window,             \* windowMs, in ticks
  MaxRotations        \* bound: totalRotations

ASSUME RotationAssumption ==
  /\ RotationThreshold \in Nat
  /\ Window \in Nat \ {0}
  /\ MaxRotations \in Nat

VARIABLES
  rotationData,  \* per session, the age of each rotation kept, the number
                 \* recorded (0 is no entry) and anomalyDetected
  history,       \* the age of every rotation since the session was first seen
  worst          \* the most rotations any window has held

rotationVars == <<rotationData, history, worst>>

NoRotations == [timestamps |-> <<>>, total |-> 0, anomalyDetected |-> FALSE]

\* The rotations inside the window.
Recent(ages) == {i \in DOMAIN ages : ages[i] < Window}

\* The n-th rotation, now, with those of the others that are kept.
Recorded(ages, kept, n) ==
  [i \in kept \cup {n} |-> IF i = n THEN 0 ELSE ages[i]]

Aged(ages) ==
  [i \in DOMAIN ages |-> IF ages[i] < Window THEN ages[i] + 1 ELSE ages[i]]

RotationInit ==
  /\ rotationData = [s \in Sessions |-> NoRotations]
  /\ history = [s \in Sessions |-> <<>>]
  /\ worst = [s \in Sessions |-> 0]

-----------------------------------------------------------------------------
RateStatus(rate) ==
  IF rate > RotationThreshold THEN "ANOMALY"
  ELSE IF 10 * rate > 7 * RotationThreshold THEN "WARNING" ELSE "NORMAL"

Rate(ages) == Cardinality(Recent(ages))

\* Mutant: an anomaly is forgotten with the next rotation at a normal rate.
RecordRotationForgetful(s) ==
  LET n == rotationData[s].total + 1
      kept == Recorded(rotationData[s].timestamps, Recent(rotationData[s].timestamps), n)
      all == Recorded(history[s], DOMAIN history[s], n)
      rate == Cardinality(DOMAIN kept) IN
  /\ rotationData[s].total < MaxRotations
  /\ rotationData' = [rotationData EXCEPT ![s] =
       [timestamps |-> kept, total |-> n,
        anomalyDetected |-> RateStatus(rate) = "ANOMALY"]]
  /\ history' = [history EXCEPT ![s] = all]
  /\ worst' = [worst EXCEPT ![s] = IF Rate(all) > @ THEN Rate(all) ELSE @]

RecordRotation(s) ==
  LET n == rotationData[s].total + 1
      kept == Recorded(rotationData[s].timestamps, Recent(rotationData[s].timestamps), n)
      all == Recorded(history[s], DOMAIN history[s], n)
      rate == Cardinality(DOMAIN kept) IN
  /\ rotationData[s].total < MaxRotations
  /\ rotationData' = [rotationData EXCEPT ![s] =
       [timestamps |-> kept, total |-> n,
        anomalyDetected |-> @.anomalyDetected \/ RateStatus(rate) = "ANOMALY"]]
  /\ history' = [history EXCEPT ![s] = all]
  /\ worst' = [worst EXCEPT ![s] = IF Rate(all) > @ THEN Rate(all) ELSE @]

\* The current rate, from the timestamps that were kept.
CurrentRate(s) == Rate(rotationData[s].timestamps)

\* getStatus; "none" when nothing is known of the session.
RotationStatus(s) ==
  IF rotationData[s].total = 0 THEN "none" ELSE RateStatus(CurrentRate(s))

\* The sessions getAggregateStats counts under sessionsWithAnomalies.
SessionsWithAnomalies == {s \in Sessions : rotationData[s].anomalyDetected}

\* reset, an eviction by the LRU cache, or the end of its 24 h.
ForgetRotations(s) ==
  /\ rotationData[s].total > 0
  /\ rotationData' = [rotationData EXCEPT ![s] = NoRotations]
  /\ history' = [history EXCEPT ![s] = <<>>]
  /\ worst' = [worst EXCEPT ![s] = 0]

RotationTick ==
  /\ rotationData' = [s \in Sessions |->
       [rotationData[s] EXCEPT !.timestamps = Aged(@)]]
  /\ history' = [s \in Sessions |-> Aged(history[s])]
  /\ UNCHANGED worst

-----------------------------------------------------------------------------
Ages == UNION {[kept -> 0..Window] : kept \in SUBSET (1..MaxRotations)}

\* The monitor's data is well formed.
RotationTypeOK ==
  /\ rotationData \in
       [Sessions -> [timestamps : Ages, total : 0..MaxRotations, anomalyDetected : BOOLEAN]]
  /\ history \in [Sessions -> Ages]
  /\ worst \in [Sessions -> 0..MaxRotations]
  /\ \A s \in Sessions : DOMAIN history[s] = 1..rotationData[s].total

\* The timestamps dropped while recording are never missed: the rate is that of
\* the full history, and an anomaly is remembered exactly when some window held
\* more rotations than the threshold (recordRotation, getStatus, getStats).
AnomalyIsExact ==
  \A s \in Sessions :
    /\ CurrentRate(s) = Rate(history[s])
    /\ s \in SessionsWithAnomalies <=> worst[s] > RotationThreshold
=============================================================================
