SPECIFICATION FairSpec
CONSTANTS
  s1 = s1
  c1 = c1
  c2 = c2
  Sessions <- OneSession
  Senders <- TwoCalls
  Configurations <- Parts
  SilenceThreshold = 1
  DisconnectThreshold = 2
  AutoCheck = TRUE
  MaxReconnects = 2
  RotationThreshold = 1
  Window = 2
  MaxRotations = 3
  Limits = {1, 8}
  Scale = 2
  ColdOf10 = 3
  Minute = 4
  Warmup = 2
INVARIANTS
  TrackerInv
  OneAlarmPerSilence
  AnomalyIsExact
  EngineInv
PROPERTIES
  LimitsOnlyGrow
  EveryAcquireEnds
CHECK_DEADLOCK FALSE
