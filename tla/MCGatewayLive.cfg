SPECIFICATION FairSpec
CONSTANTS
  ArmTimeout = 1
  DisarmTimeout = 1
  RtlTimeout = 1
  MaxAge = 2
  RcPacketTimeout = 1
  FcHeartbeatTimeout = 1
  RcFailsafeTimeout = 1
  FcFailsafeTimeout = 1
  RecoveryHold = 1
  ActionRepeat = 1
  FailsafeAction = "DISARM"
  MaxInFlight = 2
  Interleaved = FALSE
  LossyUart = FALSE
  FcRefuses = FALSE
  FcArmsAlone = FALSE
  Reboots = FALSE
CHECK_DEADLOCK FALSE
VIEW WithoutAction
PROPERTIES
  SlotFairness
  LinkLossDisarms
  RecoveryOpens
