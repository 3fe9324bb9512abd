SPECIFICATION Spec
CONSTANTS
  ArmTimeout = 1
  DisarmTimeout = 1
  RtlTimeout = 1
  MaxAge = 3
  RcPacketTimeout = 1
  FcHeartbeatTimeout = 1
  RcFailsafeTimeout = 2
  FcFailsafeTimeout = 1
  RecoveryHold = 2
  ActionRepeat = 1
  FailsafeAction = "RTL"
  MaxInFlight = 1
  Interleaved = FALSE
  LossyUart = TRUE
  FcRefuses = TRUE
  FcArmsAlone = FALSE
  Reboots = TRUE
CHECK_DEADLOCK FALSE
VIEW WithoutAction
PROPERTIES
  SlotSafety
  RecoveryIsEarned
