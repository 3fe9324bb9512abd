SPECIFICATION Spec
CONSTANTS
  ArmTimeout = 1
  DisarmTimeout = 1
  RtlTimeout = 1
  MaxAge = 2
  RcPacketTimeout = 1
  FcHeartbeatTimeout = 1
  RcFailsafeTimeout = 1
  FcFailsafeTimeout = 1
  RecoveryHold = 1
  ActionRepeat = 1
  FailsafeAction = "DISARM"
  MaxInFlight = 2
  Interleaved = TRUE
  LossyUart = TRUE
  FcRefuses = FALSE
  FcArmsAlone = TRUE
  Reboots = FALSE
CHECK_DEADLOCK FALSE
VIEW WithoutAction
INVARIANTS
  TypeOK
  OnePending
  PendingIsTimed
  ControlIsEarnedOnceHeard
  SticksAreCurrent
  EmergencyIsAnswered
PROPERTIES
  ArmOnlyOnRequest
