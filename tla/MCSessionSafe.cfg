SPECIFICATION SessionSpec
CONSTANTS
  SessionMax = 2
  HandshakeMax = 2
  TrafficMax = 2
  HistoryLen = 1
  DeriveFails = FALSE
CHECK_DEADLOCK FALSE
INVARIANTS
  SessionTypeOK
  NonceUnique
  SealedAsDrawn
PROPERTIES
  RcSessionsNeverGoBack
  ControlIsOrdered
  ReportsAreOrdered
