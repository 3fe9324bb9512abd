SPECIFICATION FairSessionSpec
CONSTANTS
  SessionMax = 2
  HandshakeMax = 2
  TrafficMax = 1
  HistoryLen = 2
  DeriveFails = TRUE
CHECK_DEADLOCK FALSE
INVARIANTS
  KeysAgree
  KeysMatchCandidate
  OperationalIsProven
PROPERTIES
  EstablishedHolds
  SessionIsEstablished
