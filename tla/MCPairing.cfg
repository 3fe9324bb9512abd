SPECIFICATION FairSpec
CONSTANTS
  Gateway = {g1, g2}
  Passphrase = {p1, p2}
  Chosen = {p1}
  MaxGeneration = 2
  MaxRetries = 2
  MaxAttempts = 2
  MaxSalt = 3
  MaxChallenge = 2
  MaxNonce = 2
  MaxInFlight = 1
  WritesFail = TRUE
CHECK_DEADLOCK FALSE
INVARIANTS
  PairingTypeOK
  VerifiedIsStored
  ReservationHoldsSession
PROPERTIES
  PairingAgrees
  SuccessIsMutual
  RequestIsAnswered
