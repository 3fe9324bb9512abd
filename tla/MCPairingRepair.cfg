SPECIFICATION Spec
CONSTANTS
  Gateway = {g1}
  Passphrase = {p1}
  Chosen = {p1}
  MaxGeneration = 2
  MaxRetries = 2
  MaxAttempts = 1
  MaxSalt = 2
  MaxChallenge = 2
  MaxNonce = 2
  MaxInFlight = 1
  WritesFail = FALSE
CHECK_DEADLOCK FALSE
INVARIANTS
  RepairIsPossible
