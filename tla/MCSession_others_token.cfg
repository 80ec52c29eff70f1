\* others_token
SPECIFICATION Spec
CONSTANTS
  alice = alice  bob = bob  r1 = r1  r2 = r2
  None = None
  Users = {alice, bob}
  Requests = {r1}
  Asks <- Anything
  UseRefresh = TRUE
  AlwaysToken = FALSE
  Rotates = TRUE
  Dated = TRUE
  Lifetime = 2
  Leeway = 0
  MaxTime = 3
  MaxLogins = 2
  MaxTokens = 3
  MaxEvents = 0
INVARIANTS NoOthersToken
