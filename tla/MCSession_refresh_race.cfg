\* refresh_race
SPECIFICATION Spec
CONSTANTS
  alice = alice  bob = bob  r1 = r1  r2 = r2
  None = None
  Users = {alice}
  Requests = {r1, r2}
  Asks <- Anything
  UseRefresh = TRUE
  AlwaysToken = TRUE
  Rotates = TRUE
  Dated = TRUE
  Lifetime = 2
  Leeway = 0
  MaxTime = 3
  MaxLogins = 1
  MaxTokens = 3
  MaxEvents = 0
PROPERTIES RefreshedUnlessRevoked
