\* login_race
SPECIFICATION Spec
CONSTANTS
  alice = alice  bob = bob  r1 = r1  r2 = r2
  None = None
  Users = {alice}
  Requests = {r1, r2}
  Asks <- Anything
  UseRefresh = FALSE
  AlwaysToken = TRUE
  Rotates = TRUE
  Dated = TRUE
  Lifetime = 2
  Leeway = 0
  MaxTime = 4
  MaxLogins = 2
  MaxTokens = 0
  MaxEvents = 1
PROPERTIES GroupsCurrent
