\* tabs
SPECIFICATION Spec
CONSTANTS
  alice = alice  bob = bob  r1 = r1  r2 = r2
  None = None
  Users = {alice, bob}
  Requests = {r1, r2}
  Asks <- PagesBesideLogins
  UseRefresh = TRUE
  AlwaysToken = FALSE
  Rotates = TRUE
  Dated = TRUE
  Lifetime = 1
  Leeway = 0
  MaxTime = 1
  MaxLogins = 2
  MaxTokens = 2
  MaxEvents = 1
SYMMETRY Symmetric
INVARIANTS LogoutSticks OwnRefreshToken
PROPERTIES SilentRefresh GrantEndsSession
