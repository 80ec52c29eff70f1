SPECIFICATION FairSpec
CONSTANTS
  Validators = {v1, v2}
  Keys = {k1, k2}
  NoKeys = NoKeys
  TTL = 2
  MaxRotations = 1
  MaxFetchFaults = 1
INVARIANTS RotationHandled WithdrawnKeysGoOut
PROPERTIES EventuallyCurrent
