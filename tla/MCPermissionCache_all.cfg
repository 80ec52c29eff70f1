SPECIFICATION FairSpec
CONSTANTS
  Users = {u1, u2}
  Settled = {u1}
  Resources = {s1}
  Slots = {e1}
  SlotOf <- OneSlot
  Sources <- UserGroup
  SourceOrder <- UserThenGroup
  Permissions = {READ, NO_PERMISSIONS}
  Default = READ
  NoPermissions = NO_PERMISSIONS
  NoRow = NoRow
  Workspaces = {w1}
  NoWorkspace = NoWorkspace
  Miss = Miss
  Replicas = {p1, p2}
  Requests = {q1}
  Writers = {x1}
  MaxCovered = 1
  MaxUncovered = 1
INVARIANTS TypeOK Coherent WalkHolds
PROPERTIES EventuallyCoherent
