SPECIFICATION Spec
CONSTANTS
  Users = {u1}
  Settled = {u1}
  Resources = {r1}
  Slots = {r1}
  SlotOf <- OwnSlot
  Sources <- UserOnly
  SourceOrder <- JustUser
  Permissions = {READ, NO_PERMISSIONS}
  Default = READ
  NoPermissions = NO_PERMISSIONS
  NoRow = NoRow
  Workspaces = {}
  NoWorkspace = NoWorkspace
  Miss = Miss
  Replicas = {p1}
  Requests = {q1}
  Writers = {x1}
  MaxCovered = 1
  MaxUncovered = 1
INVARIANTS NoEntryOutlivesItsRow
