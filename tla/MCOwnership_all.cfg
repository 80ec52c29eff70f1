SPECIFICATION Spec
CONSTANTS
  ann = ann  root = root
  Users = {ann, root}
  Admins = {root}
  Keepers = {ann}
  Group = staff
  Members = {ann}
  Names = {a, b}
  Kinds = {"model", "endpoint", "secret", "scorer", "experiment"}
  Overlapping = {"transfer"}
  Requests = {r1, r2}
  NoRow = NoRow
  Default = NoRow
  MaxMade = 3
  MaxVersions = 2
  MaxWrites = 1
  MaxTransfers = 3
  MaxFaults = 1
INVARIANTS RightsFollow CreatorKept OwnerRemains
SYMMETRY Symmetric
CHECK_DEADLOCK FALSE
