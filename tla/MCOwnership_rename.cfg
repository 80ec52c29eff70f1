SPECIFICATION Spec
CONSTANTS
  ann = ann  root = root
  Users = {ann, root}
  Admins = {root}
  Keepers = {ann}
  Group = staff
  Members = {ann}
  Names = {a, b}
  Kinds = {"model"}
  Overlapping = {}
  Requests = {r1}
  NoRow = NoRow
  Default = NoRow
  MaxMade = 1
  MaxVersions = 1
  MaxWrites = 2
  MaxTransfers = 0
  MaxFaults = 0
INVARIANT RowsRenamed
CHECK_DEADLOCK FALSE
