SPECIFICATION Spec
CONSTANTS
  Users = {u1}
  Admin = a
  Groups = {g1}
  Workspaces = {w1}
  Levels = {"READ", "MANAGE", "NO_PERMISSIONS"}
  Patterns <- TwoOfAPriority
  SourceOrder <- AllSources
  LoginLevel = "NO_PERMISSIONS"
  NoRow = NoRow
  Miss = Miss
  Caches = {p1}
  Requests = {q1}
  MaxWrites = 2
  MaxFaults = 1
INVARIANTS MostPermissiveMatch
