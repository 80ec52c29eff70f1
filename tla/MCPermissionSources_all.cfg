SPECIFICATION Spec
CONSTANTS
  n1 = n1  p1 = p1  bad = bad  g1 = g1  g2 = g2
  Users = {ann, bob}
  Groups = {g1, g2}
  Names = {n1}
  ExperimentOf <- HeldBySame
  Patterns = {p1, bad}
  Matches <- MatchesAll
  Broken = {bad}
  Priorities = {1, 2}
  Permissions = {"READ", "MANAGE", "NO_PERMISSIONS"}
  Fallback = "NO_PERMISSIONS"
  SourceOrder <- DefaultOrder
  Admin = admin
  NoRow = NoRow
  Raised = Raised
  MaxWrites = 3
INVARIANTS GroupRowsReachMembers ListingTellsTheTruth OnlyGroupPatternsRaise
PROPERTIES PromotionRaises OnlyManagersWrite
SYMMETRY Symmetric
CHECK_DEADLOCK FALSE
