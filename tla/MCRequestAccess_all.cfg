SPECIFICATION Spec
CONSTANTS
  u1 = u1
  u2 = u2
  e1 = e1
  e2 = e2
  n1 = n1
  c1 = c1
  r1 = r1
  r2 = r2
  r3 = r3
  Users = {u1, u2}
  Things = {e1, e2}
  Names = {n1}
  Children = {c1}
  Requests = {r1, r2}
  Operations <- AllOperations
  FirstAdmins = {u2}
  Grants = {0, 4}
  None = None
  Default = 1
  MaxTerm = 2
  MaxTime = 1
  MaxTokens = 2
  MaxSends = 2
  MaxChanges = 1
SYMMETRY Symmetry
INVARIANTS TypeOK ActsWithinRights TokensKeepTheirTerm
CHECK_DEADLOCK FALSE
