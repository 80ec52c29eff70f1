\* wipe_fault
SPECIFICATION Spec
CONSTANTS
  e1 = e1  m1 = m1  u1 = u1  u2 = u2  t1 = t1
  Unset = Unset
  NoRow = NoRow
  Experiments = {e1}
  Models = {m1}
  Inside <- InsideOne
  Uploaders = {u1}
  Reconcilers = {t1}
  Limits = {2}
  DefaultLimit = Unset
  InitialRow <- CappedAtTwo
  SoftPercent = 50
  NaiveTimes = FALSE
  MaxUpload = 1
  MaxUploads = 2
  MaxEvents = 0
  MaxWork = 4
  MaxFaults = 1
PROPERTIES OnlyOrphansWiped
