SPECIFICATION Spec
CONSTANTS
  e1 = e1
  e2 = e2
  r1 = r1
  r2 = r2
  ExperimentOrder <- TwoExperiments
  RunOrder <- TwoRuns
  ExperimentOf <- BothInFirst
  Selections <- SomeSelections
  Requests = {q1}
  Hosts = {h1}
  PageSize = 1
  None = None
  MaxMoves = 2
  MaxFaults = 1
PROPERTIES OnlySelectedDestroyed
