CONSTANTS
  Peers = {p1}
  MaxSnaps = 2
  Mode = "latest"
  Faults = {}
  MaxFaults = 0
SPECIFICATION MCSpec
INVARIANT LastCommonSurvives
CHECK_DEADLOCK FALSE
