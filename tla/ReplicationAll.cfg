CONSTANTS
  Peers = {p1}
  MaxSnaps = 4
  Mode = "all"
  Faults = {}
  MaxFaults = 1
SPECIFICATION MCSpec
INVARIANT NextPlanApplies
CHECK_DEADLOCK FALSE
