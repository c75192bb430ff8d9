CONSTANTS
  Peers = {p1, p2}
  MaxSnaps = 4
  Mode = "latest"
  Faults = {}
  MaxFaults = 2
SPECIFICATION MCSpec
INVARIANTS HeadAnchored NextPlanApplies ResumeStaysPossible IInv
PROPERTIES ImplementsReplica
CHECK_DEADLOCK FALSE
