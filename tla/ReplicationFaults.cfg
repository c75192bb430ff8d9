CONSTANTS
  Peers = {p1}
  MaxSnaps = 4
  Mode = "all"
  Faults = {"late_landing", "token_query"}
  MaxFaults = 2
SPECIFICATION MCSpec
INVARIANTS CursorNotAhead
PROPERTIES CursorNeverLost HoldsDoNotAccumulate
CHECK_DEADLOCK FALSE
