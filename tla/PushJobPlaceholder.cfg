SPECIFICATION Spec
CONSTANTS
  p1 = p1
  p2 = p2
  parent = parent
  child = child
  sibling = sibling
  NoPeer = NoPeer
  Peers = {p1}
  Targets <- OneTarget
  AutoPeers = {p1}
  Filesystems <- Tree
  Under <- TreeUnder
  Depth <- TreeDepth
  Parallel = 2
  MaxSteps = 2
  MaxFaults = 1
  MaxControls = 2
CHECK_DEADLOCK FALSE
PROPERTIES
  ParentsNeverPlaceholders
