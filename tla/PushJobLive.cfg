SPECIFICATION FairSpec
CONSTANTS
  p1 = p1
  p2 = p2
  parent = parent
  child = child
  sibling = sibling
  NoPeer = NoPeer
  Peers = {p1, p2}
  Targets <- TwoTargets
  AutoPeers = {p1, p2}
  Filesystems <- Single
  Under <- SingleUnder
  Depth <- SingleDepth
  Parallel = 1
  MaxSteps = 2
  MaxFaults = 1
  MaxControls = 1
CHECK_DEADLOCK FALSE
PROPERTIES
  DuePeersAreServed
