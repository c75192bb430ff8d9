SPECIFICATION FairSpec
CONSTANTS
  NRoutes = 2
  NSessions = 4
  Visitors = {v1}
  RerankTicks = 2

PROPERTIES FeedNeverStalls
CHECK_DEADLOCK FALSE
