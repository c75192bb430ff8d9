SPECIFICATION FairSpec
CONSTANTS
  NRoutes = 2
  NSessions = 4
  Visitors = {v1}
  RerankTicks = 2
INVARIANT EntryTruthful
PROPERTIES DeadLinkIsReplaced BestRouteWins FeedFollowsLink
CHECK_DEADLOCK FALSE
