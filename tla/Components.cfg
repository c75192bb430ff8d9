SPECIFICATION AllSpec
CONSTANTS
  MaxSnap = 5
  MaxSteps = 4
  MaxEvents = 4
  Queue = 1
  Buffer = 2
  Replay = 2
  PollBack = 1
  PollLimit = 2
  MaxTime = 3
  MaxSids = 3
  MaxSessions = 2
  Ttl = 3
  Refresh = 2
  Namespaces = {1, 2}
  Requests = {"r1", "r2"}
  JobDatasets = {"d1", "d2"}
  MaxRuns = 2
  MaxFailures = 1
  Clients <- RecvClients
  Entry <- Entries
  Longer <- Lengthened
  Existing <- Pools
  MaxFails = 2
  Chunks = 3
  Window = 2
  MaxTries = 2
  MaxUpsets = 2
  Streams = {"t1", "t2", "t3"}
  Rates = {1, 3}
  Chunk = 2
  Processes = {"daemon", "d1", "d2"}
  MaxCrashes = 2
  Configs <- Jobs
  HostDatasets <- ParentAndChild
  MaxClock = 8
  MaxDuration = 1
  MaxMishaps = 1
INVARIANTS
  TypesOK
  AnchoredPlanApplies EndsTruthfully StepsFollowTheRace
  SentOnce NoSilentGap
  SessionCap RemovedStaysOut UseProlongs
  RunningRowsAreLive FinishedCycleIsHonest
  ChangesAreGranted
  GridHoldsHistory
  VerdictTruthful RateHolds OldDatabasesSurvive
PROPERTIES
  EveryWakeupRuns EveryShutdownCleansUp
  EveryClientLands EveryTransferEnds
  EveryPushConverges
CHECK_DEADLOCK FALSE
