SPECIFICATION AppFairSpec
CONSTANTS
  Deliveries = {m1, m2}
  Handlers = {h1, h2}
  Closers = {"run", "close"}
  Deadlined = {"run", "close"}
  Waiters = {}
  Cap = 1
  Configs <- SomeConfigs
  Modules = 1
CHECK_DEADLOCK FALSE
INVARIANTS ResourcesOutliveDeliveries DrainedAtMostOnce GracefulStopDropsNothing ExitReleasesPools
PROPERTIES SignalEndsProcess
