SPECIFICATION FairSpec
CONSTANTS
  Deliveries = {m1, m2}
  Closers = {c1, c2}
  Waiters = {w1, w2}
  Deadlined = {c1, w2}
  Cap = 2
CHECK_DEADLOCK FALSE
INVARIANTS FullWaitSeesQuiet
PROPERTIES AbandonedIsHonest ImplementsPool AllReturn
