SPECIFICATION Spec
CONSTANTS
  t1 = t1
  t2 = t2
  list = list
  detail = detail
  ping = ping
  p1 = p1
  p2 = p2
  r1 = r1
  r2 = r2
  w1 = w1
  Tags = {t1, t2}
  Routes = {detail, list, ping}
  TagsOf <- ThreeRoutes
  Procs = {p1, p2}
  Readers = {r1, r2}
  Writers = {w1}
  ProcOf <- TwoProcs
  WriteTags <- TwoTagWrite
  TokenCaching = {p1}
  FailOpen = {list, ping}
CHECK_DEADLOCK FALSE
INVARIANTS AnswersCoverTheirVersions UncachedReadIsFresh
