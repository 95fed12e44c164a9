SPECIFICATION Spec
CONSTANTS
  NUsers = 2
  Replicas = {p1, p2}
  Secrets = {s1, s2}
  BatchSize = 1
  MaxSeals = 3
  None = None
SYMMETRY Sym
CHECK_DEADLOCK FALSE
INVARIANTS SecretsIntact RetiredReplicasRead
