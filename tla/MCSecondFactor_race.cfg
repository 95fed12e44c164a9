SPECIFICATION FactorSpec
CONSTANTS
  Requests = {r1, r2, r3}
  MaxCounter = 2
  CodesPerSet = 2
  First = First
  None = None
SYMMETRY Sym
INVARIANT ActiveSecretConfirmed
CHECK_DEADLOCK FALSE
