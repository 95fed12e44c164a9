SPECIFICATION ProcessSpec
CONSTANTS
  Envs <- MCEnvs
  a = a
  b = b
  d1 = d1
  d2 = d2
  Clients <- TwoClients
  Ids <- TwoIds
  MaxWrites = 3
  MaxDepth = 2
SYMMETRY Interchangeable
INVARIANTS WrittenIsLoaded ProductionIsGuarded OfferedIsBacked LintDecides SeenIsKept
PROPERTIES BatchWhole
