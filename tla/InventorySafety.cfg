SPECIFICATION Spec
CONSTANTS
  Clients = {c1, c2}
  Nobody = Nobody
  Quantities <- MCQuantities
  Seed = 2
  Impls = {"typescript", "csharp", "go"}
  PoolSize <- MCPoolSize
  MaxFaults = 1
SYMMETRY Symmetry
INVARIANTS
  TypeOK
  LedgerExplainsStock
  GrantsAreJournaled
  SnapshotConsistent
  RedisShortageIsReal
  OversellBound
  RedisUnitsSoldOnce
PROPERTIES
  SalesAreAtomic
  HandlersAdvance
