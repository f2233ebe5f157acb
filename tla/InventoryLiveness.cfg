SPECIFICATION FairSpec
CONSTANTS
  Clients = {c1, c2}
  Nobody = Nobody
  Quantities = {1}
  Seed = 1
  Impls = {"java", "csharp"}
  PoolSize <- MCPoolSize
  MaxFaults = 1
INVARIANT NoStandstill
PROPERTY EveryRequestAnswered
