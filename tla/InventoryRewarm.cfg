SPECIFICATION Spec
CONSTANTS
  Clients = {c1}
  Nobody = Nobody
  Quantities = {1}
  Seed = 1
  Impls = {"typescript"}
  PoolSize <- MCPoolSize
  MaxFaults = 1
INVARIANT RedisSalesWithinSeed
