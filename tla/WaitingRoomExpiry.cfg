SPECIFICATION Spec
CONSTANTS
  Tokens = {1, 2}
  Pollers = {}
  Admitters = {a1}
  Counts = {1}
  TTL = 2
  MaxClock = 3
  Impls = {"typescript"}
  MaxFaults = 0
INVARIANT
  GrantsExpire
