SPECIFICATION Spec
CONSTANTS
  Tokens = {1}
  Pollers = {1}
  Admitters = {a1}
  Counts = {1}
  TTL = 2
  MaxClock = 1
  Impls = {"typescript"}
  MaxFaults = 0
INVARIANT
  UnknownMeansLeft
