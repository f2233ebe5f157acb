SPECIFICATION FairSpec
CONSTANTS
  Tokens = {1, 2}
  Pollers = {}
  Admitters = {a1, a2}
  Counts = {0}
  TTL = 2
  MaxClock = 1
  Impls = {"java"}
  MaxFaults = 1
PROPERTIES
  EveryTokenAdmitted
  EveryGrantEnds
