SPECIFICATION Spec
CONSTANTS
  Tokens = {1, 2, 3}
  Pollers = {}
  Admitters = {a1}
  Counts = {1, 2}
  TTL = 1
  MaxClock = 2
  Impls = {"csharp"}
  MaxFaults = 1
PROPERTIES
  OvertakenOnlyOnTies
  PositionsOnlyImprove
  LineIsFair
