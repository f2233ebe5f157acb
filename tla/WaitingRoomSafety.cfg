SPECIFICATION Spec
CONSTANTS
  Tokens = {1, 2}
  Pollers = {1}
  Admitters = {a1, a2}
  Counts = {0, 2}
  TTL = 2
  MaxClock = 3
  Impls = {"typescript", "go"}
  MaxFaults = 1
SYMMETRY Symmetry
INVARIANTS
  TypeOK
  TokensConserved
  GrantsLast
  EveryTokenHasAHolder
PROPERTIES
  OnlyTheMovedAreLost
  TtlBacked
  PollsNeverGoBack
  AdmitsTakeTheirFill
