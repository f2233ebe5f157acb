SPECIFICATION Spec
CONSTANTS
  Clients = {c1, c2, c3}
  Headers = {"k1", "no header"}
  Amounts <- MCOneAmount
  Numeric <- MCOneNumeric
  Overflows = {}
  Impls = {"typescript", "csharp", "go"}
SYMMETRY Symmetry
INVARIANTS
  OneOrderPerKey
  OneLiveClaim
  CreatedOnce
PROPERTIES
  CacheKeepsItsOrder
  AnswersAreIdempotent
