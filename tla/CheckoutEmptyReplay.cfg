SPECIFICATION Spec
CONSTANTS
  Clients = {c1, c2}
  Headers = {"k1"}
  Amounts <- MCOneAmount
  Numeric <- MCOneNumeric
  Overflows = {}
  Impls = {"typescript"}
INVARIANT
  EverySuccessNamesTheOrder
