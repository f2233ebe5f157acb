SPECIFICATION Spec
CONSTANTS
  Clients = {c1, c2}
  Headers = {"k1", "no header", "empty header"}
  Amounts <- MCAmounts
  Numeric <- MCNumeric
  Overflows <- MCOverflows
  Impls = {"typescript", "java", "csharp", "go"}
SYMMETRY Symmetry
INVARIANTS
  TypeOK
  CacheNamesTheOrder
  SuccessNamesTheOrder
  AmountsAgree
  CallersAgree
  RecoveryFindsTheOrder
