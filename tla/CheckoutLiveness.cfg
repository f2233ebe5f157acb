SPECIFICATION FairSpec
CONSTANTS
  Clients = {c1, c2}
  Headers = {"k1", "no header"}
  Amounts <- MCPairAmounts
  Numeric <- MCPairNumeric
  Overflows = {}
  Impls = {"java", "csharp", "go"}
PROPERTY
  EveryCallerServed
