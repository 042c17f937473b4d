SPECIFICATION Spec
CONSTANTS
  p1 = "p1"
  p2 = "p2"
  NoExperiment = NoExperiment
  NoFile = NoFile
  Calls = {"c1", "o1"}
  Entrypoints = {"c1"}
  Policies <- MCPolicies
  Phones = {"p1"}
  Forms = {"plain", "uri"}
  Directories <- MCDirectories
  Languages = {"ur"}
  DefaultLanguage = "ur"
  Ttl = 1
  Flight = 0
  MaxNow = 1
  Kinds = {"phone", "probe"}
  MaxVersion = 1
INVARIANTS RecordTellsRun RecordAccounted
PROPERTIES RoutedToClaimant FreshConfig CallSettles
