SPECIFICATION StoreSpec
CONSTANTS
  w1 = w1
  w2 = w2
  demo = demo
  other = other
  atlas = atlas
  beta = beta
  None = None
  Workers = {w1, w2}
  Ops = {demo, other}
  Projects = {atlas, beta}
  Charges = {1, 2, 3, 4, 5}
  OpOf <- MCOpOf
  SeedCharges = {1, 2}
  SeedProjects = {atlas}
  DemoOp = demo
  DemoCharge = 2
  DemoProject = atlas
SYMMETRY Sym
INVARIANTS RefundMatchesKey OriginalChargeKept RestoreReplayIsTrue
PROPERTIES RefundUndoneOnlyWithKey ImplementsLedger
