SPECIFICATION Spec
CONSTANTS
  w1 = w1
  w2 = w2
  demo = demo
  atlas = atlas
  None = None
  Workers = {w1, w2}
  Ops = {demo}
  Projects = {atlas}
  Charges = {1, 2}
  OpOf <- MCOpOf
  SeedCharges = {1, 2}
  SeedProjects = {atlas}
  DemoOp = demo
  DemoCharge = 2
  DemoProject = atlas
  k1 = k1
  Cases = {k1}
  f1 = f1
  f2 = f2
  Facts = {f1, f2}
  cust = cust
  Customers = {cust}
  MaxCalls = 4
SYMMETRY Sym
INVARIANTS EvidenceNeedsOwner ResultIsEvidenced
PROPERTIES LostOnlyToRace
