SPECIFICATION MonitorSpec

INVARIANTS
  BlameFits
  RecoveryTold
PROPERTY
  OutageReported
