SPECIFICATION Spec

CONSTANTS
  MaxAgents = 4
  Threshold = 2
  MaxStrikes = 2
  MaxFiled = 2
  Outcomes = {"filed", "anonymous", "refused", "lost"}
  AppealConfigured = TRUE
  Switching = TRUE

INVARIANTS
  ProposalUnspent
  AppealsAccounted
  LoopBreakInTime
  TransferExplained
