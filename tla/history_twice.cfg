SPECIFICATION Spec
CONSTANTS
  Texts = {x, y}
  Short = {y}
  Languages = {ur, en}
  Flows = {refund}
  NoFlow = NoFlow
  NoTurn = NoTurn
  NoRequest = NoRequest
  Closing = "filed"
  SyncEvery = 2
  WindowSize = 1
  Slack = 1
  Questions = 1
  MaxSaid = 4
  MaxAgents = 4
CHECK_DEADLOCK FALSE
INVARIANT
  HistoryAskedOnce
