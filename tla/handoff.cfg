SPECIFICATION FairSpec
CONSTANTS
  Modes = {"web", "sip"}
  Polls = {1, 2}
  MaxAttempts = 2
  MaxLooks = 3
  Required = 2
  MaxPatches = 1
  Statuses = {"in_queue", "ringing", "transferred", "in_progress", "failed"}
  FlakyPlatform = TRUE
INVARIANTS LiveCallNotEnded TransferRecorded
PROPERTIES CallerAttended PollsEnd SettledOperatorTakesOver
