SPECIFICATION Spec

CONSTANTS
  MaxSegments = 2
  MaxQueued = 3
  MaxRetry = 1
  MaxChunks = 1
  MaxTurns = 2
  MaxTries = 2
  MaxPiece = 5
  Sizes = {1, 3}
  MaxWords = 3

INVARIANTS
  OneFinalOfItsOwn
  EveryTurnAnswered
  OneReading
PROPERTY
  SpeechSettles

CHECK_DEADLOCK FALSE
