SPECIFICATION FairSpec
CONSTANTS
  MaxAgents = 3
  Prompt = 1
  Goodbye = 2
PROPERTIES
  PromptBeforeGoodbye
  SpeaksOnlyInSilence
  OnlyCurrentSpeaks
  SilentCallerEnds
