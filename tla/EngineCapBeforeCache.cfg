CONSTANTS
  NInput = 3
  Limit = 0
  Conversation <- Singles
  TurnIndex <- NoTurns
  Slots <- NoTurns
  Protocol = "gold_history"
  Concurrency = 2
  MaxRetries = 0
  MaxToolTurns = 1
  Budget = 2
  ToolAssisted = FALSE
  RetrievalFails = FALSE
  Contents = {figure}
  TextOf <- SpokenAs
  Costs <- AlwaysTwo
  MaxCost = 2
  CacheModes <- JustReadWrite
  MaxSessions = 2
  NoConversation = NoConversation
  NoBudget = NoBudget
  NoContent = NoContent
  Unpriced = Unpriced
  NoPrediction = NoPrediction
  Gold = Gold
  NoAnswer = NoAnswer
  chat = chat
  figure = figure
  garbled = garbled
SPECIFICATION Spec
INVARIANT CachedSampleIsServed
