CONSTANTS
  NInput = 3
  Limit = 0
  Conversation <- GappedChat
  TurnIndex <- GappedTurns
  Slots <- GappedTurns
  Protocol = "model_history"
  Concurrency = 2
  MaxRetries = 0
  MaxToolTurns = 1
  Budget = NoBudget
  ToolAssisted = FALSE
  RetrievalFails = FALSE
  Contents = {figure}
  TextOf <- SpokenAs
  Costs <- NeverPriced
  MaxCost = 2
  CacheModes <- JustReadWrite
  MaxSessions = 1
  NoConversation = NoConversation
  NoBudget = NoBudget
  NoContent = NoContent
  Unpriced = Unpriced
  NoPrediction = NoPrediction
  Gold = Gold
  NoAnswer = NoAnswer
  chat = chat
  figure = figure
  garbled = garbled
SPECIFICATION Spec
INVARIANT ChainHoldsOnceBegun
