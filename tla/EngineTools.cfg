CONSTANTS
  NInput = 4
  Limit = 0
  Conversation <- OneChat
  TurnIndex <- OutOfOrder
  Slots <- OutOfOrder
  Protocol = "model_history"
  Concurrency = 2
  MaxRetries = 0
  MaxToolTurns = 1
  Budget = 2
  ToolAssisted = TRUE
  RetrievalFails = FALSE
  Contents = {figure, garbled}
  TextOf <- SpokenAs
  Costs <- PricedOrNot
  MaxCost = 2
  CacheModes <- JustReadWrite
  MaxSessions = 1
  NoConversation = NoConversation
  NoBudget = NoBudget
  NoContent = NoContent
  Unpriced = Unpriced
  NoPrediction = NoPrediction
  Gold = Gold
  NoAnswer = NoAnswer
  chat = chat
  figure = figure
  garbled = garbled
SPECIFICATION Spec
INVARIANTS WholeChainHolds
