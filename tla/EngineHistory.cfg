CONSTANTS
  NInput = 4
  Limit = 0
  Conversation <- OneChat
  TurnIndex <- OutOfOrder
  Slots <- OutOfOrder
  Protocol = "model_history"
  Concurrency = 2
  MaxRetries = 1
  MaxToolTurns = 1
  Budget = NoBudget
  ToolAssisted = FALSE
  RetrievalFails = TRUE
  Contents = {figure}
  TextOf <- SpokenAs
  Costs <- NeverPriced
  MaxCost = 2
  CacheModes <- JustReadWrite
  MaxSessions = 2
  NoConversation = NoConversation
  NoBudget = NoBudget
  NoContent = NoContent
  Unpriced = Unpriced
  NoPrediction = NoPrediction
  Gold = Gold
  NoAnswer = NoAnswer
  chat = chat
  figure = figure
  garbled = garbled
SPECIFICATION FairSpec
INVARIANTS AnswersAreGenuine HistoryIsOwnWords
PROPERTIES KeepsPromise RunSettles
