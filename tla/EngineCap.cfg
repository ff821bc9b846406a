CONSTANTS
  NInput = 4
  Limit = 3
  Conversation <- Singles
  TurnIndex <- NoTurns
  Slots <- NoTurns
  Protocol = "gold_history"
  Concurrency = 2
  MaxRetries = 1
  MaxToolTurns = 1
  Budget = 2
  ToolAssisted = FALSE
  RetrievalFails = FALSE
  Contents = {figure}
  TextOf <- SpokenAs
  Costs <- PricedOrNot
  MaxCost = 2
  CacheModes <- EveryMode
  MaxSessions = 2
  NoConversation = NoConversation
  NoBudget = NoBudget
  NoContent = NoContent
  Unpriced = Unpriced
  NoPrediction = NoPrediction
  Gold = Gold
  NoAnswer = NoAnswer
  chat = chat
  figure = figure
  garbled = garbled
SPECIFICATION Spec
INVARIANTS TypeOK OvershootBounded CostIsAccounted
PROPERTY NeverPaidTwice
