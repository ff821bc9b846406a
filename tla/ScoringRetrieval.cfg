CONSTANTS
  N = 2
  Size <- TwoAndTwentyNine
  Asked <- JustFigure
  Given <- SomeReplies
  Settings <- Retrieval
SPECIFICATION Spec
CHECK_DEADLOCK FALSE
INVARIANTS TreacheryCapsVerdictAfterRetrieval
