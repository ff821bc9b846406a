CONSTANTS
  s1 = s1
  s2 = s2
  Samples = {s1, s2}
  MaxTurns = 2
  MaxCommands = 3
  Replies <- Said
  NoCall = NoCall
  None = None
  Execute <- MCExecute
  MaxDepth = 2
  MaxExponent = 2
  MaxSize = 4
SPECIFICATION FairSpec
CHECK_DEADLOCK FALSE
CONSTRAINT ThirdIsARescore
INVARIANTS TraceIsTheConversation EveryTurnIsCounted GradesAreOfThisRun RescoreAgrees MetricsAgree OnlyArithmeticRuns
PROPERTIES AsksToTheEnd
