CONSTANTS
  s1 = s1
  s2 = s2
  Samples = {s1}
  MaxTurns = 2
  MaxCommands = 1
  Replies <- Said
  NoCall = NoCall
  None = None
  Execute <- MCExecute
  MaxDepth = 3
  MaxExponent = 3
  MaxSize = 6
SPECIFICATION Spec
CHECK_DEADLOCK FALSE
PROPERTY ErrorsGoToTheModel
