CONSTANTS
  Runs = {plain}
  Processes = {"shell"}
  Questions = {one, two, three}
  Names <- GroupOrder
  Sorted <- Alphabet
  HomeOf <- Home2
  Catalogues <- Uneven
  Manifests <- BothFrozen
  Manifested = {}
  Tooled = {}
  Limits <- TwoAsked
  Tries = 1
  MaxEvaluator = 1
  MaxCommands = 2
  NoAnswer = NoAnswer
  Absent = Absent
  Torn = Torn
  Idle = Idle
  Unknown = Unknown
  plain = plain
  frozen = frozen
  other = other
  one = one
  two = two
  three = three
SPECIFICATION Spec
CHECK_DEADLOCK FALSE
INVARIANTS ResumeAsksTheSameQuestions
