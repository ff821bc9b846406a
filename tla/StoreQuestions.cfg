CONSTANTS
  Runs = {plain, other}
  Processes = {"shell"}
  Questions = {one, two}
  Names <- GroupOrder
  Sorted <- Alphabet
  HomeOf <- Home2
  Catalogues <- JustWhole
  Manifests <- EitherFrozen
  Manifested = {}
  Tooled = {}
  Limits <- OneAsked
  Tries = 1
  MaxEvaluator = 1
  MaxCommands = 2
  NoAnswer = NoAnswer
  Absent = Absent
  Torn = Torn
  Idle = Idle
  Unknown = Unknown
  plain = plain
  frozen = frozen
  other = other
  one = one
  two = two
  three = three
SPECIFICATION Spec
CHECK_DEADLOCK FALSE
INVARIANT ComparesTheSameQuestions
