CONSTANTS
  Runs = {plain, other}
  Processes = {"shell"}
  Questions = {one}
  Names <- OneDataset
  Sorted <- OneDataset
  HomeOf <- Home2
  Catalogues <- JustOne
  Manifests <- OneFrozen
  Manifested = {}
  Tooled = {}
  Limits <- Unlimited
  Tries = 1
  MaxEvaluator = 2
  MaxCommands = 3
  NoAnswer = NoAnswer
  Absent = Absent
  Torn = Torn
  Idle = Idle
  Unknown = Unknown
  plain = plain
  frozen = frozen
  other = other
  one = one
  two = two
  three = three
SPECIFICATION Spec
CHECK_DEADLOCK FALSE
INVARIANTS ComparedByOneEvaluator
