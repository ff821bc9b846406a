CONSTANTS
  Runs = {plain, frozen}
  Processes = {"shell"}
  Questions = {one, two}
  Names <- GroupOrder
  Sorted <- Alphabet
  HomeOf <- Home2
  Catalogues <- Moving
  Manifests <- EitherFrozen
  Manifested = {frozen}
  Tooled = {frozen}
  Limits <- Unlimited
  Tries = 1
  MaxEvaluator = 2
  MaxCommands = 2
  NoAnswer = NoAnswer
  Absent = Absent
  Torn = Torn
  Idle = Idle
  Unknown = Unknown
  plain = plain
  frozen = frozen
  other = other
  one = one
  two = two
  three = three
SPECIFICATION Spec
CHECK_DEADLOCK FALSE
INVARIANTS TypeOK GradesAreOfTheirQuestion WholeRunIsOneMaking MigrationIsRecorded FrozenQuestionsStay
