CONSTANTS
  N = 1
  Size <- Thirty
  Asked <- JustTrap
  Given <- Inventions
  Settings <- ContextGiven
SPECIFICATION Spec
CHECK_DEADLOCK FALSE
INVARIANTS InventedAnswerIsAFailedRefusal
