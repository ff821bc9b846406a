CONSTANTS
  N = 1
  Size <- Thirty
  Asked <- JustFigure
  Given <- WrongSignQuoted
  Settings <- ContextGiven
SPECIFICATION Spec
CHECK_DEADLOCK FALSE
INVARIANTS WrongSignIsCaught
