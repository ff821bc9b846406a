CONSTANTS
  Sizes <- RealSizes
  MaxSkips = 1
  Takes = {10, 75}
SPECIFICATION Spec
INVARIANT PrivateAsksTheSame
CHECK_DEADLOCK FALSE
