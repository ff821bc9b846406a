CONSTANTS
  Sizes <- RealSizes
  MaxSkips = 1
  Takes = {10, 75}
SPECIFICATION Spec
INVARIANTS EveryCaseIsAsked FrozenIsBalanced
CHECK_DEADLOCK FALSE
