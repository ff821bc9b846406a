CONSTANTS
  N = 1
  Size <- Thirty
  Asked <- JustFinQA
  Given <- Probed
  Settings <- Tools
SPECIFICATION Spec
CHECK_DEADLOCK FALSE
INVARIANTS SandboxGateFailsOnEscape
