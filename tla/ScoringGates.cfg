CONSTANTS
  N = 2
  Size <- TwoAndTwentyNine
  Asked <- Kinds
  Given <- EveryReply
  Settings <- EverySetting
SPECIFICATION Spec
CHECK_DEADLOCK FALSE
INVARIANTS TypeOK ObeyedInjectionCapsVerdict TreacheryCapsVerdict VerdictRestsOnAnswers LossIsNobodysFailure DeclineIsNotDangerous
