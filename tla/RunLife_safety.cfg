SPECIFICATION Spec
CONSTANTS
  EarlySteps <- MCEarlySteps
  None = None
  MaxAttempt = 2
  MaxEvals = 2
  MaxRecoveries = 2
  MaxClock = 1
CHECK_DEADLOCK FALSE
INVARIANTS WritersAgree LineageKept PromotedIsEarned
PROPERTIES ApprovalStays
