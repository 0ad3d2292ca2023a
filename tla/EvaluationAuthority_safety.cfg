CONSTANTS
  Operators = {ann, ben}
  NumChecks = 2
  MaxAttempts = 3
  MaxRecoveries = 2
  MaxReviews = 2
  MaxCrashes = 3
  None = None
  ann = ann
  ben = ben
SPECIFICATION FairSpec
CHECK_DEADLOCK FALSE
INVARIANTS NoReplay EarnedVerdict OneApproval AuditedRecovery CandidateFollowsVerdict
PROPERTIES PassedIsImmutable FailureReopensAudited 
