CONSTANTS
  Runners = {p1, p2}
  LastStep = 2
  Development = 1
  Answers = {"advance", "context", "malformed"}
  StepRounds = 1
  RunRounds = 2
  MaxAttempt = 2
  MaxRecords = 7
  MaxFaults = 1
  p1 = p1
  p2 = p2
SPECIFICATION Spec
SYMMETRY Symmetry
CHECK_DEADLOCK FALSE
INVARIANTS EvidenceIsLedgered ProgressIsBounded
PROPERTIES AskedUnanswered IsExchangeLog
