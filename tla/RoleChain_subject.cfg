CONSTANTS
  Steps <- MCSteps
  Answers <- MCAnswers
  Diffs <- MCDiffs
  Fits <- MCFits
  Policy <- MCPolicy
  Tree <- MCTree
  Order <- MCOrder
  Relevant <- MCRelevant
  Limits <- MCLimits
  Forbidden <- MCForbidden
  AskCap = 2
  ApplyPatch = TRUE
  RunCap = 3
  StepCap = 2
  MaxRevisions = 1
  MaxCrashes = 1
SPECIFICATION ChainSpec
INVARIANTS SubjectsAgree
CHECK_DEADLOCK FALSE
