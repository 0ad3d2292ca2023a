CONSTANTS
  Procs = {"p1", "p2"}
  Starters = {"p1"}
  Entrances = {"cli", "library"}
  Inits = {}
  Plan <- MCNoPlan
  Inside = {}
  Template <- MCTemplate
  Broken = Broken
  Changes <- MCChanges
  Content <- MCContent
  Aliases = {"link"}
  Arguments <- MCArguments
  Prohibited = {"p2"}
  None = None
  MaxEdits = 2
  MaxFaults = 1
SPECIFICATION FairSpec
CHECK_DEADLOCK FALSE
INVARIANTS RecordedPrefix AskedAsRecorded EvalIsRepositoryFile
 
