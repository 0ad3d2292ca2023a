CONSTANTS
  Configs <- MCConfigs
  Places <- MCPlaces
  Relative = {"tool"}
  World <- MCWorld
  Inside = {"root", "root/tool"}
  MaxTimeout = 1
  MaxEdits = 2
  MaxFaults = 1
SPECIFICATION Spec
CHECK_DEADLOCK FALSE
 
PROPERTIES EvaluationEnds
