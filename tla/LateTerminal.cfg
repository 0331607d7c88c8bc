\* A carve-out is retired after its declared expiry took effect.
SPECIFICATION FairSpec
CONSTANTS
  CarveOutIds = {1, 2}
  CorrectionIds = {}
  ReviewIds = {7}
  NonGoalIds = {NG1}
  None = None
  Declared = {NG1}
  InitialCharters <- MCCharters
  Configs = {}
  Profiles = {}
  Budgets = {}
  RetirableNonGoals = {}
  Expiries = {None, 2}
  Scopes <- MCGlobalScope
  Shas = {1}
  Irregular = {"late", "batch"}
  MaxEvents = 5
  LastCommit = 4
  MaxTime = 4
PROPERTIES BaselineOnlyMovesDown
CHECK_DEADLOCK FALSE
