\* A review is opened and closed by one commit.
SPECIFICATION Spec
CONSTANTS
  CarveOutIds = {1, 2}
  CorrectionIds = {}
  ReviewIds = {7}
  NonGoalIds = {NG1}
  None = None
  MALFORMED = MALFORMED
  SpecVersions <- MCSupported
  Declared = {NG1}
  InitialCharters <- MCCharters
  Configs = {}
  Profiles = {}
  Budgets = {}
  RetirableNonGoals = {}
  Expiries = {None}
  Scopes <- MCGlobalScope
  Shas = {1}
  Irregular = {"batch"}
  MaxEvents = 4
  LastCommit = 4
  MaxTime = 4
INVARIANTS OrphansHaveNoOrigin
CHECK_DEADLOCK FALSE
