\* Time passes over the density window.
SPECIFICATION Spec
CONSTANTS
  CarveOutIds = {1, 2}
  CorrectionIds = {}
  ReviewIds = {7}
  NonGoalIds = {NG1}
  None = None
  MALFORMED = MALFORMED
  SpecVersions <- MCSupported
  Declared = {NG1}
  InitialCharters <- MCCharters
  Configs = {}
  Profiles = {}
  Budgets = {}
  RetirableNonGoals = {}
  Expiries = {None}
  Scopes <- MCGlobalScope
  Shas = {1}
  Irregular = {}
  MaxEvents = 4
  LastCommit = 4
  MaxTime = 4
INVARIANTS DensityFactIsTheCountDecidedOn
CHECK_DEADLOCK FALSE
