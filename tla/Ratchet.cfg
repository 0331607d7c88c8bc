\* Orderly ledgers: one event per commit, one commit per instant, every terminal
\* event committed before the declared expiry it would race with.
SPECIFICATION ObservedSpec
CONSTANTS
  CarveOutIds = {1, 2, 3}
  CorrectionIds = {}
  ReviewIds = {7, 8}
  NonGoalIds = {NG1, NG2}
  None = None
  Declared = {NG1, NG2}
  InitialCharters <- MCCharters
  Configs = {}
  Profiles = {}
  Budgets = {}
  RetirableNonGoals = {}
  Expiries = {None, 2}
  Scopes <- MCScopes
  Shas = {1}
  Irregular = {}
  MaxEvents = 5
  LastCommit = 5
  MaxTime = 5
SYMMETRY Symmetry
INVARIANTS RefireNeedsErosion FloorIsRunningMinimum ReplayAgreesWithHistory
PROPERTIES TimeOnlyRelaxes OnlyRatificationTightens ImplementsRatchet
CHECK_DEADLOCK FALSE
