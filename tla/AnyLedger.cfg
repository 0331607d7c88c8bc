\* Copies, late endings, ties and committer times that run backwards, together.
SPECIFICATION Spec
CONSTANTS
  CarveOutIds = {1, 2}
  CorrectionIds = {}
  ReviewIds = {7}
  NonGoalIds = {NG1}
  None = None
  Declared = {NG1}
  InitialCharters <- MCCharters
  Configs = {}
  Profiles = {}
  Budgets = {}
  RetirableNonGoals = {}
  Expiries = {1}
  Scopes <- MCScopes
  Shas = {1, 2}
  Irregular = {"duplicate", "late", "tie", "backdated"}
  MaxEvents = 4
  LastCommit = 2
  MaxTime = 2
INVARIANTS TypeOK RefireNeedsErosion FloorIsRunningMinimum
PROPERTIES TimeOnlyRelaxes OnlyRatificationTightens
CHECK_DEADLOCK FALSE
