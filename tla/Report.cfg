\* The reports of a draft charter that is ratified and edited, over ledgers with
\* orphans and copies, for supported and other versions.
SPECIFICATION Spec
CONSTANTS
  CarveOutIds = {1, 2}
  CorrectionIds = {4}
  ReviewIds = {7}
  NonGoalIds = {NG1, NG2, NG3}
  None = None
  MALFORMED = MALFORMED
  SpecVersions <- MCSpecVersions
  Declared = {NG1, NG2}
  InitialCharters <- MCAdoptingDrafts
  Configs = {}
  Profiles = {}
  Budgets = {1}
  RetirableNonGoals = {NG1, NG2}
  Expiries = {None, 1}
  Scopes <- MCGlobalScope
  Shas = {1}
  Irregular = {"duplicate", "orphan"}
  MaxEvents = 3
  LastCommit = 2
  MaxTime = 2
SYMMETRY DeclaredSymmetry
INVARIANTS ExitZeroMeansAdmitted MoreDiagnosticsNeverLookBetter ReasonsAreGrounded TouchingMoreNeverHelps
INVARIANTS FactsSupportTheTriggers ShownInForceExactlyWhileInForce EventExplanationAgreesWithFacts
CHECK_DEADLOCK FALSE
