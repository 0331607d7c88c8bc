\* Adoption with back-fill, then ratifications and a review that stop at
\* LastCommit, under a policy that is edited at any time; MaxTime leaves the
\* longest window time to pass over the last ratification.
SPECIFICATION FairSpec
CONSTANTS
  CarveOutIds = {1, 2, 3}
  CorrectionIds = {}
  ReviewIds = {7}
  NonGoalIds = {NG1, NG2}
  None = None
  Declared = {NG1, NG2}
  InitialCharters <- MCStart
  Configs <- MCConfigs
  Profiles = {"enterprise"}
  Budgets = {}
  RetirableNonGoals = {NG2}
  Expiries = {None}
  Scopes <- MCGlobalScope
  Shas = {1}
  Irregular = {"batch"}
  MaxEvents = 4
  LastCommit = 2
  MaxTime = 4
INVARIANTS ProvenanceLeadsToTheValue DensityNeedsActivity RefireNeedsErosion
PROPERTIES EditsStayLocal ProfileLeavesTriggersAlone LooserPolicyOnlyRelaxes DensityEventuallyRelaxes
CHECK_DEADLOCK FALSE
