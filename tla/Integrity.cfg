\* check_integrity over every ledger of up to four files of the universe.
SPECIFICATION Spec
CONSTANTS
  NG1 = NG1
  NG2 = NG2
  CarveOutIds = {1}
  CorrectionIds = {4}
  ReviewIds = {7}
  NonGoalIds = {NG1, NG2}
  None = None
  Instants = {1, 2}
  MaxEvents = 4
  Declared <- MCDeclared
  Streams <- MCStreams
INVARIANTS TypeOK ReportsExactlyTheFindings CleanLedgerProjectsFaithfully CorrectionsOnlyAnnotate
PROPERTIES Finishes
CHECK_DEADLOCK FALSE
