\* A charter or ledger document from its text to the settings it resolves to.
SPECIFICATION Spec
CONSTANTS
  None = None
  Corpus <- MCCorpus
  MAX_DOCUMENT_BYTES = 2
INVARIANTS LoadsOnlyWhatWasInspected EngineWithinPublishedSchema NormaliseKeepsTheMeaning WhatIsWrittenIsResolved
PROPERTIES ImplementsSafeDialect
CHECK_DEADLOCK FALSE
