\* The engine and the published schema on the same decoded documents.
SPECIFICATION Spec
CONSTANTS
  None = None
  Corpus <- MCCorpus
  MAX_DOCUMENT_BYTES = 2
INVARIANTS ValidatorsAgree
CHECK_DEADLOCK FALSE
