------------------------------- MODULE Codec --------------------------------
(***************************************************************************)
(* codec.decode: two cheap guards on the text, one pass over the parser's  *)
(* events, then a second, separate parse that builds the mapping.  The     *)
(* second parse is safe only because of what the first has seen.           *)
(***************************************************************************)
EXTENDS Documents, Absent

CONSTANTS Corpus,             \* the documents that are decoded
          MAX_DOCUMENT_BYTES

ASSUME CodecAssumption ==
  /\ MAX_DOCUMENT_BYTES \in Nat /\ None \notin Hazards
  /\ \A d \in Corpus :
       /\ d.bytes \in Nat /\ d.bom \in BOOLEAN
       /\ d.events \in Seq(DocumentEvent(STRING, STRING)) /\ WellNested(d.events)

VARIABLES document, pc,
          position,           \* of the next event of the first parse
          documents,          \* document starts met so far
          outcome
vars == <<document, pc, position, documents, outcome>>

Pending         == <<"pending", 0>>
Decoded(loaded) == <<"decoded", loaded>>
Rejected(hazard) == <<"rejected", hazard>>
\* An exception that is not a CodecError, hence a stack trace.
Escaped         == <<"escaped", 0>>

Init ==
  /\ document \in Corpus
  /\ pc = "guard" /\ position = 1 /\ documents = 0
  /\ outcome = Pending

Finish(result) == pc' = "done" /\ outcome' = result /\ UNCHANGED <<document, position, documents>>

-----------------------------------------------------------------------------
(* The guards.                                                             *)

\* _guard_size_and_encoding
GuardSizeAndEncoding ==
  /\ pc = "guard"
  /\ \/ document.bytes > MAX_DOCUMENT_BYTES /\ Finish(Rejected("oversize"))
     \/ document.bytes <= MAX_DOCUMENT_BYTES /\ document.bom /\ Finish(Rejected("bom"))
     \/ /\ document.bytes <= MAX_DOCUMENT_BYTES /\ ~document.bom
        /\ pc' = "inspect" /\ UNCHANGED <<document, position, documents, outcome>>

\* What _guard_structure raises for an event, if anything.
\* Mutant: an anchor nobody refers to is let through.
structural_hazard_of_aliases(e, count) ==
  CASE e.kind = "document_start" /\ count + 1 > 1 -> "multi_document"
    [] e.kind = "alias"        -> "anchor_alias"
    [] e.kind = "parser_error" -> "malformed"
    [] e.kind = "reader_error" -> "encoding"
    [] OTHER                   -> None
structural_hazard(e, count) ==
  CASE e.kind = "document_start" /\ count + 1 > 1 -> "multi_document"
    [] e.kind = "alias"                           -> "anchor_alias"
    [] e.kind \in ANCHORABLE /\ e.anchor          -> "anchor_alias"
    [] e.kind = "parser_error"                    -> "malformed"
    [] e.kind = "reader_error"                    -> "encoding"
    [] OTHER                                      -> None

InspectEvent ==
  /\ pc = "inspect" /\ position <= Len(document.events)
  /\ LET e == document.events[position]
         hazard == structural_hazard(e, documents)
     IN  \/ hazard # None /\ Finish(Rejected(hazard))
         \/ /\ hazard = None
            /\ position' = position + 1
            /\ documents' = documents + (IF e.kind = "document_start" THEN 1 ELSE 0)
            /\ UNCHANGED <<document, pc, outcome>>

InspectionEnds ==
  /\ pc = "inspect" /\ position > Len(document.events)
  /\ pc' = "load"
  /\ UNCHANGED <<document, position, documents, outcome>>

-----------------------------------------------------------------------------
(* The second parse.                                                       *)

Values(events) == {e \in {events[k] : k \in DOMAIN events} : e.kind \in ANCHORABLE}
Root(events)   == {e \in Values(events) : e.path = <<>>}

SharedKey(events) ==
  \E k, l \in DOMAIN events :
    /\ k # l /\ events[k].path # <<>> /\ events[k].path = events[l].path
    /\ events[k].kind \in ANCHORABLE /\ events[l].kind \in ANCHORABLE

\* The exceptions with which the load may end.
LoadErrors(events) ==
  LET Met(kind) == \E k \in DOMAIN events : events[k].kind = kind
      Starts(k) == events[k].kind = "document_start"
  IN  (IF SharedKey(events) THEN {"DuplicateKeyError"} ELSE {})
        \cup (IF \E e \in Values(events) : e.text = UNKNOWN_TAG THEN {"ConstructorError"} ELSE {})
        \cup (IF \E k, l \in DOMAIN events : k # l /\ Starts(k) /\ Starts(l) THEN {"ComposerError"} ELSE {})
        \cup (IF Met("parser_error") THEN {"ParserError"} ELSE {})
        \cup (IF Met("reader_error") THEN {"ReaderError"} ELSE {})

\* Mutant: the general handler first, which also matches the special error.
handled_generally(error) == IF error = "ReaderError" THEN Escaped ELSE Rejected("malformed")
\* DuplicateKeyError, like the other errors with a mark, is a MarkedYAMLError;
\* ReaderError is not, and decode has no handler for it here.
handled(error) ==
  CASE error = "DuplicateKeyError" -> Rejected("duplicate_key")
    [] error \in {"ConstructorError", "ComposerError", "ParserError"} -> Rejected("malformed")
    [] error = "ReaderError" -> Escaped

ValueOf(e) ==
  CASE e.kind = "mapping_start"  -> Block
    [] e.kind = "sequence_start" -> List
    [] e.kind = "scalar"         -> construct(e.text)

\* The mapping, flattened: a function from the paths of its keys to values.
Mapping(events) ==
  LET entries == {e \in Values(events) : e.path # <<>>}
  IN  [path \in {e.path : e \in entries} |-> ValueOf(CHOOSE e \in entries : e.path = path)]

\* None becomes an empty mapping; what is no mapping is refused.
root_checked(events) ==
  LET loaded == {ValueOf(e) : e \in Root(events)}
  IN  IF loaded \subseteq {Null, Block} THEN Decoded(Mapping(events)) ELSE Rejected("not_a_mapping")

Load ==
  /\ pc = "load"
  /\ LET errors == LoadErrors(document.events)
     IN  \/ \E error \in errors : Finish(handled(error))
         \/ errors = {} /\ Finish(root_checked(document.events))

Next == GuardSizeAndEncoding \/ InspectEvent \/ InspectionEnds \/ Load

Spec == Init /\ [][Next]_vars /\ WF_vars(Next)
=============================================================================
