----------------------------- MODULE SafeDialect ----------------------------
(***************************************************************************)
(* What decoding promises, whatever it takes to get there: a document is   *)
(* decoded in one step if it has no hazard, and refused otherwise, with a  *)
(* hazard that it has.                                                     *)
(***************************************************************************)
EXTENDS Documents

CONSTANTS Corpus, MAX_DOCUMENT_BYTES

VARIABLES document, outcome

At(kinds) == {k \in DOMAIN document.events : document.events[k].kind \in kinds}
EventAt(k) == document.events[k]

Has(hazard) ==
  CASE hazard = "oversize"       -> document.bytes > MAX_DOCUMENT_BYTES
    [] hazard = "bom"            -> document.bom
    [] hazard = "multi_document" -> \E k, l \in At({"document_start"}) : k < l
    [] hazard = "anchor_alias"   -> At({"alias"}) # {} \/ \E k \in At(ANCHORABLE) : EventAt(k).anchor
    [] hazard = "malformed"      -> \/ At({"parser_error"}) # {}
                                    \/ \E k \in At(ANCHORABLE) : EventAt(k).text = UNKNOWN_TAG
    [] hazard = "encoding"       -> At({"reader_error"}) # {}
    [] hazard = "duplicate_key"  -> \E k, l \in At(ANCHORABLE) :
                                      k < l /\ EventAt(k).path = EventAt(l).path /\ EventAt(k).path # <<>>
    [] hazard = "not_a_mapping"  -> \E k \in At(ANCHORABLE) :
                                      /\ EventAt(k).path = <<>>
                                      /\ EventAt(k).kind # "mapping_start"
                                      /\ EventAt(k).kind = "scalar" => EventAt(k).text # "null"

\* Every key with the value the document gives it, and no other key.
Content ==
  LET entries == {k \in At(ANCHORABLE) : EventAt(k).path # <<>>}
      Value(e) == CASE e.kind = "scalar"         -> construct(e.text)
                    [] e.kind = "mapping_start"  -> Block
                    [] e.kind = "sequence_start" -> List
  IN  [path \in {EventAt(k).path : k \in entries} |->
         Value(EventAt(CHOOSE k \in entries : EventAt(k).path = path))]

Init == document \in Corpus /\ outcome = <<"pending", 0>>

Decode ==
  /\ outcome = <<"pending", 0>>
  /\ \/ /\ \A hazard \in Hazards : ~Has(hazard)
        /\ outcome' = <<"decoded", Content>>
     \/ \E hazard \in Hazards : Has(hazard) /\ outcome' = <<"rejected", hazard>>
  /\ UNCHANGED document

Safety == Init /\ [][Decode]_<<document, outcome>>
Spec == Safety /\ WF_<<document, outcome>>(Decode)
=============================================================================
