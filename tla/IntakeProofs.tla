---------------------------- MODULE IntakeProofs ----------------------------
(***************************************************************************)
(* Proofs about a document's way from text to settings, for every corpus   *)
(* and every size limit: its decoding, the schemas published for it, what  *)
(* the engine accepts of it and the settings that come out.                *)
(***************************************************************************)
EXTENDS IntakeProperties, SequenceTheorems, TLAPS

Starts(k) == document.events[k].kind = "document_start"
Harmless(e) ==
  e.kind \notin {"alias", "parser_error", "reader_error"} /\ ~(e.kind \in ANCHORABLE /\ e.anchor)

\* What the first parse knows: everything before its position is harmless, and
\* documents tells whether a start is among it.
InspectionInv ==
  /\ position \in Nat \ {0} /\ position <= Len(document.events) + 1
  /\ \A k \in 1 .. position - 1 : Harmless(document.events[k])
  /\ documents \in {0, 1}
  /\ documents = 0 => \A k \in 1 .. position - 1 : ~Starts(k)
  /\ documents = 1 => \E k \in 1 .. position - 1 : Starts(k)
  /\ \A k, l \in 1 .. position - 1 : Starts(k) /\ Starts(l) => k = l

CodecInv ==
  /\ document \in Corpus
  /\ pc \in {"guard", "inspect", "load", "done"}
  /\ InspectionInv
  /\ pc # "done" => outcome = Pending
  /\ pc = "done" => outcome # Pending
  /\ pc = "guard" => position = 1
  /\ pc \in {"inspect", "load"} \/ outcome[1] = "decoded" =>
       document.bytes <= MAX_DOCUMENT_BYTES /\ ~document.bom
  /\ pc = "load" \/ outcome[1] = "decoded" => position = Len(document.events) + 1

\* The events of a document are numbered, and are events.
LEMMA EventsAreNumbered ==
  ASSUME NEW d \in Corpus
  PROVE  /\ DOMAIN d.events = 1 .. Len(d.events) /\ Len(d.events) \in Nat
         /\ \A k \in DOMAIN d.events : d.events[k].kind \in EventKinds
         /\ d.bytes \in Nat /\ d.bom \in BOOLEAN
<1> DEFINE Event == DocumentEvent(STRING, STRING)
<1>1. d.events \in Seq(Event) /\ d.bytes \in Nat /\ d.bom \in BOOLEAN
  BY CodecAssumption DEF CodecAssumption
<1>2. \A e \in Event : e.kind \in EventKinds
  BY DEF DocumentEvent
<1> HIDE DEF Event
<1>3. \A k \in DOMAIN d.events : d.events[k] \in Event
  BY <1>1
<1> QED  BY <1>1, <1>2, <1>3

\* An event the first parse lets through is harmless, and not a second start.
LEMMA LetThrough ==
  ASSUME NEW e, NEW count \in {0, 1}, structural_hazard(e, count) = None
  PROVE  Harmless(e) /\ (e.kind = "document_start" => count = 0)
BY CodecAssumption DEF CodecAssumption, structural_hazard, Harmless, ANCHORABLE, Hazards

-----------------------------------------------------------------------------
(* The invariant.                                                          *)

\* It holds of every document before it is looked at.
LEMMA CodecInvInit == Init => CodecInv
BY EventsAreNumbered DEF Init, CodecInv, InspectionInv, Pending

\* A rejection keeps the invariant, wherever it happens.
LEMMA RejectionKeepsInv ==
  ASSUME CodecInv, NEW hazard, Finish(Rejected(hazard))
  PROVE  CodecInv'
BY DEF CodecInv, InspectionInv, Finish, Rejected, Pending, Starts, Harmless

\* Every step of the decoder keeps it.
LEMMA CodecInvStep == CodecInv /\ [Next]_vars => CodecInv'
<1> SUFFICES ASSUME CodecInv, [Next]_vars PROVE CodecInv'
  OBVIOUS
<1> USE DEF Pending
<1>n. DOMAIN document.events = 1 .. Len(document.events) /\ Len(document.events) \in Nat
  BY EventsAreNumbered DEF CodecInv
<1>1. CASE UNCHANGED vars
  BY <1>1 DEF vars, CodecInv, InspectionInv, Starts, Harmless
<1>2. CASE GuardSizeAndEncoding
  <2>1. CASE Finish(Rejected("oversize")) \/ Finish(Rejected("bom"))
    BY <2>1, RejectionKeepsInv
  <2>2. CASE pc' = "inspect" /\ UNCHANGED <<document, position, documents, outcome>>
    BY <1>2, <2>2, <1>n DEF GuardSizeAndEncoding, Finish, CodecInv, InspectionInv, Starts, Harmless
  <2> QED  BY <1>2, <2>1, <2>2 DEF GuardSizeAndEncoding
<1>3. CASE InspectEvent
  <2> DEFINE e == document.events[position]
             hazard == structural_hazard(e, documents)
  <2>1. CASE Finish(Rejected(hazard))
    BY <2>1, RejectionKeepsInv
  <2>2. CASE /\ hazard = None
             /\ position' = position + 1
             /\ documents' = documents + (IF e.kind = "document_start" THEN 1 ELSE 0)
             /\ UNCHANGED <<document, pc, outcome>>
    <3>1. Harmless(e) /\ (e.kind = "document_start" => documents = 0)
      BY <2>2, LetThrough DEF CodecInv, InspectionInv
    <3>2. 1 .. position' - 1 = (1 .. position - 1) \cup {position}
      BY <2>2 DEF CodecInv, InspectionInv
    <3> HIDE DEF hazard
    <3>3. Starts(position) <=> e.kind = "document_start"
      BY DEF Starts
    <3>4. (\A k : Starts(k)' <=> Starts(k)) /\ document' = document
      BY <2>2 DEF Starts
    <3> HIDE DEF e
    <3>5. InspectionInv'
      <4>1. position' \in Nat \ {0} /\ position' <= Len(document'.events) + 1
        BY <1>3, <2>2, <1>n, <3>4 DEF InspectEvent, CodecInv, InspectionInv
      <4>2. \A k \in 1 .. position' - 1 : Harmless(document'.events[k])
        BY <3>1, <3>2, <3>4 DEF CodecInv, InspectionInv, e
      <4>3. CASE e.kind = "document_start"
        <5>1. documents = 0 /\ documents' = 1
          BY <4>3, <3>1, <2>2
        <5>2. \A k \in 1 .. position' - 1 : Starts(k) <=> k = position
          BY <4>3, <5>1, <3>2, <3>3 DEF CodecInv, InspectionInv
        <5> QED  BY <4>1, <4>2, <5>1, <5>2, <3>2, <3>4 DEF InspectionInv, CodecInv
      <4>4. CASE e.kind # "document_start"
        <5>1. documents' = documents /\ ~Starts(position)
          BY <4>4, <2>2, <3>3 DEF CodecInv, InspectionInv
        <5> QED  BY <4>1, <4>2, <5>1, <3>2, <3>4 DEF InspectionInv, CodecInv
      <4> QED  BY <4>3, <4>4
    <3>6. pc' = "inspect" /\ pc = "inspect"
      BY <1>3, <2>2 DEF InspectEvent
    <3> QED  BY <2>2, <3>4, <3>5, <3>6 DEF CodecInv
  <2> QED  BY <1>3, <2>1, <2>2 DEF InspectEvent
<1>4. CASE InspectionEnds
  BY <1>4, <1>n DEF InspectionEnds, CodecInv, InspectionInv, Starts, Harmless
<1>5. CASE Load
  <2>1. outcome' # Pending /\ pc' = "done" /\ UNCHANGED <<document, position, documents>>
    BY <1>5 DEF Load, Finish, handled, root_checked, Decoded, Rejected, Escaped, LoadErrors
  <2> QED  BY <1>5, <2>1 DEF Load, CodecInv, InspectionInv, Starts, Harmless
<1> QED  BY <1>1, <1>2, <1>3, <1>4, <1>5 DEF Next

\* The second parse only meets documents it is safe for (codec.decode).
THEOREM LoadsOnlyInspected == Spec => []LoadsOnlyWhatWasInspected
<1>1. CodecInv => LoadsOnlyWhatWasInspected
  <2> SUFFICES ASSUME CodecInv, pc = "load" \/ outcome[1] = "decoded"
               PROVE  LoadsOnlyWhatWasInspected
    BY DEF LoadsOnlyWhatWasInspected
  <2>1. DOMAIN document.events = 1 .. position - 1
    BY EventsAreNumbered DEF CodecInv, InspectionInv
  <2> QED  BY <2>1 DEF CodecInv, InspectionInv, Starts, Harmless, LoadsOnlyWhatWasInspected
<1> QED  BY <1>1, CodecInvInit, CodecInvStep, PTL DEF Spec

-----------------------------------------------------------------------------
(* The implementation of the dialect.                                      *)

\* Both modules construct scalars alike, and null is the only scalar that
\* makes a null or a mapping.
LEMMA Construction ==
  ASSUME NEW text
  PROVE  /\ construct(text) = Dialect!construct(text)
         /\ construct(text) \in {Null, Block} <=> text = "null"
<1>1. construct(text) = Dialect!construct(text)
  BY DEF construct, CORE_SCHEMA, Dialect!construct, Dialect!CORE_SCHEMA, Null, Boolean, Integer, Number,
         String, Dialect!Null, Dialect!Boolean, Dialect!Integer, Dialect!Number, Dialect!String
<1>2. CASE text \notin DOMAIN CORE_SCHEMA
  BY <1>1, <1>2 DEF construct, CORE_SCHEMA, String, Null, Block
<1>3. CASE text \in DOMAIN CORE_SCHEMA
  BY <1>1, <1>3 DEF construct, CORE_SCHEMA, Null, Boolean, Integer, Number, Block
<1> QED  BY <1>2, <1>3

\* A rejection for a hazard the document has is a step of the dialect.
LEMMA RejectionIsAStep ==
  ASSUME CodecInv, pc # "done", NEW hazard \in Hazards, Dialect!Has(hazard),
         Finish(Rejected(hazard))
  PROVE  Dialect!Decode
BY DEF CodecInv, Finish, Rejected, Pending, Dialect!Decode, Hazards, Dialect!Hazards

\* What stops the first parse is a hazard of the document.
LEMMA StructuralHazardIsReal ==
  ASSUME CodecInv, position <= Len(document.events),
         NEW hazard, hazard = structural_hazard(document.events[position], documents), hazard # None
  PROVE  hazard \in Hazards /\ Dialect!Has(hazard)
<1> DEFINE e == document.events[position]
<1>1. position \in DOMAIN document.events
  BY EventsAreNumbered DEF CodecInv, InspectionInv
<1>2. CASE hazard = "multi_document" /\ e.kind = "document_start" /\ documents + 1 > 1
  <2>1. PICK k \in 1 .. position - 1 : Starts(k)
    BY <1>2 DEF CodecInv, InspectionInv
  <2>2. k \in DOMAIN document.events /\ k < position
    BY <2>1, EventsAreNumbered DEF CodecInv, InspectionInv
  <2> QED  BY <1>1, <1>2, <2>1, <2>2
           DEF Starts, Hazards, Dialect!Has, Dialect!At, Dialect!EventAt
<1>3. CASE hazard = "anchor_alias" /\ (e.kind = "alias" \/ (e.kind \in ANCHORABLE /\ e.anchor))
  BY <1>1, <1>3 DEF Hazards, Dialect!Has, Dialect!At, Dialect!EventAt, ANCHORABLE, Dialect!ANCHORABLE
<1>4. CASE hazard = "malformed" /\ e.kind = "parser_error"
  BY <1>1, <1>4 DEF Hazards, Dialect!Has, Dialect!At, Dialect!EventAt
<1>5. CASE hazard = "encoding" /\ e.kind = "reader_error"
  BY <1>1, <1>5 DEF Hazards, Dialect!Has, Dialect!At, Dialect!EventAt
<1> QED  BY <1>2, <1>3, <1>4, <1>5 DEF structural_hazard

\* What a load that was inspected ends with is handled, and is a hazard of the
\* document.
LEMMA LoadErrorIsReal ==
  ASSUME CodecInv, pc = "load", NEW error \in LoadErrors(document.events)
  PROVE  \E hazard \in Hazards : handled(error) = Rejected(hazard) /\ Dialect!Has(hazard)
<1>0. /\ DOMAIN document.events = 1 .. position - 1
      /\ \A k, l \in DOMAIN document.events : k # l => k < l \/ l < k
  BY EventsAreNumbered DEF CodecInv, InspectionInv
<1>1. /\ \A k \in DOMAIN document.events : Harmless(document.events[k])
      /\ \A k, l \in DOMAIN document.events : Starts(k) /\ Starts(l) => k = l
  BY <1>0 DEF CodecInv, InspectionInv
<1>2. error \in {"DuplicateKeyError", "ConstructorError"}
  BY <1>1 DEF LoadErrors, Harmless, Starts
<1>3. CASE error = "DuplicateKeyError"
  <2>1. SharedKey(document.events)
    BY <1>3 DEF LoadErrors
  <2>2. Dialect!Has("duplicate_key")
    BY <2>1, <1>0 DEF SharedKey, Dialect!Has, Dialect!At, Dialect!EventAt, ANCHORABLE, Dialect!ANCHORABLE
  <2> QED  BY <2>2, <1>3 DEF handled, Hazards
<1>4. CASE error = "ConstructorError"
  <2>1. \E k \in DOMAIN document.events :
          document.events[k].kind \in ANCHORABLE /\ document.events[k].text = UNKNOWN_TAG
    BY <1>4 DEF LoadErrors, Values
  <2>2. Dialect!Has("malformed")
    BY <2>1 DEF Dialect!Has, Dialect!At, Dialect!EventAt, ANCHORABLE, Dialect!ANCHORABLE,
                UNKNOWN_TAG, Dialect!UNKNOWN_TAG
  <2> QED  BY <2>2, <1>4 DEF handled, Hazards
<1> QED  BY <1>2, <1>3, <1>4

\* A load without errors has none of the hazards an error or a guard tells of.
LEMMA NoErrorNoHazard ==
  ASSUME CodecInv, pc = "load", LoadErrors(document.events) = {},
         NEW hazard \in Hazards \ {"not_a_mapping"}
  PROVE  ~Dialect!Has(hazard)
<1>0. /\ DOMAIN document.events = 1 .. position - 1
      /\ \A k, l \in DOMAIN document.events : k < l => k # l
  BY EventsAreNumbered DEF CodecInv, InspectionInv
<1>1. /\ \A k \in DOMAIN document.events : Harmless(document.events[k])
      /\ \A k, l \in DOMAIN document.events : Starts(k) /\ Starts(l) => k = l
      /\ document.bytes <= MAX_DOCUMENT_BYTES /\ ~document.bom
      /\ document.bytes \in Nat /\ MAX_DOCUMENT_BYTES \in Nat
  BY <1>0, EventsAreNumbered, CodecAssumption DEF CodecInv, InspectionInv, CodecAssumption
<1>2. ~SharedKey(document.events)
  BY DEF LoadErrors
<1>3. \A k \in DOMAIN document.events :
        ~(document.events[k].kind \in ANCHORABLE /\ document.events[k].text = UNKNOWN_TAG)
  BY DEF LoadErrors, Values
<1> USE DEF Dialect!Has, Dialect!At, Dialect!EventAt, ANCHORABLE, Dialect!ANCHORABLE
<1>4. CASE hazard = "oversize"
  BY <1>1, <1>4
<1>9. CASE hazard = "bom"
  BY <1>1, <1>9, Zenon
<1>5. CASE hazard = "multi_document"
  BY <1>0, <1>1, <1>5 DEF Starts
<1>6. CASE hazard \in {"anchor_alias", "encoding"}
  BY <1>1, <1>6 DEF Harmless
<1>7. CASE hazard = "malformed"
  BY <1>1, <1>3, <1>7 DEF Harmless, UNKNOWN_TAG, Dialect!UNKNOWN_TAG
<1>8. CASE hazard = "duplicate_key"
  BY <1>0, <1>2, <1>8 DEF SharedKey
<1> QED  BY <1>9, <1>4, <1>5, <1>6, <1>7, <1>8 DEF Hazards

\* The root is refused when it is neither a mapping nor null.
LEMMA RootChecked ==
  {ValueOf(e) : e \in Root(document.events)} \subseteq {Null, Block} <=> ~Dialect!Has("not_a_mapping")
<1> DEFINE IsRoot(e) == e.kind \in ANCHORABLE /\ e.path = <<>>
           Fine(e) == e.kind = "mapping_start" \/ (e.kind = "scalar" /\ e.text = "null")
<1>1. \A e \in Root(document.events) : ValueOf(e) \in {Null, Block} <=> Fine(e)
  BY Construction DEF Root, Values, ValueOf, ANCHORABLE, Null, Block, List
<1>2. Root(document.events) = {document.events[k] : k \in {l \in DOMAIN document.events : IsRoot(document.events[l])}}
  BY DEF Root, Values
<1>3. (\A e \in Root(document.events) : Fine(e)) <=> ~Dialect!Has("not_a_mapping")
  BY <1>2 DEF Dialect!Has, Dialect!At, Dialect!EventAt, ANCHORABLE, Dialect!ANCHORABLE
<1> QED  BY <1>1, <1>3

\* Both modules give a key the same value.
LEMMA SameContent ==
  ASSUME ~SharedKey(document.events)
  PROVE  Mapping(document.events) = Dialect!Content
<1> DEFINE E(k) == Dialect!EventAt(k)
           K == {k \in Dialect!At(Dialect!ANCHORABLE) : E(k).path # <<>>}
           entries == {e \in Values(document.events) : e.path # <<>>}
           Value(e) == CASE e.kind = "scalar"         -> Dialect!construct(e.text)
                         [] e.kind = "mapping_start"  -> Dialect!Block
                         [] e.kind = "sequence_start" -> Dialect!List
<1>1. entries = {E(k) : k \in K}
  BY DEF Values, Dialect!At, Dialect!EventAt, ANCHORABLE, Dialect!ANCHORABLE
<1>2. {e.path : e \in entries} = {E(k).path : k \in K}
  BY <1>1
<1>3. \A e \in entries : ValueOf(e) = Value(e)
  BY Construction DEF Values, ValueOf, ANCHORABLE, Block, List, Dialect!Block, Dialect!List
<1>4. ASSUME NEW path \in {E(k).path : k \in K}
      PROVE  (CHOOSE e \in entries : e.path = path) = E(CHOOSE k \in K : E(k).path = path)
  <2> DEFINE k0 == CHOOSE k \in K : E(k).path = path
             e0 == CHOOSE e \in entries : e.path = path
  <2>1. k0 \in K /\ E(k0).path = path
    OBVIOUS
  <2>2. e0 \in entries /\ e0.path = path
    BY <2>1, <1>1
  <2>3. PICK k \in K : e0 = E(k)
    BY <2>2, <1>1
  <2>4. k = k0
    BY <2>1, <2>2, <2>3 DEF SharedKey, Dialect!At, Dialect!EventAt, ANCHORABLE, Dialect!ANCHORABLE
  <2> QED  BY <2>3, <2>4
<1>5. Dialect!Content = [path \in {E(k).path : k \in K} |-> Value(E(CHOOSE k \in K : E(k).path = path))]
  BY DEF Dialect!Content
<1>6. Mapping(document.events) =
        [path \in {e.path : e \in entries} |-> ValueOf(CHOOSE e \in entries : e.path = path)]
  BY DEF Mapping
<1>7. ASSUME NEW path \in {E(k).path : k \in K}
      PROVE  ValueOf(CHOOSE e \in entries : e.path = path) = Value(E(CHOOSE k \in K : E(k).path = path))
  <2> DEFINE e0 == CHOOSE e \in entries : e.path = path
  <2>1. e0 \in entries
    BY <1>2
  <2>2. e0 = E(CHOOSE k \in K : E(k).path = path)
    BY <1>4
  <2> HIDE DEF e0, Value, entries, E, K
  <2>3. ValueOf(e0) = Value(e0)
    BY <2>1, <1>3
  <2>4. Value(e0) = Value(E(CHOOSE k \in K : E(k).path = path))
    BY <2>2
  <2> QED  BY <2>3, <2>4 DEF e0
<1> DEFINE Paths == {E(k).path : k \in K}
           f(path) == ValueOf(CHOOSE e \in entries : e.path = path)
           g(path) == Value(E(CHOOSE k \in K : E(k).path = path))
<1>8. Mapping(document.events) = [path \in Paths |-> f(path)]
  BY <1>2, <1>6
<1>9. Dialect!Content = [path \in Paths |-> g(path)]
  BY <1>5
<1>10. \A path \in Paths : f(path) = g(path)
  BY <1>7
<1> HIDE DEF Paths, f, g
<1> QED  BY <1>8, <1>9, <1>10

-----------------------------------------------------------------------------
\* Decoding, in as many steps as it takes, does what the dialect does in one:
\* it never returns anything but what a document without hazards spells out,
\* and never refuses a document, nor fails with another exception, but for a
\* hazard that the document has (codec.decode).
THEOREM DecodingIsSafe == Spec => Dialect!Safety
<1>1. Init => Dialect!Init
  BY DEF Init, Pending, Dialect!Init
<1>2. ASSUME CodecInv, [Next]_vars
      PROVE  [Dialect!Decode]_<<document, outcome>>
  <2>1. CASE UNCHANGED vars \/ InspectionEnds
    BY <2>1 DEF vars, InspectionEnds
  <2>2. CASE GuardSizeAndEncoding
    <3>1. pc = "guard" /\ document.bytes \in Nat /\ MAX_DOCUMENT_BYTES \in Nat
      BY <1>2, <2>2, EventsAreNumbered, CodecAssumption
      DEF GuardSizeAndEncoding, CodecInv, CodecAssumption
    <3>2. CASE document.bytes > MAX_DOCUMENT_BYTES /\ Finish(Rejected("oversize"))
      <4>1. Dialect!Has("oversize")
        BY <3>2 DEF Dialect!Has
      <4> QED  BY <4>1, <3>1, <3>2, <1>2, RejectionIsAStep DEF Hazards
    <3>3. CASE document.bom /\ Finish(Rejected("bom"))
      <4>1. Dialect!Has("bom") <=> document.bom
        BY DEF Dialect!Has
      <4> QED  BY <4>1, <3>1, <3>3, <1>2, RejectionIsAStep DEF Hazards
    <3>4. CASE UNCHANGED <<document, outcome>>
      BY <3>4
    <3> QED  BY <2>2, <3>2, <3>3, <3>4 DEF GuardSizeAndEncoding
  <2>3. CASE InspectEvent
    <3> DEFINE hazard == structural_hazard(document.events[position], documents)
    <3>1. CASE hazard # None /\ Finish(Rejected(hazard))
      <4>1. pc = "inspect" /\ position <= Len(document.events)
        BY <2>3 DEF InspectEvent
      <4>2. hazard \in Hazards /\ Dialect!Has(hazard)
        BY <4>1, <3>1, <1>2, StructuralHazardIsReal
      <4> HIDE DEF hazard
      <4> QED  BY <4>1, <4>2, <3>1, <1>2, RejectionIsAStep
    <3>2. CASE UNCHANGED <<document, outcome>>
      BY <3>2
    <3> QED  BY <2>3, <3>1, <3>2 DEF InspectEvent
  <2>4. CASE Load
    <3>1. pc = "load" /\ outcome = Pending
      BY <2>4, <1>2 DEF Load, CodecInv
    <3>2. ASSUME NEW error \in LoadErrors(document.events), Finish(handled(error))
          PROVE  Dialect!Decode
      <4>1. PICK hazard \in Hazards : handled(error) = Rejected(hazard) /\ Dialect!Has(hazard)
        BY <3>1, <3>2, <1>2, LoadErrorIsReal
      <4> QED  BY <4>1, <3>1, <3>2, <1>2, RejectionIsAStep
    <3>3. ASSUME LoadErrors(document.events) = {}, Finish(root_checked(document.events))
          PROVE  Dialect!Decode
      <4>1. CASE {ValueOf(e) : e \in Root(document.events)} \subseteq {Null, Block}
        <5>1. \A hazard \in Hazards : ~Dialect!Has(hazard)
          BY <4>1, <3>1, <3>3, <1>2, RootChecked, NoErrorNoHazard
        <5>2. Mapping(document.events) = Dialect!Content
          BY <3>3, SameContent DEF LoadErrors
        <5>3. outcome' = <<"decoded", Dialect!Content>> /\ document' = document
          BY <4>1, <3>3, <5>2 DEF Finish, root_checked, Decoded
        <5> QED  BY <5>1, <5>3, <3>1 DEF Dialect!Decode, Pending, Hazards, Dialect!Hazards
      <4>2. CASE ~({ValueOf(e) : e \in Root(document.events)} \subseteq {Null, Block})
        <5>1. Dialect!Has("not_a_mapping")
          BY <4>2, RootChecked
        <5>2. Finish(Rejected("not_a_mapping"))
          BY <4>2, <3>3 DEF root_checked
        <5> QED  BY <5>1, <5>2, <3>1, <1>2, RejectionIsAStep DEF Hazards
      <4> QED  BY <4>1, <4>2
    <3> QED  BY <2>4, <3>2, <3>3 DEF Load
  <2> QED  BY <1>2, <2>1, <2>2, <2>3, <2>4 DEF Next
<1> QED  BY <1>1, <1>2, CodecInvInit, CodecInvStep, PTL DEF Spec, Dialect!Safety

-----------------------------------------------------------------------------
(* The tables of the models.                                               *)

Models == {"Charter", "ConfigBlock", "ApprovalPolicyConfig", "CarveOutRatified"}
Blocks == {"ConfigBlock", "ApprovalPolicyConfig"}

\* Every field is a scalar with the keywords of its type, or a block.
IsField(field) ==
  /\ DOMAIN field = {"type", "keywords", "model", "nullable", "required"}
  /\ field.nullable \in BOOLEAN /\ field.required \in BOOLEAN
  /\ \/ field.model \in Blocks /\ field.type = "object" /\ DOMAIN field.keywords = {}
     \/ /\ field.model = None
        /\ \/ field.type \in {"integer", "number"} /\ DOMAIN field.keywords \subseteq {"ge", "gt", "le"}
           \/ field.type = "boolean" /\ DOMAIN field.keywords = {}
           \/ field.type = "string" /\ DOMAIN field.keywords \subseteq {"enum", "minLength", "pattern"}

\* The constructors make fields.
LEMMA FieldConstructors ==
  /\ IsField(DocInt) /\ IsField(DocFloat) /\ IsField(StrictBool) /\ IsField(ShortText) /\ IsField(CarveOutIdStr)
  /\ \A names : IsField(Literal(names))
  /\ \A model \in Blocks : IsField(ModelType(model))
  /\ DocInt.type = "integer" /\ DocFloat.type = "number" /\ DocInt.model = None /\ DocFloat.model = None
  /\ ShortText.model = None /\ CarveOutIdStr.model = None
<1> USE DEF Field, NoBounds, IsField
<1>1. IsField(DocInt) /\ IsField(DocFloat) /\ IsField(StrictBool) /\ DocInt.type = "integer" /\ DocFloat.type = "number"
      /\ DocInt.model = None /\ DocFloat.model = None
  BY DEF DocInt, DocFloat, StrictBool
<1>2. IsField(ShortText) /\ IsField(CarveOutIdStr) /\ ShortText.model = None /\ CarveOutIdStr.model = None
  BY DEF ShortText, CarveOutIdStr
<1>3. \A names : IsField(Literal(names))
  BY DEF Literal
<1>4. \A model \in Blocks : IsField(ModelType(model))
  BY DEF ModelType
<1> QED  BY <1>1, <1>2, <1>3, <1>4

\* Whatever is declared of a field, it stays one, for the same model.
LEMMA FieldModifiers ==
  ASSUME NEW field, IsField(field)
  PROVE  /\ IsField(Nullable(field)) /\ IsField(Required(field))
         /\ Nullable(field).model = field.model /\ Required(field).model = field.model
         /\ \A bounds : field.type \in {"integer", "number"} /\ DOMAIN bounds \subseteq {"ge", "gt", "le"}
                        => IsField(Bounded(field, bounds))
BY DEF IsField, Nullable, Required, Bounded, Blocks

\* The tables have fields only, and an event's table no blocks.
LEMMA FieldTable ==
  /\ DOMAIN FIELDS = Models
  /\ \A model \in Models : \A key \in DOMAIN FIELDS[model] : IsField(FIELDS[model][key])
  /\ \A key \in DOMAIN FIELDS.CarveOutRatified : FIELDS.CarveOutRatified[key].model = None
<1>0. DOMAIN FIELDS = Models
  BY DEF FIELDS, Models
<1>1. IsField(Nullable(ModelType("ConfigBlock"))) /\ IsField(Nullable(ModelType("ApprovalPolicyConfig")))
  BY FieldConstructors, FieldModifiers DEF Blocks
<1>2. /\ IsField(Nullable(Bounded(DocInt, [ge |-> 1]))) /\ IsField(Nullable(Bounded(DocInt, [ge |-> 0])))
      /\ IsField(Nullable(Bounded(DocFloat, [gt |-> 0, le |-> 1])))
      /\ IsField(Nullable(StrictBool)) /\ IsField(Nullable(Literal({"inclusive", "exclusive"})))
  BY FieldConstructors, FieldModifiers
<1>3. /\ IsField(Required(CarveOutIdStr)) /\ IsField(Required(ShortText))
      /\ Required(CarveOutIdStr).model = None /\ Required(ShortText).model = None
  BY FieldConstructors, FieldModifiers
<1>4. \A key \in DOMAIN FIELDS.Charter : IsField(FIELDS.Charter[key])
  BY <1>1 DEF FIELDS
<1>5. \A key \in DOMAIN FIELDS.ConfigBlock : IsField(FIELDS.ConfigBlock[key])
  BY <1>1, <1>2 DEF FIELDS
<1>6. \A key \in DOMAIN FIELDS.ApprovalPolicyConfig : IsField(FIELDS.ApprovalPolicyConfig[key])
  BY <1>2 DEF FIELDS
<1>7. \A key \in DOMAIN FIELDS.CarveOutRatified :
         IsField(FIELDS.CarveOutRatified[key]) /\ FIELDS.CarveOutRatified[key].model = None
  BY <1>3 DEF FIELDS
<1> QED  BY <1>0, <1>4, <1>5, <1>6, <1>7 DEF Models

-----------------------------------------------------------------------------
(* The keys of a mapping.                                                  *)

\* A key appended to a path.
LEMMA KeyBelow ==
  ASSUME NEW S, NEW p \in Seq(S), NEW key \in S
  PROVE  /\ Append(p, key) \in Seq(S) /\ Append(p, key) # <<>>
         /\ Len(Append(p, key)) = Len(p) + 1 /\ Append(p, key)[Len(p) + 1] = key
         /\ SubSeq(Append(p, key), 1, Len(p)) = p
<1> DEFINE q == Append(p, key)
<1>1. /\ q \in Seq(S) /\ q # <<>> /\ Len(q) = Len(p) + 1
  BY AppendProperties
<1>2. q[Len(p) + 1] = key
  BY AppendProperties, Zenon
<1>3. \A i \in 1 .. Len(p) : q[i] = p[i]
  OBVIOUS
<1>4. Len(p) \in Nat
  OBVIOUS
<1> HIDE DEF q
<1>5. /\ SubSeq(q, 1, Len(p)) \in Seq(S) /\ Len(SubSeq(q, 1, Len(p))) = Len(p)
      /\ \A i \in 1 .. Len(p) : SubSeq(q, 1, Len(p))[i] = q[i]
  BY <1>1, <1>4
<1>6. SubSeq(q, 1, Len(p)) = p
  BY <1>3, <1>4, <1>5, SeqEqual
<1> QED
  BY <1>1, <1>2, <1>6 DEF q

\* The keys at a path are those that, appended to it, are in the mapping.
LEMMA KeysBelow ==
  ASSUME NEW S, NEW mapping, DOMAIN mapping \subseteq Seq(S), NEW p \in Seq(S), NEW key
  PROVE  key \in KeysAt(mapping, p) <=> Append(p, key) \in DOMAIN mapping
<1> DEFINE T == S \cup {key}
<1>0. p \in Seq(T) /\ DOMAIN mapping \subseteq Seq(T) /\ key \in T
  BY SeqMonotonic
<1> HIDE DEF T
<1>1. ASSUME key \in KeysAt(mapping, p)
      PROVE  Append(p, key) \in DOMAIN mapping
  <2>1. PICK path \in DOMAIN mapping :
          Len(path) = Len(p) + 1 /\ SubSeq(path, 1, Len(p)) = p /\ key = path[Len(path)]
    BY <1>1 DEF KeysAt
  <2>2. path \in Seq(T) /\ Len(p) \in Nat
    BY <1>0, <2>1
  <2>3. /\ Append(p, key) \in Seq(T) /\ Len(Append(p, key)) = Len(path)
        /\ Append(p, key)[Len(path)] = path[Len(path)]
    <3>1. /\ Append(p, key) \in Seq(T) /\ Len(Append(p, key)) = Len(p) + 1
          /\ Append(p, key)[Len(p) + 1] = key
      BY <1>0, KeyBelow, Zenon
    <3>2. Len(path) = Len(p) + 1 /\ key = path[Len(path)]
      BY <2>1
    <3> QED
      BY <3>1, <3>2, Zenon
  <2>4. ASSUME NEW i \in 1 .. Len(path) PROVE Append(p, key)[i] = path[i]
    <3>1. CASE i = Len(path)
      BY <2>3, <3>1
    <3>2. CASE i # Len(path)
      <4>1. i \in 1 .. Len(p)
        BY <2>1, <2>2, <3>2
      <4>2. SubSeq(path, 1, Len(p))[i] = path[i]
        BY <2>1, <2>2, <4>1
      <4>3. Append(p, key)[i] = p[i]
        BY <1>0, <4>1
      <4> QED
        BY <2>1, <4>2, <4>3, Zenon
    <3> QED
      BY <3>1, <3>2
  <2>5. Append(p, key) = path
    BY <2>2, <2>3, <2>4, SeqEqual
  <2> QED
    BY <2>1, <2>5
<1>2. ASSUME Append(p, key) \in DOMAIN mapping
      PROVE  key \in KeysAt(mapping, p)
  <2>1. /\ Len(Append(p, key)) = Len(p) + 1 /\ Append(p, key)[Len(p) + 1] = key
        /\ SubSeq(Append(p, key), 1, Len(p)) = p
    BY <1>0, KeyBelow, Zenon
  <2> DEFINE path == Append(p, key)
  <2> HIDE DEF path
  <2>2. path \in DOMAIN mapping /\ Len(path) = Len(p) + 1 /\ SubSeq(path, 1, Len(p)) = p /\ key = path[Len(path)]
    BY <1>2, <2>1 DEF path
  <2> QED
    BY <2>2 DEF KeysAt
<1> QED
  BY <1>1, <1>2

-----------------------------------------------------------------------------
(* Normalising.  Of a field's schema, only the title goes.                 *)

Stripped(schema) == [keyword \in DOMAIN schema \ {"title"} |-> schema[keyword]]
FlatKeywords == {"ge", "gt", "le", "enum", "minLength", "pattern", "type", "$ref"}
IsFlat(schema) ==
  /\ DOMAIN schema \subseteq FlatKeywords
  /\ "$ref" \in DOMAIN schema => schema["$ref"] \in Blocks
  /\ schema = [keyword \in DOMAIN schema |-> schema[keyword]]

\* The schema of a type is flat, and refers only for a block.
LEMMA TypeSchemaIsFlat ==
  ASSUME NEW field, IsField(field)
  PROVE  IsFlat(type_schema(field)) /\ ("$ref" \in DOMAIN type_schema(field) => field.model \in Blocks)
<1>1. CASE field.model # None
  <2>1. field.model \in Blocks
    BY <1>1 DEF IsField
  <2>2. type_schema(field) = With(NoBounds, "$ref", field.model)
    BY <1>1 DEF type_schema
  <2> DEFINE T == type_schema(field)
  <2>3. DOMAIN T = {"$ref"} /\ T["$ref"] = field.model
    <3>1. DOMAIN NoBounds = {}
      BY DEF NoBounds
    <3>2. DOMAIN T = DOMAIN NoBounds \cup {"$ref"}
      BY <2>2 DEF With
    <3>3. T["$ref"] = field.model
      BY <2>2 DEF With
    <3> QED  BY <3>1, <3>2, <3>3
  <2>4. T = [k \in DOMAIN T |-> T[k]]
    BY <2>2 DEF With
  <2> HIDE DEF T
  <2> QED  BY <2>1, <2>3, <2>4 DEF IsFlat, FlatKeywords, T
<1>2. CASE field.model = None
  <2>1. DOMAIN field.keywords \subseteq {"ge", "gt", "le", "enum", "minLength", "pattern"}
    BY <1>2, NoneIsNoValue, FieldTable DEF NoneIsNoValue, IsField, Blocks, Models
  <2>2. type_schema(field) = With(field.keywords, "type", field.type)
    BY <1>2 DEF type_schema
  <2> DEFINE T == type_schema(field)
  <2>3. DOMAIN T = DOMAIN field.keywords \cup {"type"}
    BY <2>2 DEF With
  <2>4. T = [k \in DOMAIN T |-> T[k]]
    BY <2>2 DEF With
  <2> HIDE DEF T
  <2> QED  BY <2>1, <2>3, <2>4 DEF IsFlat, FlatKeywords, T
<1> QED  BY <1>1, <1>2

\* A flat schema is normalised already.
LEMMA NormalisedFlat ==
  ASSUME NEW schema, IsFlat(schema)
  PROVE  normalised_type(schema) = schema /\ normalised_property(schema) = schema
<1>1. kept(DOMAIN schema, FALSE) = DOMAIN schema
  BY DEF kept, VOLATILE_KEYS, IsFlat, FlatKeywords
<1>2. \A keyword \in DOMAIN schema : keyword \notin NAME_KEYED /\ keyword # "anyOf"
  BY DEF NAME_KEYED, IsFlat, FlatKeywords
<1>3. normalised_type(schema) = [keyword \in DOMAIN schema |-> schema[keyword]]
  BY <1>1, <1>2 DEF normalised_type, normalised
<1>4. normalised_property(schema) = [keyword \in DOMAIN schema |-> schema[keyword]]
  BY <1>1, <1>2 DEF normalised_property, normalised
<1> QED  BY <1>3, <1>4 DEF IsFlat

\* So is the alternative null.
LEMMA NullIsFlat == IsFlat([type |-> "null"])
BY DEF IsFlat, FlatKeywords

\* A field's schema loses its title, and nothing else.
LEMMA NormalisedField ==
  ASSUME NEW key, NEW field, IsField(field)
  PROVE  LET schema == field_schema(key, field)
         IN  normalised_property(schema) = Stripped(schema) /\ normalised_definition(schema) = Stripped(schema)
<1> DEFINE schema == field_schema(key, field)
           T == type_schema(field)
<1>0. IsFlat(T)
  BY TypeSchemaIsFlat
<1>1. CASE field.nullable
  <2>1. schema = [anyOf |-> <<T, [type |-> "null"]>>, default |-> None, title |-> key]
    BY <1>1 DEF field_schema
  <2> HIDE DEF schema, T
  <2>2. /\ kept(DOMAIN schema, FALSE) = {"anyOf", "default"} /\ DOMAIN schema \ {"title"} = {"anyOf", "default"}
        /\ schema["anyOf"] = <<T, [type |-> "null"]>>
    BY <2>1 DEF kept, VOLATILE_KEYS
  <2>3. [k \in DOMAIN schema["anyOf"] |-> normalised_type(schema["anyOf"][k])] = schema["anyOf"]
    BY <1>0, <2>2, NormalisedFlat, NullIsFlat
  <2>4. [k \in DOMAIN schema["anyOf"] |-> normalised_property(schema["anyOf"][k])] = schema["anyOf"]
    BY <1>0, <2>2, NormalisedFlat, NullIsFlat
  <2>5. normalised_property(schema) = Stripped(schema)
    BY <2>2, <2>3 DEF normalised_property, normalised, NAME_KEYED, Stripped
  <2>6. normalised_definition(schema) = Stripped(schema)
    BY <2>2, <2>4 DEF normalised_definition, normalised, NAME_KEYED, Stripped
  <2> QED  BY <2>5, <2>6 DEF schema
<1>2. CASE ~field.nullable
  <2>1. schema = With(T, "title", key)
    BY <1>2 DEF field_schema
  <2> HIDE DEF schema, T
  <2>2. DOMAIN schema = DOMAIN T \cup {"title"}
    BY <2>1 DEF With
  <2>3. kept(DOMAIN schema, FALSE) = DOMAIN schema \ {"title"}
    BY DEF kept, VOLATILE_KEYS
  <2>4. \A keyword \in DOMAIN schema : keyword \notin NAME_KEYED /\ keyword # "anyOf"
    BY <1>0, <2>2 DEF NAME_KEYED, IsFlat, FlatKeywords
  <2>5. normalised_property(schema) = Stripped(schema)
    BY <2>3, <2>4 DEF normalised_property, normalised, Stripped
  <2>6. normalised_definition(schema) = Stripped(schema)
    BY <2>3, <2>4 DEF normalised_definition, normalised, Stripped
  <2> QED  BY <2>5, <2>6 DEF schema
<1> QED  BY <1>1, <1>2 DEF IsField

-----------------------------------------------------------------------------
(* Alike schemas accept the same mappings, however deep.  A lemma cannot   *)
(* be about every Nested at once; the three depths are therefore brought   *)
(* to one form first, in which Nested does not occur.                      *)

\* What a schema without properties says of a value and of the keys it holds,
\* met being the definitions that the value meets.
FlatMeets(schema, v, keys) ==
  /\ asserts(schema, v)
  /\ v = Block => /\ "required" \in DOMAIN schema => schema["required"] \subseteq keys
                  /\ "additionalProperties" \in DOMAIN schema => keys = {}
FieldFollows(schema, v, keys, met) ==
  FlatMeets(schema, v, keys) /\ ("$ref" \in DOMAIN schema => schema["$ref"] \in met)
FieldAccepts(schema, v, keys, met) ==
  /\ FieldFollows(schema, v, keys, met)
  /\ "anyOf" \in DOMAIN schema =>
       \E k \in DOMAIN schema["anyOf"] : FieldFollows(schema["anyOf"][k], v, keys, met)

\* The definitions that a block meets, by depth.
MetByPolicy(d, mapping, p) == {name \in DOMAIN d : meets(d[name], d, mapping, p, anything)}
MetByBlock(d, mapping, p)  == {name \in DOMAIN d : meets(d[name], d, mapping, p, accepts_in_policy)}
MetByField(d, mapping, p)  == {name \in DOMAIN d : meets(d[name], d, mapping, p, accepts_in_block)}

\* A schema of a field: without properties, with references to names.
Simple(schema, names) ==
  "properties" \notin DOMAIN schema /\ ("$ref" \in DOMAIN schema => schema["$ref"] \in names)
FieldSchema(schema, names) ==
  /\ Simple(schema, names)
  /\ "anyOf" \in DOMAIN schema => \A k \in DOMAIN schema["anyOf"] : Simple(schema["anyOf"][k], names)

\* So read, the three depths of fields differ in what the definitions are met
\* by, and in nothing else.
LEMMA DepthsAgree ==
  ASSUME NEW d, NEW schema, FieldSchema(schema, DOMAIN d), NEW mapping, NEW p
  PROVE  LET Accepts(met) == FieldAccepts(schema, value_at(mapping, p), KeysAt(mapping, p), met)
         IN  /\ accepts_in_policy(schema, d, mapping, p) <=> Accepts(MetByPolicy(d, mapping, p))
             /\ accepts_in_block(schema, d, mapping, p) <=> Accepts(MetByBlock(d, mapping, p))
             /\ accepts_field(schema, d, mapping, p) <=> Accepts(MetByField(d, mapping, p))
<1> DEFINE v == value_at(mapping, p)
           keys == KeysAt(mapping, p)
<1>1. ASSUME NEW s, Simple(s, DOMAIN d)
      PROVE  /\ meets(s, d, mapping, p, anything) <=> FlatMeets(s, v, keys)
             /\ meets(s, d, mapping, p, accepts_in_policy) <=> FlatMeets(s, v, keys)
             /\ meets(s, d, mapping, p, accepts_in_block) <=> FlatMeets(s, v, keys)
  BY <1>1 DEF meets, describes, NoBounds, FlatMeets, Simple
<1>2. ASSUME NEW s, Simple(s, DOMAIN d)
      PROVE  /\ follows(s, d, mapping, p, anything) <=> FieldFollows(s, v, keys, MetByPolicy(d, mapping, p))
             /\ follows(s, d, mapping, p, accepts_in_policy) <=> FieldFollows(s, v, keys, MetByBlock(d, mapping, p))
             /\ follows(s, d, mapping, p, accepts_in_block) <=> FieldFollows(s, v, keys, MetByField(d, mapping, p))
  BY <1>1, <1>2 DEF follows, FieldFollows, MetByPolicy, MetByBlock, MetByField, Simple
<1> QED  BY <1>2 DEF FieldSchema, accepts, FieldAccepts, accepts_in_policy, accepts_in_block, accepts_field

\* Schemas that say the same, properties aside.
Saying == {"type", "enum", "minLength", "pattern", "required", "additionalProperties", "$ref", "anyOf"}
SaysTheSame(s, t) ==
  \A keyword \in Saying : /\ keyword \in DOMAIN s <=> keyword \in DOMAIN t
                          /\ keyword \in DOMAIN s => s[keyword] = t[keyword]
AlikeFields(s, t, names) ==
  SaysTheSame(s, t) /\ FieldSchema(s, names) /\ FieldSchema(t, names)
AlikeBlocks(s, t, names) ==
  /\ SaysTheSame(s, t) /\ "properties" \in DOMAIN s /\ "properties" \in DOMAIN t
  /\ {"$ref", "anyOf"} \cap DOMAIN s = {}
  /\ DOMAIN s["properties"] = DOMAIN t["properties"]
  /\ \A key \in DOMAIN s["properties"] : AlikeFields(s["properties"][key], t["properties"][key], names)
AlikeDefs(d, e) ==
  DOMAIN d = DOMAIN e /\ \A name \in DOMAIN d : AlikeBlocks(d[name], e[name], DOMAIN d)

\* Such schemas assert the same of a value.
LEMMA SameAsserts ==
  ASSUME NEW s, NEW t, SaysTheSame(s, t), NEW v
  PROVE  asserts(s, v) <=> asserts(t, v)
<1>1. \A keyword \in {"type", "enum", "minLength", "pattern"} :
        /\ keyword \in DOMAIN s <=> keyword \in DOMAIN t
        /\ keyword \in DOMAIN s => s[keyword] = t[keyword]
  BY DEF SaysTheSame, Saying
<1> QED  BY <1>1 DEF asserts

\* As schemas of a field they accept the same, whatever definitions are met.
LEMMA SameFields ==
  ASSUME NEW s, NEW t, SaysTheSame(s, t), NEW v, NEW keys, NEW met
  PROVE  FieldAccepts(s, v, keys, met) <=> FieldAccepts(t, v, keys, met)
<1>1. \A keyword \in {"required", "additionalProperties", "$ref", "anyOf"} :
        /\ keyword \in DOMAIN s <=> keyword \in DOMAIN t
        /\ keyword \in DOMAIN s => s[keyword] = t[keyword]
  BY DEF SaysTheSame, Saying
<1>2. FieldFollows(s, v, keys, met) <=> FieldFollows(t, v, keys, met)
  BY <1>1, SameAsserts DEF FieldFollows, FlatMeets
<1>3. /\ "anyOf" \in DOMAIN s <=> "anyOf" \in DOMAIN t
      /\ "anyOf" \in DOMAIN s => s["anyOf"] = t["anyOf"]
  BY <1>1
<1> QED  BY <1>2, <1>3 DEF FieldAccepts

\* Alike blocks are met by the same mappings, at every depth.
LEMMA SameBlocks ==
  ASSUME NEW d, NEW e, AlikeDefs(d, e), NEW a, NEW b, AlikeBlocks(a, b, DOMAIN d), NEW mapping, NEW p
  PROVE  /\ meets(a, d, mapping, p, anything) <=> meets(b, e, mapping, p, anything)
         /\ meets(a, d, mapping, p, accepts_in_policy) <=> meets(b, e, mapping, p, accepts_in_policy)
         /\ meets(a, d, mapping, p, accepts_in_block) <=> meets(b, e, mapping, p, accepts_in_block)
         /\ meets(a, d, mapping, p, accepts_field) <=> meets(b, e, mapping, p, accepts_field)
<1>0. DOMAIN d = DOMAIN e
  BY DEF AlikeDefs
<1>1. ASSUME NEW x, NEW y, AlikeBlocks(x, y, DOMAIN d), NEW q
      PROVE  /\ asserts(x, value_at(mapping, q)) <=> asserts(y, value_at(mapping, q))
             /\ "required" \in DOMAIN x <=> "required" \in DOMAIN y
             /\ "required" \in DOMAIN x => x["required"] = y["required"]
             /\ "additionalProperties" \in DOMAIN x <=> "additionalProperties" \in DOMAIN y
             /\ "properties" \in DOMAIN x /\ "properties" \in DOMAIN y
             /\ DOMAIN x["properties"] = DOMAIN y["properties"]
             /\ \A key \in DOMAIN x["properties"] :
                  AlikeFields(x["properties"][key], y["properties"][key], DOMAIN d)
  BY <1>1, SameAsserts DEF AlikeBlocks, SaysTheSame, Saying
<1>2. ASSUME NEW x, NEW y, AlikeBlocks(x, y, DOMAIN d), NEW q
      PROVE  meets(x, d, mapping, q, anything) <=> meets(y, e, mapping, q, anything)
  BY <1>1, <1>2 DEF meets, describes, anything
<1>3. ASSUME NEW s, NEW t, AlikeFields(s, t, DOMAIN d), NEW q
      PROVE  accepts_in_policy(s, d, mapping, q) <=> accepts_in_policy(t, e, mapping, q)
  <2>1. MetByPolicy(d, mapping, q) = MetByPolicy(e, mapping, q)
    BY <1>0, <1>2 DEF MetByPolicy, AlikeDefs
  <2> QED  BY <1>0, <1>3, <2>1, DepthsAgree, SameFields DEF AlikeFields
<1>4. ASSUME NEW x, NEW y, AlikeBlocks(x, y, DOMAIN d), NEW q
      PROVE  meets(x, d, mapping, q, accepts_in_policy) <=> meets(y, e, mapping, q, accepts_in_policy)
  BY <1>1, <1>3, <1>4 DEF meets, describes
<1>5. ASSUME NEW s, NEW t, AlikeFields(s, t, DOMAIN d), NEW q
      PROVE  accepts_in_block(s, d, mapping, q) <=> accepts_in_block(t, e, mapping, q)
  <2>1. MetByBlock(d, mapping, q) = MetByBlock(e, mapping, q)
    BY <1>0, <1>4 DEF MetByBlock, AlikeDefs
  <2> QED  BY <1>0, <1>5, <2>1, DepthsAgree, SameFields DEF AlikeFields
<1>6. ASSUME NEW x, NEW y, AlikeBlocks(x, y, DOMAIN d), NEW q
      PROVE  meets(x, d, mapping, q, accepts_in_block) <=> meets(y, e, mapping, q, accepts_in_block)
  BY <1>1, <1>5, <1>6 DEF meets, describes
<1>7. ASSUME NEW s, NEW t, AlikeFields(s, t, DOMAIN d), NEW q
      PROVE  accepts_field(s, d, mapping, q) <=> accepts_field(t, e, mapping, q)
  <2>1. MetByField(d, mapping, q) = MetByField(e, mapping, q)
    BY <1>0, <1>6 DEF MetByField, AlikeDefs
  <2> QED  BY <1>0, <1>7, <2>1, DepthsAgree, SameFields DEF AlikeFields
<1>8. meets(a, d, mapping, p, accepts_field) <=> meets(b, e, mapping, p, accepts_field)
  BY <1>1, <1>7 DEF meets, describes
<1> QED  BY <1>2, <1>4, <1>6, <1>8

-----------------------------------------------------------------------------
(* What is published is alike to what is emitted.                          *)

\* A field's schema is of the shape that the lemmas above are about.
LEMMA FieldShape ==
  ASSUME NEW key, NEW field, IsField(field), NEW names, field.model \in Blocks => Blocks \subseteq names
  PROVE  LET schema == field_schema(key, field)
             T == type_schema(field)
         IN  /\ FieldSchema(schema, names) /\ Simple(T, names)
             /\ field.nullable => schema["anyOf"] = <<T, [type |-> "null"]>>
             /\ field.nullable => DOMAIN schema = {"anyOf", "default", "title"}
             /\ ~field.nullable => SaysTheSame(schema, T) /\ "anyOf" \notin DOMAIN schema
<1> DEFINE schema == field_schema(key, field)
           T == type_schema(field)
           N == [type |-> "null"]
<1>1. IsFlat(T) /\ Simple(T, names)
  BY TypeSchemaIsFlat DEF IsFlat, FlatKeywords, Simple
<1>2. Simple(N, names)
  BY DEF Simple
<1>3. CASE field.nullable
  <2>1. DOMAIN schema = {"anyOf", "default", "title"} /\ schema["anyOf"] = <<T, N>>
    BY <1>3 DEF field_schema
  <2> HIDE DEF schema, T, N
  <2>2. \A k \in DOMAIN schema["anyOf"] : Simple(schema["anyOf"][k], names)
    BY <1>1, <1>2, <2>1
  <2>3. FieldSchema(schema, names)
    BY <2>1, <2>2 DEF FieldSchema, Simple
  <2> QED  BY <1>1, <1>3, <2>1, <2>3 DEF schema, T, N
<1>4. CASE ~field.nullable
  <2>1. schema = With(T, "title", key)
    BY <1>4 DEF field_schema
  <2> HIDE DEF schema, T
  <2>2. "anyOf" \notin DOMAIN T /\ "title" \notin DOMAIN T
    BY <1>1 DEF IsFlat, FlatKeywords
  <2>3. SaysTheSame(schema, T) /\ "anyOf" \notin DOMAIN schema
    BY <2>1, <2>2 DEF With, SaysTheSame, Saying
  <2>4. FieldSchema(schema, names)
    BY <1>1, <2>1, <2>3 DEF FieldSchema, Simple, With
  <2> QED  BY <1>1, <1>4, <2>3, <2>4 DEF schema, T
<1> QED  BY <1>3, <1>4 DEF IsField

\* Without its title, and whatever its default, a field's schema is alike.
LEMMA AlikeStripped ==
  ASSUME NEW key, NEW field, IsField(field), NEW names, field.model \in Blocks => Blocks \subseteq names
  PROVE  LET schema == field_schema(key, field)
         IN  /\ AlikeFields(schema, Stripped(schema), names)
             /\ \A value : AlikeFields(schema, With(Stripped(schema), "default", value), names)
<1> DEFINE schema == field_schema(key, field)
<1>1. FieldSchema(schema, names)
  BY FieldShape
<1> HIDE DEF schema
<1>2. /\ DOMAIN Stripped(schema) = DOMAIN schema \ {"title"}
      /\ \A keyword \in Saying : keyword # "title" /\ keyword # "default"
      /\ \A keyword \in DOMAIN schema \ {"title"} : Stripped(schema)[keyword] = schema[keyword]
  BY DEF Stripped, Saying
<1>3. SaysTheSame(schema, Stripped(schema))
  BY <1>2 DEF SaysTheSame
<1>4. FieldSchema(Stripped(schema), names)
  BY <1>1, <1>2 DEF FieldSchema, Simple
<1>5. ASSUME NEW value PROVE AlikeFields(schema, With(Stripped(schema), "default", value), names)
  <2>1. SaysTheSame(schema, With(Stripped(schema), "default", value))
    BY <1>2 DEF SaysTheSame, With
  <2>2. FieldSchema(With(Stripped(schema), "default", value), names)
    BY <1>1, <1>2 DEF FieldSchema, Simple, With
  <2> QED  BY <1>1, <2>1, <2>2 DEF AlikeFields
<1> QED  BY <1>1, <1>3, <1>4, <1>5 DEF AlikeFields, schema

\* Normalising a definition strips its fields, keeps their names and drops its
\* own title.
LEMMA NormalisedBlock ==
  ASSUME NEW model \in Models
  PROVE  LET block == object_schema(model)
         IN  normalised_definition(block) =
               [type |-> block.type, additionalProperties |-> block.additionalProperties,
                required |-> block.required,
                properties |-> [key \in DOMAIN block.properties |-> Stripped(block.properties[key])]]
<1> DEFINE block == object_schema(model)
           Properties == [key \in DOMAIN block.properties |-> Stripped(block.properties[key])]
<1>1. block.properties = [key \in DOMAIN FIELDS[model] |-> field_schema(key, FIELDS[model][key])]
  BY DEF object_schema
<1>2. [key \in DOMAIN block.properties |-> normalised_property(block.properties[key])] = Properties
  BY <1>1, FieldTable, NormalisedField
<1>3. DOMAIN block = {"type", "title", "additionalProperties", "required", "properties"}
  BY DEF object_schema
<1> HIDE DEF block
<1>4. kept(DOMAIN block, FALSE) = {"type", "additionalProperties", "required", "properties"}
  BY <1>3 DEF kept, VOLATILE_KEYS
<1>5. kept(DOMAIN block["properties"], TRUE) = DOMAIN block.properties
  BY DEF kept
<1> DEFINE F(keyword) == CASE keyword \in NAME_KEYED -> Properties [] OTHER -> block[keyword]
<1>6. normalised_definition(block) =
        [keyword \in {"type", "additionalProperties", "required", "properties"} |-> F(keyword)]
  BY <1>2, <1>4, <1>5 DEF normalised_definition, normalised, NAME_KEYED
<1>7. /\ F("properties") = Properties /\ F("type") = block.type /\ F("required") = block.required
      /\ F("additionalProperties") = block.additionalProperties
  BY DEF NAME_KEYED
<1> HIDE DEF F, Properties
<1>8. normalised_definition(block) =
        [type |-> block.type, additionalProperties |-> block.additionalProperties,
         required |-> block.required, properties |-> Properties]
  BY <1>6, <1>7
<1> QED  BY <1>8 DEF block, Properties

\* A definition is alike when it is normalised, and when it is stamped.
LEMMA AlikeNormalised ==
  ASSUME NEW model \in Models, NEW names,
         \A key \in DOMAIN FIELDS[model] : FIELDS[model][key].model \in Blocks => Blocks \subseteq names
  PROVE  LET block == object_schema(model)
         IN  /\ AlikeBlocks(block, normalised_definition(block), names)
             /\ AlikeBlocks(block, stamped(normalised_definition(block)), names)
<1> DEFINE block == object_schema(model)
           N == normalised_definition(block)
<1>1. /\ block.type = "object" /\ block.additionalProperties = FALSE
      /\ block.properties = [key \in DOMAIN FIELDS[model] |-> field_schema(key, FIELDS[model][key])]
      /\ DOMAIN block = {"type", "title", "additionalProperties", "required", "properties"}
  BY DEF object_schema
<1>2. N = [type |-> block.type, additionalProperties |-> block.additionalProperties,
           required |-> block.required,
           properties |-> [key \in DOMAIN block.properties |-> Stripped(block.properties[key])]]
  BY NormalisedBlock
<1>3. ASSUME NEW key \in DOMAIN block.properties
      PROVE  /\ AlikeFields(block.properties[key], Stripped(block.properties[key]), names)
             /\ \A value :
                  AlikeFields(block.properties[key], With(Stripped(block.properties[key]), "default", value), names)
  <2>1. /\ key \in DOMAIN FIELDS[model] /\ block.properties[key] = field_schema(key, FIELDS[model][key])
        /\ IsField(FIELDS[model][key])
    BY <1>1, <1>3, FieldTable
  <2> QED  BY <2>1, AlikeStripped
<1> HIDE DEF block, N
<1>4. SaysTheSame(block, N) /\ {"$ref", "anyOf"} \cap DOMAIN block = {}
  BY <1>1, <1>2 DEF SaysTheSame, Saying
<1>5. AlikeBlocks(block, N, names)
  BY <1>1, <1>2, <1>3, <1>4 DEF AlikeBlocks
<1>6. /\ DOMAIN stamped(N) = DOMAIN N \cup {"properties"}
      /\ \A keyword \in DOMAIN N \ {"properties"} : stamped(N)[keyword] = N[keyword]
      /\ stamped(N)["properties"] =
           [key \in DOMAIN N.properties |->
              IF key \in DOMAIN SCHEMA_DEFAULTS
              THEN With(N.properties[key], "default", SCHEMA_DEFAULTS[key])
              ELSE N.properties[key]]
  BY DEF stamped, With
<1>7. \A key \in DOMAIN block.properties : N.properties[key] = Stripped(block.properties[key])
  BY <1>2
<1>8. DOMAIN N.properties = DOMAIN block.properties
  BY <1>2
<1>9. \A key \in DOMAIN block.properties : AlikeFields(block.properties[key], stamped(N)["properties"][key], names)
  BY <1>3, <1>6, <1>7, <1>8
<1>10. SaysTheSame(block, stamped(N))
  BY <1>4, <1>6 DEF SaysTheSame, Saying
<1>11. AlikeBlocks(block, stamped(N), names)
  BY <1>1, <1>4, <1>6, <1>8, <1>9, <1>10 DEF AlikeBlocks
<1> QED  BY <1>5, <1>11 DEF block, N

\* What is published is alike to what is emitted, definitions included.
LEMMA Published ==
  ASSUME NEW model \in {"Charter", "CarveOutRatified"}
  PROVE  LET names == IF model = "Charter" THEN Blocks ELSE {}
         IN  /\ DOMAIN emitted(model)["$defs"] = names
             /\ AlikeBlocks(emitted(model), generate(model), names)
             /\ AlikeDefs(emitted(model)["$defs"], generate(model)["$defs"])
<1> DEFINE names == IF model = "Charter" THEN Blocks ELSE {}
           root == object_schema(model)
           E == emitted(model)
           defs == [name \in names |-> object_schema(name)]
           P == normalise(E)
<1>0. model \in Models /\ (\A name \in names : name \in Models) /\ names \subseteq Blocks
  BY DEF Models, Blocks
<1>1. E = With(root, "$defs", defs)
  BY DEF emitted, Blocks
<1>2. /\ DOMAIN root = {"type", "title", "additionalProperties", "required", "properties"}
      /\ root.properties = [key \in DOMAIN FIELDS[model] |-> field_schema(key, FIELDS[model][key])]
  BY DEF object_schema
<1>3. /\ DOMAIN E = {"type", "title", "additionalProperties", "required", "properties", "$defs"}
      /\ E["$defs"] = defs /\ \A keyword \in DOMAIN root : E[keyword] = root[keyword]
  <2> HIDE DEF E, root, defs
  <2> QED  BY <1>1, <1>2 DEF With
<1> DEFINE Properties == [key \in DOMAIN root.properties |-> Stripped(root.properties[key])]
           Defs == [name \in names |-> normalised_definition(object_schema(name))]
<1>4. [key \in DOMAIN root.properties |-> normalised_definition(root.properties[key])] = Properties
  BY <1>0, <1>2, FieldTable, NormalisedField
<1>5. [name \in DOMAIN defs |-> normalised_definition(defs[name])] = Defs
  OBVIOUS
<1> DEFINE F(keyword) == CASE keyword = "properties" -> Properties
                           [] keyword = "$defs" -> Defs
                           [] OTHER -> root[keyword]
<1> HIDE DEF E, root, defs, Properties, Defs
<1>6. P = [keyword \in {"type", "additionalProperties", "required", "properties", "$defs"} |-> F(keyword)]
  <2>1. kept(DOMAIN E, FALSE) = {"type", "additionalProperties", "required", "properties", "$defs"}
    BY <1>3 DEF kept, VOLATILE_KEYS
  <2>2. kept(DOMAIN E["properties"], TRUE) = DOMAIN root.properties /\ kept(DOMAIN E["$defs"], TRUE) = DOMAIN defs
    BY <1>2, <1>3 DEF kept
  <2> QED  BY <1>2, <1>3, <1>4, <1>5, <2>1, <2>2 DEF normalise, normalised, NAME_KEYED
<1> HIDE DEF P
<1>7. /\ DOMAIN P = {"type", "additionalProperties", "required", "properties", "$defs"}
      /\ P["properties"] = Properties /\ P["$defs"] = Defs
      /\ \A keyword \in {"type", "additionalProperties", "required"} : P[keyword] = root[keyword]
  BY <1>6
<1> DEFINE G == generate(model)
<1>8. /\ DOMAIN G = DOMAIN P
      /\ \A keyword \in {"type", "additionalProperties", "required", "properties"} : G[keyword] = P[keyword]
      /\ G["$defs"] = IF model = "Charter" THEN [name \in DOMAIN Defs |-> stamped(Defs[name])] ELSE Defs
  BY <1>7 DEF generate, stamp_effective_defaults, With, P, E
<1> HIDE DEF G
<1>9. \A key \in DOMAIN FIELDS[model] : FIELDS[model][key].model \in Blocks => Blocks \subseteq names
  BY FieldTable, NoneIsNoValue DEF NoneIsNoValue, Models, Blocks
<1>10. ASSUME NEW key \in DOMAIN root.properties
       PROVE  AlikeFields(root.properties[key], Properties[key], names)
  <2>1. /\ key \in DOMAIN FIELDS[model] /\ root.properties[key] = field_schema(key, FIELDS[model][key])
        /\ IsField(FIELDS[model][key])
    BY <1>0, <1>2, <1>10, FieldTable
  <2>2. AlikeFields(root.properties[key], Stripped(root.properties[key]), names)
    BY <1>9, <2>1, AlikeStripped
  <2> QED  BY <2>2 DEF Properties
<1>11. AlikeBlocks(E, G, names)
  <2>1. SaysTheSame(E, G)
    BY <1>2, <1>3, <1>7, <1>8 DEF SaysTheSame, Saying
  <2>2. DOMAIN Properties = DOMAIN root.properties
    BY DEF Properties
  <2>3. {"$ref", "anyOf"} \cap DOMAIN E = {} /\ "properties" \in DOMAIN E /\ "properties" \in DOMAIN G
    BY <1>3, <1>7, <1>8
  <2>4. E["properties"] = root.properties /\ G["properties"] = Properties
    BY <1>2, <1>3, <1>7, <1>8
  <2> QED  BY <1>10, <2>1, <2>2, <2>3, <2>4 DEF AlikeBlocks
<1>12. ASSUME NEW name \in names
       PROVE  AlikeBlocks(defs[name], G["$defs"][name], names)
  <2>1. model = "Charter" /\ name \in Models /\ names = Blocks
    BY <1>0, <1>12
  <2>2. \A key \in DOMAIN FIELDS[name] : FIELDS[name][key].model \in Blocks => Blocks \subseteq names
    BY <2>1
  <2>3. AlikeBlocks(object_schema(name), stamped(normalised_definition(object_schema(name))), names)
    BY <2>1, <2>2, AlikeNormalised
  <2> QED  BY <1>8, <2>1, <2>3 DEF Defs, defs
<1>13. DOMAIN G["$defs"] = names /\ DOMAIN defs = names
  BY <1>8 DEF Defs, defs
<1>14. AlikeDefs(E["$defs"], G["$defs"])
  BY <1>3, <1>12, <1>13 DEF AlikeDefs
<1> QED  BY <1>3, <1>11, <1>13, <1>14 DEF E, G

\* The published schema accepts what the emitted one accepts, whatever it is.
LEMMA SameMeaning ==
  ASSUME NEW model \in {"Charter", "CarveOutRatified"}, NEW mapping
  PROVE  valid_under(generate(model), mapping) <=> valid_under(emitted(model), mapping)
<1> DEFINE a == emitted(model)
           b == generate(model)
           d == a["$defs"]
           e == b["$defs"]
<1>1. AlikeBlocks(a, b, DOMAIN d) /\ AlikeDefs(d, e)
  BY Published
<1> HIDE DEF a, b, d, e
<1>2. meets(a, d, mapping, <<>>, accepts_field) <=> meets(b, e, mapping, <<>>, accepts_field)
  BY <1>1, SameBlocks
<1>3. {"$ref", "anyOf"} \cap (DOMAIN a \cup DOMAIN b) = {}
  BY <1>1 DEF AlikeBlocks, SaysTheSame, Saying
<1>4. accepts(a, d, mapping, <<>>, accepts_field) <=> accepts(b, e, mapping, <<>>, accepts_field)
  BY <1>2, <1>3 DEF accepts, follows
<1> QED  BY <1>4 DEF valid_under, a, b, d, e

\* Normalising and stamping keep the meaning of a schema, for every document
\* (schema_export._normalise and _stamp_effective_defaults).
THEOREM PublishingKeepsTheMeaning == Spec => []NormaliseKeepsTheMeaning
<1>1. NormaliseKeepsTheMeaning
  BY SameMeaning DEF NormaliseKeepsTheMeaning
<1> QED  BY <1>1, PTL

-----------------------------------------------------------------------------
(* What the engine accepts meets the emitted schema.                       *)

\* A scalar that the engine takes has what its schema asserts.
LEMMA TakenIsAsserted ==
  ASSUME NEW field, IsField(field), field.model = None, NEW v, taken(field, v) # {}
  PROVE  asserts(type_schema(field), v) /\ v # Block
<1> DEFINE T == type_schema(field)
           keywords == field.keywords
<1>1. PICK x \in coerced(field.type, v) :
        \A keyword \in DOMAIN keywords : satisfies(keyword, keywords[keyword], x)
  BY DEF taken
<1>2. /\ DOMAIN T = DOMAIN keywords \cup {"type"} /\ T["type"] = field.type
      /\ \A keyword \in DOMAIN keywords \ {"type"} : T[keyword] = keywords[keyword]
  BY DEF type_schema, With
<1>3. None \notin Blocks
  BY NoneIsNoValue, FieldTable DEF NoneIsNoValue, Blocks, Models
<1> HIDE DEF T, keywords
<1>4. CASE field.type = "integer" /\ DOMAIN keywords \subseteq {"ge", "gt", "le"}
  <2>1. v[1] = "integer" \/ (v[1] = "number" /\ whole(v[2]))
    BY <1>1, <1>4 DEF coerced, reject_cross_type, lax_number
  <2>2. v # Block
    BY <2>1 DEF Block
  <2>3. of_type("integer", v)
    BY <2>1 DEF of_type
  <2> QED  BY <1>2, <1>4, <2>2, <2>3 DEF asserts, T
<1>5. CASE field.type = "number" /\ DOMAIN keywords \subseteq {"ge", "gt", "le"}
  <2>1. v[1] \in {"integer", "number"}
    BY <1>1, <1>5 DEF coerced, reject_cross_type, lax_number
  <2>2. v # Block
    BY <2>1 DEF Block
  <2>3. of_type("number", v)
    BY <2>1 DEF of_type
  <2> QED  BY <1>2, <1>5, <2>2, <2>3 DEF asserts, T
<1>6. CASE field.type = "boolean" /\ DOMAIN keywords = {}
  <2>1. v[1] = "boolean"
    BY <1>1, <1>6 DEF coerced
  <2>2. v # Block
    BY <2>1 DEF Block
  <2>3. of_type("boolean", v)
    BY <2>1 DEF of_type
  <2> QED  BY <1>2, <1>6, <2>2, <2>3 DEF asserts, T
<1>7. CASE field.type = "string" /\ DOMAIN keywords \subseteq {"enum", "minLength", "pattern"}
  <2>1. v[1] = "string" /\ x = v[2]
    BY <1>1, <1>7 DEF coerced
  <2>2. v # Block
    BY <2>1 DEF Block
  <2>3. of_type("string", v)
    BY <2>1 DEF of_type
  <2>4. "enum" \in DOMAIN T => v[2] \in T["enum"]
    BY <1>1, <1>2, <1>7, <2>1 DEF satisfies
  <2>5. "minLength" \in DOMAIN T => T["minLength"] = 0 \/ v[2] # "''"
    BY <1>1, <1>2, <1>7, <2>1 DEF satisfies
  <2>6. "pattern" \in DOMAIN T => matches(T["pattern"], v[2])
    BY <1>1, <1>2, <1>7, <2>1 DEF satisfies
  <2> QED  BY <1>2, <1>7, <2>1, <2>2, <2>3, <2>4, <2>5, <2>6 DEF asserts, T
<1> QED  BY <1>3, <1>4, <1>5, <1>6, <1>7 DEF IsField, keywords

\* A schema with the fields of a model, its title aside.
BlockSchema(schema, model) ==
  /\ DOMAIN schema \cap (Saying \cup {"properties"}) = {"type", "required", "additionalProperties", "properties"}
  /\ schema["type"] = "object"
  /\ schema["required"] = {key \in DOMAIN FIELDS[model] : FIELDS[model][key].required}
  /\ schema["properties"] = [key \in DOMAIN FIELDS[model] |-> field_schema(key, FIELDS[model][key])]

\* The schema of a model is one.
LEMMA ObjectIsBlock ==
  ASSUME NEW model \in Models
  PROVE  BlockSchema(object_schema(model), model)
BY DEF BlockSchema, object_schema, Saying

\* A field is accepted when its value is null, a block that meets its
\* definition, or a scalar that the engine takes.
LEMMA FieldIsAccepted ==
  ASSUME NEW key, NEW field, IsField(field), NEW v, NEW keys, NEW met,
         \/ field.nullable /\ v = Null
         \/ field.model # None /\ v = Block /\ field.model \in met
         \/ field.model = None /\ taken(field, v) # {}
  PROVE  FieldAccepts(field_schema(key, field), v, keys, met)
<1> DEFINE f == field_schema(key, field)
           T == type_schema(field)
           N == [type |-> "null"]
           names == Blocks
<1>0. None \notin Blocks
  BY NoneIsNoValue, FieldTable DEF NoneIsNoValue, Blocks, Models
<1>1. /\ FieldSchema(f, names) /\ Simple(T, names)
      /\ field.nullable => f["anyOf"] = <<T, N>>
      /\ field.nullable => DOMAIN f = {"anyOf", "default", "title"}
      /\ ~field.nullable => SaysTheSame(f, T) /\ "anyOf" \notin DOMAIN f
  BY FieldShape
<1>2. field.model \in Blocks => DOMAIN T = {"$ref"} /\ T["$ref"] = field.model
  <2>1. DOMAIN NoBounds = {}
    BY DEF NoBounds
  <2> QED  BY <1>0, <2>1 DEF type_schema, With
<1>3. field.model = None => "$ref" \notin DOMAIN T
  BY <1>0, TypeSchemaIsFlat
<1>4. field.nullable \in BOOLEAN /\ (field.model # None => field.model \in Blocks)
  BY DEF IsField
<1> HIDE DEF f, T, N, names
<1>5. ASSUME FieldFollows(T, v, keys, met)
      PROVE  FieldAccepts(f, v, keys, met)
  <2>1. CASE field.nullable
    <3>1. FieldFollows(f, v, keys, met)
      BY <1>1, <2>1 DEF FieldFollows, FlatMeets, asserts
    <3>2. 1 \in DOMAIN f["anyOf"] /\ f["anyOf"][1] = T
      BY <1>1, <2>1
    <3> QED  BY <1>5, <3>1, <3>2 DEF FieldAccepts
  <2>2. CASE ~field.nullable
    <3>1. FieldAccepts(f, v, keys, met) <=> FieldAccepts(T, v, keys, met)
      BY <1>1, <2>2, SameFields
    <3>2. "anyOf" \notin DOMAIN T
      BY <1>1, <2>2 DEF SaysTheSame, Saying
    <3> QED  BY <1>5, <3>1, <3>2 DEF FieldAccepts
  <2> QED  BY <1>4, <2>1, <2>2
<1>6. CASE field.nullable /\ v = Null
  <2>1. v # Block /\ asserts(N, v)
    BY <1>6 DEF Null, Block, asserts, of_type, N
  <2>2. FieldFollows(N, v, keys, met)
    BY <2>1 DEF FieldFollows, FlatMeets, N
  <2>3. FieldFollows(f, v, keys, met)
    BY <1>1, <1>6, <2>1 DEF FieldFollows, FlatMeets, asserts
  <2>4. 2 \in DOMAIN f["anyOf"] /\ f["anyOf"][2] = N
    BY <1>1, <1>6
  <2> QED  BY <2>2, <2>3, <2>4 DEF FieldAccepts, f
<1>7. CASE field.model # None /\ v = Block /\ field.model \in met
  <2>1. DOMAIN T = {"$ref"} /\ T["$ref"] \in met
    BY <1>2, <1>4, <1>7
  <2>2. FieldFollows(T, v, keys, met)
    BY <2>1 DEF FieldFollows, FlatMeets, asserts
  <2> QED  BY <1>5, <2>2 DEF f
<1>8. CASE field.model = None /\ taken(field, v) # {}
  <2>1. asserts(T, v) /\ v # Block
    BY <1>8, TakenIsAsserted DEF T
  <2>2. FieldFollows(T, v, keys, met)
    BY <1>3, <1>8, <2>1 DEF FieldFollows, FlatMeets
  <2> QED  BY <1>5, <2>2 DEF f
<1> QED  BY <1>6, <1>7, <1>8 DEF f

\* Definitions as they are emitted: all that a model's fields refer to.
Defines(d, model) ==
  /\ \A name \in DOMAIN d : name \in Blocks /\ d[name] = object_schema(name)
  /\ \A key \in DOMAIN FIELDS[model] : FIELDS[model][key].model \in Blocks => Blocks \subseteq DOMAIN d

\* How a key's value can be right: null, a block that meets its definition, or
\* a scalar that is taken.
Fits(model, mapping, p, key, met) ==
  LET field == FIELDS[model][key]
      v == mapping[Append(p, key)]
  IN  \/ field.nullable /\ v = Null
      \/ field.model # None /\ v = Block /\ field.model \in met
      \/ field.model = None /\ taken(field, v) # {}

\* A value that is right is accepted by its field's schema, where it is.
LEMMA FieldFits ==
  ASSUME NEW S, NEW mapping, DOMAIN mapping \subseteq Seq(S), NEW p \in Seq(S),
         NEW model \in Models, NEW d, Defines(d, model), NEW key \in DOMAIN FIELDS[model],
         Append(p, key) \in DOMAIN mapping, NEW met, Fits(model, mapping, p, key, met)
  PROVE  LET f == field_schema(key, FIELDS[model][key])
             at == Append(p, key)
         IN  /\ at \in Seq(S) /\ value_at(mapping, at) = mapping[at]
             /\ FieldSchema(f, DOMAIN d)
             /\ FieldAccepts(f, value_at(mapping, at), KeysAt(mapping, at), met)
<1> DEFINE field == FIELDS[model][key]
           at == Append(p, key)
<1>1. at \in Seq(S) /\ at # <<>>
  <2>1. key \in S \cup {key} /\ p \in Seq(S \cup {key})
    BY SeqMonotonic
  <2> QED  BY <2>1, KeyBelow
<1>2. value_at(mapping, at) = mapping[at]
  BY <1>1 DEF value_at
<1>3. IsField(field)
  BY FieldTable
<1>4. FieldSchema(field_schema(key, field), DOMAIN d)
  BY <1>3, FieldShape DEF Defines
<1>5. FieldAccepts(field_schema(key, field), mapping[at], KeysAt(mapping, at), met)
  <2> DEFINE v == mapping[at]
  <2>1. \/ field.nullable /\ v = Null
        \/ field.model # None /\ v = Block /\ field.model \in met
        \/ field.model = None /\ taken(field, v) # {}
    BY DEF Fits
  <2> HIDE DEF v, field
  <2>2. FieldAccepts(field_schema(key, field), v, KeysAt(mapping, at), met)
    BY <1>3, <2>1, FieldIsAccepted
  <2> QED  BY <2>2 DEF v, field
<1> QED  BY <1>1, <1>2, <1>4, <1>5

\* What validates meets its schema, at every depth.
LEMMA ValidMeets ==
  ASSUME NEW S, NEW mapping, DOMAIN mapping \subseteq Seq(S), NEW d,
         NEW p \in Seq(S), value_at(mapping, p) = Block, NEW model \in Models, Defines(d, model),
         NEW schema, BlockSchema(schema, model),
         fields_valid(model, mapping, p, validates_block)
  PROVE  meets(schema, d, mapping, p, accepts_field)
<1>1. \A q \in Seq(S) : \A key : key \in KeysAt(mapping, q) <=> Append(q, key) \in DOMAIN mapping
  BY KeysBelow
<1> DEFINE Here(m, s, q) ==
             m \in Models /\ Defines(d, m) /\ BlockSchema(s, m) /\ q \in Seq(S) /\ value_at(mapping, q) = Block
           Keys(m, q) ==
             /\ KeysAt(mapping, q) \subseteq DOMAIN FIELDS[m]
             /\ \A key \in DOMAIN FIELDS[m] : Append(q, key) \notin DOMAIN mapping => ~FIELDS[m][key].required
\* A block with the right keys meets its schema when its fields do.
<1>2. ASSUME NEW m, NEW s, NEW q, Here(m, s, q), Keys(m, q)
      PROVE  /\ asserts(s, value_at(mapping, q))
             /\ "required" \in DOMAIN s /\ s["required"] \subseteq KeysAt(mapping, q)
             /\ "properties" \in DOMAIN s /\ KeysAt(mapping, q) \subseteq DOMAIN s["properties"]
             /\ \A key \in KeysAt(mapping, q) :
                  /\ s["properties"][key] = field_schema(key, FIELDS[m][key])
                  /\ key \in DOMAIN FIELDS[m] /\ Append(q, key) \in DOMAIN mapping
  <2>1. /\ "type" \in DOMAIN s /\ s["type"] = "object" /\ "required" \in DOMAIN s
        /\ {"enum", "minLength", "pattern"} \cap DOMAIN s = {} /\ "properties" \in DOMAIN s
        /\ s["required"] = {key \in DOMAIN FIELDS[m] : FIELDS[m][key].required}
        /\ s["properties"] = [key \in DOMAIN FIELDS[m] |-> field_schema(key, FIELDS[m][key])]
    BY <1>2 DEF BlockSchema, Saying
  <2>2. asserts(s, value_at(mapping, q))
    BY <1>2, <2>1 DEF asserts, of_type, Block
  <2>3. s["required"] \subseteq KeysAt(mapping, q)
    BY <1>1, <1>2, <2>1
  <2>4. DOMAIN s["properties"] = DOMAIN FIELDS[m]
    BY <2>1
  <2> QED  BY <1>1, <1>2, <2>1, <2>2, <2>3, <2>4
<1>3. ASSUME NEW m, NEW s, NEW q, Here(m, s, q), Keys(m, q), NEW key \in KeysAt(mapping, q),
             NEW met, Fits(m, mapping, q, key, met)
      PROVE  LET f == s["properties"][key]
                 at == Append(q, key)
             IN  /\ at \in Seq(S) /\ value_at(mapping, at) = mapping[at]
                 /\ FieldSchema(f, DOMAIN d)
                 /\ FieldAccepts(f, value_at(mapping, at), KeysAt(mapping, at), met)
  <2>1. /\ key \in DOMAIN FIELDS[m] /\ Append(q, key) \in DOMAIN mapping
        /\ s["properties"][key] = field_schema(key, FIELDS[m][key])
    BY <1>2, <1>3
  <2>2. m \in Models /\ Defines(d, m) /\ q \in Seq(S)
    BY <1>3
  <2> HIDE DEF Here, Keys
  <2>3. LET f == field_schema(key, FIELDS[m][key])
            at == Append(q, key)
        IN  /\ at \in Seq(S) /\ value_at(mapping, at) = mapping[at]
            /\ FieldSchema(f, DOMAIN d)
            /\ FieldAccepts(f, value_at(mapping, at), KeysAt(mapping, at), met)
    BY <1>3, <2>1, <2>2, FieldFits
  <2> QED  BY <2>1, <2>3
\* The definition of a field's block is again a schema of its model.
<1>4. ASSUME NEW m, NEW s, NEW q, Here(m, s, q), Keys(m, q), NEW key \in KeysAt(mapping, q),
             FIELDS[m][key].model # None, mapping[Append(q, key)] = Block
      PROVE  LET name == FIELDS[m][key].model
             IN  name \in DOMAIN d /\ Here(name, d[name], Append(q, key))
  <2> DEFINE name == FIELDS[m][key].model
  <2>1. key \in DOMAIN FIELDS[m] /\ Append(q, key) \in DOMAIN mapping
    BY <1>2, <1>4
  <2>2. name \in Blocks /\ name \in Models
    BY <1>4, <2>1, FieldTable DEF IsField, Blocks, Models
  <2>3. Blocks \subseteq DOMAIN d /\ d[name] = object_schema(name) /\ Defines(d, name)
    BY <1>4, <2>1, <2>2 DEF Defines
  <2>4. Append(q, key) \in Seq(S) /\ value_at(mapping, Append(q, key)) = Block
    <3>1. Append(q, key) \in Seq(S)
      BY <2>1
    <3>2. Append(q, key) # <<>>
      <4>1. key \in S \cup {key} /\ q \in Seq(S \cup {key})
        BY <1>4, SeqMonotonic
      <4> QED  BY <4>1, KeyBelow
    <3> QED  BY <1>4, <3>1, <3>2 DEF value_at
  <2> QED  BY <2>2, <2>3, <2>4, ObjectIsBlock
<1> HIDE DEF Here
<1>5. ASSUME NEW m, NEW s, NEW q, Here(m, s, q), validates_policy(m, mapping, q)
      PROVE  meets(s, d, mapping, q, accepts_in_policy)
  <2>1. Keys(m, q)
    BY <1>5 DEF validates_policy, fields_valid
  <2>2. ASSUME NEW key \in KeysAt(mapping, q)
        PROVE  Fits(m, mapping, q, key, MetByPolicy(d, mapping, Append(q, key)))
    <3>1. key \in DOMAIN FIELDS[m] /\ Append(q, key) \in DOMAIN mapping
      BY <1>2, <1>5, <2>1
    <3> QED  BY <1>5, <3>1 DEF validates_policy, fields_valid, none_deeper, Fits
  <2>3. \A key \in KeysAt(mapping, q) : accepts_in_policy(s["properties"][key], d, mapping, Append(q, key))
    BY <1>3, <1>5, <2>1, <2>2, DepthsAgree
  <2> HIDE DEF Keys
  <2> QED  BY <1>2, <1>5, <2>1, <2>3 DEF meets, describes
<1>6. ASSUME NEW m, NEW s, NEW q, Here(m, s, q), validates_block(m, mapping, q)
      PROVE  meets(s, d, mapping, q, accepts_in_block)
  <2>1. Keys(m, q)
    BY <1>6 DEF validates_block, fields_valid
  <2>2. ASSUME NEW key \in KeysAt(mapping, q)
        PROVE  Fits(m, mapping, q, key, MetByBlock(d, mapping, Append(q, key)))
    <3> DEFINE at == Append(q, key)
               name == FIELDS[m][key].model
    <3>1. key \in DOMAIN FIELDS[m] /\ at \in DOMAIN mapping
      BY <1>2, <1>6, <2>1
    <3>2. name # None /\ mapping[at] = Block /\ validates_policy(name, mapping, at)
            => name \in MetByBlock(d, mapping, at)
      BY <1>4, <1>5, <1>6, <2>1, <2>2 DEF MetByBlock
    <3> QED  BY <1>6, <3>1, <3>2 DEF validates_block, fields_valid, Fits
  <2>3. \A key \in KeysAt(mapping, q) : accepts_in_block(s["properties"][key], d, mapping, Append(q, key))
    BY <1>3, <1>6, <2>1, <2>2, DepthsAgree
  <2> HIDE DEF Keys
  <2> QED  BY <1>2, <1>6, <2>1, <2>3 DEF meets, describes
<1>7. Here(model, schema, p)
  BY DEF Here
<1>8. Keys(model, p)
  BY DEF fields_valid
<1>9. ASSUME NEW key \in KeysAt(mapping, p)
      PROVE  Fits(model, mapping, p, key, MetByField(d, mapping, Append(p, key)))
  <2> DEFINE at == Append(p, key)
             name == FIELDS[model][key].model
  <2>1. key \in DOMAIN FIELDS[model] /\ at \in DOMAIN mapping
    BY <1>2, <1>7, <1>8
  <2>2. name # None /\ mapping[at] = Block /\ validates_block(name, mapping, at)
          => name \in MetByField(d, mapping, at)
    BY <1>4, <1>6, <1>7, <1>8, <1>9 DEF MetByField
  <2> QED  BY <2>1, <2>2 DEF fields_valid, Fits
<1>10. \A key \in KeysAt(mapping, p) : accepts_field(schema["properties"][key], d, mapping, Append(p, key))
  BY <1>3, <1>7, <1>8, <1>9, DepthsAgree
<1> HIDE DEF Keys
<1> QED  BY <1>2, <1>7, <1>8, <1>10 DEF meets, describes

\* The keys of a decoded mapping are paths, and so is the root's.
LEMMA DecodedPaths ==
  ASSUME NEW d \in Corpus
  PROVE  DOMAIN Mapping(d.events) \subseteq Seq(STRING)
<1> DEFINE Event == DocumentEvent(STRING, STRING)
<1>1. d.events \in Seq(Event)
  BY CodecAssumption DEF CodecAssumption
<1>2. \A e \in Event : e.path \in Seq(STRING)
  BY DEF DocumentEvent
<1> HIDE DEF Event
<1>3. \A k \in DOMAIN d.events : d.events[k] \in Event
  BY <1>1
<1>4. \A e \in Values(d.events) : e.path \in Seq(STRING)
  BY <1>2, <1>3 DEF Values
<1>5. DOMAIN Mapping(d.events) = {e.path : e \in {w \in Values(d.events) : w.path # <<>>}}
  BY DEF Mapping
<1> QED  BY <1>4, <1>5

\* What validates, the emitted schema accepts.
LEMMA EngineWithinEmitted ==
  ASSUME NEW S, NEW mapping, DOMAIN mapping \subseteq Seq(S), NEW model \in {"Charter", "CarveOutRatified"},
         validates(model, mapping)
  PROVE  valid_under(emitted(model), mapping)
<1> DEFINE names == IF model = "Charter" THEN Blocks ELSE {}
           E == emitted(model)
           d == E["$defs"]
<1>1. model \in Models
  BY DEF Models
<1>2. E = With(object_schema(model), "$defs", [name \in names |-> object_schema(name)])
  BY DEF emitted, Blocks
<1>3. BlockSchema(object_schema(model), model)
  BY <1>1, ObjectIsBlock
<1> HIDE DEF E
<1>4. BlockSchema(E, model)
  BY <1>2, <1>3 DEF BlockSchema, With, Saying
<1>5. d = [name \in names |-> object_schema(name)]
  BY <1>2 DEF With
<1>6. \A key \in DOMAIN FIELDS[model] : FIELDS[model][key].model \in Blocks => names = Blocks
  BY FieldTable, NoneIsNoValue DEF NoneIsNoValue, Models, Blocks
<1>7. names \subseteq Blocks
  OBVIOUS
<1> HIDE DEF d, names
<1>8. Defines(d, model)
  BY <1>5, <1>6, <1>7 DEF Defines
<1>9. <<>> \in Seq(S) /\ value_at(mapping, <<>>) = Block
  BY DEF value_at
<1>10. fields_valid(model, mapping, <<>>, validates_block)
  BY DEF validates
<1>11. meets(E, d, mapping, <<>>, accepts_field)
  BY <1>1, <1>4, <1>8, <1>9, <1>10, ValidMeets
<1>12. "$ref" \notin DOMAIN E /\ "anyOf" \notin DOMAIN E
  BY <1>4 DEF BlockSchema, Saying
<1>13. accepts(E, d, mapping, <<>>, accepts_field)
  BY <1>11, <1>12 DEF accepts, follows
<1> QED  BY <1>13 DEF valid_under, E, d

-----------------------------------------------------------------------------
(* What was decoded.                                                       *)

\* What is decoded is the mapping that the events spell, and it was built
\* without an error.
DecodedInv ==
  outcome[1] = "decoded" => /\ LoadErrors(document.events) = {}
                            /\ outcome[2] = Mapping(document.events)

\* Nothing is decoded at first.
LEMMA DecodedInvInit == Init => DecodedInv
BY DEF Init, DecodedInv, Pending

\* A document is decoded by a load without errors only.
LEMMA DecodedInvStep == DecodedInv /\ [Next]_vars => DecodedInv'
<1> SUFFICES ASSUME DecodedInv, [Next]_vars PROVE DecodedInv'
  OBVIOUS
<1>1. CASE UNCHANGED <<document, outcome>>
  BY <1>1 DEF DecodedInv
<1>2. ASSUME NEW result, Finish(result),
             result[1] = "decoded" =>
               Load /\ LoadErrors(document.events) = {} /\ result = Decoded(Mapping(document.events))
      PROVE  DecodedInv'
  BY <1>2 DEF Finish, DecodedInv, Decoded
<1>3. \A hazard : Rejected(hazard)[1] # "decoded"
  BY DEF Rejected
<1>4. CASE GuardSizeAndEncoding
  BY <1>1, <1>2, <1>3, <1>4 DEF GuardSizeAndEncoding
<1>5. CASE InspectEvent \/ InspectionEnds \/ UNCHANGED vars
  BY <1>1, <1>2, <1>3, <1>5 DEF InspectEvent, InspectionEnds, vars
<1>6. CASE Load
  <2>1. ASSUME NEW error \in LoadErrors(document.events), Finish(handled(error))
        PROVE  DecodedInv'
    <3>1. error \in {"DuplicateKeyError", "ConstructorError", "ComposerError", "ParserError", "ReaderError"}
      BY <2>1 DEF LoadErrors
    <3>2. handled(error)[1] # "decoded"
      BY <3>1 DEF handled, Rejected, Escaped
    <3> QED  BY <1>2, <2>1, <3>2
  <2>2. ASSUME LoadErrors(document.events) = {}, Finish(root_checked(document.events))
        PROVE  DecodedInv'
    <3>1. \/ root_checked(document.events) = Decoded(Mapping(document.events))
          \/ root_checked(document.events) = Rejected("not_a_mapping")
      BY DEF root_checked
    <3> QED  BY <1>2, <1>3, <1>6, <2>2, <3>1
  <2> QED  BY <1>6, <2>1, <2>2 DEF Load
<1> QED  BY <1>4, <1>5, <1>6 DEF Next

\* Whatever the document says, what the engine accepts of it the published
\* schema accepts as well (common.py's validators and schema_export.generate).
THEOREM EngineIsWithinSchema == Spec => []EngineWithinPublishedSchema
<1>1. CodecInv /\ DecodedInv => EngineWithinPublishedSchema
  <2> SUFFICES ASSUME CodecInv, DecodedInv, outcome[1] = "decoded",
                      NEW model \in {"Charter", "CarveOutRatified"}, validates(model, Loaded)
               PROVE  valid_under(generate(model), Loaded)
    BY DEF EngineWithinPublishedSchema
  <2>1. DOMAIN Loaded \subseteq Seq(STRING)
    BY DecodedPaths DEF CodecInv, DecodedInv, Loaded
  <2>2. valid_under(emitted(model), Loaded)
    BY <2>1, EngineWithinEmitted
  <2> QED  BY <2>2, SameMeaning
<1> QED  BY <1>1, CodecInvInit, CodecInvStep, DecodedInvInit, DecodedInvStep, PTL DEF Spec

\* A document that was decoded.
IsDecoded == CodecInv /\ DecodedInv /\ outcome[1] = "decoded"

\* Nothing that was decoded is an alias or unreadable.
LEMMA DecodedIsHarmless ==
  ASSUME IsDecoded
  PROVE  \A k \in DOMAIN document.events : Harmless(document.events[k])
<1>1. DOMAIN document.events = 1 .. position - 1
  BY EventsAreNumbered DEF IsDecoded, CodecInv, InspectionInv
<1> QED  BY <1>1 DEF IsDecoded, CodecInv, InspectionInv

\* An event with a path is the value at it.
LEMMA ValueAtPath ==
  ASSUME IsDecoded, NEW l \in DOMAIN document.events, document.events[l].path # <<>>
  PROVE  /\ document.events[l].kind \in ANCHORABLE
         /\ document.events[l].path \in DOMAIN Loaded
         /\ Loaded[document.events[l].path] = ValueOf(document.events[l])
<1> DEFINE events == document.events
           e == events[l]
           entries == {w \in Values(events) : w.path # <<>>}
           chosen == CHOOSE w \in entries : w.path = e.path
<1>1. e.kind \in ANCHORABLE \cup {"alias"}
  BY CodecAssumption DEF CodecAssumption, WellNested, IsDecoded, CodecInv
<1>2. e.kind \in ANCHORABLE
  BY <1>1, DecodedIsHarmless DEF Harmless
<1>3. e \in entries
  BY <1>2 DEF Values
<1>4. chosen \in entries /\ chosen.path = e.path
  BY <1>3
<1>5. PICK k \in DOMAIN events : chosen = events[k] /\ events[k].kind \in ANCHORABLE
  BY <1>4 DEF Values
<1>6. ~SharedKey(events)
  BY DEF IsDecoded, DecodedInv, LoadErrors
<1>7. k = l
  BY <1>2, <1>4, <1>5, <1>6 DEF SharedKey
<1>8. Loaded = [path \in {w.path : w \in entries} |-> ValueOf(CHOOSE w \in entries : w.path = path)]
  BY DEF IsDecoded, DecodedInv, Loaded, Mapping
<1>9. e.path \in DOMAIN Loaded /\ Loaded[e.path] = ValueOf(chosen)
  BY <1>3, <1>8
<1>10. chosen = e
  BY <1>5, <1>7
<1> HIDE DEF chosen
<1> QED  BY <1>2, <1>9, <1>10

\* A path of the mapping is the path of an event.
LEMMA PathHasValue ==
  ASSUME IsDecoded, NEW path \in DOMAIN Loaded
  PROVE  \E l \in DOMAIN document.events : document.events[l].path = path /\ path # <<>>
<1>1. DOMAIN Loaded = {e.path : e \in {w \in Values(document.events) : w.path # <<>>}}
  BY DEF IsDecoded, DecodedInv, Loaded, Mapping
<1> QED  BY <1>1 DEF Values

\* What has a key is a block or a list.
LEMMA HeldByBlockOrList ==
  ASSUME IsDecoded, NEW S, NEW p \in Seq(S), p # <<>>, NEW key \in S,
         NEW l \in DOMAIN document.events, document.events[l].path = Append(p, key)
  PROVE  p \in DOMAIN Loaded /\ Loaded[p] \in {Block, List}
<1>1. /\ Append(p, key) # <<>> /\ Len(Append(p, key)) = Len(p) + 1 /\ Len(p) \in Nat
      /\ SubSeq(Append(p, key), 1, Len(p)) = p
  BY KeyBelow
<1>2. Len(Append(p, key)) - 1 = Len(p)
  BY <1>1
<1>3. SubSeq(Append(p, key), 1, Len(Append(p, key)) - 1) = p
  BY <1>1, <1>2, Zenon
<1>4. PICK k \in DOMAIN document.events :
        document.events[k].kind \in {"mapping_start", "sequence_start"} /\ document.events[k].path = p
  <2> DEFINE path == document.events[l].path
  <2>1. path # <<>> /\ SubSeq(path, 1, Len(path) - 1) = p
    BY <1>1, <1>3
  <2>2. WellNested(document.events)
    BY CodecAssumption DEF CodecAssumption, IsDecoded, CodecInv
  <2>3. \E k \in DOMAIN document.events :
          /\ document.events[k].kind \in {"mapping_start", "sequence_start"}
          /\ document.events[k].path = SubSeq(path, 1, Len(path) - 1)
    BY <2>1, <2>2 DEF WellNested
  <2> HIDE DEF path
  <2> QED  BY <2>1, <2>3
<1>5. p \in DOMAIN Loaded /\ Loaded[p] = ValueOf(document.events[k])
  BY <1>4, ValueAtPath
<1> QED  BY <1>4, <1>5 DEF ValueOf

-----------------------------------------------------------------------------
(* Texts and the values read from them.                                    *)

\* The four kinds of field that a setting has.
IntegerFrom(b) == Nullable(Bounded(DocInt, [ge |-> b]))
RatioField == Nullable(Bounded(DocFloat, [gt |-> 0, le |-> 1]))
FlagField == Nullable(StrictBool)
BoundaryField == Nullable(Literal({"inclusive", "exclusive"}))

\* What a text is constructed as, and from which text a scalar came.
LEMMA ConstructedText ==
  ASSUME NEW text
  PROVE  /\ construct(text) = Null <=> text = "null"
         /\ construct(text)[1] = "boolean" => text \in {"true", "false"}
         /\ construct(text)[1] = "string" => construct(text) = String(text)
         /\ construct(text)[1] = "integer" => text \in {"-1", "0", "1", "2"}
         /\ construct(text)[1] = "number" => text \in {"2.0", "2.5", "0.5", "1.5"}
         /\ construct("true") = <<"boolean", TRUE>> /\ construct("false") = <<"boolean", FALSE>>
         /\ construct("-1") = <<"integer", -1>> /\ construct("0") = <<"integer", 0>>
         /\ construct("1") = <<"integer", 1>> /\ construct("2") = <<"integer", 2>>
         /\ construct("2.0") = <<"number", <<20, 1>>>> /\ construct("2.5") = <<"number", <<25, 1>>>>
         /\ construct("0.5") = <<"number", <<5, 1>>>> /\ construct("1.5") = <<"number", <<15, 1>>>>
<1> USE DEF construct, CORE_SCHEMA, Null, Boolean, Integer, Number, String
<1>1. CASE text \in DOMAIN CORE_SCHEMA
  BY <1>1
<1>2. CASE text \notin DOMAIN CORE_SCHEMA
  BY <1>2
<1> QED  BY <1>1, <1>2

\* The fields' own contents.
LEMMA FieldContents ==
  /\ \A b : IntegerFrom(b).type = "integer" /\ IntegerFrom(b).keywords = [ge |-> b]
  /\ RatioField.type = "number" /\ RatioField.keywords = [gt |-> 0, le |-> 1]
  /\ FlagField.type = "boolean" /\ FlagField.keywords = NoBounds
  /\ BoundaryField.type = "string" /\ BoundaryField.keywords = [enum |-> {"inclusive", "exclusive"}]
BY DEF IntegerFrom, RatioField, FlagField, BoundaryField, Nullable, Bounded, DocInt, DocFloat,
       StrictBool, Literal, Field

\* A flag is read only from true and false.
LEMMA FlagRead ==
  ASSUME NEW text, taken(FlagField, construct(text)) # {}
  PROVE  /\ value_read(FlagField, construct(text)) \in BOOLEAN
         /\ text = (IF value_read(FlagField, construct(text)) THEN "true" ELSE "false")
<1> DEFINE v == construct(text)
<1>1. v[1] = "boolean"
  BY FieldContents DEF taken, coerced
<1>2. text \in {"true", "false"} /\ v[2] \in BOOLEAN /\ text = (IF v[2] THEN "true" ELSE "false")
  <2>1. text \in {"true", "false"}
    BY <1>1, ConstructedText
  <2>2. CASE text = "true"
    <3>1. v = <<"boolean", TRUE>>
      BY <2>2, ConstructedText
    <3> HIDE DEF v
    <3>2. v[2] = TRUE
      BY <3>1
    <3> QED  BY <2>2, <3>2, Zenon
  <2>3. CASE text = "false"
    <3>1. v = <<"boolean", FALSE>>
      BY <2>3, ConstructedText
    <3> HIDE DEF v
    <3>2. v[2] = FALSE
      BY <3>1
    <3> QED  BY <2>3, <3>2, Zenon
  <2> QED  BY <2>1, <2>2, <2>3
<1>3. taken(FlagField, v) = {v[2]}
  BY <1>1, FieldContents DEF taken, coerced, NoBounds
<1>4. value_read(FlagField, v) = v[2]
  BY <1>3, FieldContents DEF value_read
<1> QED  BY <1>2, <1>4

\* A name is read as itself.
LEMMA BoundaryRead ==
  ASSUME NEW text, taken(BoundaryField, construct(text)) # {}
  PROVE  /\ value_read(BoundaryField, construct(text)) \in {"inclusive", "exclusive"}
         /\ text = value_read(BoundaryField, construct(text))
<1> DEFINE v == construct(text)
<1>1. v[1] = "string"
  BY FieldContents DEF taken, coerced
<1>2. v[2] = text
  <2>1. v = <<"string", text>>
    BY <1>1, ConstructedText, Zenon DEF String
  <2> HIDE DEF v
  <2> QED  BY <2>1
<1>3. taken(BoundaryField, v) = {text} /\ text \in {"inclusive", "exclusive"}
  <2> HIDE DEF v
  <2>1. coerced(BoundaryField.type, v) = {text}
    BY <1>1, <1>2, FieldContents DEF coerced
  <2>2. /\ DOMAIN BoundaryField.keywords = {"enum"}
        /\ satisfies("enum", BoundaryField.keywords["enum"], text) <=> text \in {"inclusive", "exclusive"}
    BY FieldContents DEF satisfies
  <2>3. taken(BoundaryField, v) # {}
    BY DEF v
  <2> QED  BY <2>1, <2>2, <2>3 DEF taken
<1>4. value_read(BoundaryField, v) = text
  BY <1>3, FieldContents DEF value_read
<1> QED  BY <1>3, <1>4

\* A number field takes one number at most.
LEMMA NumberTaken ==
  ASSUME NEW field, field.type \in {"integer", "number"}, NEW v, taken(field, v) # {}
  PROVE  /\ v[1] \in {"integer", "number"}
         /\ LET q == IF v[1] = "integer" THEN <<v[2], 0>> ELSE v[2]
            IN  /\ taken(field, v) = {q}
                /\ field.type = "integer" => whole(q)
                /\ \A keyword \in DOMAIN field.keywords : satisfies(keyword, field.keywords[keyword], q)
<1> DEFINE q == IF v[1] = "integer" THEN <<v[2], 0>> ELSE v[2]
           numbers == UNION {lax_number(w) : w \in reject_cross_type(v)}
<1>1. PICK x \in coerced(field.type, v) : TRUE
  BY DEF taken
<1>2. x \in numbers /\ (field.type = "integer" => whole(x))
  BY <1>1 DEF coerced
<1>3. v[1] \in {"integer", "number"}
  BY <1>2 DEF reject_cross_type, lax_number
<1>4. numbers = {q}
  <2>1. reject_cross_type(v) = {v}
    BY <1>3 DEF reject_cross_type
  <2>2. lax_number(v) = {q}
    BY <1>3 DEF lax_number
  <2> QED  BY <2>1, <2>2
<1> HIDE DEF q, numbers
<1>5. coerced(field.type, v) \subseteq {q} /\ (field.type = "integer" => \A y \in coerced(field.type, v) : whole(y))
  BY <1>4 DEF coerced, numbers
<1>6. taken(field, v) \subseteq {q}
  BY <1>5 DEF taken
<1>7. q \in taken(field, v)
  BY <1>6
<1> QED  BY <1>3, <1>5, <1>6, <1>7 DEF taken, q

\* The powers of ten of the numbers that a text spells.
LEMMA Powers == 10 ^ 0 = 1 /\ 10 ^ 1 = 10
OBVIOUS

\* An integer that is read is the one that is spelled, and in its bounds.
LEMMA IntegerRead ==
  ASSUME NEW b \in {0, 1}, NEW text, taken(IntegerFrom(b), construct(text)) # {}
  PROVE  LET n == value_read(IntegerFrom(b), construct(text))
         IN  n \in Nat /\ n >= b /\ text \in DOMAIN SPELLED /\ SPELLED[text] = <<n, 1>>
<1> DEFINE v == construct(text)
           field == IntegerFrom(b)
           q == IF v[1] = "integer" THEN <<v[2], 0>> ELSE v[2]
           n == value_read(field, v)
<1>1. field.type = "integer" /\ field.keywords = [ge |-> b]
  BY FieldContents
<1>2. v[1] \in {"integer", "number"} /\ taken(field, v) = {q} /\ whole(q) /\ satisfies("ge", b, q)
  <2> HIDE DEF field, v
  <2>1. "ge" \in DOMAIN field.keywords /\ field.keywords["ge"] = b
    BY <1>1
  <2>2. taken(field, v) # {}
    BY DEF field, v
  <2> QED  BY <1>1, <2>1, <2>2, NumberTaken
<1>3. n = q[1] \div 10 ^ q[2]
  <2> HIDE DEF field, v, q
  <2> QED  BY <1>1, <1>2 DEF value_read, n
<1>4. whole(q) /\ q[1] >= b * 10 ^ q[2]
  BY <1>2 DEF satisfies
<1>5. text \in {"-1", "0", "1", "2", "2.0", "2.5", "0.5", "1.5"}
  BY <1>2, ConstructedText
<1>6. ASSUME NEW i \in {-1, 0, 1, 2}, v = <<"integer", i>>
      PROVE  i >= b /\ n = i
  <2> HIDE DEF v, n
  <2>1. q[1] = i /\ q[2] = 0
    BY <1>6
  <2> HIDE DEF q
  <2>2. i >= b * 10 ^ 0 /\ n = i \div 10 ^ 0
    BY <1>3, <1>4, <2>1
  <2>3. b * 10 ^ 0 = b /\ i \div 10 ^ 0 = i
    BY Powers
  <2> QED  BY <2>2, <2>3
<1>7. ASSUME NEW i \in {20, 25, 5, 15}, v = <<"number", <<i, 1>>>>
      PROVE  i = 20 /\ n = 2
  <2> HIDE DEF v, n
  <2>1. q[1] = i /\ q[2] = 1
    BY <1>7
  <2> HIDE DEF q
  <2>2. i % 10 ^ 1 = 0 /\ n = i \div 10 ^ 1
    BY <1>3, <1>4, <2>1 DEF whole
  <2>3. i % 10 = 0 /\ n = i \div 10
    BY <2>2, Powers
  <2> QED  BY <2>3
<1> HIDE DEF n, q
<1>8. CASE text \in {"-1", "0", "1", "2"}
  <2>1. v = (CASE text = "-1" -> <<"integer", -1>> [] text = "0" -> <<"integer", 0>>
               [] text = "1" -> <<"integer", 1>> [] text = "2" -> <<"integer", 2>>)
    BY <1>8, ConstructedText
  <2> HIDE DEF v
  <2>2. CASE text = "-1"
    BY <2>1, <2>2, <1>6 DEF n
  <2>3. CASE text = "0"
    <3>1. n = 0 /\ 0 >= b
      BY <2>1, <2>3, <1>6
    <3> QED  BY <2>3, <3>1 DEF SPELLED, n, field, v
  <2>4. CASE text = "1"
    <3>1. n = 1 /\ 1 >= b
      BY <2>1, <2>4, <1>6
    <3> QED  BY <2>4, <3>1 DEF SPELLED, n, field, v
  <2>5. CASE text = "2"
    <3>1. n = 2 /\ 2 >= b
      BY <2>1, <2>5, <1>6
    <3> QED  BY <2>5, <3>1 DEF SPELLED, n, field, v
  <2> QED  BY <1>8, <2>2, <2>3, <2>4, <2>5
<1>9. CASE text \in {"2.0", "2.5", "0.5", "1.5"}
  <2>1. v = (CASE text = "2.0" -> <<"number", <<20, 1>>>> [] text = "2.5" -> <<"number", <<25, 1>>>>
               [] text = "0.5" -> <<"number", <<5, 1>>>> [] text = "1.5" -> <<"number", <<15, 1>>>>)
    BY <1>9, ConstructedText
  <2> HIDE DEF v
  <2>2. text = "2.0" /\ n = 2
    BY <1>7, <1>9, <2>1
  <2> QED  BY <2>2 DEF SPELLED, n, field, v
<1> QED  BY <1>5, <1>8, <1>9

\* A ratio that is read is the one that is spelled, and in its bounds.
LEMMA RatioRead ==
  ASSUME NEW text, taken(RatioField, construct(text)) # {}
  PROVE  LET r == value_read(RatioField, construct(text))
         IN  /\ r \in DecimalRatio /\ text \in DOMAIN SPELLED
             /\ parse_ratio(r)[1] * SPELLED[text][2] = SPELLED[text][1] * parse_ratio(r)[2]
<1> DEFINE v == construct(text)
           field == RatioField
           q == IF v[1] = "integer" THEN <<v[2], 0>> ELSE v[2]
           r == value_read(field, v)
<1>1. field.type = "number" /\ field.keywords = [gt |-> 0, le |-> 1]
  BY FieldContents
<1>2. v[1] \in {"integer", "number"} /\ taken(field, v) = {q} /\ satisfies("gt", 0, q) /\ satisfies("le", 1, q)
  <2> HIDE DEF field, v
  <2>1. /\ "gt" \in DOMAIN field.keywords /\ field.keywords["gt"] = 0
        /\ "le" \in DOMAIN field.keywords /\ field.keywords["le"] = 1
    BY <1>1
  <2>2. taken(field, v) # {}
    BY DEF field, v
  <2> QED  BY <1>1, <2>1, <2>2, NumberTaken
<1>3. r = q
  <2> HIDE DEF field, v, q
  <2> QED  BY <1>1, <1>2 DEF value_read, r
<1>4. q[1] > 0 * 10 ^ q[2] /\ q[1] <= 1 * 10 ^ q[2]
  BY <1>2 DEF satisfies
<1>5. text \in {"-1", "0", "1", "2", "2.0", "2.5", "0.5", "1.5"}
  BY <1>2, ConstructedText
<1>6. ASSUME NEW i \in {-1, 0, 1, 2}, v = <<"integer", i>>
      PROVE  i = 1 /\ r = <<1, 0>>
  <2> HIDE DEF v, r
  <2>1. q = <<i, 0>>
    BY <1>6
  <2>2. q[1] = i /\ q[2] = 0
    BY <2>1
  <2> HIDE DEF q
  <2>3. i > 0 * 10 ^ 0 /\ i <= 1 * 10 ^ 0
    BY <1>4, <2>2
  <2>4. i = 1
    BY <2>3, Powers
  <2> QED  BY <1>3, <2>1, <2>4
<1>7. ASSUME NEW i \in {20, 25, 5, 15}, v = <<"number", <<i, 1>>>>
      PROVE  i = 5 /\ r = <<5, 1>>
  <2> HIDE DEF v, r
  <2>1. q = <<i, 1>>
    BY <1>7
  <2>2. q[1] = i /\ q[2] = 1
    BY <2>1
  <2> HIDE DEF q
  <2>3. i <= 1 * 10 ^ 1
    BY <1>4, <2>2
  <2>4. i = 5
    BY <2>3, Powers
  <2> QED  BY <1>3, <2>1, <2>4
<1> HIDE DEF r, q
<1>8. CASE text \in {"-1", "0", "1", "2"}
  <2>1. v = (CASE text = "-1" -> <<"integer", -1>> [] text = "0" -> <<"integer", 0>>
               [] text = "1" -> <<"integer", 1>> [] text = "2" -> <<"integer", 2>>)
    BY <1>8, ConstructedText
  <2> HIDE DEF v
  <2>2. text = "1" /\ r = <<1, 0>>
    BY <1>6, <1>8, <2>1
  <2>3. parse_ratio(r) = <<1, 1>>
    BY <2>2, Powers DEF parse_ratio
  <2>4. r \in DecimalRatio
    <3>1. r \in Nat \X Nat /\ r[1] = 1 /\ r[2] = 0
      BY <2>2
    <3>2. 0 < r[1] /\ r[1] <= 10 ^ r[2]
      BY <3>1, Powers
    <3> QED  BY <3>1, <3>2 DEF DecimalRatio
  <2>5. text \in DOMAIN SPELLED /\ SPELLED[text] = <<1, 1>>
    BY <2>2 DEF SPELLED
  <2>6. parse_ratio(r)[1] * SPELLED[text][2] = SPELLED[text][1] * parse_ratio(r)[2]
    BY <2>3, <2>5
  <2> QED  BY <2>4, <2>5, <2>6 DEF r, field, v
<1>9. CASE text \in {"2.0", "2.5", "0.5", "1.5"}
  <2>1. v = (CASE text = "2.0" -> <<"number", <<20, 1>>>> [] text = "2.5" -> <<"number", <<25, 1>>>>
               [] text = "0.5" -> <<"number", <<5, 1>>>> [] text = "1.5" -> <<"number", <<15, 1>>>>)
    BY <1>9, ConstructedText
  <2> HIDE DEF v
  <2>2. text = "0.5" /\ r = <<5, 1>>
    BY <1>7, <1>9, <2>1
  <2>3. parse_ratio(r) = <<5, 10>>
    BY <2>2, Powers DEF parse_ratio
  <2>4. r \in DecimalRatio
    <3>1. r \in Nat \X Nat /\ r[1] = 5 /\ r[2] = 1
      BY <2>2
    <3>2. 0 < r[1] /\ r[1] <= 10 ^ r[2]
      BY <3>1, Powers
    <3> QED  BY <3>1, <3>2 DEF DecimalRatio
  <2>5. text \in DOMAIN SPELLED /\ SPELLED[text] = <<1, 2>>
    BY <2>2 DEF SPELLED
  <2>6. parse_ratio(r)[1] * SPELLED[text][2] = SPELLED[text][1] * parse_ratio(r)[2]
    BY <2>3, <2>5
  <2> QED  BY <2>4, <2>5, <2>6 DEF r, field, v
<1> QED  BY <1>5, <1>8, <1>9

\* The settings by kind, and the field of each.
Flags == {"require_review_artifact", "ledger_pr_isolation", "require_code_owner",
          "distinct_from_author", "self_ratification_allowed"}
Counts == {"density_window_days", "density_threshold", "default_carveout_budget", "min_approvals"}
Setting == CONFIG_KEYS \cup APPROVAL_POLICY_KEYS
FieldOf(key) ==
  IF key \in CONFIG_KEYS THEN FIELDS.ConfigBlock[key] ELSE FIELDS.ApprovalPolicyConfig[key]

\* Every setting is of one of four kinds.
LEMMA FieldKinds ==
  ASSUME NEW key \in Setting
  PROVE  /\ key \in Flags => FieldOf(key) = FlagField
         /\ key = "window_boundary" => FieldOf(key) = BoundaryField
         /\ key = "cumulative_ratio" => FieldOf(key) = RatioField
         /\ key \in {"density_window_days", "density_threshold"} => FieldOf(key) = IntegerFrom(1)
         /\ key \in {"default_carveout_budget", "min_approvals"} => FieldOf(key) = IntegerFrom(0)
         /\ key \in CONFIG_KEYS <=> key \notin APPROVAL_POLICY_KEYS
         /\ key \in Flags \cup Counts \cup {"window_boundary", "cumulative_ratio"}
         /\ FieldOf(key).model = None /\ IsField(FieldOf(key))
<1>1. /\ key \in CONFIG_KEYS => key \in DOMAIN FIELDS.ConfigBlock
      /\ key \in APPROVAL_POLICY_KEYS => key \in DOMAIN FIELDS.ApprovalPolicyConfig
      /\ key \in CONFIG_KEYS <=> key \notin APPROVAL_POLICY_KEYS
  BY DEF FIELDS, CONFIG_KEYS, APPROVAL_POLICY_KEYS, Setting
<1>2. IsField(FieldOf(key))
  BY <1>1, FieldTable DEF FieldOf, Models, Setting
<1>3. /\ key = "require_review_artifact" => FieldOf(key) = FlagField
      /\ key = "ledger_pr_isolation" => FieldOf(key) = FlagField
      /\ key = "window_boundary" => FieldOf(key) = BoundaryField
      /\ key = "cumulative_ratio" => FieldOf(key) = RatioField
      /\ key = "density_window_days" => FieldOf(key) = IntegerFrom(1)
      /\ key = "density_threshold" => FieldOf(key) = IntegerFrom(1)
      /\ key = "default_carveout_budget" => FieldOf(key) = IntegerFrom(0)
  BY DEF FieldOf, FIELDS, CONFIG_KEYS, FlagField, BoundaryField, RatioField, IntegerFrom
<1>4. /\ key = "require_code_owner" => FieldOf(key) = FlagField
      /\ key = "distinct_from_author" => FieldOf(key) = FlagField
      /\ key = "self_ratification_allowed" => FieldOf(key) = FlagField
      /\ key = "min_approvals" => FieldOf(key) = IntegerFrom(0)
  BY DEF FieldOf, FIELDS, CONFIG_KEYS, FlagField, IntegerFrom
<1>5. key \in Flags \cup Counts \cup {"window_boundary", "cumulative_ratio"}
  BY DEF Setting, CONFIG_KEYS, APPROVAL_POLICY_KEYS, Flags, Counts
<1>6. /\ FlagField.model = None /\ BoundaryField.model = None /\ RatioField.model = None
      /\ \A b : IntegerFrom(b).model = None
  BY DEF FlagField, BoundaryField, RatioField, IntegerFrom, Nullable, Bounded, DocInt, DocFloat, StrictBool,
         Literal, Field
<1>7. FieldOf(key).model = None
  BY <1>3, <1>4, <1>5, <1>6 DEF Flags, Counts
<1> QED  BY <1>1, <1>2, <1>3, <1>4, <1>5, <1>7 DEF Flags

\* The values a setting may have.
ValuesOf(key) ==
  CASE key \in Flags -> BOOLEAN
    [] key = "window_boundary" -> {"inclusive", "exclusive"}
    [] key = "cumulative_ratio" -> DecimalRatio
    [] key \in {"density_window_days", "density_threshold"} -> Positive
    [] key \in {"default_carveout_budget", "min_approvals"} -> Nat

\* A value says what the text says.
SaysWhat(key, text, x) ==
  CASE key \in Flags -> text = (IF x THEN "true" ELSE "false")
    [] key = "window_boundary" -> text = x
    [] key = "cumulative_ratio" ->
         LET ratio == parse_ratio(x)
         IN  text \in DOMAIN SPELLED /\ ratio[1] * SPELLED[text][2] = SPELLED[text][1] * ratio[2]
    [] OTHER -> text \in DOMAIN SPELLED /\ SPELLED[text] = <<x, 1>>

\* A setting that is read has its type, and says what the text says.
LEMMA SettingRead ==
  ASSUME NEW key \in Setting, NEW text, taken(FieldOf(key), construct(text)) # {}
  PROVE  LET x == value_read(FieldOf(key), construct(text))
         IN  x \in ValuesOf(key) /\ x # None /\ SaysWhat(key, text, x)
<1> DEFINE x == value_read(FieldOf(key), construct(text))
<1>0. /\ "window_boundary" \notin Flags \cup Counts /\ "cumulative_ratio" \notin Flags \cup Counts
      /\ Flags \cap Counts = {}
  BY DEF Flags, Counts
<1>1. CASE key \in Flags
  <2>1. x \in BOOLEAN /\ text = (IF x THEN "true" ELSE "false")
    BY <1>1, FieldKinds, FlagRead
  <2> HIDE DEF x
  <2>2. x # None
    BY <2>1, NoneIsNoValue, Zenon DEF NoneIsNoValue
  <2>3. x \in ValuesOf(key)
    <3>1. ValuesOf(key) = BOOLEAN
      BY <1>0, <1>1 DEF ValuesOf, Flags
    <3> QED  BY <2>1, <3>1, Zenon
  <2>4. SaysWhat(key, text, x)
    BY <1>0, <1>1, <2>1, Zenon DEF SaysWhat
  <2> QED  BY <2>2, <2>3, <2>4 DEF x
<1>2. CASE key = "window_boundary"
  <2>1. x \in {"inclusive", "exclusive"} /\ text = x
    BY <1>2, FieldKinds, BoundaryRead
  <2> HIDE DEF x
  <2>2. x # None
    BY <2>1, NoneIsNoValue DEF NoneIsNoValue
  <2> QED  BY <1>0, <1>2, <2>1, <2>2 DEF ValuesOf, SaysWhat, x
<1>3. CASE key = "cumulative_ratio"
  <2>1. /\ x \in DecimalRatio /\ text \in DOMAIN SPELLED
        /\ parse_ratio(x)[1] * SPELLED[text][2] = SPELLED[text][1] * parse_ratio(x)[2]
    BY <1>3, FieldKinds, RatioRead
  <2> HIDE DEF x
  <2>2. x # None
    BY <2>1, NoneIsNoValue DEF NoneIsNoValue, DecimalRatio
  <2>3. x \in ValuesOf(key)
    BY <1>0, <1>3, <2>1 DEF ValuesOf
  <2>4. SaysWhat(key, text, x)
    BY <1>0, <1>3, <2>1 DEF SaysWhat
  <2> QED  BY <2>2, <2>3, <2>4 DEF x
<1>4. CASE key \in Counts
  <2> DEFINE b == IF key \in {"density_window_days", "density_threshold"} THEN 1 ELSE 0
  <2>1. b \in {0, 1} /\ FieldOf(key) = IntegerFrom(b)
    BY <1>4, FieldKinds DEF Counts
  <2>2. x \in Nat /\ x >= b /\ text \in DOMAIN SPELLED /\ SPELLED[text] = <<x, 1>>
    BY <2>1, IntegerRead
  <2> HIDE DEF x
  <2>3. x # None
    BY <2>2, NoneIsNoValue DEF NoneIsNoValue
  <2>4. x \in ValuesOf(key)
    BY <1>0, <1>4, <2>2 DEF ValuesOf, Counts, Flags, Positive
  <2>5. SaysWhat(key, text, x)
    BY <1>0, <1>4, <2>2 DEF SaysWhat
  <2> QED  BY <2>3, <2>4, <2>5 DEF x
<1> QED  BY <1>1, <1>2, <1>3, <1>4, FieldKinds

-----------------------------------------------------------------------------
(* The settings of a charter that was decoded and accepted.                *)

\* A setting at its path: it is given when some event there says other than
\* null, and is then what that event's text is read as.
LEMMA GivenByText ==
  ASSUME IsDecoded, NEW field, IsField(field), field.model = None, NEW at, at # <<>>,
         at \in DOMAIN Loaded => Loaded[at] = Null \/ taken(field, Loaded[at]) # {}
  PROVE  /\ given(Loaded, at) <=>
              \E l \in DOMAIN document.events : document.events[l].path = at /\ document.events[l].text # "null"
         /\ \A l \in DOMAIN document.events :
              document.events[l].path = at /\ document.events[l].text # "null" =>
                Loaded[at] = construct(document.events[l].text) /\ taken(field, Loaded[at]) # {}
<1>1. taken(field, Block) = {} /\ taken(field, List) = {}
  <2>1. Block[1] = "object" /\ List[1] = "array"
    BY DEF Block, List
  <2>2. coerced(field.type, Block) = {}
    BY <2>1 DEF coerced, reject_cross_type, lax_number, IsField
  <2>3. coerced(field.type, List) = {}
    BY <2>1 DEF coerced, reject_cross_type, lax_number, IsField
  <2> QED  BY <2>2, <2>3 DEF taken
<1>2. ASSUME NEW l \in DOMAIN document.events, document.events[l].path = at
      PROVE  /\ at \in DOMAIN Loaded /\ Loaded[at] = construct(document.events[l].text)
             /\ given(Loaded, at) <=> document.events[l].text # "null"
             /\ given(Loaded, at) => taken(field, Loaded[at]) # {}
  <2> DEFINE e == document.events[l]
  <2>1. e.kind \in ANCHORABLE /\ at \in DOMAIN Loaded /\ Loaded[at] = ValueOf(e)
    BY <1>2, ValueAtPath
  <2>2. Block # Null /\ List # Null
    BY DEF Block, List, Null
  <2>3. ValueOf(e) # Block /\ ValueOf(e) # List
    BY <1>1, <2>1, <2>2
  <2>4. e.kind = "scalar"
    BY <2>1, <2>3 DEF ValueOf, ANCHORABLE
  <2>5. Loaded[at] = construct(e.text)
    BY <2>1, <2>4 DEF ValueOf
  <2>6. Loaded[at] = Null <=> e.text = "null"
    BY <2>5, ConstructedText
  <2> QED  BY <2>1, <2>5, <2>6 DEF given
<1>3. given(Loaded, at) => \E l \in DOMAIN document.events : document.events[l].path = at
  BY PathHasValue DEF given
<1> QED  BY <1>2, <1>3

\* The paths of a charter's blocks.
ConfigAt == <<"config">>
PolicyAt == <<"config", "approval_policy">>
Names == Setting \cup {"config", "approval_policy"}

\* The paths of the settings.
LEMMA Paths ==
  /\ Append(<<>>, "config") = ConfigAt /\ Append(ConfigAt, "approval_policy") = PolicyAt
  /\ ConfigAt \in Seq(Names) /\ PolicyAt \in Seq(Names) /\ ConfigAt # <<>> /\ PolicyAt # <<>>
  /\ \A key \in Names : Append(ConfigAt, key) # <<>> /\ Append(PolicyAt, key) # <<>>
  /\ \A key \in Setting :
       pointer_prefix(key) \o <<key>> = Append(IF key \in CONFIG_KEYS THEN ConfigAt ELSE PolicyAt, key)
<1>1. ConfigAt \in Seq(Names) /\ PolicyAt \in Seq(Names) /\ <<>> \in Seq(Names)
  BY DEF ConfigAt, PolicyAt, Names
<1>2. Append(<<>>, "config") = ConfigAt
  BY DEF ConfigAt
<1>3. Append(ConfigAt, "approval_policy") = PolicyAt
  <2>1. "approval_policy" \in Names
    BY DEF Names
  <2>2. /\ Append(ConfigAt, "approval_policy") \in Seq(Names)
        /\ Len(Append(ConfigAt, "approval_policy")) = Len(ConfigAt) + 1
        /\ Append(ConfigAt, "approval_policy")[Len(ConfigAt) + 1] = "approval_policy"
    BY <1>1, <2>1, KeyBelow
  <2>3. \A i \in 1 .. Len(ConfigAt) : Append(ConfigAt, "approval_policy")[i] = ConfigAt[i]
    BY <1>1
  <2>4. Len(ConfigAt) = 1 /\ ConfigAt[1] = "config" /\ Len(PolicyAt) = 2
        /\ PolicyAt[1] = "config" /\ PolicyAt[2] = "approval_policy"
    BY DEF ConfigAt, PolicyAt
  <2> DEFINE q == Append(ConfigAt, "approval_policy")
  <2>5. q \in Seq(Names) /\ Len(q) = Len(PolicyAt) /\ q[1] = PolicyAt[1] /\ q[2] = PolicyAt[2]
    BY <2>2, <2>3, <2>4
  <2> HIDE DEF q
  <2>6. \A i \in 1 .. Len(q) : q[i] = PolicyAt[i]
    BY <2>4, <2>5
  <2>7. q = PolicyAt
    BY <1>1, <2>5, <2>6, SeqEqual
  <2> QED  BY <2>7 DEF q
<1>4. \A key \in Names : Append(ConfigAt, key) # <<>> /\ Append(PolicyAt, key) # <<>>
  BY <1>1, KeyBelow
<1>5. \A key \in Names : ConfigAt \o <<key>> = Append(ConfigAt, key) /\ PolicyAt \o <<key>> = Append(PolicyAt, key)
  BY <1>1, AppendIsConcat
<1>6. \A key \in Setting : pointer_prefix(key) = IF key \in CONFIG_KEYS THEN ConfigAt ELSE PolicyAt
  BY DEF pointer_prefix, ConfigAt, PolicyAt
<1>7. \A key \in Setting :
        pointer_prefix(key) \o <<key>> = Append(IF key \in CONFIG_KEYS THEN ConfigAt ELSE PolicyAt, key)
  BY <1>5, <1>6 DEF Names
<1>8. ConfigAt # <<>> /\ PolicyAt # <<>>
  BY DEF ConfigAt, PolicyAt
<1> QED  BY <1>1, <1>2, <1>3, <1>4, <1>7, <1>8

\* A config that is given is a block that validates.
LEMMA ConfigIsBlock ==
  ASSUME validates("Charter", Loaded), ConfigAt \in DOMAIN Loaded
  PROVE  Loaded[ConfigAt] = Null \/ (Loaded[ConfigAt] = Block /\ validates_block("ConfigBlock", Loaded, ConfigAt))
<1>1. /\ "config" \in DOMAIN FIELDS.Charter /\ FIELDS["Charter"]["config"].model = "ConfigBlock"
  BY DEF FIELDS, Nullable, ModelType, Field
<1>2. "ConfigBlock" # None
  BY NoneIsNoValue, FieldTable DEF NoneIsNoValue, Models
<1>3. Append(<<>>, "config") = ConfigAt
  BY Paths
<1> QED  BY <1>1, <1>2, <1>3 DEF validates, fields_valid

\* So is the approval policy in it.
LEMMA PolicyIsBlock ==
  ASSUME validates_block("ConfigBlock", Loaded, ConfigAt), PolicyAt \in DOMAIN Loaded
  PROVE  Loaded[PolicyAt] = Null
           \/ (Loaded[PolicyAt] = Block /\ validates_policy("ApprovalPolicyConfig", Loaded, PolicyAt))
<1>1. /\ "approval_policy" \in DOMAIN FIELDS["ConfigBlock"]
      /\ FIELDS["ConfigBlock"]["approval_policy"].model = "ApprovalPolicyConfig"
  BY DEF FIELDS, Nullable, ModelType, Field
<1>2. "ApprovalPolicyConfig" # None
  BY NoneIsNoValue, FieldTable DEF NoneIsNoValue, Models
<1>3. Append(ConfigAt, "approval_policy") = PolicyAt
  BY Paths
<1> QED  BY <1>1, <1>2, <1>3 DEF validates_block, fields_valid

\* The path of the block that holds a setting, and its own.
HolderOf(key) == IF key \in CONFIG_KEYS THEN ConfigAt ELSE PolicyAt
PathOf(key) == Append(HolderOf(key), key)

\* What holds a key that the text has is a block, and validates.
LEMMA HolderIsGiven ==
  ASSUME IsDecoded, NEW p \in {ConfigAt, PolicyAt}, NEW key \in Names, Append(p, key) \in DOMAIN Loaded
  PROVE  given(Loaded, p)
<1>1. PICK l \in DOMAIN document.events : document.events[l].path = Append(p, key)
  BY PathHasValue
<1>2. p \in Seq(Names) /\ p # <<>>
  BY Paths
<1>3. p \in DOMAIN Loaded /\ Loaded[p] \in {Block, List}
  BY <1>1, <1>2, HeldByBlockOrList
<1> QED  BY <1>3 DEF given, Block, List, Null

\* What holds a setting is given, and the setting validates.
LEMMA SettingAt ==
  ASSUME IsDecoded, validates("Charter", Loaded), NEW key \in Setting
  PROVE  /\ PathOf(key) \in DOMAIN Loaded =>
              /\ given(Loaded, ConfigAt) /\ given(Loaded, HolderOf(key))
              /\ Loaded[PathOf(key)] = Null \/ taken(FieldOf(key), Loaded[PathOf(key)]) # {}
<1> SUFFICES ASSUME PathOf(key) \in DOMAIN Loaded
             PROVE  /\ given(Loaded, ConfigAt) /\ given(Loaded, HolderOf(key))
                    /\ Loaded[PathOf(key)] = Null \/ taken(FieldOf(key), Loaded[PathOf(key)]) # {}
  OBVIOUS
<1>1. given(Loaded, HolderOf(key))
  BY HolderIsGiven DEF PathOf, HolderOf, Names
<1>2. given(Loaded, ConfigAt)
  <2>1. CASE HolderOf(key) = PolicyAt
    <3>1. Append(ConfigAt, "approval_policy") \in DOMAIN Loaded /\ "approval_policy" \in Names
      BY <1>1, <2>1, Paths DEF given, Names
    <3> QED  BY <3>1, HolderIsGiven
  <2> QED  BY <1>1, <2>1 DEF HolderOf
<1>3. validates_block("ConfigBlock", Loaded, ConfigAt)
  BY <1>2, ConfigIsBlock DEF given
<1>4. FieldOf(key).model = None /\ (key \in CONFIG_KEYS <=> key \notin APPROVAL_POLICY_KEYS)
  BY FieldKinds
<1>5. /\ key \in CONFIG_KEYS => key \in DOMAIN FIELDS["ConfigBlock"]
      /\ key \in APPROVAL_POLICY_KEYS => key \in DOMAIN FIELDS["ApprovalPolicyConfig"]
  BY DEF FIELDS, CONFIG_KEYS, APPROVAL_POLICY_KEYS
<1>6. CASE key \in CONFIG_KEYS
  <2>1. FieldOf(key) = FIELDS["ConfigBlock"][key] /\ PathOf(key) = Append(ConfigAt, key)
    BY <1>6 DEF FieldOf, PathOf, HolderOf
  <2> QED  BY <1>1, <1>2, <1>3, <1>4, <1>5, <1>6, <2>1 DEF validates_block, fields_valid
<1>7. CASE key \in APPROVAL_POLICY_KEYS
  <2>1. FieldOf(key) = FIELDS["ApprovalPolicyConfig"][key] /\ PathOf(key) = Append(PolicyAt, key)
        /\ HolderOf(key) = PolicyAt
    BY <1>4, <1>7 DEF FieldOf, PathOf, HolderOf
  <2>2. validates_policy("ApprovalPolicyConfig", Loaded, PolicyAt)
    BY <1>1, <1>3, <2>1, PolicyIsBlock DEF given
  <2> QED  BY <1>1, <1>2, <1>4, <1>5, <1>7, <2>1, <2>2 DEF validates_policy, fields_valid
<1> QED  BY <1>6, <1>7 DEF Setting

\* What is read of a setting that is given.
Read(key) == value_read(FieldOf(key), Loaded[PathOf(key)])

\* A setting is given when a text other than null gives it, and is then read
\* from that text.
LEMMA ReadIsTyped ==
  ASSUME IsDecoded, validates("Charter", Loaded), NEW key \in Setting
  PROVE  /\ given(Loaded, PathOf(key)) => Read(key) \in ValuesOf(key) /\ Read(key) # None
         /\ given(Loaded, PathOf(key)) <=>
              \E l \in DOMAIN document.events :
                document.events[l].path = PathOf(key) /\ document.events[l].text # "null"
         /\ \A l \in DOMAIN document.events :
              document.events[l].path = PathOf(key) /\ document.events[l].text # "null" =>
                SaysWhat(key, document.events[l].text, Read(key))
<1>1. IsField(FieldOf(key)) /\ FieldOf(key).model = None /\ PathOf(key) # <<>>
  BY FieldKinds, Paths DEF PathOf, HolderOf, Names
<1>2. PathOf(key) \in DOMAIN Loaded =>
        Loaded[PathOf(key)] = Null \/ taken(FieldOf(key), Loaded[PathOf(key)]) # {}
  BY SettingAt
<1>3. /\ given(Loaded, PathOf(key)) <=>
           \E l \in DOMAIN document.events :
             document.events[l].path = PathOf(key) /\ document.events[l].text # "null"
      /\ \A l \in DOMAIN document.events :
           document.events[l].path = PathOf(key) /\ document.events[l].text # "null" =>
             /\ Loaded[PathOf(key)] = construct(document.events[l].text)
             /\ taken(FieldOf(key), Loaded[PathOf(key)]) # {}
  BY <1>1, <1>2, GivenByText
<1>4. ASSUME NEW l \in DOMAIN document.events,
             document.events[l].path = PathOf(key), document.events[l].text # "null"
      PROVE  /\ Read(key) \in ValuesOf(key) /\ Read(key) # None
             /\ SaysWhat(key, document.events[l].text, Read(key))
  <2>1. /\ Loaded[PathOf(key)] = construct(document.events[l].text)
        /\ taken(FieldOf(key), Loaded[PathOf(key)]) # {}
    BY <1>3, <1>4
  <2> QED  BY <2>1, SettingRead DEF Read
<1> QED  BY <1>3, <1>4

\* What is read of an approval policy is one.
LEMMA PolicyOfIsTyped ==
  ASSUME IsDecoded, validates("Charter", Loaded)
  PROVE  policy_of(Loaded, PolicyAt) \in ApprovalPolicyConfig
<1> DEFINE F == policy_of(Loaded, PolicyAt)
           names == {"min_approvals", "require_code_owner", "distinct_from_author", "self_ratification_allowed"}
<1>1. DOMAIN FIELDS.ApprovalPolicyConfig = names /\ names = APPROVAL_POLICY_KEYS
  BY DEF FIELDS, APPROVAL_POLICY_KEYS
<1>2. F = [key \in names |-> IF given(Loaded, PathOf(key)) THEN Read(key) ELSE None]
  <2>1. \A key \in names : /\ PathOf(key) = Append(PolicyAt, key)
                           /\ FIELDS.ApprovalPolicyConfig[key] = FieldOf(key)
    BY <1>1, FieldKinds DEF PathOf, HolderOf, FieldOf, Setting
  <2> QED  BY <1>1, <2>1 DEF policy_of, Read
<1>3. \A key \in names : F[key] \in ValuesOf(key) \cup {None}
  BY <1>1, <1>2, ReadIsTyped DEF Setting
<1>4. /\ ValuesOf("min_approvals") = Nat /\ ValuesOf("require_code_owner") = BOOLEAN
      /\ ValuesOf("distinct_from_author") = BOOLEAN /\ ValuesOf("self_ratification_allowed") = BOOLEAN
  BY DEF ValuesOf, Flags
<1>5. DOMAIN F = names /\ F = [key \in DOMAIN F |-> F[key]]
  BY <1>2
<1>6. /\ F["min_approvals"] \in Optional(Nat) /\ F["require_code_owner"] \in Optional(BOOLEAN)
      /\ F["distinct_from_author"] \in Optional(BOOLEAN) /\ F["self_ratification_allowed"] \in Optional(BOOLEAN)
  BY <1>3, <1>4 DEF Optional
<1> HIDE DEF F
<1> QED  BY <1>5, <1>6 DEF ApprovalPolicyConfig, F

\* What is read of a config block is one, key by key.
LEMMA BlockOfIsTyped ==
  ASSUME IsDecoded, validates("Charter", Loaded)
  PROVE  /\ block_of(Loaded, ConfigAt) \in ConfigBlock
         /\ \A key \in CONFIG_KEYS :
              block_of(Loaded, ConfigAt)[key] = IF given(Loaded, PathOf(key)) THEN Read(key) ELSE None
         /\ block_of(Loaded, ConfigAt)["approval_policy"] =
              IF given(Loaded, PolicyAt) THEN policy_of(Loaded, PolicyAt) ELSE None
<1> DEFINE F == block_of(Loaded, ConfigAt)
           names == CONFIG_KEYS \cup {"approval_policy"}
<1>1. DOMAIN FIELDS.ConfigBlock = names /\ "approval_policy" \notin CONFIG_KEYS
  BY DEF FIELDS, CONFIG_KEYS
<1>2. DOMAIN F = names /\ F = [key \in DOMAIN F |-> F[key]]
  BY <1>1 DEF block_of
<1>3. \A key \in CONFIG_KEYS : /\ PathOf(key) = Append(ConfigAt, key)
                               /\ FIELDS.ConfigBlock[key] = FieldOf(key)
  BY DEF PathOf, HolderOf, FieldOf
<1>4. \A key \in CONFIG_KEYS : F[key] = IF given(Loaded, PathOf(key)) THEN Read(key) ELSE None
  BY <1>1, <1>3 DEF block_of, Read
<1>5. F["approval_policy"] = IF given(Loaded, PolicyAt) THEN policy_of(Loaded, PolicyAt) ELSE None
  <2>1. Append(ConfigAt, "approval_policy") = PolicyAt
    BY Paths
  <2> QED  BY <1>1, <2>1 DEF block_of
<1>6. \A key \in CONFIG_KEYS : F[key] \in Optional(ValuesOf(key))
  BY <1>4, ReadIsTyped DEF Setting, Optional
<1>7. F["approval_policy"] \in Optional(ApprovalPolicyConfig)
  BY <1>5, PolicyOfIsTyped DEF Optional
<1>8. /\ ValuesOf("density_window_days") = Positive /\ ValuesOf("density_threshold") = Positive
      /\ ValuesOf("cumulative_ratio") = DecimalRatio /\ ValuesOf("default_carveout_budget") = Nat
      /\ ValuesOf("window_boundary") = {"inclusive", "exclusive"}
      /\ ValuesOf("require_review_artifact") = BOOLEAN /\ ValuesOf("ledger_pr_isolation") = BOOLEAN
  BY DEF ValuesOf, Flags
<1> HIDE DEF F
<1>9. /\ F["density_window_days"] \in Optional(Positive) /\ F["density_threshold"] \in Optional(Positive)
      /\ F["cumulative_ratio"] \in Optional(DecimalRatio) /\ F["default_carveout_budget"] \in Optional(Nat)
      /\ F["window_boundary"] \in Optional({"inclusive", "exclusive"})
      /\ F["require_review_artifact"] \in Optional(BOOLEAN) /\ F["ledger_pr_isolation"] \in Optional(BOOLEAN)
  BY <1>6, <1>8 DEF CONFIG_KEYS
<1>10. F \in ConfigBlock
  BY <1>2, <1>7, <1>9 DEF ConfigBlock, CONFIG_KEYS
<1> QED  BY <1>4, <1>5, <1>10 DEF F

\* The chain takes a setting from the config when it is given, as it was read.
LEMMA ConfigReads ==
  ASSUME IsDecoded, validates("Charter", Loaded), NEW key \in Setting, NEW profile
  PROVE  LET resolved == provenance_of(config_of(Loaded), profile)[key]
         IN  /\ resolved.source = EXPLICIT_CONFIG <=> given(Loaded, PathOf(key))
             /\ given(Loaded, PathOf(key)) => resolved.value = Read(key)
<1> DEFINE c == config_of(Loaded)
           preset == PROFILES[profile].preset
           resolved == provenance_of(c, profile)[key]
           g == given(Loaded, PathOf(key))
<1>1. /\ g => given(Loaded, ConfigAt) /\ given(Loaded, HolderOf(key)) /\ Read(key) # None
  BY SettingAt, ReadIsTyped DEF given
<1>2. c = IF given(Loaded, ConfigAt) THEN block_of(Loaded, ConfigAt) ELSE None
  BY DEF config_of, ConfigAt
<1>3. given(Loaded, ConfigAt) =>
        /\ c # None /\ DOMAIN c = CONFIG_KEYS \cup {"approval_policy"}
        /\ \A k \in CONFIG_KEYS : c[k] = IF given(Loaded, PathOf(k)) THEN Read(k) ELSE None
        /\ c["approval_policy"] = IF given(Loaded, PolicyAt) THEN policy_of(Loaded, PolicyAt) ELSE None
  <2>1. block_of(Loaded, ConfigAt) # None
    BY BlockOfIsTyped, NoneIsNoBlock DEF NoneIsNoBlock
  <2>2. DOMAIN block_of(Loaded, ConfigAt) = CONFIG_KEYS \cup {"approval_policy"}
    BY DEF block_of, FIELDS, CONFIG_KEYS
  <2> QED  BY <1>2, <2>1, <2>2, BlockOfIsTyped
<1>4. /\ policy_of(Loaded, PolicyAt) # None
      /\ DOMAIN policy_of(Loaded, PolicyAt) = APPROVAL_POLICY_KEYS
      /\ \A k \in APPROVAL_POLICY_KEYS :
           policy_of(Loaded, PolicyAt)[k] = IF given(Loaded, PathOf(k)) THEN Read(k) ELSE None
  <2>1. policy_of(Loaded, PolicyAt) # None
    BY PolicyOfIsTyped, NoneIsNoBlock DEF NoneIsNoBlock
  <2>2. DOMAIN FIELDS.ApprovalPolicyConfig = APPROVAL_POLICY_KEYS
    BY DEF FIELDS, APPROVAL_POLICY_KEYS
  <2>3. \A k \in APPROVAL_POLICY_KEYS : PathOf(k) = Append(PolicyAt, k) /\ FIELDS.ApprovalPolicyConfig[k] = FieldOf(k)
    BY FieldKinds DEF PathOf, HolderOf, FieldOf, Setting
  <2> QED  BY <2>1, <2>2, <2>3 DEF policy_of, Read
<1>5. EXPLICIT_CONFIG # PROFILE /\ EXPLICIT_CONFIG # SCHEMA_DEFAULT
  BY DEF EXPLICIT_CONFIG, PROFILE, SCHEMA_DEFAULT
<1>6. ASSUME NEW config, NEW other, NEW pointer
      PROVE  /\ resolve(key, config, other, profile, pointer).source = EXPLICIT_CONFIG <=> supplies(config, key)
             /\ supplies(config, key) => resolve(key, config, other, profile, pointer).value = config[key]
  BY <1>5 DEF resolve
<1> HIDE DEF c, preset, g
<1>7. CASE key \in CONFIG_KEYS
  <2>1. resolved = resolve(key, c, preset, profile, pointer_prefix(key))
    BY <1>7 DEF provenance_of, preset
  <2>2. supplies(c, key) <=> g
    BY <1>1, <1>2, <1>3, <1>7 DEF supplies, g
  <2>3. g => c[key] = Read(key)
    BY <1>1, <1>3, <1>7 DEF g
  <2> HIDE DEF resolved
  <2>4. (resolved.source = EXPLICIT_CONFIG <=> g) /\ (g => resolved.value = Read(key))
    BY <1>6, <2>1, <2>2, <2>3
  <2> QED  BY <2>4 DEF resolved, c, g
<1>8. CASE key \notin CONFIG_KEYS
  <2>1. resolved = resolve(key, nested(c), nested(preset), profile, pointer_prefix(key))
    BY <1>8 DEF provenance_of, preset, Setting
  <2>2. key \in APPROVAL_POLICY_KEYS /\ HolderOf(key) = PolicyAt
    BY <1>8 DEF Setting, HolderOf
  <2>3. given(Loaded, ConfigAt) /\ given(Loaded, PolicyAt) => nested(c) = policy_of(Loaded, PolicyAt)
    BY <1>3, <1>4 DEF nested, supplies
  <2>4. ~(given(Loaded, ConfigAt) /\ given(Loaded, PolicyAt)) => nested(c) = NoKeys
    BY <1>2, <1>3 DEF nested, supplies
  <2>5. DOMAIN NoKeys = {}
    BY DEF NoKeys
  <2>6. supplies(nested(c), key) <=> g
    BY <1>1, <1>4, <2>2, <2>3, <2>4, <2>5 DEF supplies, g
  <2>7. g => nested(c)[key] = Read(key)
    BY <1>1, <1>4, <2>2, <2>3 DEF g
  <2> HIDE DEF resolved
  <2>8. (resolved.source = EXPLICIT_CONFIG <=> g) /\ (g => resolved.value = Read(key))
    BY <1>6, <2>1, <2>6, <2>7
  <2> QED  BY <2>8 DEF resolved, c, g
<1> QED  BY <1>7, <1>8

\* What the engine reads of a charter it accepts is a config block as the
\* resolution of settings expects one: no count below its bound, no ratio
\* outside ]0, 1], no flag that is not a boolean (models/charter.py).
THEOREM AcceptedConfigIsTyped ==
  Spec => [](outcome[1] = "decoded" /\ validates("Charter", Loaded)
               => config_of(Loaded) \in Optional(ConfigBlock))
<1>1. ASSUME IsDecoded, validates("Charter", Loaded)
      PROVE  config_of(Loaded) \in Optional(ConfigBlock)
  BY <1>1, BlockOfIsTyped DEF config_of, ConfigAt, Optional
<1>2. CodecInv /\ DecodedInv =>
        (outcome[1] = "decoded" /\ validates("Charter", Loaded) => config_of(Loaded) \in Optional(ConfigBlock))
  BY <1>1 DEF IsDecoded
<1> QED  BY <1>2, CodecInvInit, CodecInvStep, DecodedInvInit, DecodedInvStep, PTL DEF Spec

\* A setting comes from the charter exactly when its text gives the key a value
\* other than null, and is that value as it is written, for every document and
\* every profile (codec.decode, models/charter.py and resolve_settings).
THEOREM WrittenIsResolved == Spec => []WhatIsWrittenIsResolved
<1>1. ASSUME IsDecoded, validates("Charter", Loaded), NEW profile \in ProfileNames, NEW key \in Setting
      PROVE  LET resolved == provenance_of(config_of(Loaded), profile)[key]
                 path == pointer_prefix(key) \o <<key>>
                 written == {document.events[k].text :
                               k \in {l \in DOMAIN document.events : document.events[l].path = path}} \ {"null"}
             IN  /\ resolved.source = EXPLICIT_CONFIG <=> written # {}
                 /\ \A text \in written : SaysWhat(key, text, resolved.value)
  <2> DEFINE resolved == provenance_of(config_of(Loaded), profile)[key]
             path == pointer_prefix(key) \o <<key>>
             written == {document.events[k].text :
                           k \in {l \in DOMAIN document.events : document.events[l].path = path}} \ {"null"}
  <2>1. path = PathOf(key)
    BY Paths DEF PathOf, HolderOf
  <2>2. /\ resolved.source = EXPLICIT_CONFIG <=> given(Loaded, PathOf(key))
        /\ given(Loaded, PathOf(key)) => resolved.value = Read(key)
    BY <1>1, ConfigReads
  <2> HIDE DEF resolved, path
  <2>3. written # {} <=> given(Loaded, PathOf(key))
    BY <1>1, <2>1, ReadIsTyped
  <2>4. \A text \in written : SaysWhat(key, text, Read(key))
    BY <1>1, <2>1, ReadIsTyped
  <2> HIDE DEF written
  <2>5. /\ resolved.source = EXPLICIT_CONFIG <=> written # {}
        /\ \A text \in written : SaysWhat(key, text, resolved.value)
    BY <2>2, <2>3, <2>4
  <2> QED  BY <2>5 DEF resolved, path, written
<1>2. CodecInv /\ DecodedInv => WhatIsWrittenIsResolved
  BY <1>1 DEF WhatIsWrittenIsResolved, SaysWhat, IsDecoded, Setting, Flags
<1> QED  BY <1>2, CodecInvInit, CodecInvStep, DecodedInvInit, DecodedInvStep, PTL DEF Spec
=============================================================================
