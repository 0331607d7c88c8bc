-------------------------- MODULE IntakeProperties --------------------------
(***************************************************************************)
(* What must hold of a document on its way from text to settings, beyond   *)
(* its decoding (CodecProperties): the engine's types (FieldTypes), the    *)
(* schema it publishes for them (SchemaExport) and the settings resolved   *)
(* from it (Settings).                                                     *)
(***************************************************************************)
EXTENDS CodecProperties, SchemaExport

ASSUME NoneIsNoBlock == None \notin ConfigBlock \cup ApprovalPolicyConfig

Loaded == outcome[2]

\* What the engine accepts, a validator of the published schema accepts: no
\* coercion of pydantic's is left that JSON does not have (common.py,
\* _reject_cross_type and StrictBool).
EngineWithinPublishedSchema ==
  outcome[1] = "decoded" =>
    \A model \in {"Charter", "CarveOutRatified"} :
      validates(model, Loaded) => valid_under(generate(model), Loaded)

\* Normalising the schema and stamping the defaults changes what it says of no
\* document, be it valid or not (schema_export._normalise and
\* _stamp_effective_defaults): a field named title stays a field.
NormaliseKeepsTheMeaning ==
  outcome[1] = "decoded" =>
    \A model \in {"Charter", "CarveOutRatified"} :
      valid_under(generate(model), Loaded) <=> valid_under(emitted(model), Loaded)

\* The test's claim, both ways: engine and published schema agree.
ValidatorsAgree ==
  outcome[1] = "decoded" =>
    (validates("Charter", Loaded) <=> valid_under(generate("Charter"), Loaded))

\* The quantities a text can spell.
SPELLED ==
  [text \in {"-1", "0", "1", "2", "2.0", "0.5"} |->
     CASE text = "-1"          -> <<-1, 1>>
       [] text = "0"           -> <<0, 1>>
       [] text = "1"           -> <<1, 1>>
       [] text \in {"2", "2.0"} -> <<2, 1>>
       [] text = "0.5"         -> <<1, 2>>]

\* Whatever the profile, a setting comes from the charter's config exactly when
\* the text gives its key a value other than null, and is then the value as
\* written: a boolean only if the text says true or false, a number the number
\* that is spelled, a name itself (codec.decode, models/charter.py and
\* settings.resolve_settings together).
WhatIsWrittenIsResolved ==
  outcome[1] = "decoded" /\ validates("Charter", Loaded) =>
    \A profile \in ProfileNames, key \in CONFIG_KEYS \cup APPROVAL_POLICY_KEYS :
      LET resolved == provenance_of(config_of(Loaded), profile)[key]
          path == pointer_prefix(key) \o <<key>>
          written == {document.events[k].text :
                        k \in {l \in DOMAIN document.events : document.events[l].path = path}} \ {"null"}
          flag == key \in {"require_review_artifact", "ledger_pr_isolation", "require_code_owner",
                           "distinct_from_author", "self_ratification_allowed"}
      IN  /\ resolved.source = EXPLICIT_CONFIG <=> written # {}
          /\ \A text \in written :
               CASE flag -> text = (IF resolved.value THEN "true" ELSE "false")
                 [] key = "window_boundary" -> text = resolved.value
                 [] key = "cumulative_ratio" ->
                      LET ratio == parse_ratio(resolved.value)
                      IN  text \in DOMAIN SPELLED
                            /\ ratio[1] * SPELLED[text][2] = SPELLED[text][1] * ratio[2]
                 [] OTHER -> text \in DOMAIN SPELLED /\ SPELLED[text] = <<resolved.value, 1>>
=============================================================================
