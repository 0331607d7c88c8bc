------------------------------ MODULE Settings ------------------------------
(***************************************************************************)
(* settings.py and profiles.py: every tunable resolved through the chain   *)
(* charter.yaml's config block, profile preset, schema default, with the   *)
(* layer each value came from.                                             *)
(*                                                                         *)
(* A config block has every key, None where charter.yaml omits it or sets  *)
(* it to null.  A ratio is a decimal literal <<digits, places>>, that is   *)
(* digits / 10^places.  A JSON pointer is the tuple of its segments.       *)
(***************************************************************************)
EXTENDS Integers, Sequences, Absent

EXPLICIT_CONFIG == "config"
PROFILE         == "profile"
SCHEMA_DEFAULT  == "schema_default"

CONFIG_KEYS ==
  {"density_window_days", "density_threshold", "cumulative_ratio", "default_carveout_budget",
   "window_boundary", "require_review_artifact", "ledger_pr_isolation"}
APPROVAL_POLICY_KEYS ==
  {"min_approvals", "require_code_owner", "distinct_from_author", "self_ratification_allowed"}

SCHEMA_DEFAULTS ==
  [density_window_days |-> 90, density_threshold |-> 3, cumulative_ratio |-> <<5, 1>>,
   default_carveout_budget |-> 2, window_boundary |-> "inclusive",
   require_review_artifact |-> TRUE, ledger_pr_isolation |-> TRUE,
   min_approvals |-> 1, require_code_owner |-> TRUE,
   distinct_from_author |-> TRUE, self_ratification_allowed |-> FALSE]

-----------------------------------------------------------------------------
(* Profiles are presets over the settings.                                 *)

ProfileNames == {"lite", "standard", "enterprise"}

Approvals(min, code_owner, distinct, self) ==
  [min_approvals |-> min, require_code_owner |-> code_owner,
   distinct_from_author |-> distinct, self_ratification_allowed |-> self]

Profile(level, approvals) ==
  [max_conformance_level |-> level, preset |-> [approval_policy |-> approvals]]

\* Mutant: a preset that tunes a trigger as well.
tuned_profiles ==
  [lite       |-> Profile(2, Approvals(0, FALSE, FALSE, TRUE)),
   standard   |-> Profile(3, Approvals(1, TRUE, TRUE, FALSE)),
   enterprise |-> [max_conformance_level |-> 4,
                   preset |-> [approval_policy |-> Approvals(2, TRUE, TRUE, FALSE),
                               density_threshold |-> 1]]]
PROFILES ==
  [lite       |-> Profile(2, Approvals(0, FALSE, FALSE, TRUE)),
   standard   |-> Profile(3, Approvals(1, TRUE, TRUE, FALSE)),
   enterprise |-> Profile(4, Approvals(2, TRUE, TRUE, FALSE))]

-----------------------------------------------------------------------------
(* What charter.yaml may say (ConfigBlock and ApprovalPolicyConfig).       *)

Optional(S) == S \cup {None}
Positive == Nat \ {0}

\* Field(gt=0, le=1)
DecimalRatio == {r \in Nat \X Nat : 0 < r[1] /\ r[1] <= 10 ^ r[2]}

ApprovalPolicyConfig ==
  [min_approvals : Optional(Nat), require_code_owner : Optional(BOOLEAN),
   distinct_from_author : Optional(BOOLEAN), self_ratification_allowed : Optional(BOOLEAN)]

ConfigBlock ==
  [density_window_days : Optional(Positive), density_threshold : Optional(Positive),
   cumulative_ratio : Optional(DecimalRatio), default_carveout_budget : Optional(Nat),
   window_boundary : Optional({"inclusive", "exclusive"}),
   require_review_artifact : Optional(BOOLEAN), ledger_pr_isolation : Optional(BOOLEAN),
   approval_policy : Optional(ApprovalPolicyConfig)]

-----------------------------------------------------------------------------
(* Resolution.                                                             *)

NoKeys == [key \in {} |-> None]

\* Mutant: Python truth instead of the comparison with None.
truthy(block, key) ==
  block # None /\ key \in DOMAIN block /\ block[key] # None
    /\ (key \in {"min_approvals", "default_carveout_budget"} => block[key] # 0)
    /\ (key \in APPROVAL_POLICY_KEYS \ {"min_approvals"} => block[key] # FALSE)
supplies(block, key) == block # None /\ key \in DOMAIN block /\ block[key] # None

\* Mutant: a block that is there hides the preset, though it lacks the key.
resolve_by_block(key, config, preset, profile_name, pointer) ==
  LET From(value, source, detail) == [value |-> value, source |-> source, detail |-> detail]
  IN  CASE supplies(config, key)
             -> From(config[key], EXPLICIT_CONFIG, pointer \o <<key>>)
        [] config = NoKeys /\ key \in DOMAIN preset
             -> From(preset[key], PROFILE, <<profile_name>>)
        [] OTHER -> From(SCHEMA_DEFAULTS[key], SCHEMA_DEFAULT, <<key>>)

\* _resolve: the provenance of one key, its value included.
resolve(key, config, preset, profile_name, pointer) ==
  LET From(value, source, detail) == [value |-> value, source |-> source, detail |-> detail]
  IN  CASE supplies(config, key)
             -> From(config[key], EXPLICIT_CONFIG, pointer \o <<key>>)
        [] ~supplies(config, key) /\ key \in DOMAIN preset
             -> From(preset[key], PROFILE, <<profile_name>>)
        [] ~supplies(config, key) /\ key \notin DOMAIN preset
             -> From(SCHEMA_DEFAULTS[key], SCHEMA_DEFAULT, <<key>>)

\* block.get("approval_policy") or {}
nested(block) ==
  IF supplies(block, "approval_policy") THEN block["approval_policy"] ELSE NoKeys

pointer_prefix(key) ==
  IF key \in CONFIG_KEYS THEN <<"config">> ELSE <<"config", "approval_policy">>

provenance_of(config, profile_name) ==
  LET preset == PROFILES[profile_name].preset
  IN  [key \in CONFIG_KEYS \cup APPROVAL_POLICY_KEYS |->
         IF key \in CONFIG_KEYS
         THEN resolve(key, config, preset, profile_name, pointer_prefix(key))
         ELSE resolve(key, nested(config), nested(preset), profile_name, pointer_prefix(key))]

\* Exact, as Fraction(str(value)).
parse_ratio(raw) == <<raw[1], 10 ^ raw[2]>>

resolve_settings(config, profile_name) ==
  LET provenance == provenance_of(config, profile_name)
      raw(key)   == provenance[key].value
  IN  [density_window_days     |-> raw("density_window_days"),
       density_threshold       |-> raw("density_threshold"),
       cumulative_ratio        |-> parse_ratio(raw("cumulative_ratio")),
       default_carveout_budget |-> raw("default_carveout_budget"),
       window_boundary         |-> raw("window_boundary"),
       require_review_artifact |-> raw("require_review_artifact"),
       ledger_pr_isolation     |-> raw("ledger_pr_isolation"),
       approval_policy         |-> [key \in APPROVAL_POLICY_KEYS |-> raw(key)],
       provenance              |-> provenance]

\* ResolvedSettings.explain, which explain_setting renders.
explain_setting(settings, key) == settings.provenance[key]
=============================================================================
