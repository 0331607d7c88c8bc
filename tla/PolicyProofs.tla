---------------------------- MODULE PolicyProofs ----------------------------
(***************************************************************************)
(* Theorems about the layered settings, for every value of the constants:  *)
(* any config blocks, profiles, ledgers and instants.                      *)
(***************************************************************************)
EXTENDS PolicyProperties, RepoProofs, LedgerLemmas, SequenceTheorems

-----------------------------------------------------------------------------
(* Resolution, key by key.                                                 *)

\* Where a key of a well-typed config block is looked for.
Layer(config, key) == IF key \in CONFIG_KEYS THEN config ELSE nested(config)

LEMMA KeysApart == CONFIG_KEYS \cap APPROVAL_POLICY_KEYS = {} /\ "approval_policy" \notin SettingKeys
BY DEF CONFIG_KEYS, APPROVAL_POLICY_KEYS, SettingKeys

\* A layer supplies a key exactly when charter.yaml writes a value for it.
LEMMA SuppliedIsWritten ==
  ASSUME NEW c, c.config \in Optional(ConfigBlock), NEW key \in SettingKeys
  PROVE  /\ supplies(Layer(c.config, key), key) <=> Written(c, key) # None
         /\ Written(c, key) # None => Layer(c.config, key)[key] = Written(c, key)
<1>1. CASE c.config = None
  <2>1. Written(c, key) = None
    BY <1>1 DEF Written
  <2>2. ~supplies(NoKeys, key) /\ ~supplies(None, key) /\ nested(None) = NoKeys
    BY DEF supplies, NoKeys, nested
  <2> QED
    BY <1>1, <2>1, <2>2 DEF Layer
<1>2. CASE c.config # None
  <2>1. c.config \in ConfigBlock
    BY <1>2 DEF Optional
  <2>2. CASE key \in CONFIG_KEYS
    <3>1. key \in DOMAIN c.config
      BY <2>1, <2>2 DEF ConfigBlock, CONFIG_KEYS
    <3>2. Written(c, key) = c.config[key]
      BY <1>2, <2>2, KeysApart DEF Written
    <3> QED
      BY <1>2, <2>2, <3>1, <3>2 DEF Layer, supplies
  <2>3. CASE key \in APPROVAL_POLICY_KEYS
    <3> DEFINE block == c.config.approval_policy
    <3>1. key \notin CONFIG_KEYS /\ Layer(c.config, key) = nested(c.config)
      BY <2>3, KeysApart DEF Layer
    <3>2. "approval_policy" \in DOMAIN c.config /\ block \in Optional(ApprovalPolicyConfig)
      BY <2>1 DEF ConfigBlock
    <3>3. Written(c, key) = IF block = None THEN None ELSE block[key]
      BY <1>2, <2>3, <3>1 DEF Written
    <3>4. CASE block = None
      <4>1. nested(c.config) = NoKeys
        BY <3>4 DEF nested, supplies
      <4> QED
        BY <3>1, <3>3, <3>4, <4>1 DEF supplies, NoKeys
    <3>5. CASE block # None
      <4>1. nested(c.config) = block
        BY <1>2, <3>2, <3>5 DEF nested, supplies
      <4>2. key \in DOMAIN block
        BY <2>3, <3>2, <3>5 DEF Optional, ApprovalPolicyConfig, APPROVAL_POLICY_KEYS
      <4> QED
        BY <3>1, <3>3, <3>5, <4>1, <4>2 DEF supplies
    <3> QED
      BY <3>4, <3>5
  <2> QED
    BY <2>2, <2>3 DEF SettingKeys
<1> QED
  BY <1>1, <1>2

\* The preset layer of a key.
PresetOf(profile, key) ==
  IF key \in CONFIG_KEYS THEN PROFILES[profile].preset ELSE nested(PROFILES[profile].preset)

LEMMA ProvenanceOfKey ==
  ASSUME NEW c, NEW key \in SettingKeys
  PROVE  explain_setting(SettingsOf(c), key)
           = resolve(key, Layer(c.config, key), PresetOf(c.profile, key), c.profile, pointer_prefix(key))
BY DEF explain_setting, SettingsOf, resolve_settings, provenance_of, Layer, PresetOf, SettingKeys

\* resolve looks at its block only through what the block supplies.
LEMMA ResolveReadsWhatIsSupplied ==
  ASSUME NEW key, NEW a, NEW b, NEW preset, NEW profile, NEW pointer,
         supplies(a, key) <=> supplies(b, key), supplies(a, key) => a[key] = b[key]
  PROVE  resolve(key, a, preset, profile, pointer) = resolve(key, b, preset, profile, pointer)
<1>1. CASE supplies(a, key)
  BY <1>1 DEF resolve
<1>2. CASE ~supplies(a, key)
  BY <1>2 DEF resolve
<1> QED
  BY <1>1, <1>2

\* A supplied value hides the preset and the profile.
LEMMA ExplicitHidesTheProfile ==
  ASSUME NEW key, NEW block, supplies(block, key), NEW pointer,
         NEW preset1, NEW profile1, NEW preset2, NEW profile2
  PROVE  resolve(key, block, preset1, profile1, pointer) = resolve(key, block, preset2, profile2, pointer)
BY DEF resolve

\* What charter.yaml writes alike, under one profile, resolves alike.
LEMMA SameWrittenSameSetting ==
  ASSUME NEW c, c.config \in Optional(ConfigBlock), NEW d, d.config \in Optional(ConfigBlock),
         c.profile = d.profile, NEW key \in SettingKeys, Written(c, key) = Written(d, key)
  PROVE  explain_setting(SettingsOf(c), key) = explain_setting(SettingsOf(d), key)
<1>1. /\ supplies(Layer(c.config, key), key) <=> Written(c, key) # None
      /\ Written(c, key) # None => Layer(c.config, key)[key] = Written(c, key)
  BY SuppliedIsWritten
<1>2. /\ supplies(Layer(d.config, key), key) <=> Written(d, key) # None
      /\ Written(d, key) # None => Layer(d.config, key)[key] = Written(d, key)
  BY SuppliedIsWritten
<1>3. resolve(key, Layer(c.config, key), PresetOf(c.profile, key), c.profile, pointer_prefix(key))
        = resolve(key, Layer(d.config, key), PresetOf(c.profile, key), c.profile, pointer_prefix(key))
  BY <1>1, <1>2, ResolveReadsWhatIsSupplied
<1> QED
  BY <1>3, ProvenanceOfKey

LEMMA ConfigTyped ==
  ASSUME NEW c, IsCharter(c)
  PROVE  c.config \in Optional(ConfigBlock) /\ c.profile \in ProfileNames
BY DEF IsCharter, CharterOver

\* An edit reaches the settings it writes and no other, their recorded source
\* included, for any two config blocks: nested, partial, empty or null blocks
\* make no difference (settings._resolve and resolve_settings).
THEOREM EditsReachWhatTheyWrite == Spec => EditsStayLocal
<1>1. ASSUME TypeOK, TypeOK', [Next]_vars PROVE KeepsTheRest
  <2>1. charter.config \in Optional(ConfigBlock) /\ charter'.config \in Optional(ConfigBlock)
    BY <1>1, ConfigTyped DEF TypeOK
  <2> QED
    BY <2>1, SameWrittenSameSetting DEF KeepsTheRest
<1> QED
  BY <1>1, TypeCorrect, PTL DEF Spec, EditsStayLocal
-----------------------------------------------------------------------------
(* What the triggers read of a charter.                                    *)

\* The trigger settings of two charters are equal.
SameThresholds(c, d) ==
  \A key \in CONFIG_KEYS :
    explain_setting(SettingsOf(c), key).value = explain_setting(SettingsOf(d), key).value

SameLedgerView(c, d) == c.non_goals = d.non_goals /\ c.adopted_at = d.adopted_at

LEMMA SameView ==
  ASSUME NEW c, NEW d, SameLedgerView(c, d), NEW events, NEW t
  PROVE  /\ project(c, events, t) = project(d, events, t)
         /\ active_non_goals(c) = active_non_goals(d)
<1>1. active_non_goals(c) = active_non_goals(d) /\ retired_non_goals(c) = retired_non_goals(d)
  BY DEF SameLedgerView, active_non_goals, retired_non_goals
<1> QED
  BY <1>1, SameProjection DEF SameLedgerView

LEMMA ThresholdFields ==
  ASSUME NEW c
  PROVE  LET settings == SettingsOf(c)
             raw(key) == explain_setting(settings, key).value
         IN  /\ settings.density_window_days = raw("density_window_days")
             /\ settings.density_threshold = raw("density_threshold")
             /\ settings.cumulative_ratio = parse_ratio(raw("cumulative_ratio"))
             /\ settings.default_carveout_budget = raw("default_carveout_budget")
             /\ settings.window_boundary = raw("window_boundary")
BY DEF SettingsOf, resolve_settings, explain_setting

\* Triggers read the non-goals, the projected state and five settings.
LEMMA SameTriggers ==
  ASSUME NEW c, NEW d, SameLedgerView(c, d), SameThresholds(c, d), NEW state, NEW t
  PROVE  evaluate_all(c, state, SettingsOf(c), t) = evaluate_all(d, state, SettingsOf(d), t)
<1> DEFINE s1 == SettingsOf(c)
           s2 == SettingsOf(d)
<1>1. /\ s1.density_window_days = s2.density_window_days
      /\ s1.density_threshold = s2.density_threshold
      /\ s1.cumulative_ratio = s2.cumulative_ratio
      /\ s1.default_carveout_budget = s2.default_carveout_budget
      /\ s1.window_boundary = s2.window_boundary
  BY ThresholdFields DEF SameThresholds, CONFIG_KEYS
<1>2. active_non_goals(c) = active_non_goals(d)
  BY DEF SameLedgerView, active_non_goals
<1> HIDE DEF s1, s2
<1>3. \A ng : per_id(c, state, s1, ng) = per_id(d, state, s2, ng)
  <2>1. \A ng, fallback : budget_for(c, ng, fallback) = budget_for(d, ng, fallback)
    BY DEF SameLedgerView, budget_for
  <2> QED
    BY <1>1, <2>1 DEF per_id
<1>4. density(state, s1, t) = density(state, s2, t)
  <2>1. in_range(state, s1, t) = in_range(state, s2, t)
    BY <1>1 DEF in_range
  <2> QED
    BY <1>1, <2>1 DEF density
<1>5. cumulative(c, state, s1) = cumulative(d, state, s2)
  BY <1>1, <1>2 DEF cumulative
<1> QED
  BY <1>2, <1>3, <1>4, <1>5 DEF evaluate_all, s1, s2

-----------------------------------------------------------------------------
(* Profiles.                                                               *)

\* No preset has a trigger setting.
LEMMA PresetsLeaveTriggers ==
  ASSUME NEW profile \in ProfileNames, NEW key \in CONFIG_KEYS
  PROVE  key \notin DOMAIN PresetOf(profile, key)
<1>1. \A p \in ProfileNames : DOMAIN PROFILES[p].preset = {"approval_policy"}
  BY DEF ProfileNames, PROFILES, Profile
<1>2. key # "approval_policy"
  BY KeysApart DEF SettingKeys
<1> QED
  BY <1>1, <1>2 DEF PresetOf

LEMMA ThresholdsIgnoreTheProfile ==
  ASSUME NEW c, c.profile \in ProfileNames, NEW d, d.profile \in ProfileNames, c.config = d.config
  PROVE  SameThresholds(c, d)
<1> SUFFICES ASSUME NEW key \in CONFIG_KEYS
             PROVE  explain_setting(SettingsOf(c), key).value = explain_setting(SettingsOf(d), key).value
  BY DEF SameThresholds
<1>1. key \in SettingKeys
  BY DEF SettingKeys
<1>2. key \notin DOMAIN PresetOf(c.profile, key) /\ key \notin DOMAIN PresetOf(d.profile, key)
  BY PresetsLeaveTriggers
<1>3. resolve(key, Layer(c.config, key), PresetOf(c.profile, key), c.profile, pointer_prefix(key))
        = resolve(key, Layer(d.config, key), PresetOf(d.profile, key), d.profile, pointer_prefix(key))
  BY <1>2 DEF resolve
<1> QED
  BY <1>1, <1>3, ProvenanceOfKey

\* Only SwitchProfile changes the profile, and nothing else with it.
LEMMA ProfileSteps ==
  ASSUME TypeOK, Next, charter'.profile # charter.profile
  PROVE  /\ SameLedgerView(charter', charter) /\ charter'.config = charter.config
         /\ ledger' = ledger /\ clock' = clock
<1>1. PICK declared \in SUBSET NonGoalIds : IsFiniteSet(declared) /\ charter \in CharterOver(declared)
  BY DEF TypeOK, IsCharter
<1>2. \A events : ~Commit(events)
  BY DEF Commit
<1>3. ~Tightening /\ ~Relaxing
  BY <1>2 DEF Tightening, Relaxing, Ratify, RatifyTogether, Retire, Expire, OpenReview, CloseReview,
              OpenAndCloseReview, Correct
<1>4. ~Tick
  BY DEF Tick
<1>5. \A ng : ~RetireNonGoal(ng) /\ ~SetBudget(ng)
  BY <1>1 DEF RetireNonGoal, SetBudget, CharterOver
<1>6. ~SetConfig /\ ~RatifyCharter
  BY <1>1 DEF SetConfig, RatifyCharter, CharterOver
<1>7. SwitchProfile
  BY <1>3, <1>4, <1>5, <1>6 DEF Next, EditCharter
<1> QED
  BY <1>1, <1>7 DEF SwitchProfile, CharterOver, SameLedgerView

\* Switching the profile moves no trigger, no baseline and no path, whatever
\* the ledger, and no setting charter.yaml makes (profiles.py: "Profiles are
\* presets, not code paths").
THEOREM ProfilesAreOnlyPresets == Spec => ProfileLeavesTriggersAlone
<1>1. ASSUME TypeOK, TypeOK', [Next]_vars PROVE LeavesTriggersAlone
  <2> SUFFICES ASSUME charter'.profile # charter.profile
               PROVE  /\ Fired(charter', ledger', clock') = Fired(charter, ledger, clock)
                      /\ Path(charter', ledger', clock') = Path(charter, ledger, clock)
                      /\ \A key \in SettingKeys :
                           Written(charter, key) # None =>
                             explain_setting(SettingsOf(charter'), key) = explain_setting(SettingsOf(charter), key)
    BY DEF LeavesTriggersAlone
  <2>1. Next
    BY <1>1 DEF vars
  <2>2. /\ SameLedgerView(charter', charter) /\ charter'.config = charter.config
        /\ ledger' = ledger /\ clock' = clock
    BY <1>1, <2>1, ProfileSteps
  <2>3. /\ charter.config \in Optional(ConfigBlock)
        /\ charter.profile \in ProfileNames /\ charter'.profile \in ProfileNames
    BY <1>1, ConfigTyped DEF TypeOK
  <2>4. SameThresholds(charter', charter)
    BY <2>2, <2>3, ThresholdsIgnoreTheProfile
  <2>5. project(charter', ledger', clock') = project(charter, ledger, clock)
    BY <2>2, SameView
  <2>6. evaluate_all(charter', project(charter, ledger, clock), SettingsOf(charter'), clock')
          = evaluate_all(charter, project(charter, ledger, clock), SettingsOf(charter), clock)
    BY <2>2, <2>4, SameTriggers
  <2>7. ASSUME NEW key \in SettingKeys, Written(charter, key) # None
        PROVE  explain_setting(SettingsOf(charter'), key) = explain_setting(SettingsOf(charter), key)
    <3>1. supplies(Layer(charter.config, key), key)
      BY <2>3, <2>7, SuppliedIsWritten
    <3>2. resolve(key, Layer(charter.config, key), PresetOf(charter'.profile, key), charter'.profile, pointer_prefix(key))
            = resolve(key, Layer(charter.config, key), PresetOf(charter.profile, key), charter.profile, pointer_prefix(key))
      BY <3>1, ExplicitHidesTheProfile
    <3> QED
      BY <2>2, <3>2, ProvenanceOfKey
  <2> QED
    BY <2>5, <2>6, <2>7 DEF Fired, Path
<1> QED
  BY <1>1, TypeCorrect, PTL DEF Spec, ProfileLeavesTriggersAlone
-----------------------------------------------------------------------------
(* A looser policy.                                                        *)

\* Only SetConfig changes the config block, and nothing else with it.
LEMMA ConfigSteps ==
  ASSUME TypeOK, Next, charter'.config # charter.config
  PROVE  /\ SameLedgerView(charter', charter)
         /\ ledger' = ledger /\ clock' = clock
<1>1. PICK declared \in SUBSET NonGoalIds : IsFiniteSet(declared) /\ charter \in CharterOver(declared)
  BY DEF TypeOK, IsCharter
<1>2. \A events : ~Commit(events)
  BY DEF Commit
<1>3. ~Tightening /\ ~Relaxing
  BY <1>2 DEF Tightening, Relaxing, Ratify, RatifyTogether, Retire, Expire, OpenReview, CloseReview,
              OpenAndCloseReview, Correct
<1>4. ~Tick
  BY DEF Tick
<1>5. \A ng : ~RetireNonGoal(ng) /\ ~SetBudget(ng)
  BY <1>1 DEF RetireNonGoal, SetBudget, CharterOver
<1>6. ~SwitchProfile /\ ~RatifyCharter
  BY <1>1 DEF SwitchProfile, RatifyCharter, CharterOver
<1>7. SetConfig
  BY <1>3, <1>4, <1>5, <1>6 DEF Next, EditCharter
<1> QED
  BY <1>1, <1>7 DEF SetConfig, CharterOver, SameLedgerView

\* A trigger setting is what charter.yaml writes, or else the default.
LEMMA ThresholdSource ==
  ASSUME NEW c, IsCharter(c), NEW key \in CONFIG_KEYS
  PROVE  explain_setting(SettingsOf(c), key).value
           = IF Written(c, key) # None THEN Written(c, key) ELSE SCHEMA_DEFAULTS[key]
<1>1. c.config \in Optional(ConfigBlock) /\ c.profile \in ProfileNames /\ key \in SettingKeys
  BY ConfigTyped DEF SettingKeys
<1>2. /\ supplies(Layer(c.config, key), key) <=> Written(c, key) # None
      /\ Written(c, key) # None => Layer(c.config, key)[key] = Written(c, key)
  BY <1>1, SuppliedIsWritten
<1>3. key \notin DOMAIN PresetOf(c.profile, key)
  BY <1>1, PresetsLeaveTriggers
<1>4. explain_setting(SettingsOf(c), key)
        = resolve(key, Layer(c.config, key), PresetOf(c.profile, key), c.profile, pointer_prefix(key))
  BY <1>1, ProvenanceOfKey
<1>5. CASE Written(c, key) # None
  BY <1>2, <1>4, <1>5 DEF resolve
<1>6. CASE Written(c, key) = None
  BY <1>2, <1>3, <1>4, <1>6 DEF resolve
<1> QED
  BY <1>5, <1>6

\* What a config block may write under a key.
LEMMA WrittenTyped ==
  ASSUME NEW c, IsCharter(c), NEW key \in CONFIG_KEYS, Written(c, key) # None
  PROVE  /\ key \in {"density_window_days", "density_threshold"} => Written(c, key) \in Positive
         /\ key = "default_carveout_budget" => Written(c, key) \in Nat
         /\ key = "cumulative_ratio" => Written(c, key) \in DecimalRatio
         /\ key = "window_boundary" => Written(c, key) \in {"inclusive", "exclusive"}
<1>1. c.config \in ConfigBlock /\ Written(c, key) = c.config[key]
  BY ConfigTyped, KeysApart DEF Written, Optional
<1> QED
  BY <1>1 DEF ConfigBlock, Optional

\* A decimal literal is a fraction with a positive denominator.
LEMMA RatioIsFraction ==
  ASSUME NEW r \in DecimalRatio
  PROVE  parse_ratio(r)[1] \in Nat /\ parse_ratio(r)[2] \in Positive
<1>1. r[2] \in Nat /\ 10 ^ r[2] \in Int
  BY DEF DecimalRatio
<1>2. r[1] \in Nat /\ 0 < r[1] /\ r[1] <= 10 ^ r[2]
  BY DEF DecimalRatio
<1>3. 10 ^ r[2] \in Positive
  BY <1>1, <1>2 DEF Positive
<1> QED
  BY <1>2, <1>3 DEF parse_ratio

LEMMA ThresholdsTyped ==
  ASSUME NEW c, IsCharter(c)
  PROVE  LET settings == SettingsOf(c)
         IN  /\ settings.density_window_days \in Positive
             /\ settings.density_threshold \in Positive
             /\ settings.default_carveout_budget \in Nat
             /\ settings.window_boundary \in {"inclusive", "exclusive"}
             /\ settings.cumulative_ratio[1] \in Nat /\ settings.cumulative_ratio[2] \in Positive
<1> DEFINE raw(key) == explain_setting(SettingsOf(c), key).value
<1>1. /\ SCHEMA_DEFAULTS["density_window_days"] \in Positive /\ SCHEMA_DEFAULTS["density_threshold"] \in Positive
      /\ SCHEMA_DEFAULTS["default_carveout_budget"] \in Nat
      /\ SCHEMA_DEFAULTS["window_boundary"] \in {"inclusive", "exclusive"}
  BY DEF SCHEMA_DEFAULTS, Positive
<1>2. SCHEMA_DEFAULTS["cumulative_ratio"] \in DecimalRatio
  <2>1. ASSUME NEW r \in Nat \X Nat, 0 < r[1], r[1] <= 10 ^ r[2] PROVE r \in DecimalRatio
    BY <2>1, Zenon DEF DecimalRatio
  <2>2. SCHEMA_DEFAULTS["cumulative_ratio"] = <<5, 1>>
    BY DEF SCHEMA_DEFAULTS
  <2>3. /\ SCHEMA_DEFAULTS["cumulative_ratio"] \in Nat \X Nat
        /\ SCHEMA_DEFAULTS["cumulative_ratio"][1] = 5 /\ SCHEMA_DEFAULTS["cumulative_ratio"][2] = 1
    BY <2>2
  <2>4. 0 < 5 /\ 5 <= 10 ^ 1
    OBVIOUS
  <2> QED
    BY <2>1, <2>3, <2>4, Zenon
<1>3. raw("density_window_days") \in Positive
  BY <1>1, ThresholdSource, WrittenTyped DEF CONFIG_KEYS
<1>4. raw("density_threshold") \in Positive
  BY <1>1, ThresholdSource, WrittenTyped DEF CONFIG_KEYS
<1>5. raw("default_carveout_budget") \in Nat
  BY <1>1, ThresholdSource, WrittenTyped DEF CONFIG_KEYS
<1>6. raw("window_boundary") \in {"inclusive", "exclusive"}
  BY <1>1, ThresholdSource, WrittenTyped DEF CONFIG_KEYS
<1>7. raw("cumulative_ratio") \in DecimalRatio
  BY <1>2, ThresholdSource, WrittenTyped DEF CONFIG_KEYS
<1> QED
  BY <1>3, <1>4, <1>5, <1>6, <1>7, RatioIsFraction, ThresholdFields

LEMMA BudgetIsNat ==
  ASSUME NEW c, IsCharter(c), NEW ng \in active_non_goals(c)
  PROVE  budget_for(c, ng, SettingsOf(c).default_carveout_budget) \in Nat
<1>1. PICK declared \in SUBSET NonGoalIds : c \in CharterOver(declared)
  BY DEF IsCharter
<1>2. c.non_goals[ng].budget \in Nat \cup {None}
  BY <1>1 DEF CharterOver, NonGoal, active_non_goals
<1>3. SettingsOf(c).default_carveout_budget \in Nat
  BY ThresholdsTyped
<1> QED
  BY <1>2, <1>3 DEF budget_for

\* Cross-multiplied comparisons compose.
LEMMA RatiosCompose ==
  ASSUME NEW o \in Nat, NEW k \in Nat, NEW n \in Nat, NEW d \in Positive, NEW m \in Nat, NEW e \in Positive,
         o * e > m * k, m * d >= n * e
  PROVE  o * d > n * k
<1>1. o * e * d > m * k * d
  BY DEF Positive
<1>2. m * d * k >= n * e * k
  BY DEF Positive
<1>3. (o * d) * e > (n * k) * e
  BY <1>1, <1>2 DEF Positive
<1> QED
  BY <1>3 DEF Positive

\* On one state, a looser policy fires less.
LEMMA LooserFiresLess ==
  ASSUME NEW c, IsCharter(c), NEW d, IsCharter(d), SameLedgerView(d, c), Looser(SettingsOf(c), SettingsOf(d)),
         NEW state, NEW t \in Nat, CarveOuts(state.carveouts, t), IsFiniteSet(active_non_goals(c)),
         NEW r \in evaluate_all(d, state, SettingsOf(d), t), r.fired
  PROVE  \E q \in evaluate_all(c, state, SettingsOf(c), t) :
           q.fired /\ q.trigger_id = r.trigger_id /\ q.scope = r.scope
<1> DEFINE old == SettingsOf(c)
           new == SettingsOf(d)
           ngs == active_non_goals(c)
<1>1. /\ old.density_window_days \in Nat /\ new.density_window_days \in Nat
      /\ old.density_threshold \in Nat /\ new.density_threshold \in Nat
      /\ old.default_carveout_budget \in Nat /\ new.default_carveout_budget \in Nat
      /\ old.window_boundary \in {"inclusive", "exclusive"} /\ new.window_boundary \in {"inclusive", "exclusive"}
      /\ old.cumulative_ratio[1] \in Nat /\ old.cumulative_ratio[2] \in Positive
      /\ new.cumulative_ratio[1] \in Nat /\ new.cumulative_ratio[2] \in Positive
  BY ThresholdsTyped DEF Positive
<1>2. Looser(old, new)
  OBVIOUS
<1>3. active_non_goals(d) = ngs /\ \A ng, fallback : budget_for(d, ng, fallback)
                                    = IF c.non_goals[ng].budget = None THEN fallback ELSE c.non_goals[ng].budget
  BY DEF SameLedgerView, active_non_goals, budget_for
<1>4. \A S \in SUBSET DOMAIN state.carveouts : IsFiniteSet(S) /\ Cardinality(S) \in Nat
  BY FS_Subset, FS_CardinalityType DEF CarveOuts
<1> HIDE DEF old, new
<1>5. ASSUME NEW ng \in ngs, r = per_id(d, state, new, ng)
      PROVE  per_id(c, state, old, ng).fired
  <2> DEFINE observed == Cardinality(active_carveouts_for(state, ng))
  <2>1. observed \in Nat
    BY <1>4 DEF active_carveouts_for
  <2>2. observed > budget_for(d, ng, new.default_carveout_budget)
          /\ above_baseline(observed, for_non_goal_baseline(state, ng))
    BY <1>5 DEF per_id
  <2>3. observed > budget_for(c, ng, old.default_carveout_budget)
    <3>1. CASE c.non_goals[ng].budget = None
      <4>1. new.default_carveout_budget >= old.default_carveout_budget
        BY <1>2 DEF Looser
      <4>2. observed > new.default_carveout_budget
        BY <1>3, <2>2, <3>1
      <4> HIDE DEF observed
      <4>3. observed > old.default_carveout_budget
        BY <1>1, <2>1, <4>1, <4>2
      <4> QED
        BY <3>1, <4>3 DEF budget_for
    <3>2. CASE c.non_goals[ng].budget # None
      BY <1>3, <2>2, <3>2 DEF budget_for
    <3> QED
      BY <3>1, <3>2
  <2> QED
    BY <2>2, <2>3 DEF per_id
<1>6. ASSUME r = density(state, new, t)
      PROVE  density(state, old, t).fired
  <2> DEFINE few == in_range(state, new, t)
             many == in_range(state, old, t)
  <2>1. few \subseteq many
    <3> SUFFICES ASSUME NEW id \in few PROVE id \in many
      OBVIOUS
    <3>1. state.carveouts[id].ratified_at \in Nat /\ id \in DOMAIN state.carveouts
            /\ counts_toward_velocity(state.carveouts[id])
      BY DEF in_range, CarveOuts
    <3>2. in_window(state.carveouts[id].ratified_at, t, new.density_window_days, new.window_boundary)
      BY DEF in_range
    <3>3. in_window(state.carveouts[id].ratified_at, t, old.density_window_days, old.window_boundary)
      BY <1>1, <1>2, <3>1, <3>2 DEF in_window, Looser
    <3> QED
      BY <3>1, <3>3 DEF in_range
  <2>2. IsFiniteSet(many) /\ Cardinality(many) \in Nat /\ Cardinality(few) \in Nat
    BY <1>4 DEF in_range
  <2>3. Cardinality(few) <= Cardinality(many)
    BY <2>1, <2>2, FS_Subset
  <2>4. Cardinality(few) >= new.density_threshold
    BY <1>6 DEF density
  <2>5. new.density_threshold >= old.density_threshold
    BY <1>2 DEF Looser
  <2> HIDE DEF few, many
  <2>6. Cardinality(many) >= old.density_threshold
    BY <1>1, <2>2, <2>3, <2>4, <2>5
  <2> QED
    BY <2>6 DEF density, many
<1>7. ASSUME r = cumulative(d, state, new)
      PROVE  cumulative(c, state, old).fired
  <2> DEFINE observed == Cardinality(UNION {active_carveouts_for(state, ng) : ng \in ngs})
             size == Cardinality(ngs)
  <2>1. observed \in Nat /\ size \in Nat
    BY <1>4, FS_CardinalityType DEF active_carveouts_for
  <2>2. /\ ngs # {} /\ above_baseline(observed, state.cumulative)
        /\ observed * new.cumulative_ratio[2] - new.cumulative_ratio[1] * size > 0
    BY <1>3, <1>7 DEF cumulative
  <2>3. new.cumulative_ratio[1] * old.cumulative_ratio[2] >= old.cumulative_ratio[1] * new.cumulative_ratio[2]
    BY <1>2 DEF Looser
  <2> HIDE DEF observed, size
  <2>4. observed * new.cumulative_ratio[2] > new.cumulative_ratio[1] * size
    BY <1>1, <2>1, <2>2 DEF Positive
  <2>5. observed * old.cumulative_ratio[2] > old.cumulative_ratio[1] * size
    BY <1>1, <2>1, <2>3, <2>4, RatiosCompose
  <2>6. observed * old.cumulative_ratio[2] - old.cumulative_ratio[1] * size > 0
    BY <1>1, <2>1, <2>5 DEF Positive
  <2> QED
    BY <2>2, <2>6 DEF cumulative, observed, size
<1>8. \A ng : per_id(c, state, old, ng).trigger_id = PER_ID /\ per_id(c, state, old, ng).scope = ng
             /\ per_id(d, state, new, ng).trigger_id = PER_ID /\ per_id(d, state, new, ng).scope = ng
  BY DEF per_id
<1>9. /\ density(state, old, t).trigger_id = DENSITY /\ density(state, old, t).scope = GLOBAL
      /\ density(state, new, t).trigger_id = DENSITY /\ density(state, new, t).scope = GLOBAL
  BY DEF density
<1>10. /\ cumulative(c, state, old).trigger_id = CUMULATIVE /\ cumulative(c, state, old).scope = GLOBAL
       /\ cumulative(d, state, new).trigger_id = CUMULATIVE /\ cumulative(d, state, new).scope = GLOBAL
  BY DEF cumulative
<1>11. \/ \E ng \in ngs : r = per_id(d, state, new, ng)
       \/ r = density(state, new, t)
       \/ r = cumulative(d, state, new)
  BY <1>3 DEF evaluate_all, new
<1>12. /\ \A ng \in ngs : per_id(c, state, old, ng) \in evaluate_all(c, state, old, t)
       /\ density(state, old, t) \in evaluate_all(c, state, old, t)
       /\ cumulative(c, state, old) \in evaluate_all(c, state, old, t)
  BY DEF evaluate_all
<1> QED
  BY <1>5, <1>6, <1>7, <1>8, <1>9, <1>10, <1>11, <1>12 DEF old

LEMMA ActiveNonGoalsFinite ==
  ASSUME NEW c, IsCharter(c)
  PROVE  IsFiniteSet(active_non_goals(c))
<1>1. PICK declared \in SUBSET NonGoalIds : IsFiniteSet(declared) /\ c \in CharterOver(declared)
  BY DEF IsCharter
<1>2. active_non_goals(c) \subseteq declared
  BY <1>1 DEF active_non_goals, CharterOver
<1> QED
  BY <1>1, <1>2, FS_Subset

\* Loosening the policy never closes a path: whatever was committed and
\* whatever reviews have closed at levels measured under the old thresholds,
\* no trigger fires under the looser policy that did not before (triggers/*.py
\* over settings.resolve_settings).
THEOREM LooseningOnlyRelaxes == Spec => LooserPolicyOnlyRelaxes
<1>1. ASSUME TypeOK, TypeOK', [Next]_vars PROVE OnlyRelaxesIfLooser
  <2> SUFFICES ASSUME charter'.config # charter.config, Looser(SettingsOf(charter), SettingsOf(charter'))
               PROVE  Fired(charter', ledger', clock') \subseteq Fired(charter, ledger, clock)
    BY DEF OnlyRelaxesIfLooser
  <2> DEFINE state == project(charter, ledger, clock)
  <2>1. Next
    BY <1>1 DEF vars
  <2>2. SameLedgerView(charter', charter) /\ ledger' = ledger /\ clock' = clock
    BY <1>1, <2>1, ConfigSteps
  <2>3. IsCharter(charter) /\ IsCharter(charter') /\ clock \in Nat
    BY <1>1 DEF TypeOK
  <2>4. project(charter', ledger', clock') = state
    BY <2>2, SameView
  <2>5. CarveOuts(state.carveouts, clock)
    <3>1. Ledger(visible(ledger, clock)) /\ \A e \in visible(ledger, clock) : e.at <= clock
      BY <1>1, SubsetIsLedger DEF TypeOK, Ledger, visible
    <3> QED
      BY <2>3, <3>1, ProjectedCarveOuts DEF project
  <2>6. \A r \in evaluate_all(charter', state, SettingsOf(charter'), clock) :
          r.fired => \E q \in evaluate_all(charter, state, SettingsOf(charter), clock) :
                       q.fired /\ q.trigger_id = r.trigger_id /\ q.scope = r.scope
    BY <2>2, <2>3, <2>5, ActiveNonGoalsFinite, LooserFiresLess
  <2> QED
    BY <2>2, <2>4, <2>6 DEF Fired, fired_of
<1> QED
  BY <1>1, TypeCorrect, PTL DEF Spec, LooserPolicyOnlyRelaxes

-----------------------------------------------------------------------------
(* Provenance.                                                             *)

\* A pointer into the config block leads to the block's value.
LEMMA PointerOfTwo ==
  ASSUME NEW document, NEW a, NEW b
  PROVE  ValueAt(document, <<a, b>>) = document[a][b]
<1> DEFINE pointer == <<a, b>>
           Descends(f) == f = [n \in 0 .. Len(pointer) |-> IF n = 0 THEN document ELSE f[n - 1][pointer[n]]]
           g == [n \in 0 .. 2 |-> IF n = 0 THEN document ELSE IF n = 1 THEN document[a] ELSE document[a][b]]
<1>1. Len(pointer) = 2 /\ pointer[1] = a /\ pointer[2] = b
  OBVIOUS
<1> HIDE DEF pointer
<1>2. Descends(g)
  <2>1. ASSUME NEW n \in 0 .. 2
        PROVE  g[n] = IF n = 0 THEN document ELSE g[n - 1][pointer[n]]
    <3>1. n = 0 \/ n = 1 \/ n = 2
      OBVIOUS
    <3> QED
      BY <1>1, <3>1
  <2> QED
    BY <1>1, <2>1
<1> DEFINE at == CHOOSE f : Descends(f)
<1>3. Descends(at)
  BY <1>2
<1> HIDE DEF at
<1>4. at[0] = document /\ at[1] = at[0][pointer[1]] /\ at[2] = at[1][pointer[2]]
  BY <1>1, <1>3
<1>5. ValueAt(document, pointer) = at[Len(pointer)]
  BY DEF ValueAt, at
<1> QED
  BY <1>1, <1>4, <1>5 DEF pointer

LEMMA PointerOfThree ==
  ASSUME NEW document, NEW a, NEW b, NEW c
  PROVE  ValueAt(document, <<a, b, c>>) = document[a][b][c]
<1> DEFINE pointer == <<a, b, c>>
           Descends(f) == f = [n \in 0 .. Len(pointer) |-> IF n = 0 THEN document ELSE f[n - 1][pointer[n]]]
           g == [n \in 0 .. 3 |-> IF n = 0 THEN document ELSE IF n = 1 THEN document[a]
                                  ELSE IF n = 2 THEN document[a][b] ELSE document[a][b][c]]
<1>1. Len(pointer) = 3 /\ pointer[1] = a /\ pointer[2] = b /\ pointer[3] = c
  OBVIOUS
<1> HIDE DEF pointer
<1>2. Descends(g)
  <2>1. ASSUME NEW n \in 0 .. 3
        PROVE  g[n] = IF n = 0 THEN document ELSE g[n - 1][pointer[n]]
    <3>1. n = 0 \/ n = 1 \/ n = 2 \/ n = 3
      OBVIOUS
    <3> QED
      BY <1>1, <3>1
  <2> QED
    BY <1>1, <2>1
<1> DEFINE at == CHOOSE f : Descends(f)
<1>3. Descends(at)
  BY <1>2
<1> HIDE DEF at
<1>4. /\ at[0] = document /\ at[1] = at[0][pointer[1]]
      /\ at[2] = at[1][pointer[2]] /\ at[3] = at[2][pointer[3]]
  BY <1>1, <1>3
<1>5. ValueAt(document, pointer) = at[Len(pointer)]
  BY DEF ValueAt, at
<1> QED
  BY <1>1, <1>4, <1>5 DEF pointer

\* Appending a segment to a pointer of one or two.
LEMMA PointersExtend ==
  ASSUME NEW a, NEW b, NEW c
  PROVE  <<a>> \o <<c>> = <<a, c>> /\ <<a, b>> \o <<c>> = <<a, b, c>>
<1> DEFINE S == {a, b, c}
<1>1. <<a>> \in Seq(S) /\ <<a, b>> \in Seq(S) /\ <<c>> \in Seq(S)
  OBVIOUS
<1>2. <<a, c>> \in Seq(S) /\ <<a, b, c>> \in Seq(S)
  OBVIOUS
<1> HIDE DEF S
<1>3. <<a>> \o <<c>> = <<a, c>>
  <2>1. /\ <<a>> \o <<c>> \in Seq(S) /\ Len(<<a>> \o <<c>>) = 2
        /\ \A i \in 1 .. 2 : (<<a>> \o <<c>>)[i] = IF i <= 1 THEN <<a>>[i] ELSE <<c>>[i - 1]
    BY <1>1, ConcatProperties
  <2>2. \A i \in 1 .. 2 : i = 1 \/ i = 2
    OBVIOUS
  <2>3. \A i \in 1 .. 2 : (<<a>> \o <<c>>)[i] = <<a, c>>[i]
    BY <2>1, <2>2
  <2> QED
    BY <1>2, <2>1, <2>3, SeqEqual
<1>4. <<a, b>> \o <<c>> = <<a, b, c>>
  <2>1. /\ <<a, b>> \o <<c>> \in Seq(S) /\ Len(<<a, b>> \o <<c>>) = 3
        /\ \A i \in 1 .. 3 : (<<a, b>> \o <<c>>)[i] = IF i <= 2 THEN <<a, b>>[i] ELSE <<c>>[i - 2]
    BY <1>1, ConcatProperties
  <2>2. \A i \in 1 .. 3 : i = 1 \/ i = 2 \/ i = 3
    OBVIOUS
  <2>3. \A i \in 1 .. 3 : (<<a, b>> \o <<c>>)[i] = <<a, b, c>>[i]
    BY <2>1, <2>2
  <2> QED
    BY <1>2, <2>1, <2>3, SeqEqual
<1> QED
  BY <1>3, <1>4

\* The pointer of a key leads to what the layer it is looked for in says.
LEMMA PointerLeadsToTheLayer ==
  ASSUME NEW c, c.config \in Optional(ConfigBlock), NEW key \in SettingKeys,
         supplies(Layer(c.config, key), key)
  PROVE  ValueAt([config |-> c.config], pointer_prefix(key) \o <<key>>) = Layer(c.config, key)[key]
<1> DEFINE document == [config |-> c.config]
<1>1. CASE key \in CONFIG_KEYS
  <2>1. pointer_prefix(key) \o <<key>> = <<"config", key>>
    BY <1>1, PointersExtend DEF pointer_prefix
  <2>2. ValueAt(document, <<"config", key>>) = document["config"][key]
    BY PointerOfTwo
  <2> QED
    BY <1>1, <2>1, <2>2 DEF Layer
<1>2. CASE key \notin CONFIG_KEYS
  <2>1. pointer_prefix(key) \o <<key>> = <<"config", "approval_policy", key>>
    BY <1>2, PointersExtend DEF pointer_prefix
  <2>2. ValueAt(document, <<"config", "approval_policy", key>>) = document["config"]["approval_policy"][key]
    BY PointerOfThree
  <2>3. Layer(c.config, key) = nested(c.config)
    BY <1>2 DEF Layer
  <2>4. supplies(c.config, "approval_policy")
    BY <2>3 DEF nested, supplies, NoKeys
  <2>5. Layer(c.config, key) = c.config["approval_policy"]
    BY <2>3, <2>4 DEF nested
  <2> QED
    BY <2>1, <2>2, <2>5
<1> QED
  BY <1>1, <1>2

\* resolve_settings hands out every resolved value unchanged, the ratio parsed.
LEMMA ResolvedIsInForce ==
  ASSUME NEW c, NEW key \in SettingKeys
  PROVE  LET settings == SettingsOf(c)
             value == explain_setting(settings, key).value
         IN  InForce(settings, key) = IF key = "cumulative_ratio" THEN parse_ratio(value) ELSE value
<1> DEFINE settings == SettingsOf(c)
           value == explain_setting(settings, key).value
<1>1. CASE key \in APPROVAL_POLICY_KEYS
  <2>1. key # "cumulative_ratio"
    BY <1>1 DEF APPROVAL_POLICY_KEYS
  <2>2. settings.approval_policy[key] = value
    BY <1>1 DEF SettingsOf, resolve_settings, explain_setting
  <2> QED
    BY <1>1, <2>1, <2>2 DEF InForce
<1>2. CASE key \in CONFIG_KEYS
  <2>1. key \notin APPROVAL_POLICY_KEYS
    BY <1>2, KeysApart
  <2>2. CASE key = "cumulative_ratio"
    <3>1. settings.cumulative_ratio = parse_ratio(value)
      BY <2>2, ThresholdFields
    <3> QED
      BY <2>1, <2>2, <3>1 DEF InForce
  <2>3. CASE key # "cumulative_ratio"
    <3>1. settings[key] = value
      BY <1>2, <2>3 DEF CONFIG_KEYS, SettingsOf, resolve_settings, explain_setting
    <3> QED
      BY <2>1, <2>3, <3>1 DEF InForce
  <2> QED
    BY <2>2, <2>3
<1> QED
  BY <1>1, <1>2 DEF SettingKeys

\* What explains a setting can be checked against charter.yaml, for any config
\* block: an explicit value, zero and false included, is where its pointer
\* says, any other source means charter.yaml leaves the key out, and the value
\* explained is the value in force (settings._resolve, resolve_settings,
\* explain.explain_setting).
THEOREM ProvenanceIsCheckable == Spec => []ProvenanceLeadsToTheValue
<1>1. ASSUME TypeOK PROVE ProvenanceLeadsToTheValue
  <2> SUFFICES ASSUME NEW key \in SettingKeys
               PROVE  LET settings == SettingsOf(charter)
                          origin == explain_setting(settings, key)
                      IN  /\ IF origin.source = EXPLICIT_CONFIG
                             THEN ValueAt([config |-> charter.config], origin.detail) = origin.value
                             ELSE Written(charter, key) = None
                          /\ InForce(settings, key)
                               = IF key = "cumulative_ratio" THEN parse_ratio(origin.value) ELSE origin.value
    BY DEF ProvenanceLeadsToTheValue
  <2> DEFINE origin == explain_setting(SettingsOf(charter), key)
             layer == Layer(charter.config, key)
  <2>1. charter.config \in Optional(ConfigBlock)
    BY <1>1, ConfigTyped DEF TypeOK
  <2>2. origin = resolve(key, layer, PresetOf(charter.profile, key), charter.profile, pointer_prefix(key))
    BY ProvenanceOfKey
  <2>3. CASE supplies(layer, key)
    <3>1. /\ origin.source = EXPLICIT_CONFIG
          /\ origin.detail = pointer_prefix(key) \o <<key>>
          /\ origin.value = layer[key]
      BY <2>2, <2>3 DEF resolve
    <3>2. ValueAt([config |-> charter.config], pointer_prefix(key) \o <<key>>) = layer[key]
      BY <2>1, <2>3, PointerLeadsToTheLayer
    <3> QED
      BY <3>1, <3>2, ResolvedIsInForce
  <2>4. CASE ~supplies(layer, key)
    <3>1. origin.source # EXPLICIT_CONFIG
      BY <2>2, <2>4 DEF resolve, EXPLICIT_CONFIG, PROFILE, SCHEMA_DEFAULT
    <3>2. Written(charter, key) = None
      BY <2>1, <2>4, SuppliedIsWritten
    <3> QED
      BY <3>1, <3>2, ResolvedIsInForce
  <2> QED
    BY <2>3, <2>4
<1> QED
  BY <1>1, TypeCorrect, PTL DEF Spec
=============================================================================
