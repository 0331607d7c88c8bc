-------------------------- MODULE PolicyProperties --------------------------
(***************************************************************************)
(* What the layered settings promise while charter.yaml is edited and the  *)
(* ledger grows: stated over CharterRepo, whose SetConfig, SwitchProfile,  *)
(* SetBudget and RetireNonGoal are the edits.                              *)
(***************************************************************************)
EXTENDS RepoProperties

SettingKeys == CONFIG_KEYS \cup APPROVAL_POLICY_KEYS

\* What the config block of a charter says of a key, None if nothing.
Written(c, key) ==
  CASE c.config = None -> None
    [] c.config # None /\ key \in CONFIG_KEYS -> c.config[key]
    [] c.config # None /\ key \in APPROVAL_POLICY_KEYS
         -> IF c.config.approval_policy = None THEN None ELSE c.config.approval_policy[key]

\* The value at the end of a JSON pointer into a document.
ValueAt(document, pointer) ==
  LET at[n \in 0 .. Len(pointer)] == IF n = 0 THEN document ELSE at[n - 1][pointer[n]]
  IN  at[Len(pointer)]

\* The value a key has for whoever reads the resolved settings.
InForce(settings, key) ==
  CASE key = "cumulative_ratio"        -> settings.cumulative_ratio
    [] key \in APPROVAL_POLICY_KEYS    -> settings.approval_policy[key]
    [] OTHER                           -> settings[key]

-----------------------------------------------------------------------------
\* An explanation of a setting can be checked against charter.yaml ("a caller
\* following detail to check the document must land on the actual field"):
\* the pointer of an explicit value leads to it, an explicit zero or false
\* included; only what charter.yaml leaves out has another source; and the
\* explained value is the one in force.
ProvenanceLeadsToTheValue ==
  LET settings == SettingsOf(charter)
  IN  \A key \in SettingKeys :
        LET origin == explain_setting(settings, key)
        IN  /\ IF origin.source = EXPLICIT_CONFIG
               THEN ValueAt([config |-> charter.config], origin.detail) = origin.value
               ELSE Written(charter, key) = None
            /\ InForce(settings, key)
                 = IF key = "cumulative_ratio" THEN parse_ratio(origin.value) ELSE origin.value

KeepsTheRest ==
  charter'.profile = charter.profile =>
    \A key \in SettingKeys :
      Written(charter', key) = Written(charter, key) =>
        explain_setting(SettingsOf(charter'), key) = explain_setting(SettingsOf(charter), key)

\* An edit of the config block changes the settings it writes and no other:
\* what is left as it was keeps its value and its source.
EditsStayLocal == [][KeepsTheRest]_vars

LeavesTriggersAlone ==
  charter'.profile # charter.profile =>
    /\ Fired(charter', ledger', clock') = Fired(charter, ledger, clock)
    /\ Path(charter', ledger', clock') = Path(charter, ledger, clock)
    /\ \A key \in SettingKeys :
         Written(charter, key) # None =>
           explain_setting(SettingsOf(charter'), key) = explain_setting(SettingsOf(charter), key)

\* "Profiles are presets, not code paths": switching the profile changes no
\* trigger, no baseline and no path, and nothing charter.yaml sets itself.
ProfileLeavesTriggersAlone == [][LeavesTriggersAlone]_vars

\* Every threshold at least as high, the window at most as long.
Looser(old, new) ==
  /\ new.default_carveout_budget >= old.default_carveout_budget
  /\ new.density_threshold >= old.density_threshold
  /\ new.density_window_days <= old.density_window_days
  /\ new.window_boundary = "exclusive" \/ new.window_boundary = old.window_boundary
  /\ new.cumulative_ratio[1] * old.cumulative_ratio[2]
       >= old.cumulative_ratio[1] * new.cumulative_ratio[2]

OnlyRelaxesIfLooser ==
  charter'.config # charter.config /\ Looser(SettingsOf(charter), SettingsOf(charter')) =>
    Fired(charter', ledger', clock') \subseteq Fired(charter, ledger, clock)

\* A policy that is looser in every threshold makes no trigger fire that did
\* not, whatever reviews have closed since.
LooserPolicyOnlyRelaxes == [][OnlyRelaxesIfLooser]_vars
=============================================================================
