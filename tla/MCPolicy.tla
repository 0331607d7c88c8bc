------------------------------ MODULE MCPolicy ------------------------------
(***************************************************************************)
(* Policies for a small repository: explicit zeros and falses, keys left   *)
(* to the preset or to the default, and an empty approval policy.  Each    *)
(* sets its window, for the default of 90 days outlasts every run.         *)
(***************************************************************************)
EXTENDS PolicyProperties, MCValues

NoApprovals ==
  [min_approvals |-> None, require_code_owner |-> None,
   distinct_from_author |-> None, self_ratification_allowed |-> None]

MCStrict ==
  [MCConfig EXCEPT !.window_boundary = "exclusive", !.approval_policy = NoApprovals,
                   !.ledger_pr_isolation = FALSE]
MCLoose ==
  [MCConfig EXCEPT !.density_window_days = 1, !.density_threshold = 3, !.window_boundary = "exclusive",
                   !.cumulative_ratio = <<75, 2>>, !.default_carveout_budget = 1,
                   !.approval_policy =
                     [NoApprovals EXCEPT !.min_approvals = 0, !.require_code_owner = FALSE]]
MCDefaults ==
  [MCConfig EXCEPT !.density_threshold = None, !.default_carveout_budget = None,
                   !.cumulative_ratio = <<1, 0>>]

MCConfigs == {MCStrict, MCLoose, MCDefaults}

MCStart ==
  {[Declares(Declared, "ratified", 0) EXCEPT !.config = config] : config \in {MCStrict, MCLoose}}
=============================================================================
