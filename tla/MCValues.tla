------------------------------- MODULE MCValues ------------------------------
(***************************************************************************)
(* Values of the constants for TLC.                                         *)
(***************************************************************************)
EXTENDS CharterRepo

\* A config block that sets the thresholds and leaves the rest to the layers below.
MCConfig ==
  [density_window_days |-> 2, density_threshold |-> 2, cumulative_ratio |-> None,
   default_carveout_budget |-> 0, window_boundary |-> None, require_review_artifact |-> None,
   ledger_pr_isolation |-> None, approval_policy |-> None]

Declares(ngs, status, adopted_at) ==
  [status |-> status, profile |-> "standard", adopted_at |-> adopted_at,
   non_goals |-> [ng \in ngs |-> [status |-> "active", budget |-> None]],
   config |-> MCConfig]

\* Some of the non-goals are declared, the others are not.
CONSTANT Declared
MCCharters == {Declares(Declared, "ratified", None)}
MCDraftCharters == {Declares(Declared, "draft", None)}
MCAdoptingDrafts == {Declares(Declared, "draft", 0)}
MCAdoptedCharters == {Declares(Declared, "ratified", 0)}

\* Reviews of everything, or also of one non-goal.
MCGlobalScope == {[global_ |-> TRUE, non_goals |-> {}]}
MCScopes ==
  MCGlobalScope \cup {[global_ |-> FALSE, non_goals |-> {ng}] : ng \in Declared}

Symmetry == Permutations(NonGoalIds)
DeclaredSymmetry == Permutations(Declared)
=============================================================================
